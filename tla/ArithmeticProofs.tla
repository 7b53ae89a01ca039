-------------------------- MODULE ArithmeticProofs --------------------------
(***************************************************************************)
(* What the routines for words compute, for every width of the words and    *)
(* every radix: products, quotients, powers, numerals.  They are recursive  *)
(* functions, so the first part shows that such functions exist, and how to *)
(* reason about them by the least argument at which something fails.       *)
(***************************************************************************)
EXTENDS FileOps, SequenceTheorems, FiniteSetTheorems, WellFoundedInduction, TLAPS

-----------------------------------------------------------------------------
(* Recursion. *)

LEMMA LeastElement ==
  ASSUME NEW S \in SUBSET Nat, S # {}
  PROVE  \E x \in S : \A y \in S : x <= y
<1> DEFINE R == {ss \in Nat \X Nat : ss[1] < ss[2]}
<1>1. IsWellFoundedOn(R, Nat)
  BY NatLessThanWellFounded, Zenon DEF OpToRel
<1>2. PICK x \in S : \A y \in S : ~(<<y, x>> \in R)
  BY <1>1, WFMin
<1>3. ASSUME NEW y \in S PROVE x <= y
  <2>1. x \in Nat /\ y \in Nat /\ <<y, x>> \in Nat \X Nat
    OBVIOUS
  <2>2. ~(y < x)
    BY <1>2, <2>1
  <2>3. QED
    BY <2>1, <2>2
<1>4. QED
  BY <1>3

(* f is the function with the domain D that is g on B and gets its value at  *)
(* any other n from n and from its value at p[n] by h.                       *)
Recurs(f, D, B, g, p, h) ==
  f = [n \in D |-> IF n \in B THEN g[n] ELSE h[<<n, f[p[n]]>>]]

(* f is the beginning of such a function, up to n. *)
Begins(f, n, D, S, B, g, p, h) ==
  /\ f \in [D \cap (0 .. n) -> S]
  /\ \A k \in D \cap (0 .. n) : f[k] = IF k \in B THEN g[k] ELSE h[<<k, f[p[k]]>>]

LEMMA BeginningsAgree ==
  ASSUME NEW D \in SUBSET Nat, NEW S, NEW B, NEW g, NEW p, NEW h,
         \A n \in D \ B : p[n] \in D /\ p[n] < n,
         NEW m \in Nat, NEW n \in Nat, NEW f, NEW e,
         Begins(f, m, D, S, B, g, p, h), Begins(e, n, D, S, B, g, p, h)
  PROVE  \A k \in D : k <= m /\ k <= n => f[k] = e[k]
<1> SUFFICES ASSUME NEW j \in D, j <= m /\ j <= n, f[j] # e[j]
             PROVE  FALSE
  OBVIOUS
<1> DEFINE W == {k \in D : k <= m /\ k <= n /\ f[k] # e[k]}
<1>1. W \in SUBSET Nat /\ W # {}
  OBVIOUS
<1>2. PICK k \in W : \A i \in W : k <= i
  BY <1>1, LeastElement
<1>3. k \in D /\ k \in Nat /\ k <= m /\ k <= n /\ f[k] # e[k]
  BY <1>2
<1>4. k \in D \cap (0 .. m) /\ k \in D \cap (0 .. n)
  BY <1>3
<1>5. k \notin B
  BY <1>3, <1>4 DEF Begins
<1>6. p[k] \in D /\ p[k] < k /\ p[k] \in Nat
  BY <1>3, <1>5
<1>7. f[p[k]] = e[p[k]]
  BY <1>2, <1>3, <1>6
<1>8. f[k] = h[<<k, f[p[k]]>>] /\ e[k] = h[<<k, e[p[k]]>>]
  BY <1>4, <1>5 DEF Begins
<1>9. QED
  BY <1>3, <1>7, <1>8

LEMMA BeginningsExist ==
  ASSUME NEW D \in SUBSET Nat, NEW S, NEW B, NEW g, NEW p, NEW h,
         \A n \in D : n \in B => g[n] \in S,
         \A n \in D \ B : p[n] \in D /\ p[n] < n /\ \A s \in S : h[<<n, s>>] \in S
  PROVE  \A n \in Nat : \E f : Begins(f, n, D, S, B, g, p, h)
<1> SUFFICES ASSUME NEW j \in Nat, ~\E f : Begins(f, j, D, S, B, g, p, h)
             PROVE  FALSE
  OBVIOUS
<1> DEFINE W == {n \in Nat : ~\E f : Begins(f, n, D, S, B, g, p, h)}
<1>1. W \in SUBSET Nat /\ W # {}
  OBVIOUS
<1>2. PICK n \in W : \A i \in W : n <= i
  BY <1>1, LeastElement
<1>3. n \in Nat /\ ~\E f : Begins(f, n, D, S, B, g, p, h)
  BY <1>2
<1>4. \E f : \A k \in D : k < n => f[k] \in S /\ f[k] = IF k \in B THEN g[k] ELSE h[<<k, f[p[k]]>>]
  <2>1. CASE n = 0
    BY <2>1
  <2>2. CASE n # 0
    <3>1. n - 1 \in Nat /\ n - 1 \notin W
      BY <1>2, <1>3, <2>2
    <3>2. PICK f : Begins(f, n - 1, D, S, B, g, p, h)
      BY <3>1
    <3>3. \A k \in D : k < n => k \in D \cap (0 .. n - 1)
      BY <1>3
    <3>4. QED
      BY <3>2, <3>3 DEF Begins
  <2>3. QED
    BY <2>1, <2>2
<1>5. PICK f : \A k \in D : k < n => f[k] \in S /\ f[k] = IF k \in B THEN g[k] ELSE h[<<k, f[p[k]]>>]
  BY <1>4
<1> DEFINE v == IF n \in B THEN g[n] ELSE h[<<n, f[p[n]]>>]
           e == [k \in D \cap (0 .. n) |-> IF k = n THEN v ELSE f[k]]
<1>6. n \in D => v \in S
  <2>1. CASE n \in B
    BY <2>1
  <2>2. CASE n \notin B
    <3>1. SUFFICES ASSUME n \in D PROVE v \in S
      OBVIOUS
    <3>2. p[n] \in D /\ p[n] < n
      BY <2>2, <3>1
    <3>3. f[p[n]] \in S
      BY <1>5, <3>2
    <3>4. QED
      BY <2>2, <3>1, <3>3
  <2>3. QED
    BY <2>1, <2>2
<1>7. \A k \in D \cap (0 .. n) : k \in D /\ k \in Nat /\ (k = n \/ k < n)
  BY <1>3
<1>8. e \in [D \cap (0 .. n) -> S]
  BY <1>5, <1>6, <1>7
<1>9. ASSUME NEW k \in D \cap (0 .. n)
      PROVE  e[k] = IF k \in B THEN g[k] ELSE h[<<k, e[p[k]]>>]
  <2>1. k \in D /\ k \in Nat /\ (k = n \/ k < n)
    BY <1>7
  <2>2. e[k] = IF k \in B THEN g[k] ELSE h[<<k, f[p[k]]>>]
    BY <1>5, <2>1
  <2>3. CASE k \in B
    BY <2>2, <2>3
  <2>4. CASE k \notin B
    <3>1. p[k] \in D /\ p[k] < k /\ p[k] \in Nat
      BY <2>1, <2>4
    <3>2. p[k] \in D \cap (0 .. n) /\ p[k] # n
      BY <1>3, <2>1, <3>1
    <3>3. e[p[k]] = f[p[k]]
      BY <3>2
    <3>4. QED
      BY <2>2, <2>4, <3>3
  <2>5. QED
    BY <2>3, <2>4
<1>10. Begins(e, n, D, S, B, g, p, h)
  BY <1>8, <1>9 DEF Begins
<1>11. QED
  BY <1>3, <1>10

(* A recursion that steps down to smaller arguments defines a function. *)
LEMMA RecursionDefines ==
  ASSUME NEW D \in SUBSET Nat, NEW S, NEW B, NEW g, NEW p, NEW h,
         \A n \in D : n \in B => g[n] \in S,
         \A n \in D \ B : p[n] \in D /\ p[n] < n /\ \A s \in S : h[<<n, s>>] \in S
  PROVE  \E f \in [D -> S] : Recurs(f, D, B, g, p, h)
<1>1. \A n \in D : n \in Nat /\ \E f : Begins(f, n, D, S, B, g, p, h)
  BY BeginningsExist
<1> DEFINE Begun(n) == CHOOSE f : Begins(f, n, D, S, B, g, p, h)
           e == [n \in D |-> Begun(n)[n]]
<1>2. \A n \in D : Begins(Begun(n), n, D, S, B, g, p, h)
  BY <1>1
<1> HIDE DEF Begun
<1>3. \A n \in D : n \in D \cap (0 .. n)
  BY <1>1
<1>4. e \in [D -> S]
  BY <1>2, <1>3 DEF Begins
<1>5. ASSUME NEW n \in D
      PROVE  e[n] = IF n \in B THEN g[n] ELSE h[<<n, e[p[n]]>>]
  <2>1. e[n] = IF n \in B THEN g[n] ELSE h[<<n, Begun(n)[p[n]]>>]
    BY <1>2, <1>3 DEF Begins
  <2>2. CASE n \in B
    BY <2>1, <2>2
  <2>3. CASE n \notin B
    <3>1. p[n] \in D /\ p[n] < n /\ p[n] \in Nat /\ n \in Nat
      BY <2>3
    <3>2. Begins(Begun(n), n, D, S, B, g, p, h) /\ Begins(Begun(p[n]), p[n], D, S, B, g, p, h)
      BY <1>2, <3>1
    <3>3. \A k \in D \ B : p[k] \in D /\ p[k] < k
      OBVIOUS
    <3>4. \A k \in D : k <= n /\ k <= p[n] => Begun(n)[k] = Begun(p[n])[k]
      BY <3>1, <3>2, <3>3, BeginningsAgree
    <3>5. Begun(n)[p[n]] = Begun(p[n])[p[n]]
      BY <3>1, <3>4
    <3>6. e[p[n]] = Begun(p[n])[p[n]]
      BY <3>1
    <3>7. QED
      BY <2>1, <2>3, <3>5, <3>6
  <2>4. QED
    BY <2>2, <2>3
<1>6. Recurs(e, D, B, g, p, h)
  BY <1>5 DEF Recurs
<1>7. QED
  BY <1>4, <1>6

-----------------------------------------------------------------------------
(* Words. *)

\* The number a word stands for.
SignedOf(w) == IF Negative(w) THEN w - 2 * Half ELSE w
Numbers == -Half .. Half - 1

LEMMA WordsAre ==
  /\ Half \in Nat /\ Half >= 16
  /\ Words \subseteq Nat
  /\ \A w : w \in Words <=> w \in Nat /\ w < 2 * Half
BY ValueAssumption, SMT DEF Words

LEMMA WrapWord == ASSUME NEW n \in Int PROVE Wrap(n) \in Words
BY ValueAssumption, SMT DEF Wrap, Words

LEMMA WrapIs ==
  ASSUME NEW w \in Words, NEW k \in Int
  PROVE  Wrap(w + k * (2 * Half)) = w
<1>1. w \in Nat /\ w < 2 * Half /\ 2 * Half \in Nat /\ 2 * Half > 0
  BY WordsAre
<1> DEFINE M == 2 * Half
<1> HIDE DEF M
<1>2. w \in Nat /\ w < M /\ M \in Nat /\ M > 0
  BY <1>1 DEF M
<1>3. (w + k * M) % M = w
  BY <1>2, SMT
<1>4. QED
  BY <1>3 DEF M, Wrap

LEMMA WrapDiff ==
  ASSUME NEW n \in Int
  PROVE  \E k \in Int : n = Wrap(n) + k * (2 * Half)
<1>1. 2 * Half \in Nat /\ 2 * Half > 0
  BY WordsAre
<1> DEFINE M == 2 * Half
<1> HIDE DEF M
<1>2. M \in Nat /\ M > 0
  BY <1>1 DEF M
<1>3. n \div M \in Int /\ n = (n % M) + (n \div M) * M
  BY <1>2, SMT
<1>4. QED
  BY <1>3 DEF M, Wrap

LEMMA WrapSame ==
  ASSUME NEW w \in Words
  PROVE  Wrap(w) = w
<1>1. Wrap(w + 0 * (2 * Half)) = w
  BY WrapIs
<1>2. w + 0 * (2 * Half) = w
  BY WordsAre
<1>3. QED
  BY <1>1, <1>2

(* Numbers that differ by a multiple of 2 * Half are one word. *)
LEMMA WrapShift ==
  ASSUME NEW n \in Int, NEW k \in Int
  PROVE  Wrap(n + k * (2 * Half)) = Wrap(n)
<1>1. PICK j \in Int : n = Wrap(n) + j * (2 * Half)
  BY WrapDiff
<1>2. PICK w \in Words : w = Wrap(n)
  BY WrapWord
<1>3. n + k * (2 * Half) = w + (j + k) * (2 * Half)
  BY <1>1, <1>2, WordsAre
<1>4. Wrap(w + (j + k) * (2 * Half)) = w
  BY <1>1, WrapIs
<1>5. QED
  BY <1>2, <1>3, <1>4

LEMMA WrapSum ==
  ASSUME NEW m \in Int, NEW n \in Int
  PROVE  Wrap(Wrap(m) + n) = Wrap(m + n)
<1>1. PICK k \in Int : m = Wrap(m) + k * (2 * Half)
  BY WrapDiff
<1>2. PICK w \in Words : w = Wrap(m)
  BY WrapWord
<1>3. w + n \in Int /\ m + n = (w + n) + k * (2 * Half)
  BY <1>1, <1>2, WordsAre
<1>4. QED
  BY <1>2, <1>3, WrapShift

LEMMA WrapProduct ==
  ASSUME NEW m \in Int, NEW n \in Int
  PROVE  Wrap(Wrap(m) * n) = Wrap(m * n)
<1>1. PICK k \in Int : m = Wrap(m) + k * (2 * Half)
  BY WrapDiff
<1>2. PICK w \in Words : w = Wrap(m)
  BY WrapWord
<1>3. w \in Int /\ Half \in Int
  BY WordsAre
<1>4. (w + k * (2 * Half)) * n = w * n + (k * n) * (2 * Half)
  BY <1>3, SMT
<1>5. m * n = w * n + (k * n) * (2 * Half) /\ w * n \in Int /\ k * n \in Int
  BY <1>1, <1>2, <1>3, <1>4
<1>6. QED
  BY <1>2, <1>5, WrapShift

LEMMA SignedIs ==
  ASSUME NEW w \in Words
  PROVE  /\ SignedOf(w) \in Numbers /\ SignedOf(w) \in Int
         /\ \E k \in Int : SignedOf(w) = w + k * (2 * Half)
         /\ Wrap(SignedOf(w)) = w
         /\ Negative(w) <=> SignedOf(w) < 0
<1>1. w \in Nat /\ w < 2 * Half /\ Half \in Nat
  BY WordsAre
<1>2. SignedOf(w) \in Numbers /\ SignedOf(w) \in Int /\ (Negative(w) <=> SignedOf(w) < 0)
  BY <1>1, SMT DEF SignedOf, Negative, Numbers
<1>3. \E k \in Int : SignedOf(w) = w + k * (2 * Half)
  <2>1. CASE Negative(w)
    <3>1. SignedOf(w) = w + (-1) * (2 * Half) /\ -1 \in Int
      BY <1>1, <2>1 DEF SignedOf
    <3>2. QED
      BY <3>1
  <2>2. CASE ~Negative(w)
    <3>1. SignedOf(w) = w + 0 * (2 * Half) /\ 0 \in Int
      BY <1>1, <2>2 DEF SignedOf
    <3>2. QED
      BY <3>1
  <2>3. QED
    BY <2>1, <2>2
<1>4. Wrap(SignedOf(w)) = w
  BY <1>3, WrapIs
<1>5. QED
  BY <1>2, <1>3, <1>4

(* The word of n stands for n, if n is one of the numbers. *)
LEMMA SignedOfWrap ==
  ASSUME NEW n \in Numbers
  PROVE  SignedOf(Wrap(n)) = n /\ n \in Int
<1>1. Half \in Nat /\ n \in Int /\ -Half <= n /\ n < Half
  BY WordsAre DEF Numbers
<1>2. CASE n >= 0
  <2>1. n \in Words
    BY <1>1, <1>2, WordsAre
  <2>2. Wrap(n) = n
    BY <2>1, WrapSame
  <2>3. QED
    BY <1>1, <2>2 DEF SignedOf, Negative
<1>3. CASE n < 0
  <2>1. n + 2 * Half \in Words /\ n = (n + 2 * Half) + (-1) * (2 * Half) /\ -1 \in Int
    BY <1>1, <1>3, WordsAre
  <2>2. Wrap(n) = n + 2 * Half
    BY <2>1, WrapIs
  <2>3. QED
    BY <1>1, <1>3, <2>2 DEF SignedOf, Negative
<1>4. QED
  BY <1>1, <1>2, <1>3

(* What the word of a result stands for is the number of WordBits bits that  *)
(* the result becomes.                                                      *)
LEMMA MeaningOfWrap ==
  ASSUME NEW n \in Int
  PROVE  SignedOf(Wrap(n)) = L!Signed(n)
<1>1. Half \in Int /\ 2 * Half > 0 /\ L!Half = Half
  BY WordsAre DEF L!Half, Half
<1>2. PICK w \in Words : w = Wrap(n + Half)
  BY <1>1, WrapWord
<1>3. L!Signed(n) = w - Half
  BY <1>1, <1>2 DEF L!Signed, Wrap
<1>4. w - Half \in Numbers
  BY <1>1, WordsAre DEF Numbers
<1>5. Wrap(w - Half) = Wrap(n)
  <2>1. Wrap(Wrap(n + Half) + (-Half)) = Wrap((n + Half) + (-Half))
    BY <1>1, WrapSum
  <2>2. w + (-Half) = w - Half /\ (n + Half) + (-Half) = n
    BY <1>1, WordsAre
  <2>3. QED
    BY <1>2, <2>1, <2>2
<1>6. QED
  BY <1>3, <1>4, <1>5, SignedOfWrap


-----------------------------------------------------------------------------
(* Negation and products. *)

LEMMA NegateIs ==
  ASSUME NEW w \in Words
  PROVE  Negate(w) = Wrap(-w) /\ Negate(w) \in Words
<1>1. w \in Int /\ Half \in Int /\ -w \in Int
  BY WordsAre
<1>2. (2 * Half - 1 - w) + 1 = -w + 1 * (2 * Half)
  BY <1>1
<1>3. QED
  BY <1>1, <1>2, WrapShift, WrapWord DEF Negate

LEMMA NegateWrap ==
  ASSUME NEW n \in Int
  PROVE  Negate(Wrap(n)) = Wrap(-n)
<1>1. PICK w \in Words : w = Wrap(n)
  BY WrapWord
<1>2. PICK k \in Int : n = w + k * (2 * Half)
  BY <1>1, WrapDiff
<1>3. -n = -w + (-k) * (2 * Half) /\ -w \in Int /\ -k \in Int
  BY <1>2, WordsAre
<1>4. Wrap(-n) = Wrap(-w)
  BY <1>3, WrapShift
<1>5. QED
  BY <1>1, <1>4, NegateIs

LEMMA MagnitudeIs ==
  ASSUME NEW w \in Words
  PROVE  /\ Magnitude(w) \in Words
         /\ Magnitude(w) = IF Negative(w) THEN -SignedOf(w) ELSE SignedOf(w)
<1>1. w \in Nat /\ w < 2 * Half /\ Half \in Nat
  BY WordsAre
<1>2. CASE Negative(w)
  <2>1. 2 * Half - w \in Words /\ -w = (2 * Half - w) + (-1) * (2 * Half) /\ -1 \in Int
    BY <1>1, <1>2, WordsAre DEF Negative
  <2>2. Negate(w) = 2 * Half - w
    BY <2>1, NegateIs, WrapIs
  <2>3. QED
    BY <1>1, <1>2, <2>1, <2>2 DEF Magnitude, SignedOf
<1>3. CASE ~Negative(w)
  BY <1>3 DEF Magnitude, SignedOf
<1>4. QED
  BY <1>2, <1>3

(* l added n times. *)
Sum(l) == CHOOSE sum : sum = [n \in Nat |-> IF n = 0 THEN 0 ELSE Wrap(sum[n - 1] + l)]

LEMMA SumDefined ==
  ASSUME NEW l \in Words
  PROVE  Sum(l) = [n \in Nat |-> IF n = 0 THEN 0 ELSE Wrap(Sum(l)[n - 1] + l)]
<1> DEFINE g == [n \in Nat |-> 0]
           p == [n \in Nat |-> n - 1]
           h == [x \in Nat \X Words |-> Wrap(x[2] + l)]
<1>1. \A n \in Nat : n \in {0} => g[n] \in Words
  BY WordsAre
<1>2. \A n \in Nat \ {0} : p[n] \in Nat /\ p[n] < n /\ \A s \in Words : h[<<n, s>>] \in Words
  BY WordsAre, WrapWord
<1> HIDE DEF g, p, h
<1>3. PICK f \in [Nat -> Words] : Recurs(f, Nat, {0}, g, p, h)
  BY <1>1, <1>2, RecursionDefines
<1>4. f = [n \in Nat |-> IF n = 0 THEN 0 ELSE Wrap(f[n - 1] + l)]
  <2>1. ASSUME NEW n \in Nat
        PROVE  (IF n \in {0} THEN g[n] ELSE h[<<n, f[p[n]]>>]) = IF n = 0 THEN 0 ELSE Wrap(f[n - 1] + l)
    <3>1. CASE n = 0
      BY <3>1 DEF g
    <3>2. CASE n # 0
      <4>1. n - 1 \in Nat /\ f[n - 1] \in Words
        BY <3>2
      <4>2. QED
        BY <3>2, <4>1 DEF p, h
    <3>3. QED
      BY <3>1, <3>2
  <2>2. QED
    BY <1>3, <2>1 DEF Recurs
<1>5. QED
  BY <1>4, Zenon DEF Sum

LEMMA SumIs ==
  ASSUME NEW l \in Words, NEW n \in Nat
  PROVE  Sum(l)[n] = Wrap(n * l)
<1> DEFINE W == {m \in Nat : Sum(l)[m] # Wrap(m * l)}
<1>1. SUFFICES W = {}
  OBVIOUS
<1>2. SUFFICES ASSUME W # {} PROVE FALSE
  OBVIOUS
<1>3. PICK m \in W : \A j \in W : m <= j
  BY <1>2, LeastElement
<1>4. m \in Nat /\ Sum(l)[m] # Wrap(m * l) /\ l \in Int
  BY <1>3, WordsAre
<1>5. CASE m = 0
  <2>1. Sum(l)[0] = 0
    BY SumDefined
  <2>2. Wrap(0 * l) = 0
    BY <1>4, WrapSame, WordsAre
  <2>3. QED
    BY <1>4, <1>5, <2>1, <2>2
<1>6. CASE m # 0
  <2>1. m - 1 \in Nat /\ m - 1 \notin W
    BY <1>3, <1>4, <1>6
  <2>2. Sum(l)[m - 1] = Wrap((m - 1) * l)
    BY <2>1
  <2>3. Sum(l)[m] = Wrap(Wrap((m - 1) * l) + l)
    BY <1>4, <1>6, <2>2, SumDefined
  <2>4. (m - 1) * l \in Int /\ (m - 1) * l + l = m * l
    BY <1>4
  <2>5. Sum(l)[m] = Wrap(m * l)
    BY <1>4, <2>3, <2>4, WrapSum
  <2>6. QED
    BY <1>4, <2>5
<1>7. QED
  BY <1>5, <1>6

LEMMA mul16Unfolds ==
  ASSUME NEW l, NEW r
  PROVE  mul16(l, r) = IF Negative(l) # Negative(r) THEN Negate(Sum(Magnitude(l))[Magnitude(r)])
                       ELSE Sum(Magnitude(l))[Magnitude(r)]
BY Zenon DEF mul16, Sum

(* The word that mul16 leaves stands for the product of what its operands    *)
(* stand for, wrapped into WordBits bits, although the loop adds magnitudes  *)
(* and puts the sign on afterwards.                                         *)
THEOREM ProductIsSigned ==
  \A l, r \in Words :
    /\ mul16(l, r) = Wrap(SignedOf(l) * SignedOf(r))
    /\ mul16(l, r) \in Words /\ SignedOf(mul16(l, r)) = L!Signed(SignedOf(l) * SignedOf(r))
<1> TAKE l, r \in Words
<1>1. PICK a \in Int : a = SignedOf(l)
  BY SignedIs
<1>2. PICK b \in Int : b = SignedOf(r)
  BY SignedIs
<1>3. PICK u \in Words : u = Magnitude(l)
  BY MagnitudeIs
<1>4. PICK v \in Words : v = Magnitude(r)
  BY MagnitudeIs
<1>5. u = (IF Negative(l) THEN -a ELSE a) /\ v = (IF Negative(r) THEN -b ELSE b)
  BY <1>1, <1>2, <1>3, <1>4, MagnitudeIs
<1>6. u \in Nat /\ v \in Nat /\ v * u \in Int
  BY WordsAre
<1>7. Sum(u)[v] = Wrap(v * u)
  BY <1>6, SumIs
<1>8. mul16(l, r) = IF Negative(l) # Negative(r) THEN Negate(Wrap(v * u)) ELSE Wrap(v * u)
  BY <1>3, <1>4, <1>7, mul16Unfolds
<1>9. mul16(l, r) = Wrap(a * b)
  <2>1. CASE Negative(l) /\ Negative(r)
    <3>1. v * u = a * b
      BY <1>5, <2>1
    <3>2. Negative(l) = Negative(r)
      BY <2>1 DEF Negative
    <3>3. QED
      BY <1>8, <3>1, <3>2
  <2>2. CASE ~Negative(l) /\ ~Negative(r)
    <3>1. v * u = a * b
      BY <1>5, <2>2
    <3>2. Negative(l) = Negative(r)
      BY <2>2 DEF Negative
    <3>3. QED
      BY <1>8, <3>1, <3>2
  <2>3. CASE (Negative(l) /\ ~Negative(r)) \/ (~Negative(l) /\ Negative(r))
    <3>1. -(v * u) = a * b
      BY <1>5, <2>3
    <3>2. Negate(Wrap(v * u)) = Wrap(-(v * u))
      BY <1>6, NegateWrap
    <3>3. Negative(l) # Negative(r)
      BY <2>3 DEF Negative
    <3>4. QED
      BY <1>8, <3>1, <3>2, <3>3
  <2>4. QED
    BY <2>1, <2>2, <2>3
<1>10. a * b \in Int
  BY <1>1
<1>11. QED
  BY <1>1, <1>2, <1>9, <1>10, WrapWord, MeaningOfWrap


-----------------------------------------------------------------------------
(* Quotients, remainders and powers. *)

\* The loops of Quotient and Remainder.
Quot(d) == CHOOSE quot : quot = [m \in Nat |-> IF m < d THEN 0 ELSE Wrap(quot[m - d] + 1)]
Rest(d) == CHOOSE rem : rem = [m \in Nat |-> IF m < d THEN m ELSE rem[m - d]]

LEMMA QuotDefined ==
  ASSUME NEW d \in Nat \ {0}
  PROVE  Quot(d) = [m \in Nat |-> IF m < d THEN 0 ELSE Wrap(Quot(d)[m - d] + 1)]
<1> DEFINE B == {m \in Nat : m < d}
           g == [m \in Nat |-> 0]
           p == [m \in Nat |-> m - d]
           h == [x \in Nat \X Words |-> Wrap(x[2] + 1)]
<1>1. \A m \in Nat : m \in B => g[m] \in Words
  BY WordsAre
<1>2. \A m \in Nat \ B : p[m] \in Nat /\ p[m] < m /\ \A s \in Words : h[<<m, s>>] \in Words
  BY WordsAre, WrapWord
<1> HIDE DEF g, p, h
<1>3. PICK f \in [Nat -> Words] : Recurs(f, Nat, B, g, p, h)
  BY <1>1, <1>2, RecursionDefines
<1>4. f = [m \in Nat |-> IF m < d THEN 0 ELSE Wrap(f[m - d] + 1)]
  <2>1. ASSUME NEW m \in Nat
        PROVE  (IF m \in B THEN g[m] ELSE h[<<m, f[p[m]]>>]) = IF m < d THEN 0 ELSE Wrap(f[m - d] + 1)
    <3>1. CASE m < d
      BY <3>1 DEF g
    <3>2. CASE ~(m < d)
      <4>1. m - d \in Nat /\ f[m - d] \in Words
        BY <3>2
      <4>2. QED
        BY <3>2, <4>1 DEF p, h
    <3>3. QED
      BY <3>1, <3>2
  <2> HIDE DEF B
  <2>2. QED
    BY <1>3, <2>1 DEF Recurs
<1>5. QED
  BY <1>4, Zenon DEF Quot

LEMMA RestDefined ==
  ASSUME NEW d \in Nat \ {0}
  PROVE  Rest(d) = [m \in Nat |-> IF m < d THEN m ELSE Rest(d)[m - d]]
<1> DEFINE B == {m \in Nat : m < d}
           g == [m \in Nat |-> m]
           p == [m \in Nat |-> m - d]
           h == [x \in Nat \X Nat |-> x[2]]
<1>1. \A m \in Nat : m \in B => g[m] \in Nat
  OBVIOUS
<1>2. \A m \in Nat \ B : p[m] \in Nat /\ p[m] < m /\ \A s \in Nat : h[<<m, s>>] \in Nat
  OBVIOUS
<1> HIDE DEF g, p, h
<1>3. PICK f \in [Nat -> Nat] : Recurs(f, Nat, B, g, p, h)
  BY <1>1, <1>2, RecursionDefines
<1>4. f = [m \in Nat |-> IF m < d THEN m ELSE f[m - d]]
  <2>1. ASSUME NEW m \in Nat
        PROVE  (IF m \in B THEN g[m] ELSE h[<<m, f[p[m]]>>]) = IF m < d THEN m ELSE f[m - d]
    <3>1. CASE m < d
      BY <3>1 DEF g
    <3>2. CASE ~(m < d)
      <4>1. m - d \in Nat /\ f[m - d] \in Nat
        BY <3>2
      <4>2. QED
        BY <3>2, <4>1 DEF p, h
    <3>3. QED
      BY <3>1, <3>2
  <2> HIDE DEF B
  <2>2. QED
    BY <1>3, <2>1 DEF Recurs
<1>5. QED
  BY <1>4, Zenon DEF Rest

LEMMA QuotientUnfolds ==
  ASSUME NEW n, NEW d
  PROVE  Quotient(n, d) = Quot(d)[n] /\ Remainder(n, d) = Rest(d)[n]
BY Zenon DEF Quotient, Remainder, Quot, Rest

LEMMA DivisionIs ==
  ASSUME NEW n \in Nat, NEW d \in Nat \ {0}, NEW q \in Nat, NEW r \in 0 .. d - 1, n = q * d + r
  PROVE  n \div d = q /\ n % d = r
<1>1. r \in Nat /\ r < d
  OBVIOUS
<1>2. (q * d + r) % d = r
  BY <1>1, SMT
<1>3. (q * d + r) \div d = q
  BY <1>1, SMT
<1>4. QED
  BY <1>2, <1>3

LEMMA SubtractsAll ==
  ASSUME NEW d \in Nat \ {0}, NEW w \in Words
  PROVE  /\ Quot(d)[w] \in 0 .. w /\ Rest(d)[w] \in 0 .. d - 1
         /\ w = Quot(d)[w] * d + Rest(d)[w]
<1> DEFINE P(m) == /\ Quot(d)[m] \in 0 .. m /\ Rest(d)[m] \in 0 .. d - 1
                   /\ m = Quot(d)[m] * d + Rest(d)[m]
           W == {m \in Nat : m \in Words /\ ~P(m)}
<1>1. SUFFICES W = {}
  BY WordsAre
<1>2. SUFFICES ASSUME W # {} PROVE FALSE
  OBVIOUS
<1>3. PICK m \in W : \A j \in W : m <= j
  BY <1>2, LeastElement
<1>4. m \in Nat /\ m \in Words /\ ~P(m) /\ m < 2 * Half /\ Half \in Nat
  BY <1>3, WordsAre
<1>5. CASE m < d
  <2>1. Quot(d)[m] = 0 /\ Rest(d)[m] = m
    BY <1>4, <1>5, QuotDefined, RestDefined
  <2>2. m = 0 * d + m
    BY <1>4
  <2>3. QED
    BY <1>4, <1>5, <2>1, <2>2
<1>6. CASE ~(m < d)
  <2>0. PICK e \in Nat : e = m - d
    BY <1>4, <1>6
  <2>1. e \in Words /\ e < m
    BY <1>4, <2>0, WordsAre
  <2>2. P(m - d)
    <3>1. e \notin W
      BY <1>3, <1>4, <2>1
    <3>2. QED
      BY <2>0, <2>1, <3>1
  <2>3. PICK q \in 0 .. m - d : q = Quot(d)[m - d]
    BY <2>2
  <2>4. PICK r \in 0 .. d - 1 : r = Rest(d)[m - d]
    BY <2>2
  <2>5. m - d = q * d + r
    BY <2>2, <2>3, <2>4
  <2>6. q + 1 \in Words /\ q + 1 \in 0 .. m
    BY <1>4, <2>3, WordsAre
  <2>7. Quot(d)[m] = q + 1
    <3>1. Quot(d)[m] = Wrap(q + 1)
      BY <1>4, <1>6, <2>3, QuotDefined
    <3>2. QED
      BY <2>6, <3>1, WrapSame
  <2>8. Rest(d)[m] = r
    BY <1>4, <1>6, <2>4, RestDefined
  <2>9. m = (q + 1) * d + r
    <3>1. (q + 1) * d = q * d + d /\ q * d \in Nat
      BY <2>3
    <3>2. QED
      BY <1>4, <2>4, <2>5, <3>1
  <2>10. QED
    BY <1>4, <2>6, <2>7, <2>8, <2>9
<1>7. QED
  BY <1>5, <1>6

(* Subtracting until it borrows divides (div_loop16, mod_loop16): the        *)
(* quotient and the remainder are those of the unsigned words.             *)
THEOREM QuotientIsDiv ==
  \A w \in Words, d \in Words \ {0} :
    /\ Quotient(w, d) = w \div d /\ Remainder(w, d) = w % d
    /\ Quotient(w, d) \in Words /\ Remainder(w, d) \in Words
    /\ Quotient(w, d) <= w
<1> TAKE w \in Words, d \in Words \ {0}
<1>1. w \in Nat /\ d \in Nat \ {0} /\ w < 2 * Half /\ d < 2 * Half /\ Half \in Nat
  BY WordsAre
<1>2. PICK q \in 0 .. w : q = Quotient(w, d)
  BY <1>1, SubtractsAll, QuotientUnfolds
<1>3. PICK r \in 0 .. d - 1 : r = Remainder(w, d)
  BY <1>1, SubtractsAll, QuotientUnfolds
<1>4. w = q * d + r
  <2>1. w = Quot(d)[w] * d + Rest(d)[w]
    BY <1>1, SubtractsAll
  <2>2. Quot(d)[w] = q /\ Rest(d)[w] = r
    BY <1>2, <1>3, QuotientUnfolds
  <2>3. QED
    BY <2>1, <2>2, Zenon
<1>5. w \div d = q /\ w % d = r
  BY <1>1, <1>4, DivisionIs
<1>6. q \in Words /\ r \in Words /\ q <= w
  BY <1>1, WordsAre
<1>7. QED
  BY <1>2, <1>3, <1>5, <1>6

\* The loop of power, and what it computes.
Powers(b) == CHOOSE result : result = [n \in Nat |-> IF n = 0 THEN 1 ELSE mul16(result[n - 1], b)]
SignedPowers(a) == CHOOSE p : p = [n \in Nat |-> IF n = 0 THEN 1 ELSE L!Signed(a * p[n - 1])]

LEMMA PowersDefined ==
  ASSUME NEW b \in Words
  PROVE  /\ Powers(b) = [n \in Nat |-> IF n = 0 THEN 1 ELSE mul16(Powers(b)[n - 1], b)]
         /\ Powers(b) \in [Nat -> Words]
<1> DEFINE g == [n \in Nat |-> 1]
           p == [n \in Nat |-> n - 1]
           h == [x \in Nat \X Words |-> mul16(x[2], b)]
<1>1. \A n \in Nat : n \in {0} => g[n] \in Words
  BY WordsAre
<1>2. \A n \in Nat \ {0} : p[n] \in Nat /\ p[n] < n /\ \A s \in Words : h[<<n, s>>] \in Words
  BY ProductIsSigned
<1> HIDE DEF g, p, h
<1>3. PICK f \in [Nat -> Words] : Recurs(f, Nat, {0}, g, p, h)
  BY <1>1, <1>2, RecursionDefines
<1> DEFINE Is(f1) == f1 = [n \in Nat |-> IF n = 0 THEN 1 ELSE mul16(f1[n - 1], b)]
<1>4. Is(f)
  <2>1. ASSUME NEW n \in Nat
        PROVE  (IF n \in {0} THEN g[n] ELSE h[<<n, f[p[n]]>>]) = IF n = 0 THEN 1 ELSE mul16(f[n - 1], b)
    <3>1. CASE n = 0
      BY <3>1 DEF g
    <3>2. CASE n # 0
      <4>1. n - 1 \in Nat /\ f[n - 1] \in Words
        BY <3>2
      <4>2. QED
        BY <3>2, <4>1 DEF p, h
    <3>3. QED
      BY <3>1, <3>2
  <2>2. QED
    BY <1>3, <2>1 DEF Recurs
<1>5. Is(Powers(b))
  BY <1>4, Zenon DEF Powers
<1>6. Powers(b) \in [Nat -> Words]
  <2> DEFINE W == {n \in Nat : Powers(b)[n] \notin Words}
  <2>1. W = {}
    <3>1. SUFFICES ASSUME W # {} PROVE FALSE
      OBVIOUS
    <3>2. PICK n \in W : \A j \in W : n <= j
      BY <3>1, LeastElement
    <3>3. n \in Nat /\ Powers(b)[n] \notin Words
      BY <3>2
    <3>4. n # 0
      BY <1>5, <3>3, WordsAre
    <3>5. n - 1 \in Nat /\ n - 1 \notin W
      BY <3>2, <3>3, <3>4
    <3>6. Powers(b)[n - 1] \in Words
      BY <3>5
    <3>7. Powers(b)[n] = mul16(Powers(b)[n - 1], b)
      BY <1>5, <3>3, <3>4
    <3>8. QED
      BY <3>3, <3>6, <3>7, ProductIsSigned
  <2>2. \A n \in Nat : Powers(b)[n] \in Words
    BY <2>1
  <2>3. QED
    BY <1>5, <2>2
<1>7. QED
  BY <1>5, <1>6

LEMMA SignedPowersDefined ==
  ASSUME NEW a \in Int
  PROVE  SignedPowers(a) = [n \in Nat |-> IF n = 0 THEN 1 ELSE L!Signed(a * SignedPowers(a)[n - 1])]
<1> DEFINE g == [n \in Nat |-> 1]
           p == [n \in Nat |-> n - 1]
           h == [x \in Nat \X Int |-> L!Signed(a * x[2])]
<1>1. \A n \in Nat : n \in {0} => g[n] \in Int
  OBVIOUS
<1>2. ASSUME NEW n \in Nat \ {0}
      PROVE  p[n] \in Nat /\ p[n] < n /\ \A s \in Int : h[<<n, s>>] \in Int
  <2>1. ASSUME NEW s \in Int PROVE L!Signed(a * s) \in Int
    BY MeaningOfWrap, WrapWord, SignedIs
  <2>2. QED
    BY <2>1
<1> HIDE DEF g, p, h
<1>3. PICK f \in [Nat -> Int] : Recurs(f, Nat, {0}, g, p, h)
  BY <1>1, <1>2, RecursionDefines
<1>4. f = [n \in Nat |-> IF n = 0 THEN 1 ELSE L!Signed(a * f[n - 1])]
  <2>1. ASSUME NEW n \in Nat
        PROVE  (IF n \in {0} THEN g[n] ELSE h[<<n, f[p[n]]>>]) = IF n = 0 THEN 1 ELSE L!Signed(a * f[n - 1])
    <3>1. CASE n = 0
      BY <3>1 DEF g
    <3>2. CASE n # 0
      <4>1. n - 1 \in Nat /\ f[n - 1] \in Int
        BY <3>2
      <4>2. QED
        BY <3>2, <4>1 DEF p, h
    <3>3. QED
      BY <3>1, <3>2
  <2>2. QED
    BY <1>3, <2>1 DEF Recurs
<1>5. QED
  BY <1>4, Zenon DEF SignedPowers

LEMMA powerUnfolds ==
  /\ \A b, e : power(b, e) = IF Negative(e) THEN 0 ELSE Powers(b)[e]
  /\ \A a, n : L!Power(a, n) = SignedPowers(a)[n]
BY Zenon DEF power, Powers, L!Power, SignedPowers

(* The word that op_pow leaves stands for the power, wrapped at every step  *)
(* (power, mul16): a negative exponent gives zero.                          *)
THEOREM PowerIsSigned ==
  \A b, e \in Words :
    /\ power(b, e) \in Words
    /\ SignedOf(power(b, e)) = IF SignedOf(e) < 0 THEN 0 ELSE L!Power(SignedOf(b), SignedOf(e))
<1> TAKE b, e \in Words
<1>1. PICK a \in Int : a = SignedOf(b)
  BY SignedIs
<1>2. e \in Nat /\ Powers(b) \in [Nat -> Words] /\ 0 \in Words
  <2>1. e \in Nat /\ 0 \in Words
    BY WordsAre
  <2>2. Powers(b) \in [Nat -> Words]
    BY PowersDefined, Zenon
  <2>3. QED
    BY <2>1, <2>2
<1>3. \A n \in Nat : SignedOf(Powers(b)[n]) = SignedPowers(a)[n]
  <2> DEFINE W == {n \in Nat : SignedOf(Powers(b)[n]) # SignedPowers(a)[n]}
  <2>1. SUFFICES ASSUME W # {} PROVE FALSE
    OBVIOUS
  <2>2. PICK n \in W : \A j \in W : n <= j
    BY <2>1, LeastElement
  <2>3. n \in Nat /\ SignedOf(Powers(b)[n]) # SignedPowers(a)[n]
    BY <2>2
  <2>4. CASE n = 0
    <3>1. Powers(b)[0] = 1 /\ SignedPowers(a)[0] = 1
      BY PowersDefined, SignedPowersDefined
    <3>2. SignedOf(1) = 1
      BY WordsAre DEF SignedOf, Negative
    <3>3. QED
      BY <2>3, <2>4, <3>1, <3>2
  <2>5. CASE n # 0
    <3>1. n - 1 \in Nat /\ n - 1 \notin W
      BY <2>2, <2>3, <2>5
    <3>2. PICK w \in Words : w = Powers(b)[n - 1]
      BY <1>2, <3>1
    <3>3. PICK c \in Int : c = SignedOf(w)
      BY SignedIs
    <3>4. SignedPowers(a)[n - 1] = c
      BY <3>1, <3>2, <3>3
    <3>5. Powers(b)[n] = mul16(w, b)
      BY <2>3, <2>5, <3>2, PowersDefined
    <3>6. SignedPowers(a)[n] = L!Signed(a * c)
      BY <2>3, <2>5, <3>4, SignedPowersDefined
    <3>7. SignedOf(mul16(w, b)) = L!Signed(c * a)
      BY <1>1, <3>3, ProductIsSigned
    <3>8. c * a = a * c
      OBVIOUS
    <3>9. QED
      BY <2>3, <3>5, <3>6, <3>7, <3>8
  <2>6. QED
    BY <2>4, <2>5
<1>4. CASE Negative(e)
  <2>1. power(b, e) = 0 /\ SignedOf(e) < 0
    BY <1>4, powerUnfolds, SignedIs
  <2>2. SignedOf(0) = 0
    BY WordsAre DEF SignedOf, Negative
  <2>3. QED
    BY <1>2, <2>1, <2>2
<1>5. CASE ~Negative(e)
  <2>1. SignedOf(e) = e /\ ~(SignedOf(e) < 0)
    BY <1>2, <1>5 DEF SignedOf
  <2>2. power(b, e) = Powers(b)[e] /\ L!Power(a, e) = SignedPowers(a)[e]
    BY <1>5, powerUnfolds
  <2>3. QED
    BY <1>1, <1>2, <1>3, <2>1, <2>2
<1>6. QED
  BY <1>4, <1>5

-----------------------------------------------------------------------------
(* Shifting. *)

LEMMA TwoPowers ==
  ASSUME NEW k \in 0 .. WordBits
  PROVE  2 ^ k \in Nat \ {0}
<1> DEFINE W == {n \in 0 .. WordBits : ~(2 ^ n \in Nat \ {0})}
<1>1. SUFFICES ASSUME W # {} PROVE FALSE
  OBVIOUS
<1>2. WordBits \in Nat /\ 2 ^ 0 = 1 /\ \A n \in 0 .. WordBits : 2 ^ (n + 1) = 2 * 2 ^ n
  BY ValueAssumption
<1>3. W \in SUBSET Nat
  BY <1>2
<1>4. PICK n \in W : \A j \in W : n <= j
  BY <1>1, <1>3, LeastElement
<1>5. CASE n = 0
  BY <1>2, <1>4, <1>5
<1>6. CASE n # 0
  <2>1. PICK m \in 0 .. WordBits : n = m + 1
    BY <1>2, <1>4, <1>6
  <2>2. m \notin W
    BY <1>2, <1>4, <2>1
  <2>3. 2 ^ m \in Nat \ {0} /\ 2 ^ n = 2 * 2 ^ m
    BY <1>2, <2>1, <2>2
  <2>4. 2 ^ n \in Nat \ {0}
    <3>1. PICK a \in Nat \ {0} : a = 2 ^ m
      BY <2>3
    <3>2. 2 * a \in Nat \ {0} /\ 2 ^ n = 2 * a
      BY <2>3, <3>1
    <3>3. QED
      BY <3>2
  <2>5. QED
    BY <1>4, <2>4
<1>7. QED
  BY <1>5, <1>6

LEMMA WordPowers ==
  ASSUME NEW k \in 0 .. WordBits
  PROVE  2 ^ k * 2 ^ (WordBits - k) = 2 * Half
<1> DEFINE W == {n \in 0 .. WordBits : 2 ^ n * 2 ^ (WordBits - n) # 2 * Half}
<1>1. SUFFICES ASSUME W # {} PROVE FALSE
  OBVIOUS
<1>2. WordBits \in Nat /\ WordBits >= 5 /\ 2 ^ 0 = 1 /\ \A n \in 0 .. WordBits : 2 ^ (n + 1) = 2 * 2 ^ n
  BY ValueAssumption
<1>3. W \in SUBSET Nat
  BY <1>2
<1>4. PICK n \in W : \A j \in W : n <= j
  BY <1>1, <1>3, LeastElement
<1>5. CASE n = 0
  <2>1. WordBits - 1 \in 0 .. WordBits /\ WordBits - 1 + 1 = WordBits /\ WordBits - 0 = WordBits
    BY <1>2
  <2>2. 2 ^ WordBits = 2 * Half
    BY <1>2, <2>1 DEF Half
  <2>3. PICK a \in Nat \ {0} : a = 2 ^ WordBits
    BY <1>2, TwoPowers
  <2>4. 2 ^ n * 2 ^ (WordBits - n) = 1 * a
    BY <1>2, <1>5, <2>1, <2>3
  <2>5. QED
    BY <1>4, <2>2, <2>3, <2>4
<1>6. CASE n # 0
  <2>1. PICK m \in 0 .. WordBits : n = m + 1
    BY <1>2, <1>4, <1>6
  <2>2. m \notin W /\ WordBits - n \in 0 .. WordBits /\ WordBits - m = (WordBits - n) + 1
    BY <1>2, <1>4, <2>1
  <2>3. 2 ^ m * 2 ^ (WordBits - m) = 2 * Half
    BY <2>2
  <2>4. 2 ^ n = 2 * 2 ^ m /\ 2 ^ (WordBits - m) = 2 * 2 ^ (WordBits - n)
    BY <1>2, <2>1, <2>2
  <2>5. PICK a \in Nat \ {0} : a = 2 ^ m
    BY TwoPowers
  <2>6. PICK b \in Nat \ {0} : b = 2 ^ (WordBits - n)
    BY <2>2, TwoPowers
  <2>7. 2 ^ n * 2 ^ (WordBits - n) = (2 * a) * b /\ a * (2 * b) = 2 * Half
    BY <2>3, <2>4, <2>5, <2>6
  <2>8. (2 * a) * b = a * (2 * b)
    OBVIOUS
  <2>9. QED
    BY <1>4, <2>7, <2>8
<1>7. QED
  BY <1>5, <1>6

\* The loop of div16_8: the pair of the word and the remainder after k bits.
ShiftStep(x, a) ==
  LET l == Wrap(2 * x)
      b == 2 * a + (IF Negative(x) THEN 1 ELSE 0)
  IN IF b < Radix THEN <<l, b>> ELSE <<l + 1, b - Radix>>
Shifted(w) ==
  CHOOSE step : step = [k \in 0 .. WordBits |->
    IF k = 0 THEN <<w, 0>>
    ELSE LET l == Wrap(2 * step[k - 1][1])
             a == 2 * step[k - 1][2] + (IF Negative(step[k - 1][1]) THEN 1 ELSE 0)
         IN IF a < Radix THEN <<l, a>> ELSE <<l + 1, a - Radix>>]

LEMMA ShiftedDefined ==
  ASSUME NEW w \in Words
  PROVE  \A k \in 0 .. WordBits :
           Shifted(w)[k] = IF k = 0 THEN <<w, 0>> ELSE ShiftStep(Shifted(w)[k - 1][1], Shifted(w)[k - 1][2])
<1> DEFINE D == 0 .. WordBits
           S == Nat \X Int
           g == [k \in D |-> <<w, 0>>]
           p == [k \in D |-> k - 1]
           h == [x \in D \X S |-> ShiftStep(x[2][1], x[2][2])]
<1>1. D \in SUBSET Nat /\ w \in Nat
  BY ValueAssumption, WordsAre
<1>2. \A k \in D : k \in {0} => g[k] \in S
  BY <1>1
<1>3. \A x \in Nat, a \in Int : ShiftStep(x, a) \in S
  <2> TAKE x \in Nat, a \in Int
  <2>1. PICK l \in Nat : l = Wrap(2 * x)
    BY WrapWord, WordsAre
  <2>2. Radix \in Int
    BY ValueAssumption
  <2>3. QED
    BY <2>1, <2>2 DEF ShiftStep
<1>4. \A k \in D \ {0} : p[k] \in D /\ p[k] < k /\ \A s \in S : h[<<k, s>>] \in S
  <2> TAKE k \in D \ {0}
  <2>1. k - 1 \in D /\ k - 1 < k
    BY <1>1, ValueAssumption
  <2>2. ASSUME NEW s \in S PROVE h[<<k, s>>] \in S
    BY <1>3
  <2>3. QED
    BY <2>1, <2>2
<1> HIDE DEF D, S, g, p, h
<1>5. PICK f \in [D -> S] : Recurs(f, D, {0}, g, p, h)
  BY <1>1, <1>2, <1>4, RecursionDefines
<1>6. ASSUME NEW k \in D
      PROVE  f[k] = IF k = 0 THEN <<w, 0>> ELSE ShiftStep(f[k - 1][1], f[k - 1][2])
  <2>1. f[k] = IF k \in {0} THEN g[k] ELSE h[<<k, f[p[k]]>>]
    BY <1>5 DEF Recurs
  <2>2. CASE k = 0
    BY <2>1, <2>2 DEF g
  <2>3. CASE k # 0
    <3>1. p[k] = k - 1 /\ k - 1 \in D
      BY <1>1, <2>3, ValueAssumption DEF p, D
    <3>2. f[k - 1] \in S
      BY <3>1
    <3>3. QED
      BY <2>1, <2>3, <3>1, <3>2 DEF h
  <2>4. QED
    BY <2>2, <2>3
<1>7. f = [k \in 0 .. WordBits |->
    IF k = 0 THEN <<w, 0>>
    ELSE LET l == Wrap(2 * f[k - 1][1])
             a == 2 * f[k - 1][2] + (IF Negative(f[k - 1][1]) THEN 1 ELSE 0)
         IN IF a < Radix THEN <<l, a>> ELSE <<l + 1, a - Radix>>]
  <2>1. f = [k \in D |-> f[k]]
    OBVIOUS
  <2>2. \A k \in D : f[k] = IF k = 0 THEN <<w, 0>>
    ELSE LET l == Wrap(2 * f[k - 1][1])
             a == 2 * f[k - 1][2] + (IF Negative(f[k - 1][1]) THEN 1 ELSE 0)
         IN IF a < Radix THEN <<l, a>> ELSE <<l + 1, a - Radix>>
    BY <1>6 DEF ShiftStep
  <2>3. QED
    BY <2>1, <2>2 DEF D
<1>8. Shifted(w) = [k \in 0 .. WordBits |->
    IF k = 0 THEN <<w, 0>>
    ELSE LET l == Wrap(2 * Shifted(w)[k - 1][1])
             a == 2 * Shifted(w)[k - 1][2] + (IF Negative(Shifted(w)[k - 1][1]) THEN 1 ELSE 0)
         IN IF a < Radix THEN <<l, a>> ELSE <<l + 1, a - Radix>>]
  BY <1>7, Zenon DEF Shifted
<1> DEFINE sh == Shifted(w)
<1> HIDE DEF sh
<1>9. \A k \in 0 .. WordBits : sh[k] = IF k = 0 THEN <<w, 0>> ELSE ShiftStep(sh[k - 1][1], sh[k - 1][2])
  BY <1>8 DEF sh, ShiftStep
<1>10. QED
  BY <1>9 DEF sh

\* Of w some bits have been divided: the quotient of these is below P, the bits left are below T.
Shifting(w, x, a, P, T) ==
  \E q \in 0 .. P - 1, u \in 0 .. T - 1 :
    w = (q * Radix + a) * T + u /\ x = u * P + q /\ a \in 0 .. Radix - 1

LEMMA BitShifted ==
  ASSUME NEW w \in Words, NEW x, NEW a, NEW P \in Nat \ {0}, NEW T \in Nat \ {0},
         P * T = Half, Shifting(w, x, a, P, 2 * T)
  PROVE  Shifting(w, ShiftStep(x, a)[1], ShiftStep(x, a)[2], 2 * P, T)
<1>0. Half \in Nat /\ Radix \in Nat /\ Radix >= 2
  BY ValueAssumption
<1>1. PICK q \in 0 .. P - 1, u \in 0 .. 2 * T - 1 :
        w = (q * Radix + a) * (2 * T) + u /\ x = u * P + q /\ a \in 0 .. Radix - 1
  BY DEF Shifting
<1>2. a \in Nat /\ a < Radix /\ q \in Nat /\ q < P /\ u \in Nat /\ u < 2 * T
  BY <1>0, <1>1
<1>3. PICK v \in 0 .. T - 1, b \in {0, 1} : u = b * T + v
  <2>1. CASE u < T
    <3>1. u = 0 * T + u /\ u \in 0 .. T - 1
      BY <1>2, <2>1
    <3>2. QED
      BY <3>1
  <2>2. CASE ~(u < T)
    <3>1. u = 1 * T + (u - T) /\ u - T \in 0 .. T - 1
      BY <1>2, <2>2
    <3>2. QED
      BY <3>1
  <2>3. QED
    BY <2>1, <2>2
<1>4. v \in Nat /\ v <= T - 1 /\ b \in Nat
  BY <1>3
<1>5. PICK y \in Nat : y = v * P + q
  <2>1. v * P + q \in Nat
    BY <1>2, <1>4
  <2>2. QED
    BY <2>1
<1>6. y < Half
  <2>1. v * P <= (T - 1) * P
    <3>1. PICK e \in Nat : T - 1 = v + e
      <4>1. T - 1 - v \in Nat /\ T - 1 = v + (T - 1 - v)
        BY <1>4
      <4>2. QED
        BY <4>1
    <3>2. (v + e) * P = v * P + e * P /\ e * P >= 0 /\ v * P \in Nat /\ e * P \in Nat
      BY <1>4
    <3>3. QED
      BY <3>1, <3>2
  <2>2. (T - 1) * P = P * T - P /\ v * P \in Nat /\ P * T \in Nat
    BY <1>4
  <2>3. QED
    BY <1>2, <1>5, <2>1, <2>2
<1>7. x = b * Half + y
  <2>1. (b * T + v) * P = b * (P * T) + v * P
    BY <1>3, <1>4
  <2>2. QED
    BY <1>1, <1>2, <1>3, <1>4, <1>5, <2>1
<1>8. Negative(x) <=> b = 1
  BY <1>0, <1>3, <1>6, <1>7 DEF Negative
<1>9. Wrap(2 * x) = 2 * y
  <2>1. 2 * y \in Words
    BY <1>0, <1>6, WordsAre
  <2>2. 2 * x = 2 * y + b * (2 * Half)
    <3>1. b = 0 \/ b = 1
      BY <1>3
    <3>2. QED
      BY <1>0, <1>7, <3>1
  <2>3. QED
    BY <1>4, <2>1, <2>2, WrapIs
<1>10. PICK c \in Nat : c = 2 * a + b
  BY <1>2, <1>4
<1>11. c < 2 * Radix /\ (IF Negative(x) THEN 1 ELSE 0) = b
  BY <1>0, <1>2, <1>3, <1>8, <1>10
<1>12. ShiftStep(x, a) = IF c < Radix THEN <<2 * y, c>> ELSE <<2 * y + 1, c - Radix>>
  BY <1>9, <1>10, <1>11 DEF ShiftStep
<1>13. w = ((2 * q) * Radix + c) * T + v
  <2>1. PICK m \in Nat : m = q * Radix
    <3>1. q * Radix \in Nat
      BY <1>0, <1>2
    <3>2. QED
      BY <3>1
  <2>2. (2 * q) * Radix = 2 * m
    BY <1>0, <1>2, <2>1
  <2>3. (m + a) * (2 * T) + (b * T + v) = (2 * m + (2 * a + b)) * T + v
    BY <1>2, <1>4, <2>1
  <2>4. QED
    BY <1>1, <1>3, <1>10, <2>1, <2>2, <2>3
<1>14. CASE c < Radix
  <2>1. 2 * q \in 0 .. 2 * P - 1 /\ v \in 0 .. T - 1 /\ c \in 0 .. Radix - 1
    BY <1>0, <1>2, <1>3, <1>14
  <2>2. 2 * y = v * (2 * P) + 2 * q
    BY <1>2, <1>4, <1>5
  <2>3. ShiftStep(x, a)[1] = 2 * y /\ ShiftStep(x, a)[2] = c
    BY <1>12, <1>14
  <2>4. QED
    BY <1>13, <2>1, <2>2, <2>3 DEF Shifting
<1>15. CASE ~(c < Radix)
  <2>1. 2 * q + 1 \in 0 .. 2 * P - 1 /\ v \in 0 .. T - 1 /\ c - Radix \in 0 .. Radix - 1
    BY <1>0, <1>2, <1>3, <1>11, <1>15
  <2>2. 2 * y + 1 = v * (2 * P) + (2 * q + 1)
    BY <1>2, <1>4, <1>5
  <2>3. ShiftStep(x, a)[1] = 2 * y + 1 /\ ShiftStep(x, a)[2] = c - Radix
    BY <1>12, <1>15
  <2>4. (2 * q + 1) * Radix + (c - Radix) = (2 * q) * Radix + c
    BY <1>0, <1>2
  <2>5. QED
    BY <1>13, <2>1, <2>2, <2>3, <2>4 DEF Shifting
<1>16. QED
  BY <1>14, <1>15

(* Shifting a word out bit by bit and subtracting Radix from the remainder  *)
(* divides by it (div16_8).                                                 *)
THEOREM ShiftingIsDiv ==
  \A w \in Words : div16_8(w) = <<w \div Radix, w % Radix>>
<1> TAKE w \in Words
<1>0. WordBits \in Nat /\ Radix \in Nat /\ Radix >= 2 /\ Half \in Nat /\ w \in Nat /\ w < 2 * Half
  BY ValueAssumption, WordsAre
<1>1. \A k \in 0 .. WordBits :
        Shifting(w, Shifted(w)[k][1], Shifted(w)[k][2], 2 ^ k, 2 ^ (WordBits - k))
  <2> DEFINE Ok(k) == Shifting(w, Shifted(w)[k][1], Shifted(w)[k][2], 2 ^ k, 2 ^ (WordBits - k))
             W == {k \in 0 .. WordBits : ~Ok(k)}
  <2>1. SUFFICES ASSUME W # {} PROVE FALSE
    OBVIOUS
  <2>2. W \in SUBSET Nat
    BY <1>0
  <2>3. PICK k \in W : \A j \in W : k <= j
    BY <2>1, <2>2, LeastElement
  <2>4. CASE k = 0
    <3>1. Shifted(w)[k] = <<w, 0>>
      BY <1>0, <2>4, ShiftedDefined
    <3>2. 2 ^ k = 1 /\ 2 ^ (WordBits - k) = 2 * Half
      <4>1. WordBits - 1 \in 0 .. WordBits /\ WordBits - 1 + 1 = WordBits /\ WordBits - 0 = WordBits
        BY ValueAssumption
      <4>2. 2 ^ WordBits = 2 * Half
        BY <4>1, ValueAssumption DEF Half
      <4>3. QED
        BY <2>4, <4>1, <4>2, ValueAssumption
    <3>3. 0 \in 0 .. 1 - 1 /\ w \in 0 .. 2 * Half - 1 /\ 0 \in 0 .. Radix - 1
          /\ w = (0 * Radix + 0) * (2 * Half) + w /\ w = w * 1 + 0
      BY <1>0
    <3>4. Shifting(w, w, 0, 1, 2 * Half)
      BY <3>3 DEF Shifting
    <3>5. QED
      BY <2>3, <3>1, <3>2, <3>4
  <2>5. CASE k # 0
    <3>1. PICK m \in 0 .. WordBits : k = m + 1
      BY <1>0, <2>3, <2>5
    <3>2. m \notin W /\ WordBits - k \in 0 .. WordBits /\ WordBits - m = (WordBits - k) + 1 /\ k \in 0 .. WordBits
      BY <1>0, <2>3, <3>1
    <3>3. PICK P \in Nat \ {0} : P = 2 ^ m
      BY TwoPowers
    <3>4. PICK T \in Nat \ {0} : T = 2 ^ (WordBits - k)
      BY <3>2, TwoPowers
    <3>5. 2 ^ k = 2 * P /\ 2 ^ (WordBits - m) = 2 * T
      BY <3>1, <3>2, <3>3, <3>4, ValueAssumption
    <3>6. P * T = Half
      <4>1. P * (2 * T) = 2 * Half
        BY <3>3, <3>5, WordPowers
      <4>2. P * (2 * T) = 2 * (P * T) /\ P * T \in Nat
        OBVIOUS
      <4>3. QED
        BY <1>0, <4>1, <4>2
    <3>7. Shifting(w, Shifted(w)[m][1], Shifted(w)[m][2], P, 2 * T)
      BY <3>2, <3>3, <3>5
    <3>8. Shifted(w)[k] = ShiftStep(Shifted(w)[m][1], Shifted(w)[m][2])
      <4>1. k - 1 = m
        BY <1>0, <3>1
      <4>2. QED
        BY <2>5, <3>2, <4>1, ShiftedDefined
    <3>9. Shifting(w, Shifted(w)[k][1], Shifted(w)[k][2], 2 * P, T)
      BY <3>6, <3>7, <3>8, BitShifted
    <3>10. QED
      BY <2>3, <3>4, <3>5, <3>9
  <2>6. QED
    BY <2>4, <2>5
<1>2. 2 ^ WordBits = 2 * Half /\ 2 ^ (WordBits - WordBits) = 1
  <2>1. WordBits - 1 \in 0 .. WordBits /\ WordBits - 1 + 1 = WordBits /\ WordBits - WordBits = 0
    BY ValueAssumption
  <2>2. QED
    BY <2>1, ValueAssumption DEF Half
<1> DEFINE s == Shifted(w)[WordBits]
<1>3. Shifting(w, s[1], s[2], 2 * Half, 1)
  <2>1. WordBits \in 0 .. WordBits
    BY <1>0
  <2>2. QED
    BY <1>1, <1>2, <2>1
<1>4. PICK q \in 0 .. 2 * Half - 1, u \in 0 .. 1 - 1 :
        w = (q * Radix + s[2]) * 1 + u /\ s[1] = u * (2 * Half) + q /\ s[2] \in 0 .. Radix - 1
  BY <1>3 DEF Shifting
<1>5. PICK r \in 0 .. Radix - 1 : r = s[2]
  BY <1>4
<1>6. s[1] = q /\ w = q * Radix + r /\ q \in Nat
  BY <1>0, <1>4, <1>5
<1>7. w \div Radix = q /\ w % Radix = r
  <2>1. Radix \in Nat \ {0}
    BY <1>0
  <2>2. PICK d \in Nat \ {0} : d = Radix
    BY <2>1
  <2>3. w \in Nat /\ q \in Nat /\ r \in 0 .. d - 1 /\ w = q * d + r
    BY <1>0, <1>6, <2>2
  <2>4. w \div d = q /\ w % d = r
    BY <2>3, DivisionIs, Zenon
  <2>5. QED
    BY <2>2, <2>4
<1>8. s = <<s[1], s[2]>>
  <2>1. \A x, a : \E y, c : ShiftStep(x, a) = <<y, c>>
    BY DEF ShiftStep
  <2>2. WordBits # 0 /\ WordBits \in 0 .. WordBits
    BY ValueAssumption
  <2>3. s = ShiftStep(Shifted(w)[WordBits - 1][1], Shifted(w)[WordBits - 1][2])
    BY <2>2, ShiftedDefined
  <2>4. PICK y, c : s = <<y, c>>
    BY <2>1, <2>3
  <2> HIDE DEF s
  <2>5. QED
    BY <2>4
<1>9. div16_8(w) = s
  BY Zenon DEF div16_8, Shifted
<1>10. QED
  BY <1>5, <1>6, <1>7, <1>8, <1>9

-----------------------------------------------------------------------------
(* Numerals. *)

\* What the characters of t up to the n-th are worth.
Val(t) ==
  CHOOSE val : val = [n \in 0 .. Len(t) |->
    IF n = 0 THEN 0 ELSE IF t[n] = L!Minus THEN 0 ELSE Radix * val[n - 1] + t[n]]

LEMMA NumeralUnfolds ==
  \A t : L!Numeral(t) = IF Head(t) = Minus THEN -Val(t)[Len(t)] ELSE Val(t)[Len(t)]
BY Zenon DEF L!Numeral, Val, L!Minus, Minus

LEMMA Chars ==
  /\ Radix \in Nat /\ Radix >= 2 /\ Minus = Radix /\ L!Minus = Minus /\ Char \subseteq Nat
  /\ Minus \in Char /\ \A c : c \in Char <=> c \in Nat /\ c <= Radix + 10
  /\ \A t \in Text : Len(t) \in Nat /\ DOMAIN t = 1 .. Len(t) /\ \A i \in 1 .. Len(t) : t[i] \in Char
<1>1. Radix \in Nat /\ Radix >= 2
  BY ValueAssumption
<1>2. Char \subseteq Nat /\ Minus \in Char /\ \A c : c \in Char <=> c \in Nat /\ c <= Radix + 10
  BY <1>1 DEF Char, Minus
<1>3. \A t \in Text : Len(t) \in Nat /\ DOMAIN t = 1 .. Len(t) /\ \A i \in 1 .. Len(t) : t[i] \in Char
  BY LenProperties, ElementOfSeq DEF Text
<1>4. QED
  BY <1>1, <1>2, <1>3 DEF Minus, L!Minus

LEMMA ValDefined ==
  ASSUME NEW t \in Text
  PROVE  /\ \A n \in 0 .. Len(t) : Val(t)[n] \in Nat
         /\ \A n \in 0 .. Len(t) :
              Val(t)[n] = IF n = 0 THEN 0 ELSE IF t[n] = Minus THEN 0 ELSE Radix * Val(t)[n - 1] + t[n]
<1> DEFINE D == 0 .. Len(t)
           B == {n \in D : n = 0 \/ t[n] = Minus}
           g == [n \in D |-> 0]
           p == [n \in D |-> n - 1]
           h == [x \in D \X Nat |-> Radix * x[2] + t[x[1]]]
<1>1. D \in SUBSET Nat /\ Len(t) \in Nat /\ Radix \in Nat
  BY Chars
<1>2. \A n \in D : n \in B => g[n] \in Nat
  OBVIOUS
<1>3. \A n \in D \ B : p[n] \in D /\ p[n] < n /\ \A s \in Nat : h[<<n, s>>] \in Nat
  <2> TAKE n \in D \ B
  <2>1. n \in 1 .. Len(t) /\ t[n] \in Nat
    BY <1>1, Chars
  <2>2. \A s \in Nat : h[<<n, s>>] = Radix * s + t[n]
    OBVIOUS
  <2>3. \A s \in Nat : Radix * s + t[n] \in Nat
    BY <1>1, <2>1
  <2>4. QED
    BY <1>1, <2>1, <2>2, <2>3
<1> HIDE DEF D, g, p, h
<1>4. PICK f \in [D -> Nat] : Recurs(f, D, B, g, p, h)
  BY <1>1, <1>2, <1>3, RecursionDefines
<1>5. ASSUME NEW n \in D
      PROVE  f[n] = IF n = 0 THEN 0 ELSE IF t[n] = Minus THEN 0 ELSE Radix * f[n - 1] + t[n]
  <2>1. f[n] = IF n \in B THEN g[n] ELSE h[<<n, f[p[n]]>>]
    BY <1>4 DEF Recurs
  <2>2. CASE n \in B
    BY <2>1, <2>2 DEF g
  <2>3. CASE n \notin B
    <3>1. n # 0 /\ t[n] # Minus
      BY <2>3
    <3>2. p[n] = n - 1 /\ n - 1 \in D
      BY <1>1, <3>1 DEF p, D
    <3>3. f[n - 1] \in Nat
      BY <3>2
    <3>4. QED
      BY <2>1, <2>3, <3>1, <3>2, <3>3 DEF h
  <2>4. QED
    BY <2>2, <2>3
<1>6. f = [n \in 0 .. Len(t) |-> IF n = 0 THEN 0 ELSE IF t[n] = L!Minus THEN 0 ELSE Radix * f[n - 1] + t[n]]
  <2>1. f = [n \in D |-> f[n]]
    OBVIOUS
  <2>2. QED
    BY <1>5, <2>1, Chars DEF D
<1>7. Val(t) = [n \in 0 .. Len(t) |->
                 IF n = 0 THEN 0 ELSE IF t[n] = L!Minus THEN 0 ELSE Radix * Val(t)[n - 1] + t[n]]
  BY <1>6, Zenon DEF Val
<1> DEFINE v == Val(t)
<1> HIDE DEF v
<1>8. \A n \in D : v[n] = IF n = 0 THEN 0 ELSE IF t[n] = Minus THEN 0 ELSE Radix * v[n - 1] + t[n]
  BY <1>7, Chars DEF v, D
<1>9. \A n \in D : v[n] \in Nat
  <2> DEFINE W == {n \in D : v[n] \notin Nat}
  <2>1. SUFFICES ASSUME W # {} PROVE FALSE
    OBVIOUS
  <2>2. PICK n \in W : \A j \in W : n <= j
    BY <1>1, <2>1, LeastElement
  <2>3. CASE n = 0
    BY <1>8, <2>2, <2>3
  <2>4. CASE n # 0
    <3>1. n - 1 \in D /\ n \in 1 .. Len(t)
      BY <1>1, <2>2, <2>4 DEF D
    <3>2. n - 1 \notin W
      BY <1>1, <2>2, <2>4
    <3>3. PICK m \in Nat : m = v[n - 1]
      BY <3>1, <3>2
    <3>4. t[n] \in Nat
      BY <3>1, Chars
    <3>5. Radix * m + t[n] \in Nat
      BY <1>1, <3>4
    <3>6. v[n] \in Nat
      BY <1>8, <2>2, <2>4, <3>3, <3>5
    <3>7. QED
      BY <2>2, <3>6
  <2>5. QED
    BY <2>3, <2>4
<1>10. QED
  BY <1>8, <1>9 DEF v, D

(* The worth of the first characters is theirs alone. *)
LEMMA ValPrefix ==
  ASSUME NEW s \in Text, NEW t \in Text, NEW m \in 0 .. Len(s), m <= Len(t),
         \A i \in 1 .. m : s[i] = t[i]
  PROVE  Val(s)[m] = Val(t)[m]
<1> DEFINE W == {n \in 0 .. m : Val(s)[n] # Val(t)[n]}
<1>1. m \in Nat /\ Len(s) \in Nat /\ Len(t) \in Nat /\ m <= Len(s)
  BY Chars
<1>2. SUFFICES ASSUME W # {} PROVE FALSE
  BY <1>1
<1>3. PICK n \in W : \A j \in W : n <= j
  <2>1. W \in SUBSET Nat
    BY <1>1
  <2>2. QED
    BY <1>2, <2>1, LeastElement
<1>4. n \in 0 .. Len(s) /\ n \in 0 .. Len(t) /\ n \in 0 .. m
  BY <1>1, <1>3
<1>5. CASE n = 0
  BY <1>3, <1>4, <1>5, ValDefined
<1>6. CASE n # 0
  <2>1. n - 1 \in 0 .. m /\ n - 1 \notin W /\ n \in 1 .. m
    BY <1>1, <1>3, <1>4, <1>6
  <2>2. Val(s)[n - 1] = Val(t)[n - 1] /\ s[n] = t[n]
    BY <2>1
  <2>3. Val(s)[n] = Val(t)[n]
    BY <1>4, <1>6, <2>2, ValDefined
  <2>4. QED
    BY <1>3, <2>3
<1>7. QED
  BY <1>5, <1>6

(* A sign before it changes the worth of nothing. *)
LEMMA ValSign ==
  ASSUME NEW s \in Text, NEW t \in Text, Len(t) = Len(s) + 1, t[1] = Minus,
         \A i \in 1 .. Len(s) : t[i + 1] = s[i] /\ s[i] # Minus
  PROVE  Val(t)[Len(t)] = Val(s)[Len(s)]
<1> DEFINE W == {n \in 0 .. Len(s) : Val(t)[n + 1] # Val(s)[n]}
<1>1. Len(s) \in Nat /\ Len(t) \in Nat
  BY Chars
<1>2. SUFFICES ASSUME W # {} PROVE FALSE
  BY <1>1
<1>3. PICK n \in W : \A j \in W : n <= j
  <2>1. W \in SUBSET Nat
    BY <1>1
  <2>2. QED
    BY <1>2, <2>1, LeastElement
<1>4. n \in 0 .. Len(s) /\ n + 1 \in 0 .. Len(t) /\ n + 1 # 0 /\ n + 1 - 1 = n
  BY <1>1, <1>3
<1>5. CASE n = 0
  <2>1. Val(s)[0] = 0 /\ Val(t)[1] = 0
    BY <1>4, <1>5, ValDefined
  <2>2. QED
    BY <1>3, <1>5, <2>1
<1>6. CASE n # 0
  <2>1. n - 1 \in 0 .. Len(s) /\ n - 1 \notin W /\ n \in 1 .. Len(s) /\ n - 1 + 1 = n
    BY <1>1, <1>3, <1>4, <1>6
  <2>2. Val(t)[n] = Val(s)[n - 1] /\ t[n + 1] = s[n] /\ s[n] # Minus
    BY <2>1
  <2>3. Val(s)[n] = Radix * Val(s)[n - 1] + s[n]
    BY <1>4, <1>6, <2>2, ValDefined
  <2>4. Val(t)[n + 1] = Radix * Val(t)[n] + t[n + 1]
    <3>1. PICK k \in 0 .. Len(t) : k = n + 1
      BY <1>4
    <3>2. t[k] # Minus /\ k # 0 /\ k - 1 = n
      BY <1>4, <2>2, <3>1
    <3>3. Val(t)[k] = Radix * Val(t)[k - 1] + t[k]
      BY <3>2, ValDefined
    <3>4. QED
      BY <3>1, <3>2, <3>3
  <2>5. QED
    BY <1>3, <2>2, <2>3, <2>4
<1>7. QED
  BY <1>5, <1>6

\* s is the unsigned number w, written without leading zeros.
Writing(s, w) ==
  /\ s \in Text /\ s # <<>> /\ \A i \in 1 .. Len(s) : s[i] < Radix
  /\ Val(s)[Len(s)] = w /\ (s[1] = 0 => Len(s) = 1)

LEMMA DigitWrites ==
  ASSUME NEW s \in Text, NEW q \in Nat, NEW c \in 0 .. Radix - 1,
         (s = <<>> /\ q = 0) \/ (Writing(s, q) /\ q # 0)
  PROVE  Writing(s \o <<c>>, q * Radix + c)
<1>1. c \in Char /\ c \in Nat /\ c < Radix /\ c # Minus /\ Radix \in Nat
  BY Chars
<1>2. PICK t \in Text : t = s \o <<c>>
  <2>1. <<c>> \in Seq(Char)
    BY <1>1
  <2>2. s \o <<c>> \in Seq(Char)
    BY <2>1, ConcatProperties DEF Text
  <2>3. QED
    BY <2>2 DEF Text
<1>3. PICK n \in Nat : n = Len(s)
  BY Chars
<1>4. Len(t) = n + 1 /\ t[n + 1] = c /\ \A i \in 1 .. n : t[i] = s[i]
  BY <1>1, <1>2, <1>3 DEF Text
<1>5. Val(s)[n] = q
  <2>1. CASE s = <<>> /\ q = 0
    <3>1. n = 0 /\ n \in 0 .. Len(s)
      BY <1>3, <2>1
    <3>2. QED
      BY <2>1, <3>1, ValDefined
  <2>2. CASE Writing(s, q)
    BY <1>3, <2>2 DEF Writing
  <2>3. QED
    BY <2>1, <2>2
<1>6. Val(t)[n] = q
  <2>1. n \in 0 .. Len(t) /\ n <= Len(s)
    BY <1>3, <1>4
  <2>2. QED
    BY <1>4, <1>5, <2>1, ValPrefix
<1>7. Val(t)[n + 1] = Radix * q + c
  <2>1. PICK k \in 0 .. Len(t) : k = n + 1
    BY <1>4
  <2>2. k # 0 /\ t[k] # Minus /\ k - 1 = n /\ t[k] = c
    BY <1>1, <1>4, <2>1
  <2>3. Val(t)[k] = Radix * Val(t)[k - 1] + t[k]
    BY <2>2, ValDefined
  <2>4. QED
    BY <1>6, <2>1, <2>2, <2>3
<1>8. \A i \in 1 .. Len(t) : t[i] < Radix
  <2>1. \A i \in 1 .. n : s[i] < Radix
    <3>1. CASE s = <<>>
      BY <1>3, <3>1
    <3>2. CASE Writing(s, q)
      BY <1>3, <3>2 DEF Writing
    <3>3. QED
      BY <3>1, <3>2
  <2>2. ASSUME NEW i \in 1 .. Len(t) PROVE t[i] < Radix
    <3>1. CASE i = n + 1
      BY <1>1, <1>4, <3>1
    <3>2. CASE i # n + 1
      <4>1. i \in 1 .. n
        BY <1>4, <3>2
      <4>2. QED
        BY <1>4, <2>1, <4>1
    <3>3. QED
      BY <3>1, <3>2
  <2>3. QED
    BY <2>2
<1>9. t[1] = 0 => Len(t) = 1
  <2>1. SUFFICES ASSUME t[1] = 0, n # 0 PROVE FALSE
    BY <1>4
  <2>2. Writing(s, q) /\ q # 0 /\ s[1] = 0
    <3>1. s # <<>>
      BY <1>3, <2>1
    <3>2. 1 \in 1 .. n
      BY <2>1
    <3>3. QED
      BY <1>4, <2>1, <3>1, <3>2
  <2>3. Len(s) = 1 /\ 1 \in 0 .. Len(s) /\ 0 \in 0 .. Len(s)
    BY <2>2 DEF Writing
  <2>4. Val(s)[0] = 0
    BY <2>3, ValDefined
  <2>5. s[1] # Minus
    BY <1>1, <2>2, Chars
  <2>6. Val(s)[1] = Radix * Val(s)[1 - 1] + s[1]
    BY <2>3, <2>5, ValDefined
  <2>7. Val(s)[1] = 0
    BY <1>1, <2>2, <2>4, <2>6
  <2>8. QED
    BY <1>3, <1>5, <2>2, <2>3, <2>7
<1>10. t # <<>>
  BY <1>3, <1>4
<1>11. q * Radix = Radix * q
  BY <1>1
<1>12. QED
  BY <1>2, <1>4, <1>7, <1>8, <1>9, <1>10, <1>11 DEF Writing

\* f divides by Radix and puts the remainder behind what it makes of the quotient.
Writer(f) ==
  /\ f \in [Words -> Text]
  /\ \A n \in Words : f[n] = (IF n \div Radix = 0 THEN <<>> ELSE f[n \div Radix]) \o <<n % Radix>>

\* A quotient by Radix is a smaller word.
LEMMA QuotientSmaller ==
  ASSUME NEW n \in Words
  PROVE  /\ n \div Radix \in Words /\ n \div Radix \in Nat
         /\ n \div Radix # 0 => n \div Radix < n
         /\ n % Radix \in 0 .. Radix - 1 /\ n % Radix \in Char
         /\ n = (n \div Radix) * Radix + (n % Radix)
         /\ Quotient(n, Radix) = n \div Radix /\ Remainder(n, Radix) = n % Radix
<1>1. Radix \in Nat /\ Radix >= 2 /\ Half \in Nat /\ n \in Nat /\ n < 2 * Half /\ Radix \in Words /\ Radix # 0
      /\ Radix \in Nat \ {0}
  BY ValueAssumption, WordsAre
<1>2. Quotient(n, Radix) = n \div Radix /\ Remainder(n, Radix) = n % Radix
  BY <1>1, QuotientIsDiv
<1>3. PICK q \in 0 .. n : q = Quot(Radix)[n]
  BY <1>1, SubtractsAll
<1>4. PICK r \in 0 .. Radix - 1 : r = Rest(Radix)[n]
  BY <1>1, SubtractsAll
<1>5. n = q * Radix + r
  <2>1. n = Quot(Radix)[n] * Radix + Rest(Radix)[n]
    BY <1>1, SubtractsAll
  <2>2. QED
    BY <1>3, <1>4, <2>1, Zenon
<1>6. q = n \div Radix /\ r = n % Radix
  BY <1>2, <1>3, <1>4, QuotientUnfolds
<1>7. q # 0 => q < n
  <2>1. SUFFICES ASSUME q # 0 PROVE q < n
    OBVIOUS
  <2>2. PICK e \in Nat : Radix = e + 2
    <3>1. Radix - 2 \in Nat /\ Radix = (Radix - 2) + 2
      BY <1>1
    <3>2. QED
      BY <3>1
  <2>3. PICK m \in Nat : m = q * e
    <3>1. q * e \in Nat
      BY <1>3
    <3>2. QED
      BY <3>1
  <2>4. q * (e + 2) = m + 2 * q
    BY <1>3, <2>3
  <2>5. n = m + 2 * q + r /\ q \in Nat /\ r \in Nat
    BY <1>3, <1>4, <1>5, <2>2, <2>4
  <2>6. QED
    BY <1>1, <2>1, <2>5
<1>8. q \in Words /\ r \in Char /\ q \in Nat
  BY <1>1, <1>3, <1>4, WordsAre, Chars
<1>9. QED
  BY <1>2, <1>3, <1>4, <1>5, <1>6, <1>7, <1>8

LEMMA WriterWrites ==
  ASSUME NEW f, Writer(f), NEW w \in Words
  PROVE  Writing(f[w], w)
<1> DEFINE W == {n \in Words : ~Writing(f[n], n)}
<1>1. W \in SUBSET Nat
  BY WordsAre
<1>2. SUFFICES ASSUME W # {} PROVE FALSE
  OBVIOUS
<1>3. PICK n \in W : \A j \in W : n <= j
  BY <1>1, <1>2, LeastElement
<1>4. n \in Words /\ ~Writing(f[n], n)
  BY <1>3
<1>5. PICK q \in Words : q = n \div Radix /\ (q # 0 => q < n) /\ q \in Nat /\ n \in Nat
  BY <1>4, QuotientSmaller, WordsAre
<1>6. PICK c \in 0 .. Radix - 1 : c = n % Radix
  BY <1>4, QuotientSmaller
<1>7. n = q * Radix + c
  BY <1>4, <1>5, <1>6, QuotientSmaller
<1>8. PICK s \in Text : s = IF q = 0 THEN <<>> ELSE f[q]
  <2>1. <<>> \in Text /\ f[q] \in Text
    BY DEF Text, Writer
  <2>2. QED
    BY <2>1
<1>9. (s = <<>> /\ q = 0) \/ (Writing(s, q) /\ q # 0)
  <2>1. CASE q = 0
    BY <1>8, <2>1
  <2>2. CASE q # 0
    <3>1. q \notin W
      BY <1>3, <1>5, <2>2
    <3>2. QED
      BY <1>8, <2>2, <3>1
  <2>3. QED
    BY <2>1, <2>2
<1>10. f[n] = s \o <<c>>
  BY <1>4, <1>5, <1>6, <1>8 DEF Writer
<1>11. Writing(s \o <<c>>, q * Radix + c)
  BY <1>5, <1>9, DigitWrites
<1>12. QED
  BY <1>4, <1>7, <1>10, <1>11

LEMMA WriterExists == \E f : Writer(f)
<1> DEFINE B == {n \in Words : n \div Radix = 0}
           g == [n \in Words |-> <<>> \o <<n % Radix>>]
           p == [n \in Words |-> n \div Radix]
           h == [x \in Words \X Text |-> x[2] \o <<x[1] % Radix>>]
<1>1. Words \in SUBSET Nat
  BY WordsAre
<1>2. \A s \in Text, n \in Words : s \o <<n % Radix>> \in Text
  <2> TAKE s \in Text, n \in Words
  <2>1. <<n % Radix>> \in Seq(Char)
    BY QuotientSmaller
  <2>2. QED
    BY <2>1, ConcatProperties DEF Text
<1>3. <<>> \in Text
  BY DEF Text
<1>4. \A n \in Words : n \in B => g[n] \in Text
  BY <1>2, <1>3
<1>5. \A n \in Words \ B : p[n] \in Words /\ p[n] < n /\ \A s \in Text : h[<<n, s>>] \in Text
  BY <1>2, QuotientSmaller
<1> HIDE DEF g, p, h
<1>6. PICK f \in [Words -> Text] : Recurs(f, Words, B, g, p, h)
  BY <1>1, <1>4, <1>5, RecursionDefines
<1>7. ASSUME NEW n \in Words
      PROVE  f[n] = (IF n \div Radix = 0 THEN <<>> ELSE f[n \div Radix]) \o <<n % Radix>>
  <2>1. f[n] = IF n \in B THEN g[n] ELSE h[<<n, f[p[n]]>>]
    BY <1>6 DEF Recurs
  <2>2. CASE n \in B
    BY <2>1, <2>2 DEF g
  <2>3. CASE n \notin B
    <3>1. p[n] = n \div Radix /\ n \div Radix \in Words
      BY QuotientSmaller DEF p
    <3>2. f[n \div Radix] \in Text
      BY <3>1
    <3>3. QED
      BY <2>1, <2>3, <3>1, <3>2 DEF h
  <2>4. QED
    BY <2>2, <2>3
<1>8. QED
  BY <1>6, <1>7 DEF Writer

(* What recurs like one is one. *)
LEMMA RecursIsWriter ==
  ASSUME NEW f,
         f = [n \in Words |-> (IF n \div Radix = 0 THEN <<>> ELSE f[n \div Radix]) \o <<n % Radix>>]
  PROVE  Writer(f)
<1> DEFINE W == {n \in Words : f[n] \notin Text}
<1>1. \A n \in Words : f[n] = (IF n \div Radix = 0 THEN <<>> ELSE f[n \div Radix]) \o <<n % Radix>>
  OBVIOUS
<1>2. W = {}
  <2>1. W \in SUBSET Nat
    BY WordsAre
  <2>2. SUFFICES ASSUME W # {} PROVE FALSE
    OBVIOUS
  <2>3. PICK n \in W : \A j \in W : n <= j
    BY <2>1, <2>2, LeastElement
  <2>4. n \in Words /\ n \in Nat /\ n \div Radix \in Words /\ n \div Radix \in Nat
    BY <2>3, QuotientSmaller, WordsAre
  <2>5. PICK s \in Text : s = IF n \div Radix = 0 THEN <<>> ELSE f[n \div Radix]
    <3>1. CASE n \div Radix = 0
      <4>1. <<>> \in Text
        BY DEF Text
      <4>2. QED
        BY <3>1, <4>1, Zenon
    <3>2. CASE n \div Radix # 0
      <4>1. n \div Radix < n
        BY <2>4, <3>2, QuotientSmaller
      <4>2. PICK q \in Nat : q = n \div Radix
        BY <2>4
      <4>3. q \notin W
        BY <2>3, <2>4, <4>1, <4>2
      <4>4. f[q] \in Text
        BY <2>4, <4>2, <4>3
      <4>5. QED
        BY <3>2, <4>2, <4>4, Zenon
    <3>3. QED
      BY <3>1, <3>2
  <2>6. f[n] = s \o <<n % Radix>>
    BY <1>1, <2>4, <2>5
  <2>7. <<n % Radix>> \in Seq(Char)
    BY <2>4, QuotientSmaller
  <2>8. s \o <<n % Radix>> \in Text
    BY <2>7, ConcatProperties DEF Text
  <2>9. QED
    BY <2>3, <2>6, <2>8
<1>3. f \in [Words -> Text]
  <2>1. \A n \in Words : f[n] \in Text
    BY <1>2
  <2>2. PICK e : f = [n \in Words |-> e[n]]
    <3> DEFINE e == [n \in Words |-> (IF n \div Radix = 0 THEN <<>> ELSE f[n \div Radix]) \o <<n % Radix>>]
    <3>1. f = [n \in Words |-> e[n]]
      OBVIOUS
    <3>2. QED
      BY <3>1
  <2>3. QED
    BY <2>1, <2>2
<1>4. QED
  BY <1>1, <1>3 DEF Writer

\* The loops of Digits and of print_num.
Written == CHOOSE d : d = [n \in Words |->
  (IF Quotient(n, Radix) = 0 THEN <<>> ELSE d[Quotient(n, Radix)]) \o <<Remainder(n, Radix)>>]
Printed == CHOOSE d : d = [n \in Words |->
  (IF div16_8(n)[1] = 0 THEN <<>> ELSE d[div16_8(n)[1]]) \o <<div16_8(n)[2]>>]

LEMMA WrittenWrites == Writer(Written)
<1>1. \A n \in Words : Quotient(n, Radix) = n \div Radix /\ Remainder(n, Radix) = n % Radix
  BY QuotientSmaller
<1>2. PICK f : Writer(f)
  BY WriterExists
<1>3. f = [n \in Words |->
        (IF Quotient(n, Radix) = 0 THEN <<>> ELSE f[Quotient(n, Radix)]) \o <<Remainder(n, Radix)>>]
  BY <1>1, <1>2 DEF Writer
<1>4. Written = [n \in Words |->
        (IF Quotient(n, Radix) = 0 THEN <<>> ELSE Written[Quotient(n, Radix)]) \o <<Remainder(n, Radix)>>]
  BY <1>3, Zenon DEF Written
<1> DEFINE d == Written
<1> HIDE DEF d
<1>5. d = [n \in Words |->
        (IF Quotient(n, Radix) = 0 THEN <<>> ELSE d[Quotient(n, Radix)]) \o <<Remainder(n, Radix)>>]
  BY <1>4 DEF d
<1>6. d = [n \in Words |-> (IF n \div Radix = 0 THEN <<>> ELSE d[n \div Radix]) \o <<n % Radix>>]
  BY <1>1, <1>5
<1>7. Writer(d)
  BY <1>6, RecursIsWriter
<1>8. QED
  BY <1>7 DEF d

LEMMA PrintedWrites == Writer(Printed)
<1>1. \A n \in Words : div16_8(n)[1] = n \div Radix /\ div16_8(n)[2] = n % Radix
  BY ShiftingIsDiv
<1>2. PICK f : Writer(f)
  BY WriterExists
<1>3. f = [n \in Words |->
        (IF div16_8(n)[1] = 0 THEN <<>> ELSE f[div16_8(n)[1]]) \o <<div16_8(n)[2]>>]
  BY <1>1, <1>2 DEF Writer
<1>4. Printed = [n \in Words |->
        (IF div16_8(n)[1] = 0 THEN <<>> ELSE Printed[div16_8(n)[1]]) \o <<div16_8(n)[2]>>]
  BY <1>3, Zenon DEF Printed
<1> DEFINE d == Printed
<1> HIDE DEF d
<1>5. d = [n \in Words |->
        (IF div16_8(n)[1] = 0 THEN <<>> ELSE d[div16_8(n)[1]]) \o <<div16_8(n)[2]>>]
  BY <1>4 DEF d
<1>6. d = [n \in Words |-> (IF n \div Radix = 0 THEN <<>> ELSE d[n \div Radix]) \o <<n % Radix>>]
  BY <1>1, <1>5
<1>7. Writer(d)
  BY <1>6, RecursIsWriter
<1>8. QED
  BY <1>7 DEF d

LEMMA DigitsUnfold == \A w : Digits(w) = Written[w] /\ print_num(w) = Printed[w]
BY Zenon DEF Digits, Written, print_num, Printed

(* What is written without a sign is a numeral and stands for the word. *)
LEMMA WritingIsNumeral ==
  ASSUME NEW s, NEW w, Writing(s, w)
  PROVE  L!Writes(s, w)
<1>1. s \in Text /\ s # <<>> /\ Val(s)[Len(s)] = w /\ (s[1] = 0 => Len(s) = 1)
      /\ \A i \in 1 .. Len(s) : s[i] < Radix
  BY DEF Writing
<1>2. Len(s) \in Nat /\ Len(s) >= 1 /\ DOMAIN s = 1 .. Len(s) /\ Radix \in Nat /\ Minus = Radix /\ L!Minus = Minus
  BY <1>1, Chars, EmptySeq DEF Text
<1>3. s[1] # Minus /\ Head(s) = s[1]
  BY <1>1, <1>2 DEF Text
<1>4. L!Numeral(s) = w
  BY <1>1, <1>3, NumeralUnfolds
<1>5. s # <<Minus>>
  BY <1>3
<1>6. L!IsNumeral(s)
  BY <1>1, <1>2, <1>5 DEF L!IsNumeral
<1>7. QED
  BY <1>1, <1>2, <1>3, <1>4, <1>6 DEF L!Writes

(* number_to_string writes the number a word stands for, in the one way     *)
(* there is.                                                                *)
THEOREM NumberToText ==
  \A w \in Words : number_to_string(w) \in Text /\ L!Writes(number_to_string(w), SignedOf(w))
<1> TAKE w \in Words
<1>1. PICK m \in Words : m = Magnitude(w) /\ m = IF Negative(w) THEN -SignedOf(w) ELSE SignedOf(w)
  BY MagnitudeIs, Zenon
<1>2. PICK s : s = Digits(m) /\ Writing(s, m)
  BY WrittenWrites, WriterWrites, DigitsUnfold
<1>3. CASE ~Negative(w)
  <2>1. SignedOf(w) = m
    BY <1>1, <1>3
  <2>2. number_to_string(w) = <<>> \o s
    BY <1>1, <1>2, <1>3 DEF number_to_string
  <2>3. s \in Text /\ <<>> \o s = s
    BY <1>2 DEF Writing, Text
  <2>4. QED
    BY <1>2, <2>1, <2>2, <2>3, WritingIsNumeral
<1>4. CASE Negative(w)
  <2>1. SignedOf(w) = -m /\ SignedOf(w) < 0 /\ m \in Nat
    BY <1>1, <1>4, SignedIs, WordsAre
  <2>2. number_to_string(w) = <<Minus>> \o s
    BY <1>1, <1>2, <1>4 DEF number_to_string
  <2>3. s \in Text /\ s # <<>> /\ \A i \in 1 .. Len(s) : s[i] < Radix
    BY <1>2 DEF Writing
  <2>4. PICK t \in Text : t = <<Minus>> \o s
    <3>1. <<Minus>> \in Seq(Char)
      BY Chars
    <3>2. QED
      BY <2>3, <3>1, ConcatProperties DEF Text
  <2>5. PICK n \in Nat : n = Len(s)
    BY <2>3, Chars
  <2>6. Len(t) = n + 1 /\ t[1] = Minus /\ \A i \in 1 .. n : t[i + 1] = s[i]
    BY <2>3, <2>4, <2>5, Chars DEF Text
  <2>7. \A i \in 1 .. n : s[i] # Minus
    BY <2>3, <2>5, Chars
  <2>8. Val(t)[Len(t)] = m
    BY <1>2, <2>3, <2>5, <2>6, <2>7, ValSign DEF Writing
  <2>9. L!Numeral(t) = -m
    <3>1. Head(t) = t[1]
      BY <2>5, <2>6 DEF Text
    <3>2. QED
      BY <2>6, <2>8, <3>1, NumeralUnfolds
  <2>10. n # 0
    BY <2>3, <2>5, EmptySeq DEF Text
  <2>11. L!IsNumeral(t)
    <3>1. t # <<>> /\ t # <<Minus>>
      BY <2>5, <2>6, <2>10
    <3>2. DOMAIN t = 1 .. n + 1
      BY <2>6, Chars
    <3>3. ASSUME NEW i \in 1 .. n + 1 PROVE t[i] < Radix \/ (i = 1 /\ t[i] = Minus)
      <4>1. CASE i = 1
        BY <2>6, <4>1
      <4>2. CASE i # 1
        <5>1. PICK j \in 1 .. n : i = j + 1
          <6>1. i - 1 \in 1 .. n /\ i = (i - 1) + 1
            BY <2>5, <3>3, <4>2
          <6>2. QED
            BY <6>1
        <5>2. QED
          BY <2>3, <2>5, <2>6, <5>1
      <4>3. QED
        BY <4>1, <4>2
    <3>4. QED
      BY <3>1, <3>2, <3>3, Chars DEF L!IsNumeral
  <2>12. t[1] # 0
    BY <2>6, Chars
  <2>13. L!Writes(t, SignedOf(w))
    BY <2>1, <2>9, <2>11, <2>12 DEF L!Writes
  <2>14. QED
    BY <2>2, <2>4, <2>13
<1>5. QED
  BY <1>3, <1>4

(* print_num writes a word that stands for no negative number in the same   *)
(* way.                                                                     *)
THEOREM PrintedText ==
  \A w \in Words : /\ print_num(w) \in Text
                   /\ SignedOf(w) >= 0 => L!Writes(print_num(w), SignedOf(w))
<1> TAKE w \in Words
<1>1. Writing(print_num(w), w)
  BY PrintedWrites, WriterWrites, DigitsUnfold
<1>2. SignedOf(w) >= 0 => SignedOf(w) = w
  BY SignedIs DEF SignedOf
<1>3. QED
  BY <1>1, <1>2, WritingIsNumeral DEF Writing

LEMMA ProductWraps ==
  ASSUME NEW l \in Words, NEW r \in Words
  PROVE  mul16(l, r) = Wrap(l * r)
<1>1. PICK m \in Words : m = mul16(l, r)
  BY ProductIsSigned
<1>2. PICK a \in Int : a = SignedOf(l)
  BY SignedIs
<1>3. PICK b \in Int : b = SignedOf(r)
  BY SignedIs
<1>4. SignedOf(m) = L!Signed(a * b)
  BY <1>1, <1>2, <1>3, ProductIsSigned
<1>5. a * b \in Int /\ SignedOf(Wrap(a * b)) = L!Signed(a * b)
  BY MeaningOfWrap
<1>6. m = Wrap(a * b)
  <2>1. PICK v \in Words : v = Wrap(a * b)
    BY <1>5, WrapWord
  <2>2. Wrap(SignedOf(v)) = v /\ Wrap(SignedOf(m)) = m
    BY SignedIs
  <2>3. QED
    BY <1>4, <1>5, <2>1, <2>2
<1>7. l \in Int /\ r \in Int /\ Wrap(a) = l /\ Wrap(b) = r
  BY <1>2, <1>3, SignedIs, WordsAre
<1>8. Wrap(a * b) = Wrap(l * b)
  BY <1>7, WrapProduct
<1>9. Wrap(b * l) = Wrap(r * l)
  BY <1>7, WrapProduct
<1>10. l * b = b * l /\ r * l = l * r
  BY <1>7
<1>11. QED
  BY <1>1, <1>6, <1>8, <1>9, <1>10

\* The loop of string_to_number.
Parsed(digits) ==
  CHOOSE result : result = [n \in 0 .. Len(digits) |->
    IF n = 0 THEN 0 ELSE Wrap(mul16(result[n - 1], Radix) + digits[n])]

LEMMA ParsedDefined ==
  ASSUME NEW t \in Text
  PROVE  \A n \in 0 .. Len(t) :
           Parsed(t)[n] = IF n = 0 THEN 0 ELSE Wrap(mul16(Parsed(t)[n - 1], Radix) + t[n])
<1> DEFINE D == 0 .. Len(t)
           g == [n \in D |-> 0]
           p == [n \in D |-> n - 1]
           h == [x \in D \X Words |-> Wrap(mul16(x[2], Radix) + t[x[1]])]
<1>1. D \in SUBSET Nat /\ Len(t) \in Nat /\ Radix \in Words /\ 0 \in Words
  BY Chars, ValueAssumption, WordsAre
<1>2. \A n \in D : n \in {0} => g[n] \in Words
  BY <1>1
<1>3. \A n \in D \ {0} : p[n] \in D /\ p[n] < n /\ \A s \in Words : h[<<n, s>>] \in Words
  <2> TAKE n \in D \ {0}
  <2>1. n \in 1 .. Len(t) /\ t[n] \in Int
    BY <1>1, Chars
  <2>2. ASSUME NEW s \in Words PROVE h[<<n, s>>] \in Words
    <3>1. PICK m \in Words : m = mul16(s, Radix)
      BY <1>1, ProductIsSigned
    <3>2. h[<<n, s>>] = Wrap(m + t[n]) /\ m + t[n] \in Int
      BY <2>1, <3>1, WordsAre
    <3>3. QED
      BY <3>2, WrapWord
  <2>3. p[n] = n - 1 /\ n - 1 \in D /\ n - 1 < n
    BY <1>1, <2>1
  <2> HIDE DEF p, h
  <2>4. QED
    BY <2>2, <2>3
<1> HIDE DEF D, g, p, h
<1>4. PICK f \in [D -> Words] : Recurs(f, D, {0}, g, p, h)
  BY <1>1, <1>2, <1>3, RecursionDefines
<1>5. ASSUME NEW n \in D
      PROVE  f[n] = IF n = 0 THEN 0 ELSE Wrap(mul16(f[n - 1], Radix) + t[n])
  <2>1. f[n] = IF n \in {0} THEN g[n] ELSE h[<<n, f[p[n]]>>]
    BY <1>4 DEF Recurs
  <2>2. CASE n = 0
    BY <2>1, <2>2 DEF g
  <2>3. CASE n # 0
    <3>1. p[n] = n - 1 /\ n - 1 \in D
      BY <1>1, <2>3 DEF p, D
    <3>2. f[n - 1] \in Words
      BY <3>1
    <3>3. QED
      BY <2>1, <2>3, <3>1, <3>2 DEF h
  <2>4. QED
    BY <2>2, <2>3
<1>6. f = [n \in 0 .. Len(t) |-> IF n = 0 THEN 0 ELSE Wrap(mul16(f[n - 1], Radix) + t[n])]
  <2>1. f = [n \in D |-> f[n]]
    OBVIOUS
  <2>2. QED
    BY <1>5, <2>1 DEF D
<1>7. Parsed(t) = [n \in 0 .. Len(t) |->
                   IF n = 0 THEN 0 ELSE Wrap(mul16(Parsed(t)[n - 1], Radix) + t[n])]
  BY <1>6, Zenon DEF Parsed
<1> DEFINE v == Parsed(t)
<1> HIDE DEF v
<1>8. \A n \in 0 .. Len(t) : v[n] = IF n = 0 THEN 0 ELSE Wrap(mul16(v[n - 1], Radix) + t[n])
  BY <1>7 DEF v
<1>9. QED
  BY <1>8 DEF v

(* The word parsed is the worth of the digits, wrapped. *)
LEMMA ParsedIs ==
  ASSUME NEW t \in Text, \A i \in 1 .. Len(t) : t[i] < Radix
  PROVE  \A n \in 0 .. Len(t) : Parsed(t)[n] = Wrap(Val(t)[n])
<1> DEFINE W == {n \in 0 .. Len(t) : Parsed(t)[n] # Wrap(Val(t)[n])}
<1>1. Len(t) \in Nat /\ Radix \in Words /\ 0 \in Words /\ Radix \in Nat
  BY Chars, ValueAssumption, WordsAre
<1>2. SUFFICES ASSUME W # {} PROVE FALSE
  OBVIOUS
<1>3. PICK n \in W : \A j \in W : n <= j
  <2>1. W \in SUBSET Nat
    BY <1>1
  <2>2. QED
    BY <1>2, <2>1, LeastElement
<1>4. n \in 0 .. Len(t)
  BY <1>3
<1>5. CASE n = 0
  <2>1. Parsed(t)[0] = 0 /\ Val(t)[0] = 0
    BY <1>4, <1>5, ParsedDefined, ValDefined
  <2>2. QED
    BY <1>1, <1>3, <1>5, <2>1, WrapSame
<1>6. CASE n # 0
  <2>1. n - 1 \in 0 .. Len(t) /\ n - 1 \notin W /\ n \in 1 .. Len(t)
    BY <1>1, <1>3, <1>4, <1>6
  <2>2. PICK v \in Nat : v = Val(t)[n - 1]
    BY <2>1, ValDefined
  <2>3. PICK w \in Words : w = Wrap(v) /\ w = Parsed(t)[n - 1]
    BY <2>1, <2>2, WrapWord
  <2>4. t[n] \in Nat /\ t[n] # Minus
    BY <2>1, Chars
  <2>5. PICK c \in Nat : c = t[n] /\ c # Minus
    BY <2>4
  <2>6. Val(t)[n] = Radix * v + c
    BY <1>4, <1>6, <2>2, <2>5, ValDefined
  <2>7. Parsed(t)[n] = Wrap(mul16(w, Radix) + c)
    BY <1>4, <1>6, <2>3, <2>5, ParsedDefined
  <2>8. mul16(w, Radix) = Wrap(v * Radix)
    <3>1. mul16(w, Radix) = Wrap(w * Radix)
      BY <1>1, ProductWraps
    <3>2. Wrap(Wrap(v) * Radix) = Wrap(v * Radix)
      BY <1>1, WrapProduct
    <3>3. QED
      BY <2>3, <3>1, <3>2
  <2>9. PICK m \in Nat : m = v * Radix /\ m = Radix * v
    <3>1. v * Radix \in Nat /\ v * Radix = Radix * v
      BY <1>1
    <3>2. QED
      BY <3>1
  <2>10. Wrap(Wrap(m) + c) = Wrap(m + c)
    BY WrapSum
  <2>11. QED
    BY <1>3, <2>6, <2>7, <2>8, <2>9, <2>10
<1>7. QED
  BY <1>5, <1>6

LEMMA ParsingUnfolds ==
  \A t : string_to_number(t) =
    LET signed == t # <<>> /\ Head(t) = Minus
        digits == IF signed THEN Tail(t) ELSE t
    IN IF digits = <<>> \/ \E i \in DOMAIN digits : digits[i] >= Radix THEN <<>>
       ELSE <<IF signed THEN Negate(Parsed(digits)[Len(digits)]) ELSE Parsed(digits)[Len(digits)]>>
BY Zenon DEF string_to_number, Parsed

(* string_to_number fails on what is no numeral and gives the word of the   *)
(* numeral, wrapped, for every other text.                                  *)
THEOREM TextToNumber ==
  \A t \in Text :
    IF L!IsNumeral(t)
      THEN \E w \in Words : string_to_number(t) = <<w>> /\ SignedOf(w) = L!Signed(L!Numeral(t))
      ELSE string_to_number(t) = <<>>
<1> TAKE t \in Text
<1>1. Len(t) \in Nat /\ DOMAIN t = 1 .. Len(t) /\ Radix \in Nat /\ Radix = Minus /\ L!Minus = Minus
      /\ \A i \in 1 .. Len(t) : t[i] \in Nat
  BY Chars
<1>2. CASE t = <<>>
  <2>1. ~L!IsNumeral(t)
    BY <1>2 DEF L!IsNumeral
  <2>2. string_to_number(t) = <<>>
    BY <1>2, ParsingUnfolds
  <2>3. QED
    BY <2>1, <2>2
<1>3. CASE t # <<>> /\ Head(t) # Minus
  <2>1. Len(t) >= 1 /\ t[1] # Minus /\ t # <<Minus>>
    BY <1>1, <1>3, EmptySeq DEF Text
  <2>2. L!IsNumeral(t) <=> \A i \in 1 .. Len(t) : t[i] < Radix
    BY <1>1, <1>3, <2>1 DEF L!IsNumeral
  <2>3. string_to_number(t) = IF \E i \in DOMAIN t : t[i] >= Radix THEN <<>> ELSE <<Parsed(t)[Len(t)]>>
    BY <1>3, ParsingUnfolds
  <2>4. CASE L!IsNumeral(t)
    <3>1. \A i \in 1 .. Len(t) : t[i] < Radix
      BY <2>2, <2>4
    <3>2. string_to_number(t) = <<Parsed(t)[Len(t)]>>
      BY <1>1, <2>3, <3>1
    <3>3. Len(t) \in 0 .. Len(t)
      BY <1>1
    <3>4. PICK v \in Nat : v = Val(t)[Len(t)]
      BY <3>3, ValDefined
    <3>5. Parsed(t)[Len(t)] = Wrap(v)
      BY <3>1, <3>3, <3>4, ParsedIs
    <3>6. PICK w \in Words : w = Wrap(v)
      BY WrapWord
    <3>7. SignedOf(w) = L!Signed(v)
      BY <3>6, MeaningOfWrap
    <3>8. L!Numeral(t) = v
      BY <1>3, <3>4, NumeralUnfolds
    <3>9. QED
      BY <2>4, <3>2, <3>5, <3>6, <3>7, <3>8
  <2>5. CASE ~L!IsNumeral(t)
    <3>1. \E i \in DOMAIN t : t[i] >= Radix
      BY <1>1, <2>2, <2>5
    <3>2. QED
      BY <2>3, <2>5, <3>1
  <2>6. QED
    BY <2>4, <2>5
<1>4. CASE t # <<>> /\ Head(t) = Minus
  <2>1. Len(t) >= 1 /\ t[1] = Minus
    BY <1>1, <1>4, EmptySeq DEF Text
  <2>2. PICK s \in Text : s = Tail(t) /\ Len(s) = Len(t) - 1 /\ \A i \in 1 .. Len(s) : s[i] = t[i + 1]
    <3>1. Tail(t) \in Seq(Char) /\ Len(Tail(t)) = Len(t) - 1 /\ \A i \in 1 .. Len(Tail(t)) : Tail(t)[i] = t[i + 1]
      BY <1>4, HeadTailProperties DEF Text
    <3>2. QED
      BY <3>1 DEF Text
  <2>3. Len(s) \in Nat /\ DOMAIN s = 1 .. Len(s) /\ \A i \in 1 .. Len(s) : s[i] \in Nat
    BY Chars
  <2>4. s = <<>> <=> t = <<Minus>>
    <3>1. s = <<>> <=> Len(t) = 1
      <4>1. s = <<>> <=> Len(s) = 0
        BY EmptySeq DEF Text
      <4>2. QED
        BY <1>1, <2>2, <4>1
    <3>2. t = <<Minus>> <=> Len(t) = 1
      <4>1. ASSUME Len(t) = 1 PROVE t = <<Minus>>
        BY <2>1, <4>1 DEF Text
      <4>2. QED
        BY <4>1
    <3>3. QED
      BY <3>1, <3>2
  <2>5. L!IsNumeral(t) <=> s # <<>> /\ \A i \in 1 .. Len(s) : s[i] < Radix
    <3>1. ASSUME \A i \in 1 .. Len(s) : s[i] < Radix
          PROVE  \A i \in DOMAIN t : t[i] < Radix \/ (i = 1 /\ t[i] = Minus)
      <4>1. ASSUME NEW i \in 1 .. Len(t) PROVE t[i] < Radix \/ (i = 1 /\ t[i] = Minus)
        <5>1. CASE i = 1
          BY <2>1, <5>1
        <5>2. CASE i # 1
          <6>1. PICK j \in 1 .. Len(s) : i = j + 1
            <7>1. i - 1 \in 1 .. Len(s) /\ i = (i - 1) + 1
              BY <1>1, <2>2, <5>2
            <7>2. QED
              BY <7>1
          <6>2. QED
            BY <2>2, <3>1, <6>1
        <5>3. QED
          BY <5>1, <5>2
      <4>2. QED
        BY <1>1, <4>1
    <3>2. ASSUME \A i \in DOMAIN t : t[i] < Radix \/ (i = 1 /\ t[i] = Minus), NEW j \in 1 .. Len(s)
          PROVE  s[j] < Radix
      <4>1. j + 1 \in DOMAIN t /\ j + 1 # 1
        BY <1>1, <2>2, <2>3
      <4>2. QED
        BY <2>2, <3>2, <4>1
    <3>3. QED
      BY <1>1, <1>4, <2>4, <3>1, <3>2 DEF L!IsNumeral
  <2>6. string_to_number(t) = IF s = <<>> \/ \E i \in DOMAIN s : s[i] >= Radix THEN <<>>
                              ELSE <<Negate(Parsed(s)[Len(s)])>>
    BY <1>4, <2>2, ParsingUnfolds
  <2>7. CASE L!IsNumeral(t)
    <3>1. s # <<>> /\ \A i \in 1 .. Len(s) : s[i] < Radix /\ s[i] # Minus
      BY <1>1, <2>5, <2>7
    <3>2. string_to_number(t) = <<Negate(Parsed(s)[Len(s)])>>
      BY <2>3, <2>6, <3>1, <1>1
    <3>3. Len(s) \in 0 .. Len(s)
      BY <2>3
    <3>4. PICK v \in Nat : v = Val(s)[Len(s)]
      BY <3>3, ValDefined
    <3>5. Parsed(s)[Len(s)] = Wrap(v)
      BY <3>1, <3>3, <3>4, ParsedIs
    <3>6. Negate(Wrap(v)) = Wrap(-v)
      BY NegateWrap
    <3>7. PICK w \in Words : w = Wrap(-v)
      BY WrapWord
    <3>8. SignedOf(w) = L!Signed(-v)
      BY <3>7, MeaningOfWrap
    <3>9. L!Numeral(t) = -v
      <4>1. Val(t)[Len(t)] = v
        <5>1. Len(t) = Len(s) + 1 /\ t[1] = Minus /\ \A i \in 1 .. Len(s) : t[i + 1] = s[i] /\ s[i] # Minus
          BY <1>1, <2>1, <2>2, <2>3, <3>1
        <5>2. Val(t)[Len(t)] = Val(s)[Len(s)]
          BY <5>1, ValSign
        <5>3. QED
          BY <3>4, <5>2
      <4>2. QED
        BY <1>4, <4>1, NumeralUnfolds
    <3>10. QED
      BY <2>7, <3>2, <3>5, <3>6, <3>7, <3>8, <3>9
  <2>8. CASE ~L!IsNumeral(t)
    <3>1. s = <<>> \/ \E i \in DOMAIN s : s[i] >= Radix
      BY <1>1, <2>3, <2>5, <2>8
    <3>2. QED
      BY <2>6, <2>8, <3>1
  <2>9. QED
    BY <2>7, <2>8
<1>5. QED
  BY <1>2, <1>3, <1>4

=============================================================================
