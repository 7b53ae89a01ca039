-------------------------- MODULE CallFramesProofs --------------------------
(***************************************************************************)
(* Proofs about calls, returns and closures, for every program, every room *)
(* of the two stacks and every arena.                                      *)
(***************************************************************************)
EXTENDS CallFrames, SequenceTheorems, WellFoundedInduction, TLAPS

-----------------------------------------------------------------------------
(* Code addresses. *)

LEMMA QuotientUnique ==
  ASSUME NEW f \in Nat, NEW p \in Nat, NEW d \in Nat \ {0}, p < d
  PROVE  (f * d + p) \div d = f /\ (f * d + p) % d = p
<1> DEFINE q == (f * d + p) \div d
           r == (f * d + p) % d
<1>1. f * d \in Nat /\ f * d + p \in Nat
  BY Z3
<1>2. q \in Nat /\ r \in 0 .. d - 1 /\ f * d + p = q * d + r
  BY <1>1, Z3
<1> HIDE DEF q, r
<1>3. ASSUME q > f PROVE FALSE
  <2>1. q * d >= (f + 1) * d /\ (f + 1) * d = f * d + d
    BY <1>2, <1>3, Z3
  <2>2. q * d \in Nat
    BY <1>2, Z3
  <2>3. QED
    BY <1>1, <1>2, <2>1, <2>2
<1>4. ASSUME q < f PROVE FALSE
  <2>1. f * d >= (q + 1) * d /\ (q + 1) * d = q * d + d
    BY <1>2, <1>4, Z3
  <2>2. q * d \in Nat
    BY <1>2, Z3
  <2>3. QED
    BY <1>1, <1>2, <2>1, <2>2
<1>5. q = f
  BY <1>2, <1>3, <1>4
<1>6. r = p
  BY <1>1, <1>2, <1>5
<1>7. QED
  BY <1>5, <1>6 DEF q, r

CodePoint == {At(f, p) : f \in Code, p \in 0 .. NPoints}

LEMMA RunsAt ==
  ASSUME NEW f \in Code, NEW p \in 0 .. NPoints
  PROVE  /\ Runs(At(f, p)) = f /\ At(f, p) % (NPoints + 1) = p
         /\ At(f, p) \in CodePoint /\ At(f, p) \in Nat
<1>1. f \in Nat /\ p \in Nat /\ NPoints + 1 \in Nat \ {0} /\ p < NPoints + 1
  BY SizeAssumption DEF Code, Function, Main
<1>2. (f * (NPoints + 1) + p) \div (NPoints + 1) = f /\ (f * (NPoints + 1) + p) % (NPoints + 1) = p
  BY <1>1, QuotientUnique
<1>3. f * (NPoints + 1) \in Nat
  BY <1>1, Z3
<1>4. Runs(At(f, p)) = f /\ At(f, p) % (NPoints + 1) = p
  BY <1>2 DEF At, Runs
<1>5. At(f, p) \in Nat
  BY <1>1, <1>3 DEF At
<1>6. QED
  BY <1>4, <1>5 DEF CodePoint

LEMMA CodePointRuns ==
  ASSUME NEW a \in CodePoint
  PROVE  Runs(a) \in Code /\ a \in Nat
<1>1. PICK f \in Code, p \in 0 .. NPoints : a = At(f, p)
  BY DEF CodePoint
<1>2. QED
  BY <1>1, RunsAt

-----------------------------------------------------------------------------
(* The frames, across a call and a return. *)

Five == 1 .. 5

LEMMA FiveDiv == \A d \in Nat : (5 * d) \div 5 = d
OBVIOUS

LEMMA TopRegs ==
  ASSUME callstack \in Seq(Nat)
  PROVE  /\ Depth \in Nat /\ Depth + 1 \in Frames
         /\ Reg(Depth + 1, 1) = pc /\ Reg(Depth + 1, 2) = fp /\ Reg(Depth + 1, 3) = cp
         /\ Reg(Depth + 1, 4) = env /\ Reg(Depth + 1, 5) = closure
         /\ Limit(Depth + 1) = Len(vstack)
<1>1. Depth \in Nat
  BY DEF Depth
<1>2. ~(Depth + 1 <= Depth)
  BY <1>1
<1>3. QED
  BY <1>1, <1>2 DEF Reg, Saved, Frames, Limit

LEMMA SavedSeq ==
  ASSUME pc \in Nat, fp \in Nat, cp \in Nat, env \in Nat, closure \in Nat
  PROVE  Saved \in Seq(Nat) /\ Len(Saved) = 5
BY DEF Saved

LEMMA CallRegs ==
  ASSUME callstack \in Seq(Nat), Len(callstack) = 5 * Depth,
         Saved \in Seq(Nat), Len(Saved) = 5, callstack' = callstack \o Saved
  PROVE  /\ callstack' \in Seq(Nat) /\ Len(callstack') = Len(callstack) + 5
         /\ Depth' = Depth + 1 /\ Len(callstack') = 5 * Depth'
         /\ \A i \in 1 .. Depth + 1 : \A k \in Five : Reg(i, k)' = Reg(i, k)
<1>1. Depth \in Nat
  BY DEF Depth
<1>2. /\ callstack' \in Seq(Nat) /\ Len(callstack') = Len(callstack) + 5
      /\ \A j \in 1 .. Len(callstack) + 5 :
           callstack'[j] = IF j <= Len(callstack) THEN callstack[j] ELSE Saved[j - Len(callstack)]
  <2>1. /\ callstack \o Saved \in Seq(Nat)
        /\ Len(callstack \o Saved) = Len(callstack) + Len(Saved)
        /\ \A j \in 1 .. Len(callstack) + Len(Saved) : (callstack \o Saved)[j] =
              IF j <= Len(callstack) THEN callstack[j] ELSE Saved[j - Len(callstack)]
    BY ConcatProperties
  <2>2. QED
    BY <2>1
<1>3. Len(callstack') = 5 * (Depth + 1)
  BY <1>1, <1>2
<1>4. Depth' = Depth + 1
  <2>1. Depth' = Len(callstack') \div 5
    BY DEF Depth
  <2>2. QED
    BY <1>1, <1>3, <2>1, FiveDiv
<1>5. ASSUME NEW i \in 1 .. Depth + 1, NEW k \in Five
      PROVE  Reg(i, k)' = Reg(i, k)
  <2>1. Reg(i, k)' = callstack'[5 * (i - 1) + k] /\ 5 * (i - 1) + k \in 1 .. Len(callstack) + 5
    BY <1>1, <1>2, <1>4 DEF Reg, Five
  <2>2. CASE i <= Depth
    <3>1. 5 * (i - 1) + k <= Len(callstack)
      BY <1>1, <2>2 DEF Five
    <3>2. Reg(i, k) = callstack[5 * (i - 1) + k]
      BY <2>2 DEF Reg
    <3>3. callstack'[5 * (i - 1) + k] = callstack[5 * (i - 1) + k]
      BY <1>2, <2>1, <3>1
    <3>4. QED
      BY <2>1, <3>2, <3>3
  <2>3. CASE i = Depth + 1
    <3>1. 5 * (i - 1) + k - Len(callstack) = k /\ ~(5 * (i - 1) + k <= Len(callstack)) /\ ~(i <= Depth)
      BY <1>1, <2>3 DEF Five
    <3>2. Reg(i, k) = Saved[k]
      BY <3>1 DEF Reg
    <3>3. callstack'[5 * (i - 1) + k] = Saved[k]
      <4>1. PICK j \in 1 .. Len(callstack) + 5 : j = 5 * (i - 1) + k
        BY <2>1
      <4>2. j - Len(callstack) = k /\ ~(j <= Len(callstack))
        <5>1. Len(callstack) \in Int /\ i = Depth + 1 /\ k \in Int /\ k >= 1 /\ Len(callstack) = 5 * Depth
          BY <2>3 DEF Five
        <5>2. j = Len(callstack) + k
          BY <1>1, <4>1, <5>1
        <5>3. QED
          BY <5>1, <5>2
      <4>3. callstack'[j] = Saved[j - Len(callstack)]
        BY <1>2, <4>2
      <4>4. QED
        BY <4>1, <4>2, <4>3
    <3>4. QED
      BY <2>1, <3>2, <3>3
  <2>4. QED
    BY <1>1, <2>2, <2>3
<1>6. QED
  BY <1>2, <1>3, <1>4, <1>5

LEMMA ReturnRegs ==
  ASSUME callstack \in Seq(Nat), Len(callstack) = 5 * Depth, callstack # <<>>, pop_saved
  PROVE  /\ callstack' \in Seq(Nat) /\ Len(callstack') = Len(callstack) - 5
         /\ Depth \in Nat \ {0} /\ Depth' = Depth - 1 /\ Len(callstack') = 5 * Depth'
         /\ \A i \in 1 .. Depth : \A k \in Five : Reg(i, k)' = Reg(i, k)
         /\ pc' = Reg(Depth, 1) /\ fp' = Reg(Depth, 2) /\ cp' = Reg(Depth, 3)
         /\ env' = Reg(Depth, 4) /\ closure' = Reg(Depth, 5)
<1>1. Depth \in Nat \ {0} /\ Len(callstack) \in Nat /\ Len(callstack) >= 5
  BY EmptySeq DEF Depth
<1> DEFINE n == Len(callstack)
           s == SubSeq(callstack, n - 4, n)
<1>2. \A j \in 1 .. n : callstack[j] \in Nat
  BY ElementOfSeq
<1>3. \A k \in Five : s[k] = callstack[n - 5 + k]
  <2>1. n - 4 \in Int /\ n \in Int /\ \A j \in n - 4 .. n : callstack[j] \in Nat
    BY <1>1, <1>2
  <2>2. \A k \in 1 .. n - (n - 4) + 1 : s[k] = callstack[n - 4 + k - 1]
    BY <2>1, SubSeqProperties
  <2>3. ASSUME NEW k \in Five PROVE s[k] = callstack[n - 5 + k]
    <3>1. k \in 1 .. n - (n - 4) + 1 /\ n - 4 + k - 1 = n - 5 + k
      BY <1>1 DEF Five
    <3>2. QED
      BY <2>2, <3>1
  <2>4. QED
    BY <2>3
<1>4. \A k \in Five : Reg(Depth, k) = s[k]
  <2> HIDE DEF s
  <2>1. ASSUME NEW k \in Five PROVE Reg(Depth, k) = s[k]
    <3>1. 5 * (Depth - 1) + k = n - 5 + k
      BY <1>1 DEF Five
    <3>2. Reg(Depth, k) = callstack[5 * (Depth - 1) + k]
      BY <1>1 DEF Reg
    <3>3. QED
      BY <1>3, <3>1, <3>2
  <2>2. QED
    BY <2>1
<1>5. /\ callstack' \in Seq(Nat) /\ Len(callstack') = n - 5
      /\ \A j \in 1 .. n - 5 : callstack'[j] = callstack[j]
  <2>1. 1 \in Int /\ n - 5 \in Int /\ \A j \in 1 .. n - 5 : callstack[j] \in Nat
    BY <1>1, <1>2
  <2> DEFINE c == SubSeq(callstack, 1, n - 5)
  <2>2. /\ c \in Seq(Nat) /\ Len(c) = IF 1 <= n - 5 THEN n - 5 - 1 + 1 ELSE 0
        /\ \A j \in 1 .. n - 5 - 1 + 1 : c[j] = callstack[1 + j - 1]
    BY <2>1, SubSeqProperties
  <2>3. callstack' = c
    BY DEF pop_saved
  <2> HIDE DEF c
  <2>4. Len(c) = n - 5
    BY <1>1, <2>2
  <2>5. ASSUME NEW j \in 1 .. n - 5 PROVE c[j] = callstack[j]
    <3>1. 1 + j - 1 = j /\ j \in 1 .. n - 5 - 1 + 1
      BY <1>1
    <3>2. QED
      BY <2>2, <3>1
  <2>6. QED
    BY <2>2, <2>3, <2>4, <2>5
<1>6. pc' = s[1] /\ fp' = s[2] /\ cp' = s[3] /\ env' = s[4] /\ closure' = s[5]
  BY DEF pop_saved
<1> HIDE DEF s
<1>7. Len(callstack') = 5 * (Depth - 1)
  BY <1>1, <1>5
<1>8. Depth' = Depth - 1
  <2>1. Depth' = Len(callstack') \div 5
    BY DEF Depth
  <2>2. Depth - 1 \in Nat
    BY <1>1
  <2>3. QED
    BY <1>7, <2>1, <2>2, FiveDiv
<1>9. 1 \in Five /\ 2 \in Five /\ 3 \in Five /\ 4 \in Five /\ 5 \in Five
  BY DEF Five
<1>10. /\ pc' = Reg(Depth, 1) /\ fp' = Reg(Depth, 2) /\ cp' = Reg(Depth, 3)
       /\ env' = Reg(Depth, 4) /\ closure' = Reg(Depth, 5)
  BY <1>4, <1>6, <1>9
<1>11. ASSUME NEW i \in 1 .. Depth, NEW k \in Five
       PROVE  Reg(i, k)' = Reg(i, k)
  <2>1. CASE i <= Depth - 1
    <3>1. 5 * (i - 1) + k \in 1 .. n - 5
      BY <1>1, <2>1 DEF Five
    <3>2. QED
      BY <1>1, <1>5, <1>8, <2>1, <3>1 DEF Reg
  <2>2. CASE i = Depth
    <3>1. ~(i <= Depth - 1)
      BY <1>1, <2>2
    <3>2. Reg(i, k)' = Saved'[k]
      BY <1>8, <3>1 DEF Reg
    <3>3. k = 1 \/ k = 2 \/ k = 3 \/ k = 4 \/ k = 5
      BY DEF Five
    <3>4. Saved'[1] = pc' /\ Saved'[2] = fp' /\ Saved'[3] = cp' /\ Saved'[4] = env' /\ Saved'[5] = closure'
      BY DEF Saved
    <3>5. QED
      BY <1>10, <2>2, <3>2, <3>3, <3>4
  <2>3. QED
    BY <1>1, <2>1, <2>2
<1>12. QED
  BY <1>1, <1>5, <1>7, <1>8, <1>10, <1>11

-----------------------------------------------------------------------------
(* What the words of memory refer to. *)

(* A cell of a variable: an address that was handed out, with a value.      *)
Cell(a) == a \in Arena /\ a < closure_ptr /\ arena[a] \in Value

(* An address the machine takes for that of a cell: one, or one below the   *)
(* arena, after an allocation has been refused.                            *)
CellRef(a) == Cell(a) \/ (a \in 0 .. Base - 1 /\ fails > 0)

(* The record of f at a: the static one, or a copy followed by pointers.    *)
ClosureAt(a, f) ==
  /\ f \in Function
  /\ \/ a = f /\ Captures[f] = <<>>
     \/ /\ a \in Arena /\ a < closure_ptr /\ arena[a] = Header(f)
        /\ \A k \in 1 .. Len(Captures[f]) :
             /\ a + k \in Arena /\ a + k < closure_ptr
             /\ \E c \in 0 .. End - 1 : arena[a + k] = Pointer(c) /\ CellRef(c)

(* A value that is no function, or a function with a record. *)
Good(w) == w \in Plain \/ \E a \in 1 .. End - 1 : w = Fun(a) /\ \E f \in Function : ClosureAt(a, f)

EnvOK(e, f) ==
  /\ e \in {NULL} \cup Arena
  /\ EnvCells[f] = 0 => e = NULL
  /\ e # NULL => \A k \in 0 .. EnvCells[f] - 1 : Cell(e + k)
  /\ EnvCells[f] > 0 /\ e = NULL => fails > 0

(* The registers of an activation that runs f. *)
RegsOK(p, b, f, e, u) ==
  /\ p \in CodePoint /\ f \in Code /\ Runs(p) = f
  /\ b \in 0 .. VStackUnits
  /\ EnvOK(e, f)
  /\ f = Main => u = NULL
  /\ f # Main => u \in 1 .. End - 1 /\ ClosureAt(u, f)

FrameOK(i) == RegsOK(Reg(i, 1), Reg(i, 2), Reg(i, 3), Reg(i, 4), Reg(i, 5))
Nested(i)  == Reg(i, 2) + Own(Reg(i, 3)) <= Limit(i)

StackOK ==
  /\ vstack \in Seq(Value) /\ Len(vstack) <= VStackUnits
  /\ \A j \in 1 .. Len(vstack) : Good(vstack[j])

FramesOK ==
  /\ callstack \in Seq(Nat) /\ Len(callstack) = 5 * Depth /\ Len(callstack) <= CallWords
  /\ \A i \in Frames : FrameOK(i) /\ Nested(i)
  /\ Reg(1, 2) = 0 /\ Reg(1, 3) = Main

HeapOK ==
  /\ closure_ptr \in Base .. End /\ arena \in [Arena -> Word] /\ fails \in 0 .. MaxFails
  /\ \A a \in Arena : a >= closure_ptr => arena[a] = Nil
  /\ \A a \in Arena : arena[a] \in Value => Good(arena[a])

IInv ==
  /\ StackOK /\ FramesOK /\ HeapOK
  /\ lost \in {"no", "limit", "null", "program"}


(* The arena only grows: nothing in use but the value of a cell changes. *)
HeapGrows ==
  /\ closure_ptr' \in Nat /\ closure_ptr <= closure_ptr' /\ fails' \in Nat /\ fails <= fails'
  /\ \A a \in Arena : a < closure_ptr =>
       arena'[a] = arena[a] \/ (arena[a] \in Value /\ arena'[a] \in Value)

LEMMA Kinds ==
  /\ \A f : Header(f) \notin Value
  /\ \A a : Pointer(a) \notin Value
  /\ \A a : Fun(a) \notin Plain
  /\ Plain \subseteq Value /\ Value \subseteq Word /\ Nil \in Plain
  /\ \A a \in 1 .. End - 1 : Fun(a) \in Value
  /\ \A v \in Plain : v[1] # "fun"
BY DEF Header, Pointer, Fun, Value, Word, Plain, Nil, Num

LEMMA Places ==
  /\ Base \in Nat \ {0} /\ End \in Nat /\ Base <= End
  /\ \A a \in Arena : a \in Nat /\ a >= Base /\ a < End /\ a # NULL
  /\ \A f \in Function : f \in 1 .. End - 1 /\ f < Base /\ f \notin Arena /\ f # Main /\ f \in Code
BY SizeAssumption DEF Base, End, Arena, Function, NULL, Main, Code

LEMMA HeapTypes == HeapOK => closure_ptr \in Nat /\ fails \in Nat
BY SizeAssumption, Places DEF HeapOK

LEMMA GrowCell ==
  ASSUME HeapOK, HeapGrows, NEW a, Cell(a)
  PROVE  Cell(a)'
BY HeapTypes, Places DEF Cell, HeapGrows

LEMMA GrowRef ==
  ASSUME HeapOK, HeapGrows, NEW a, CellRef(a)
  PROVE  CellRef(a)'
BY HeapTypes, GrowCell DEF CellRef, HeapGrows

LEMMA GrowClosure ==
  ASSUME HeapOK, HeapGrows, NEW a, NEW f, ClosureAt(a, f)
  PROVE  ClosureAt(a, f)'
<1>1. f \in Function
  BY DEF ClosureAt
<1>2. CASE a = f /\ Captures[f] = <<>>
  BY <1>1, <1>2 DEF ClosureAt
<1>3. CASE ~(a = f /\ Captures[f] = <<>>)
  <2>1. /\ a \in Arena /\ a < closure_ptr /\ arena[a] = Header(f)
        /\ \A k \in 1 .. Len(Captures[f]) :
             /\ a + k \in Arena /\ a + k < closure_ptr
             /\ \E c \in 0 .. End - 1 : arena[a + k] = Pointer(c) /\ CellRef(c)
    BY <1>3 DEF ClosureAt
  <2>2. a < closure_ptr' /\ arena'[a] = Header(f)
    BY <2>1, Kinds, HeapTypes, Places DEF HeapGrows
  <2>3. ASSUME NEW k \in 1 .. Len(Captures[f])
        PROVE  a + k < closure_ptr' /\ \E c \in 0 .. End - 1 : arena'[a + k] = Pointer(c) /\ CellRef(c)'
    <3>1. PICK c \in 0 .. End - 1 : arena[a + k] = Pointer(c) /\ CellRef(c)
      BY <2>1
    <3>2. a + k \in Arena /\ a + k < closure_ptr
      BY <2>1
    <3>3. arena'[a + k] = Pointer(c)
      BY <3>1, <3>2, Kinds DEF HeapGrows
    <3>4. a + k < closure_ptr'
      BY <3>2, HeapTypes, Places DEF HeapGrows
    <3>5. QED
      BY <3>1, <3>3, <3>4, GrowRef
  <2>4. QED
    BY <1>1, <2>1, <2>2, <2>3 DEF ClosureAt
<1>4. QED
  BY <1>2, <1>3

LEMMA GrowGood ==
  ASSUME HeapOK, HeapGrows, NEW w, Good(w)
  PROVE  Good(w)'
BY GrowClosure DEF Good

LEMMA GrowRegs ==
  ASSUME HeapOK, HeapGrows, NEW p, NEW b, NEW f, NEW e, NEW u, RegsOK(p, b, f, e, u)
  PROVE  RegsOK(p, b, f, e, u)'
<1>1. EnvOK(e, f)'
  BY HeapTypes, GrowCell DEF RegsOK, EnvOK, HeapGrows
<1>2. QED
  BY <1>1, GrowClosure DEF RegsOK

(* The frames are kept by a step that leaves the stacks' words alone and    *)
(* does not shrink the value stack into a frame.                           *)
LEMMA GrowFrames ==
  ASSUME FramesOK, HeapOK, HeapGrows, UNCHANGED <<callstack, fp, cp, env, closure>>,
         pc' \in CodePoint, Runs(pc') = Runs(pc),
         Len(vstack') \in Nat, Len(vstack') >= fp + Own(cp)
  PROVE  FramesOK'
<1>1. Depth \in Nat /\ Depth' = Depth /\ Frames' = Frames /\ Frames = 1 .. Depth + 1
  BY DEF Depth, Frames
<1>2. ASSUME NEW i \in Frames PROVE FrameOK(i)' /\ Nested(i)'
  <2>1. FrameOK(i) /\ Nested(i)
    BY DEF FramesOK
  <2>2. CASE i <= Depth
    <3>1. \A k : Reg(i, k)' = Reg(i, k)
      BY <1>1, <2>2 DEF Reg
    <3>2. FrameOK(i)'
      <4>1. PICK p, b, f, e, u : p = Reg(i, 1) /\ b = Reg(i, 2) /\ f = Reg(i, 3) /\ e = Reg(i, 4) /\ u = Reg(i, 5)
        OBVIOUS
      <4>2. RegsOK(p, b, f, e, u)'
        BY <2>1, <4>1, GrowRegs DEF FrameOK
      <4>3. QED
        BY <3>1, <4>1, <4>2 DEF FrameOK
    <3>3. Limit(i)' = Limit(i)
      <4>1. Limit(i) = Reg(i + 1, 2) /\ Limit(i)' = Reg(i + 1, 2)'
        BY <1>1, <2>2 DEF Limit
      <4>2. Reg(i + 1, 2)' = Reg(i + 1, 2)
        BY <1>1 DEF Reg, Saved
      <4>3. QED
        BY <4>1, <4>2
    <3>4. Nested(i)'
      BY <2>1, <3>1, <3>3 DEF Nested, Own
    <3>5. QED
      BY <3>2, <3>4
  <2>3. CASE i = Depth + 1
    <3>1. ~(i <= Depth)
      BY <1>1, <2>3
    <3>2. /\ Reg(i, 1) = pc /\ Reg(i, 2) = fp /\ Reg(i, 3) = cp /\ Reg(i, 4) = env /\ Reg(i, 5) = closure
          /\ Reg(i, 1)' = pc' /\ Reg(i, 2)' = fp' /\ Reg(i, 3)' = cp' /\ Reg(i, 4)' = env'
          /\ Reg(i, 5)' = closure' /\ Limit(i)' = Len(vstack')
      BY <1>1, <3>1 DEF Reg, Saved, Limit
    <3>3. PICK p, b, f, e, u : p = pc' /\ b = fp /\ f = cp /\ e = env /\ u = closure
      OBVIOUS
    <3>4. RegsOK(p, b, f, e, u)
      BY <2>1, <3>2, <3>3 DEF FrameOK, RegsOK
    <3>5. RegsOK(p, b, f, e, u)'
      BY <3>4, GrowRegs
    <3>6. FrameOK(i)'
      BY <3>2, <3>3, <3>5 DEF FrameOK
    <3>7. Nested(i)'
      BY <3>2 DEF Nested, Own
    <3>8. QED
      BY <3>6, <3>7
  <2>4. QED
    BY <1>1, <2>2, <2>3
<1>3. Reg(1, 2)' = 0 /\ Reg(1, 3)' = Main
  <2>1. Reg(1, 2)' = Reg(1, 2) /\ Reg(1, 3)' = Reg(1, 3)
    BY <1>1 DEF Reg, Saved
  <2>2. QED
    BY <2>1 DEF FramesOK
<1>4. QED
  BY <1>1, <1>2, <1>3 DEF FramesOK

-----------------------------------------------------------------------------
(* The running activation, and steps that leave the arena alone. *)

LEMMA OwnType == \A f \in Code : Own(f) \in Nat
BY ProgramAssumption DEF Own, Code

LEMMA TopOK ==
  ASSUME IInv
  PROVE  /\ pc \in CodePoint /\ cp \in Code /\ Runs(pc) = cp /\ fp \in Nat /\ fp \in 0 .. VStackUnits
         /\ EnvOK(env, cp) /\ (cp = Main => closure = NULL)
         /\ cp # Main => closure \in 1 .. End - 1 /\ ClosureAt(closure, cp)
         /\ Own(cp) \in Nat /\ fp + Own(cp) <= Len(vstack) /\ Len(vstack) \in Nat
<1>1. Depth + 1 \in Frames /\ callstack \in Seq(Nat)
  BY TopRegs DEF IInv, FramesOK
<1>2. FrameOK(Depth + 1) /\ Nested(Depth + 1)
  BY <1>1 DEF IInv, FramesOK
<1>3. RegsOK(pc, fp, cp, env, closure) /\ fp + Own(cp) <= Len(vstack)
  BY <1>1, <1>2, TopRegs DEF FrameOK, Nested
<1>4. Len(vstack) \in Nat
  BY DEF IInv, StackOK
<1>5. QED
  BY <1>3, <1>4, OwnType, SizeAssumption DEF RegsOK

LEMMA HeapSame ==
  ASSUME HeapOK, UNCHANGED heap
  PROVE  HeapGrows /\ HeapOK'
<1>1. HeapGrows
  BY HeapTypes DEF heap, HeapGrows
<1>2. ASSUME NEW a \in Arena, arena'[a] \in Value PROVE Good(arena[a])'
  <2>1. PICK w : w = arena[a]
    OBVIOUS
  <2>2. Good(w)
    BY <1>2, <2>1 DEF HeapOK, heap
  <2>3. Good(w)'
    BY <1>1, <2>2, GrowGood
  <2>4. w = arena'[a]
    BY <2>1 DEF heap
  <2>5. QED
    BY <2>3, <2>4 DEF Good
<1>3. QED
  BY <1>1, <1>2 DEF HeapOK, heap

LEMMA HeapStep ==
  ASSUME IInv, HeapGrows, HeapOK', UNCHANGED <<callstack, fp, cp, env, closure>>,
         pc' \in CodePoint, Runs(pc') = Runs(pc),
         vstack' \in Seq(Value), Len(vstack') <= VStackUnits, Len(vstack') >= fp + Own(cp),
         \A j \in 1 .. Len(vstack') : Good(vstack[j])',
         lost' \in {"no", "limit", "null", "program"}
  PROVE  IInv'
<1>1. FramesOK'
  BY GrowFrames DEF IInv
<1>2. QED
  BY <1>1 DEF IInv, StackOK

LEMMA StackStep ==
  ASSUME IInv, UNCHANGED <<callstack, fp, cp, env, closure, heap>>,
         pc' \in CodePoint, Runs(pc') = Runs(pc),
         vstack' \in Seq(Value), Len(vstack') <= VStackUnits, Len(vstack') >= fp + Own(cp),
         \A j \in 1 .. Len(vstack') : Good(vstack'[j]),
         lost' \in {"no", "limit", "null", "program"}
  PROVE  IInv'
<1>1. HeapGrows /\ HeapOK'
  BY HeapSame DEF IInv
<1>2. ASSUME NEW j \in 1 .. Len(vstack') PROVE Good(vstack[j])'
  <2>1. PICK w : w = vstack'[j]
    OBVIOUS
  <2>2. Good(w)'
    BY <1>1, <2>1, GrowGood DEF IInv
  <2>3. QED
    BY <2>1, <2>2 DEF Good
<1>3. QED
  BY <1>1, <1>2, HeapStep

LEMMA LoseStep ==
  ASSUME IInv, NEW why \in {"limit", "null", "program"}, Lose(why)
  PROVE  IInv'
BY TopOK, StackStep DEF Lose, regs, heap, IInv, StackOK

LEMMA GoodIsValue == ASSUME NEW w, Good(w) PROVE w \in Value
BY Kinds DEF Good, Value

LEMMA PushSeq ==
  ASSUME IInv, NEW v \in Value, vstack_push(vstack, v)
  PROVE  /\ vstack' \in Seq(Value) /\ Len(vstack') <= VStackUnits /\ Len(vstack') >= Len(vstack)
         /\ lost' \in {"no", "limit", "null", "program"}
         /\ \A j \in 1 .. Len(vstack') : vstack'[j] = v \/ (j \in 1 .. Len(vstack) /\ vstack'[j] = vstack[j])
<1>1. v \in Value /\ vstack \in Seq(Value) /\ Len(vstack) \in Nat /\ Len(vstack) <= VStackUnits
  BY DEF IInv, StackOK
<1>2. CASE vstack' = vstack /\ lost' = "limit"
  BY <1>1, <1>2
<1>3. CASE Len(vstack) < VStackUnits /\ vstack' = Append(vstack, v) /\ UNCHANGED lost
  <2>1. /\ vstack' \in Seq(Value) /\ Len(vstack') = Len(vstack) + 1
        /\ \A j \in 1 .. Len(vstack) : vstack'[j] = vstack[j]
        /\ vstack'[Len(vstack) + 1] = v
    BY <1>1, <1>3, AppendProperties
  <2>2. QED
    BY <1>1, <1>3, <2>1, SizeAssumption DEF IInv
<1>4. QED
  BY <1>2, <1>3 DEF vstack_push

LEMMA PushStep ==
  ASSUME IInv, NEW v, Good(v), vstack_push(vstack, v), UNCHANGED <<callstack, regs, heap>>
  PROVE  IInv'
<1>1. /\ vstack' \in Seq(Value) /\ Len(vstack') <= VStackUnits /\ Len(vstack') >= Len(vstack)
      /\ lost' \in {"no", "limit", "null", "program"}
      /\ \A j \in 1 .. Len(vstack') : vstack'[j] = v \/ (j \in 1 .. Len(vstack) /\ vstack'[j] = vstack[j])
  BY PushSeq, GoodIsValue
<1>2. \A j \in 1 .. Len(vstack') : Good(vstack'[j])
  BY <1>1 DEF IInv, StackOK
<1>3. Len(vstack') >= fp + Own(cp)
  <2>1. Len(vstack') \in Nat
    BY <1>1
  <2>2. QED
    BY <1>1, <2>1, TopOK
<1>4. QED
  BY <1>1, <1>2, <1>3, TopOK, StackStep DEF regs

LEMMA PoppedSeq ==
  ASSUME IInv, Height > Own(Runs(pc))
  PROVE  /\ vstack # <<>> /\ Len(vstack) \in Nat \ {0} /\ Popped \in Seq(Value)
         /\ Len(Popped) = Len(vstack) - 1 /\ Len(Popped) >= fp + Own(cp)
         /\ \A j \in 1 .. Len(vstack) - 1 : Popped[j] = vstack[j]
         /\ Last(vstack) \in Value /\ Good(Last(vstack))
<1>1. Len(vstack) \in Nat /\ vstack \in Seq(Value) /\ \A j \in 1 .. Len(vstack) : vstack[j] \in Value /\ Good(vstack[j])
  BY DEF IInv, StackOK
<1>2. Len(vstack) - 1 >= fp + Own(cp) /\ Len(vstack) \in Nat \ {0}
  BY <1>1, TopOK DEF Height
<1> DEFINE n == Len(vstack) - 1
<1>3. 1 \in Int /\ n \in Int /\ \A i \in 1 .. n : vstack[i] \in Value
  BY <1>1, <1>2
<1> DEFINE r == SubSeq(vstack, 1, n)
<1>4. /\ r \in Seq(Value) /\ Len(r) = IF 1 <= n THEN n - 1 + 1 ELSE 0
      /\ \A i \in 1 .. n - 1 + 1 : r[i] = vstack[1 + i - 1]
  BY <1>3, SubSeqProperties
<1>5. Popped = r
  BY DEF Popped
<1> HIDE DEF r
<1>6. Len(r) = n
  <2>1. n \in Nat
    BY <1>2
  <2>2. Len(r) = IF 1 <= n THEN n - 1 + 1 ELSE 0
    BY <1>4
  <2> HIDE DEF n
  <2>3. QED
    BY <2>1, <2>2
<1>7. ASSUME NEW i \in 1 .. n PROVE r[i] = vstack[i]
  <2>1. i \in 1 .. n - 1 + 1 /\ 1 + i - 1 = i
    BY <1>2
  <2>2. QED
    BY <1>4, <2>1
<1>8. Last(vstack) = vstack[Len(vstack)]
  BY DEF Last
<1>9. QED
  BY <1>1, <1>2, <1>4, <1>5, <1>6, <1>7, <1>8, EmptySeq

LEMMA PopStep == ASSUME IInv, Pop PROVE IInv'
<1>1. /\ Popped \in Seq(Value) /\ Len(Popped) = Len(vstack) - 1 /\ Len(Popped) >= fp + Own(cp)
      /\ \A j \in 1 .. Len(vstack) - 1 : Popped[j] = vstack[j] /\ Len(vstack) \in Nat
  BY PoppedSeq DEF Pop
<1>2. vstack' = Popped /\ Len(vstack) \in Nat /\ Len(vstack) <= VStackUnits
  BY DEF Pop, IInv, StackOK
<1>3. \A j \in 1 .. Len(vstack') : Good(vstack'[j])
  BY <1>1, <1>2 DEF IInv, StackOK
<1>4. Len(vstack') <= VStackUnits
  BY <1>1, <1>2, SizeAssumption
<1>5. QED
  BY <1>1, <1>2, <1>3, <1>4, TopOK, StackStep DEF Pop, regs, IInv

LEMMA JumpStep == ASSUME IInv, Jump PROVE IInv'
<1>1. PICK p \in 0 .. NPoints : pc' = At(Runs(pc), p)
  BY DEF Jump
<1>2. pc' \in CodePoint /\ Runs(pc') = Runs(pc)
  BY <1>1, TopOK, RunsAt
<1>3. UNCHANGED <<vstack, callstack, fp, cp, env, closure, heap, lost>>
  BY DEF Jump
<1>4. QED
  BY <1>2, <1>3, TopOK, StackStep DEF IInv, StackOK

LEMMA PlainGood == \A v \in Plain : Good(v)
BY DEF Good

LEMMA LocalIn ==
  ASSUME IInv, NEW i \in 0 .. VStackUnits, i < Height
  PROVE  Local(i) \in 1 .. Len(vstack)
BY TopOK, SizeAssumption DEF Local, Height

LEMMA GetLocalStep == ASSUME IInv, NEW i \in 0 .. VStackUnits, GetLocal(i) PROVE IInv'
<1>1. PICK v : v = vstack[Local(i)]
  OBVIOUS
<1>2. Good(v) /\ vstack_push(vstack, v) /\ UNCHANGED <<callstack, regs, heap>>
  BY <1>1, LocalIn DEF GetLocal, IInv, StackOK
<1>3. QED
  BY <1>2, PushStep

LEMMA SetLocalStep == ASSUME IInv, NEW i \in 0 .. VStackUnits, SetLocal(i) PROVE IInv'
<1>1. /\ Popped \in Seq(Value) /\ Len(Popped) = Len(vstack) - 1 /\ Len(Popped) >= fp + Own(cp)
      /\ \A j \in 1 .. Len(vstack) - 1 : Popped[j] = vstack[j]
      /\ Len(vstack) \in Nat \ {0}
      /\ Last(vstack) \in Value /\ Good(Last(vstack))
  BY PoppedSeq DEF SetLocal
<1>2. /\ vstack' = [Popped EXCEPT ![Local(i)] = Last(vstack)]
      /\ UNCHANGED <<callstack, regs, heap, lost>>
  BY DEF SetLocal
<1>3. Local(i) \in 1 .. Len(Popped)
  BY <1>1, TopOK, SizeAssumption DEF SetLocal, Local, Height
<1>4. /\ vstack' \in Seq(Value) /\ Len(vstack') = Len(Popped)
      /\ \A j \in 1 .. Len(Popped) : vstack'[j] = IF j = Local(i) THEN Last(vstack) ELSE Popped[j]
  BY <1>1, <1>2, <1>3, ExceptSeq
<1>5. \A j \in 1 .. Len(vstack') : Good(vstack'[j])
  BY <1>1, <1>4 DEF IInv, StackOK
<1>6. Len(vstack') <= VStackUnits
  BY <1>1, <1>4, SizeAssumption DEF IInv, StackOK
<1>7. QED
  BY <1>1, <1>2, <1>4, <1>5, <1>6, TopOK, StackStep DEF regs, IInv

-----------------------------------------------------------------------------
(* Cells: the addresses that the compiler names, read and written. *)

LEMMA CapturedRef ==
  ASSUME IInv, NEW i \in Nat, i < EnvCells[cp]
  PROVE  CellRef(get_captured_cell_ptr(i))
<1>1. EnvCells[cp] \in 0 .. Base /\ EnvOK(env, cp)
  BY TopOK, ProgramAssumption
<1>2. CASE env = NULL
  <2>1. env + i \in 0 .. Base - 1 /\ fails > 0
    BY <1>1, <1>2, Places DEF EnvOK, NULL
  <2>2. QED
    BY <2>1 DEF CellRef, get_captured_cell_ptr
<1>3. CASE env # NULL
  <2>1. i \in 0 .. EnvCells[cp] - 1
    BY <1>1, Places
  <2>2. QED
    BY <1>1, <1>3, <2>1 DEF EnvOK, CellRef, get_captured_cell_ptr
<1>4. QED
  BY <1>2, <1>3

LEMMA UpvalueRef ==
  ASSUME IInv, NEW i \in Upvalues
  PROVE  CellRef(get_upvalue_cell_ptr(i)) /\ cp # Main
<1>1. Runs(pc) = cp /\ cp # Main /\ cp \in Function
  BY TopOK DEF Upvalues, Code
<1>2. Captures[cp] \in Seq([parent : BOOLEAN, index : Nat])
  BY <1>1, ProgramAssumption
<1>3. PICK k \in 1 .. Len(Captures[cp]) : i = k - 1
  BY <1>1, <1>2 DEF Upvalues
<1>4. Captures[cp] # <<>>
  BY <1>3
<1>5. PICK c \in 0 .. End - 1 : arena[closure + k] = Pointer(c) /\ CellRef(c)
  BY <1>1, <1>3, <1>4, TopOK DEF ClosureAt
<1>6. closure + 1 + i = closure + k
  BY <1>1, <1>2, <1>3, TopOK, Places
<1>7. get_upvalue_cell_ptr(i) = c
  BY <1>5, <1>6 DEF get_upvalue_cell_ptr, Pointer
<1>8. QED
  BY <1>1, <1>5, <1>7

LEMMA ReadStep ==
  ASSUME IInv, NEW a, CellRef(a), ReadCell(a)
  PROVE  IInv'
<1>1. CASE a \in Arena /\ vstack_push(vstack, arena[a]) /\ UNCHANGED <<callstack, regs, heap>>
  <2>1. arena[a] \in Value
    BY <1>1, Places DEF CellRef, Cell
  <2>2. PICK v : v = arena[a]
    OBVIOUS
  <2>3. Good(v)
    BY <1>1, <2>1, <2>2 DEF IInv, HeapOK
  <2>4. QED
    BY <1>1, <2>2, <2>3, PushStep
<1>2. CASE Lose("null")
  BY <1>2, LoseStep
<1>3. QED
  BY <1>1, <1>2 DEF ReadCell

LEMMA WriteStep ==
  ASSUME IInv, NEW a, CellRef(a), WriteCell(a)
  PROVE  IInv'
<1>1. CASE Lose("null")
  BY <1>1, LoseStep
<1>2. CASE /\ a \in Arena /\ vstack' = Popped
           /\ arena' = [arena EXCEPT ![a] = Last(vstack)]
           /\ UNCHANGED <<callstack, regs, closure_ptr, fails, lost>>
  <2>1. /\ Popped \in Seq(Value) /\ Len(Popped) = Len(vstack) - 1 /\ Len(Popped) >= fp + Own(cp)
        /\ \A j \in 1 .. Len(vstack) - 1 : Popped[j] = vstack[j]
        /\ Len(vstack) \in Nat \ {0}
        /\ Last(vstack) \in Value /\ Good(Last(vstack))
    BY PoppedSeq DEF WriteCell
  <2>2. Cell(a)
    BY <1>2, Places DEF CellRef
  <2>3. HeapOK /\ arena \in [Arena -> Word] /\ closure_ptr \in Nat /\ fails \in Nat
    BY HeapTypes DEF IInv, HeapOK
  <2>4. \A b \in Arena : arena'[b] = IF b = a THEN Last(vstack) ELSE arena[b]
    BY <1>2, <2>3
  <2>5. HeapGrows
    BY <1>2, <2>1, <2>2, <2>3, <2>4 DEF HeapGrows, Cell
  <2>6. ASSUME NEW b \in Arena, arena'[b] \in Value PROVE Good(arena[b])'
    <3>1. PICK w : w = arena'[b]
      OBVIOUS
    <3>2. Good(w)
      BY <2>1, <2>4, <2>6, <3>1 DEF IInv, HeapOK
    <3>3. Good(w)'
      BY <2>3, <2>5, <3>2, GrowGood
    <3>4. QED
      BY <3>1, <3>3 DEF Good
  <2>7. HeapOK'
    <3>1. arena' \in [Arena -> Word]
      BY <1>2, <2>1, <2>3, Kinds
    <3>2. \A b \in Arena : b >= closure_ptr' => arena'[b] = Nil
      BY <1>2, <2>2, <2>3, <2>4, Places DEF HeapOK, Cell
    <3>3. QED
      BY <1>2, <2>3, <2>6, <3>1, <3>2 DEF HeapOK
  <2>8. ASSUME NEW j \in 1 .. Len(vstack') PROVE Good(vstack[j])'
    <3>1. PICK w : w = vstack'[j]
      OBVIOUS
    <3>2. Good(w)
      BY <1>2, <2>1, <3>1 DEF IInv, StackOK
    <3>3. Good(w)'
      BY <2>3, <2>5, <3>2, GrowGood
    <3>4. QED
      BY <3>1, <3>3 DEF Good
  <2>9. Len(vstack') <= VStackUnits
    BY <1>2, <2>1, SizeAssumption DEF IInv, StackOK
  <2>10. QED
    BY <1>2, <2>1, <2>5, <2>7, <2>8, <2>9, TopOK, HeapStep DEF regs, IInv
<1>3. QED
  BY <1>1, <1>2 DEF WriteCell

LEMMA CellSteps ==
  ASSUME IInv, NEW i \in 0 .. VStackUnits,
         GetCaptured(i) \/ SetCaptured(i) \/ GetUpval(i) \/ SetUpval(i)
  PROVE  IInv'
<1>1. CASE GetCaptured(i) \/ SetCaptured(i)
  <2>1. CellRef(get_captured_cell_ptr(i))
    BY <1>1, TopOK, CapturedRef, SizeAssumption DEF GetCaptured, SetCaptured
  <2>2. PICK a : a = get_captured_cell_ptr(i)
    OBVIOUS
  <2>3. CellRef(a) /\ (ReadCell(a) \/ WriteCell(a))
    BY <1>1, <2>1, <2>2 DEF GetCaptured, SetCaptured
  <2>4. QED
    BY <2>3, ReadStep, WriteStep
<1>2. CASE GetUpval(i) \/ SetUpval(i)
  <2>1. CellRef(get_upvalue_cell_ptr(i))
    BY <1>2, UpvalueRef DEF GetUpval, SetUpval
  <2>2. PICK a : a = get_upvalue_cell_ptr(i)
    OBVIOUS
  <2>3. CellRef(a) /\ (ReadCell(a) \/ WriteCell(a))
    BY <1>2, <2>1, <2>2 DEF GetUpval, SetUpval
  <2>4. QED
    BY <2>3, ReadStep, WriteStep
<1>3. QED
  BY <1>1, <1>2


-----------------------------------------------------------------------------
(* Closures. *)

LEMMA StaticClosureStep ==
  ASSUME IInv, NEW f \in Function, StaticClosure(f)
  PROVE  IInv'
<1>1. ClosureAt(f, f)
  BY DEF StaticClosure, ClosureAt
<1>2. Good(Fun(f))
  BY <1>1, Places DEF Good
<1>3. PICK v : v = Fun(f)
  OBVIOUS
<1>4. QED
  BY <1>2, <1>3, PushStep DEF StaticClosure

(* What the copy loop stores: pointers to cells of the enclosing activation. *)
LEMMA CellsPoint ==
  ASSUME IInv, NEW f \in Function, Encl[f] = Runs(pc), NEW k \in 1 .. Len(Captures[f])
  PROVE  \E c \in 0 .. End - 1 : Cells(f)[k] = Pointer(c) /\ CellRef(c)
<1>1. PICK d : d = Captures[f][k]
  OBVIOUS
<1>2. Captures[f] \in Seq([parent : BOOLEAN, index : Nat])
  BY ProgramAssumption
<1>3. k \in DOMAIN Captures[f]
  BY <1>2
<1>4. d \in [parent : BOOLEAN, index : Nat]
  BY <1>1, <1>2, ElementOfSeq
<1>5. d.index \in Nat /\ d.parent \in BOOLEAN
  BY <1>4
<1>6. IF d.parent THEN Encl[f] # Main /\ d.index + 1 \in DOMAIN Captures[Encl[f]]
                  ELSE d.index \in 0 .. EnvCells[Encl[f]] - 1
  BY <1>1, <1>3, ProgramAssumption
<1>7. Cells(f)[k] = Pointer(IF d.parent THEN get_upvalue_cell_ptr(d.index)
                                        ELSE get_captured_cell_ptr(d.index))
  BY <1>1, <1>3 DEF Cells
<1>8. \A c : CellRef(c) => c \in 0 .. End - 1
  BY Places DEF CellRef, Cell
<1>9. CASE d.parent
  <2>1. d.index + 1 \in DOMAIN Captures[Runs(pc)] /\ Runs(pc) # Main
    BY <1>6, <1>9
  <2>2. d.index \in Upvalues
    <3>1. d.index = (d.index + 1) - 1
      BY <1>5
    <3>2. QED
      BY <2>1, <3>1 DEF Upvalues
  <2>3. CellRef(get_upvalue_cell_ptr(d.index))
    BY <2>2, UpvalueRef
  <2>4. Cells(f)[k] = Pointer(get_upvalue_cell_ptr(d.index))
    BY <1>7, <1>9
  <2>5. QED
    BY <1>8, <2>3, <2>4
<1>10. CASE ~d.parent
  <2>1. d.index < EnvCells[cp]
    <3>1. EnvCells[cp] \in Int /\ d.index \in 0 .. EnvCells[cp] - 1
      BY <1>6, <1>10, TopOK, ProgramAssumption, Places
    <3>2. QED
      BY <1>5, <3>1
  <2>2. CellRef(get_captured_cell_ptr(d.index))
    BY <1>5, <2>1, CapturedRef
  <2>3. Cells(f)[k] = Pointer(get_captured_cell_ptr(d.index))
    BY <1>7, <1>10
  <2>4. QED
    BY <1>8, <2>2, <2>3
<1>11. QED
  BY <1>9, <1>10

LEMMA HeaderIs == \A f : Header(f)[2] = f
BY DEF Header

(* A closure that the arena has room for: the record and its pointers.      *)
LEMMA MakeClosure ==
  ASSUME IInv, NEW f \in Function, Encl[f] = Runs(pc), NEW n \in Nat, n = Len(Captures[f]) + 1,
         HasRoom(n), fails' = fails, closure_ptr' = closure_ptr + n,
         arena' = [a \in Arena |->
                     IF a = closure_ptr THEN Header(f)
                     ELSE IF a \in closure_ptr + 1 .. closure_ptr + n - 1
                            THEN Cells(f)[a - closure_ptr] ELSE arena[a]]
  PROVE  /\ HeapGrows /\ HeapOK' /\ closure_ptr \in 1 .. End - 1
         /\ \A a : a = closure_ptr => Good(Fun(a))'
<1>1. /\ HeapOK /\ closure_ptr \in Nat /\ fails \in Nat /\ closure_ptr >= Base
      /\ closure_ptr + n <= End /\ n >= 1 /\ Len(Captures[f]) \in Nat
      /\ arena \in [Arena -> Word]
  BY HeapTypes, Places, ProgramAssumption DEF IInv, HeapOK, HasRoom
<1>2. HeapGrows
  <2>1. ASSUME NEW a \in Arena, a < closure_ptr PROVE arena'[a] = arena[a]
    BY <1>1, <2>1, Places
  <2>2. QED
    BY <1>1, <2>1 DEF HeapGrows
<1>3. ASSUME NEW k \in 1 .. Len(Captures[f])
      PROVE  /\ closure_ptr + k \in Arena /\ closure_ptr + k < closure_ptr + n
             /\ \E c \in 0 .. End - 1 : arena'[closure_ptr + k] = Pointer(c) /\ CellRef(c)
  <2>1. PICK c \in 0 .. End - 1 : Cells(f)[k] = Pointer(c) /\ CellRef(c)
    BY CellsPoint
  <2>2. closure_ptr + k \in Arena /\ closure_ptr + k < closure_ptr + n
    BY <1>1, Places DEF Arena
  <2>3. PICK a \in Arena : a = closure_ptr + k
    BY <2>2
  <2>4. a # closure_ptr /\ a \in closure_ptr + 1 .. closure_ptr + n - 1 /\ a - closure_ptr = k
    BY <1>1, <2>3
  <2>5. arena'[a] = Cells(f)[a - closure_ptr]
    BY <2>4
  <2>6. QED
    BY <2>1, <2>2, <2>3, <2>4, <2>5
<1>4. closure_ptr \in Arena /\ arena'[closure_ptr] = Header(f) /\ closure_ptr \in 1 .. End - 1
  BY <1>1, Places DEF Arena
<1>5. ASSUME NEW a \in Arena
      PROVE  \/ a = closure_ptr
             \/ \E k \in 1 .. Len(Captures[f]) : a = closure_ptr + k
             \/ a # closure_ptr /\ arena'[a] = arena[a] /\ (a < closure_ptr \/ a >= closure_ptr + n)
  <2>1. CASE a \in closure_ptr + 1 .. closure_ptr + n - 1
    <3>1. a - closure_ptr \in 1 .. Len(Captures[f]) /\ a = closure_ptr + (a - closure_ptr)
      BY <1>1, <2>1, Places
    <3>2. QED
      BY <3>1
  <2>2. CASE a # closure_ptr /\ a \notin closure_ptr + 1 .. closure_ptr + n - 1
    BY <1>1, <2>2, Places
  <2>3. QED
    BY <2>1, <2>2
<1>6. arena' \in [Arena -> Word]
  <2>1. ASSUME NEW a \in Arena PROVE arena'[a] \in Word
    <3>1. Header(f) \in Word /\ \A c \in 0 .. End - 1 : Pointer(c) \in Word
      BY DEF Word
    <3>2. QED
      BY <1>1, <1>3, <1>4, <1>5, <3>1
  <2>2. arena' = [a \in Arena |-> arena'[a]]
    OBVIOUS
  <2>3. QED
    BY <2>1, <2>2
<1>7. ASSUME NEW a \in Arena, arena'[a] \in Value PROVE Good(arena[a])'
  <2>1. a # closure_ptr /\ arena'[a] = arena[a]
    BY <1>3, <1>4, <1>5, <1>7, Kinds
  <2>2. PICK w : w = arena[a]
    OBVIOUS
  <2>3. Good(w)
    BY <1>1, <1>7, <2>1, <2>2 DEF HeapOK
  <2>4. Good(w)'
    BY <1>1, <1>2, <2>3, GrowGood
  <2>5. QED
    BY <2>1, <2>2, <2>4 DEF Good
<1>8. ASSUME NEW a \in Arena, a >= closure_ptr' PROVE arena'[a] = Nil
  <2>1. a \in Nat /\ a >= closure_ptr + n
    BY <1>8, Places
  <2>2. a # closure_ptr /\ ~(\E k \in 1 .. Len(Captures[f]) : a = closure_ptr + k) /\ a >= closure_ptr
    BY <1>1, <2>1
  <2>3. QED
    BY <1>1, <1>5, <2>2 DEF HeapOK
<1>9. HeapOK'
  <2>1. closure_ptr' \in Base .. End
    BY <1>1, Places
  <2>2. QED
    BY <1>1, <1>6, <1>7, <1>8, <2>1 DEF HeapOK
<1>10. PICK a \in Arena : a = closure_ptr
  BY <1>4
<1>11. ClosureAt(a, f)'
  <2>1. a < closure_ptr' /\ arena'[a] = Header(f)
    BY <1>1, <1>4, <1>10
  <2>2. ASSUME NEW k \in 1 .. Len(Captures[f])
        PROVE  /\ a + k \in Arena /\ a + k < closure_ptr'
               /\ \E c \in 0 .. End - 1 : arena'[a + k] = Pointer(c) /\ CellRef(c)'
    <3>1. PICK c \in 0 .. End - 1 : arena'[a + k] = Pointer(c) /\ CellRef(c)
      BY <1>3, <1>10
    <3>2. CellRef(c)'
      BY <1>1, <1>2, <3>1, GrowRef
    <3>3. QED
      BY <1>3, <1>10, <3>1, <3>2
  <2>3. QED
    BY <2>1, <2>2 DEF ClosureAt
<1>12. Good(Fun(a))'
  BY <1>4, <1>10, <1>11 DEF Good
<1>13. QED
  BY <1>2, <1>4, <1>9, <1>10, <1>12


LEMMA NewClosureStep ==
  ASSUME IInv, NEW f \in Function, NewClosure(f)
  PROVE  IInv'
<1> DEFINE n == Len(Captures[f]) + 1
<1>1. Encl[f] = Runs(pc) /\ n > 1 /\ fails < MaxFails
  BY DEF NewClosure
<1>2. n \in Nat
  BY ProgramAssumption
<1>3. CASE /\ HasRoom(n)
           /\ arena' = [a \in Arena |->
                          IF a = closure_ptr THEN Header(f)
                          ELSE IF a \in closure_ptr + 1 .. closure_ptr + n - 1
                                 THEN Cells(f)[a - closure_ptr] ELSE arena[a]]
           /\ closure_ptr' = closure_ptr + n
           /\ vstack_push(vstack, Fun(closure_ptr))
           /\ UNCHANGED <<callstack, regs, fails>>
  <2>1. /\ HeapGrows /\ HeapOK' /\ closure_ptr \in 1 .. End - 1
        /\ \A a : a = closure_ptr => Good(Fun(a))'
    <3> HIDE DEF n
    <3>1. n = Len(Captures[f]) + 1
      BY DEF n
    <3>2. fails' = fails
      BY <1>3
    <3>3. QED
      BY <1>1, <1>2, <1>3, <3>1, <3>2, MakeClosure
  <2>2. PICK v, a : a = closure_ptr /\ v = Fun(a)
    OBVIOUS
  <2>3. v \in Value /\ vstack_push(vstack, v)
    BY <1>3, <2>1, <2>2, Kinds
  <2>4. /\ vstack' \in Seq(Value) /\ Len(vstack') <= VStackUnits /\ Len(vstack') >= Len(vstack)
        /\ lost' \in {"no", "limit", "null", "program"}
        /\ \A j \in 1 .. Len(vstack') : vstack'[j] = v \/ (j \in 1 .. Len(vstack) /\ vstack'[j] = vstack[j])
    BY <2>3, PushSeq
  <2>5. ASSUME NEW j \in 1 .. Len(vstack') PROVE Good(vstack[j])'
    <3>1. PICK w : w = vstack'[j]
      OBVIOUS
    <3>2. CASE w = Fun(a)
      <4>1. Good(w)'
        BY <2>1, <2>2, <3>2
      <4>2. QED
        BY <3>1, <4>1 DEF Good
    <3>3. CASE j \in 1 .. Len(vstack) /\ w = vstack[j]
      <4>1. Good(w) /\ HeapOK
        BY <3>3 DEF IInv, StackOK
      <4>2. Good(w)'
        BY <2>1, <4>1, GrowGood
      <4>3. QED
        BY <3>1, <4>2 DEF Good
    <3>4. QED
      BY <2>2, <2>4, <3>1, <3>2, <3>3
  <2>6. Len(vstack') >= fp + Own(cp)
    <3>1. Len(vstack') \in Nat
      BY <2>4
    <3>2. QED
      BY <2>4, <3>1, TopOK
  <2>7. UNCHANGED <<callstack, fp, cp, env, closure>> /\ pc' \in CodePoint /\ Runs(pc') = Runs(pc)
    BY <1>3, TopOK DEF regs
  <2>8. QED
    BY <2>1, <2>4, <2>5, <2>6, <2>7, HeapStep
<1>4. CASE /\ fails' = fails + 1 /\ lost' = "null"
           /\ UNCHANGED <<vstack, callstack, regs, closure_ptr, arena>>
  <2>1. HeapGrows
    BY <1>4, HeapTypes DEF HeapGrows, IInv
  <2>2. fails' \in 0 .. MaxFails /\ HeapOK
    BY <1>1, <1>4, HeapTypes, SizeAssumption DEF IInv, HeapOK
  <2>3. ASSUME NEW a \in Arena, arena'[a] \in Value PROVE Good(arena[a])'
    <3>1. PICK w : w = arena'[a]
      OBVIOUS
    <3>2. Good(w)'
      BY <1>4, <2>1, <2>2, <2>3, <3>1, GrowGood DEF HeapOK
    <3>3. QED
      BY <3>1, <3>2 DEF Good
  <2>4. HeapOK'
    BY <1>4, <2>2, <2>3 DEF HeapOK
  <2>5. ASSUME NEW j \in 1 .. Len(vstack') PROVE Good(vstack[j])'
    <3>1. PICK w : w = vstack'[j]
      OBVIOUS
    <3>2. Good(w)'
      BY <1>4, <2>1, <2>2, <3>1, GrowGood DEF IInv, StackOK
    <3>3. QED
      BY <3>1, <3>2 DEF Good
  <2>6. QED
    BY <1>4, <2>1, <2>4, <2>5, TopOK, HeapStep DEF regs, IInv, StackOK
<1>5. QED
  BY <1>3, <1>4 DEF NewClosure

-----------------------------------------------------------------------------
(* A call: the caller's registers are saved above the older frames', and the *)
(* callee's frame begins where its function value lies.                     *)

LEMMA CalleeIs ==
  ASSUME IInv, NEW n \in 0 .. VStackUnits, Height >= Own(Runs(pc)) + n + 1, Suits(n)
  PROVE  /\ Callee(n)[2] \in 1 .. End - 1 /\ Record(Callee(n)[2]) \in Function
         /\ ClosureAt(Callee(n)[2], Record(Callee(n)[2]))
         /\ n = Params[Record(Callee(n)[2])]
<1>1. Len(vstack) - n \in 1 .. Len(vstack)
  BY TopOK DEF Height
<1>2. Good(Callee(n)) /\ Callee(n)[1] = "fun"
  BY <1>1 DEF IInv, StackOK, Callee, Suits
<1>3. PICK a \in 1 .. End - 1, f \in Function : Callee(n) = Fun(a) /\ ClosureAt(a, f)
  BY <1>2, Kinds DEF Good
<1>4. Callee(n)[2] = a
  BY <1>3 DEF Fun
<1>5. Record(a) = f
  <2>1. CASE a = f
    BY <2>1, Places DEF Record
  <2>2. CASE a \in Arena /\ arena[a] = Header(f)
    BY <2>2, HeaderIs DEF Record
  <2>3. QED
    BY <1>3, <2>1, <2>2 DEF ClosureAt
<1>6. QED
  BY <1>3, <1>4, <1>5 DEF Suits

LEMMA NewEnvOK ==
  ASSUME IInv, NEW f \in Function, NewEnv(EnvCells[f]), fails < MaxFails
  PROVE  HeapGrows /\ HeapOK' /\ (\A e : e = env' => EnvOK(e, f)')
<1>1. /\ HeapOK /\ closure_ptr \in Base .. End /\ closure_ptr \in Nat /\ fails \in Nat
      /\ fails \in 0 .. MaxFails /\ MaxFails \in Nat
  BY HeapTypes, SizeAssumption DEF IInv, HeapOK
<1>2. PICK n : n = EnvCells[f]
  OBVIOUS
<1>3. n \in Nat /\ NewEnv(n) /\ n \in 0 .. Base
  BY <1>2, Places, ProgramAssumption
<1>4. /\ arena' = arena /\ closure_ptr' \in Base .. End /\ closure_ptr' >= closure_ptr
      /\ fails' \in 0 .. MaxFails /\ fails' >= fails
  BY <1>1, <1>3, Places DEF NewEnv, heap, HasRoom
<1>5. HeapGrows
  BY <1>1, <1>4, Places DEF HeapGrows
<1>6. ASSUME NEW a \in Arena, arena'[a] \in Value PROVE Good(arena[a])'
  <2>1. PICK w : w = arena'[a]
    OBVIOUS
  <2>2. Good(w)'
    BY <1>1, <1>4, <1>5, <1>6, <2>1, GrowGood DEF HeapOK
  <2>3. QED
    BY <2>1, <2>2 DEF Good
<1>7. HeapOK'
  <2>1. \A a \in Arena : a >= closure_ptr' => arena'[a] = Nil
    BY <1>1, <1>4, Places DEF HeapOK
  <2>2. arena' \in [Arena -> Word]
    BY <1>1, <1>4 DEF HeapOK
  <2>3. QED
    BY <1>4, <1>6, <2>1, <2>2 DEF HeapOK
<1>8. ASSUME NEW e, e = env' PROVE EnvOK(e, f)'
  <2>1. CASE n = 0 /\ env' = NULL
    BY <1>2, <1>8, <2>1 DEF EnvOK, NULL
  <2>2. CASE n > 0 /\ HasRoom(n) /\ env' = closure_ptr /\ closure_ptr' = closure_ptr + n
    <3>1. e \in Arena /\ e # NULL
      BY <1>1, <1>3, <1>8, <2>2, Places DEF HasRoom, Arena
    <3>2. ASSUME NEW k \in 0 .. n - 1 PROVE Cell(e + k)'
      <4>1. e + k \in Arena /\ e + k < closure_ptr' /\ e + k >= closure_ptr
        BY <1>1, <1>3, <1>8, <2>2, Places DEF HasRoom, Arena
      <4>2. arena'[e + k] \in Value
        BY <1>1, <1>4, <4>1, Kinds DEF HeapOK
      <4>3. QED
        BY <4>1, <4>2 DEF Cell
    <3>3. QED
      BY <1>2, <2>2, <3>1, <3>2 DEF EnvOK
  <2>3. CASE n > 0 /\ env' = NULL /\ fails' = fails + 1
    BY <1>1, <1>2, <1>3, <1>8, <2>3 DEF EnvOK, NULL
  <2>4. QED
    BY <1>3, <2>1, <2>2, <2>3 DEF NewEnv
<1>9. QED
  BY <1>5, <1>7, <1>8


(* The frames that a call leaves below it, and those that a return keeps. *)
LEMMA KeptFrame ==
  ASSUME HeapOK, HeapGrows, NEW i \in Nat, FrameOK(i),
         \A k \in Five : Reg(i, k)' = Reg(i, k)
  PROVE  FrameOK(i)' /\ Reg(i, 2)' = Reg(i, 2) /\ Reg(i, 3)' = Reg(i, 3)
<1>1. PICK p, b, f, e, u : p = Reg(i, 1) /\ b = Reg(i, 2) /\ f = Reg(i, 3) /\ e = Reg(i, 4) /\ u = Reg(i, 5)
  OBVIOUS
<1>2. RegsOK(p, b, f, e, u)'
  BY <1>1, GrowRegs DEF FrameOK
<1>3. Reg(i, 1)' = p /\ Reg(i, 2)' = b /\ Reg(i, 3)' = f /\ Reg(i, 4)' = e /\ Reg(i, 5)' = u
  BY <1>1 DEF Five
<1>4. QED
  BY <1>1, <1>2, <1>3 DEF FrameOK

LEMMA FrameTypes ==
  ASSUME IInv, NEW i \in Frames
  PROVE  /\ FrameOK(i) /\ Nested(i) /\ i \in Nat /\ Reg(i, 1) \in Nat /\ Reg(i, 2) \in Nat
         /\ Reg(i, 3) \in Code /\ Reg(i, 3) \in Nat /\ Reg(i, 4) \in Nat /\ Reg(i, 5) \in Nat
         /\ Own(Reg(i, 3)) \in Nat
<1>1. FrameOK(i) /\ Nested(i) /\ i \in Nat
  BY DEF IInv, FramesOK, Frames
<1>2. Reg(i, 1) \in Nat
  BY <1>1, CodePointRuns DEF FrameOK, RegsOK
<1>3. Reg(i, 2) \in Nat /\ Reg(i, 3) \in Code
  BY <1>1, SizeAssumption DEF FrameOK, RegsOK
<1>4. Reg(i, 3) \in Nat
  BY <1>3, Places DEF Code, Main
<1>5. Reg(i, 4) \in Nat
  BY <1>1, Places DEF FrameOK, RegsOK, EnvOK, NULL
<1>6. Reg(i, 5) \in Nat
  <2>1. Reg(i, 5) = NULL \/ Reg(i, 5) \in 1 .. End - 1
    BY <1>1 DEF FrameOK, RegsOK
  <2>2. QED
    BY <2>1, Places DEF NULL
<1>7. QED
  BY <1>1, <1>2, <1>3, <1>4, <1>5, <1>6, OwnType

LEMMA CallStep ==
  ASSUME IInv, NEW n \in 0 .. VStackUnits, Call(n)
  PROVE  IInv'
<1>1. /\ Height >= Own(Runs(pc)) + n + 1 /\ fails < MaxFails /\ Suits(n)
      /\ Len(callstack) + 5 <= CallWords /\ callstack' = callstack \o Saved
      /\ UNCHANGED <<vstack, lost>>
  BY DEF Call
<1>2. PICK a, f : a = Callee(n)[2] /\ f = Record(a)
  OBVIOUS
<1>3. a \in 1 .. End - 1 /\ f \in Function /\ ClosureAt(a, f) /\ n = Params[f]
  BY <1>1, <1>2, CalleeIs
<1>4. /\ fp' = Frame(n) /\ closure' = a /\ pc' = At(f, 0) /\ cp' = f
      /\ NewEnv(EnvCells[f])
  BY <1>2 DEF Call
<1>5. /\ HeapGrows /\ HeapOK' /\ HeapOK
      /\ \A e : e = env' => EnvOK(e, f)'
  BY <1>1, <1>3, <1>4, NewEnvOK DEF IInv
<1>6. callstack \in Seq(Nat) /\ Len(callstack) = 5 * Depth /\ Depth \in Nat /\ Depth + 1 \in Frames
  BY TopRegs DEF IInv, FramesOK
<1>7. Saved \in Seq(Nat) /\ Len(Saved) = 5
  BY <1>6, FrameTypes, TopRegs, SavedSeq
<1>8. /\ callstack' \in Seq(Nat) /\ Len(callstack') = Len(callstack) + 5
      /\ Depth' = Depth + 1 /\ Len(callstack') = 5 * Depth'
      /\ \A i \in 1 .. Depth + 1 : \A k \in Five : Reg(i, k)' = Reg(i, k)
  BY <1>1, <1>6, <1>7, CallRegs
<1> PICK t : t = Depth + 2
  OBVIOUS
<1>9. /\ Depth' \in Nat /\ Depth' + 1 = t
      /\ Reg(t, 1)' = pc' /\ Reg(t, 2)' = fp' /\ Reg(t, 3)' = cp'
      /\ Reg(t, 4)' = env' /\ Reg(t, 5)' = closure'
      /\ Limit(t)' = Len(vstack')
  <2>1. Depth' \in Nat /\ Depth' + 1 = t /\ ~(t <= Depth')
    BY <1>6, <1>8
  <2>2. QED
    BY <2>1 DEF Reg, Saved, Limit
<1>10. fp' = Len(vstack) - n - 1 /\ fp' \in 0 .. VStackUnits /\ fp' >= fp + Own(cp) /\ fp' + Own(f) = Len(vstack)
  <2>1. Own(f) = n + 1
    BY <1>3, Places DEF Own
  <2>2. QED
    BY <1>1, <1>4, <2>1, TopOK, SizeAssumption DEF Frame, Height, IInv, StackOK
<1>11. FrameOK(t)' /\ Nested(t)'
  <2>1. PICK p, b, e, u : p = pc' /\ b = fp' /\ e = env' /\ u = closure'
    OBVIOUS
  <2>2. p \in CodePoint /\ Runs(p) = f /\ f \in Code /\ f # Main
    <3>1. 0 \in 0 .. NPoints /\ f \in Code
      BY <1>3, SizeAssumption, Places
    <3>2. QED
      BY <1>3, <1>4, <2>1, <3>1, RunsAt, Places
  <2>3. ClosureAt(u, f)'
    <3>1. ClosureAt(a, f)'
      BY <1>3, <1>5, GrowClosure
    <3>2. QED
      BY <1>4, <2>1, <3>1
  <2>4. RegsOK(p, b, f, e, u)'
    BY <1>3, <1>4, <1>5, <1>10, <2>1, <2>2, <2>3 DEF RegsOK
  <2>5. FrameOK(t)'
    BY <1>4, <1>9, <2>1, <2>4 DEF FrameOK
  <2>6. Nested(t)'
    <3>1. Nested(t)' <=> fp' + Own(f) <= Len(vstack')
      BY <1>4, <1>9 DEF Nested, Own
    <3>2. QED
      BY <1>1, <1>10, <3>1, TopOK
  <2>7. QED
    BY <2>5, <2>6
<1>12. ASSUME NEW i \in 1 .. Depth + 1 PROVE FrameOK(i)' /\ Nested(i)'
  <2>1. FrameOK(i) /\ Nested(i) /\ i \in Nat /\ Reg(i, 2) \in Nat /\ Own(Reg(i, 3)) \in Nat
    BY FrameTypes DEF Frames
  <2>2. FrameOK(i)' /\ Reg(i, 2)' = Reg(i, 2) /\ Reg(i, 3)' = Reg(i, 3)
    BY <1>5, <1>8, <2>1, KeptFrame
  <2>3. Limit(i)' = Reg(i + 1, 2)'
    BY <1>6, <1>8 DEF Limit
  <2>4. CASE i <= Depth
    <3>1. Reg(i + 1, 2)' = Reg(i + 1, 2)
      BY <1>6, <1>8, <2>4 DEF Five
    <3>2. Limit(i) = Reg(i + 1, 2)
      BY <2>4 DEF Limit
    <3>3. QED
      BY <2>1, <2>2, <2>3, <3>1, <3>2 DEF Nested, Own
  <2>5. CASE i = Depth + 1
    <3>1. i + 1 = t
      BY <1>6, <2>5
    <3>2. Limit(i)' = fp'
      BY <1>9, <2>3, <3>1
    <3>3. Reg(i, 2) = fp /\ Reg(i, 3) = cp
      BY <1>6, <2>5, TopRegs
    <3>4. QED
      BY <1>10, <2>2, <3>2, <3>3 DEF Nested, Own
  <2>6. QED
    BY <1>6, <2>2, <2>4, <2>5
<1>13. FramesOK'
  <2>1. \A i \in Frames' : i \in 1 .. Depth + 1 \/ i = t
    BY <1>6, <1>8 DEF Frames
  <2>2. Reg(1, 2)' = 0 /\ Reg(1, 3)' = Main
    <3>1. 1 \in 1 .. Depth + 1
      BY <1>6
    <3>2. Reg(1, 2)' = Reg(1, 2) /\ Reg(1, 3)' = Reg(1, 3)
      BY <1>8, <3>1 DEF Five
    <3>3. QED
      BY <3>2 DEF IInv, FramesOK
  <2>3. QED
    BY <1>1, <1>8, <1>11, <1>12, <2>1, <2>2 DEF FramesOK
<1>14. ASSUME NEW j \in 1 .. Len(vstack') PROVE Good(vstack[j])'
  <2>1. PICK w : w = vstack'[j]
    OBVIOUS
  <2>2. Good(w)'
    BY <1>1, <1>5, <2>1, GrowGood DEF IInv, StackOK
  <2>3. QED
    BY <2>1, <2>2 DEF Good
<1>15. StackOK'
  BY <1>1, <1>14 DEF IInv, StackOK
<1>16. QED
  BY <1>1, <1>5, <1>13, <1>15 DEF IInv

-----------------------------------------------------------------------------
(* A return: the result takes the place of the frame, and the five words    *)
(* are the registers of the frame below.                                    *)

LEMMA ReturnStack ==
  ASSUME IInv, Height > Own(Runs(pc))
  PROVE  /\ Append(Kept, Last(vstack)) \in Seq(Value) /\ Len(Append(Kept, Last(vstack))) = fp + 1
         /\ fp + 1 <= VStackUnits
         /\ \A j \in 1 .. fp + 1 : Append(Kept, Last(vstack))[j] =
              IF j <= fp THEN vstack[j] ELSE Last(vstack)
         /\ Last(vstack) \in Value /\ Good(Last(vstack)) /\ fp < Len(vstack)
<1>1. /\ Len(vstack) \in Nat /\ Len(vstack) - 1 >= fp + Own(cp) /\ fp \in Nat /\ Own(cp) \in Nat
      /\ Last(vstack) \in Value /\ Good(Last(vstack)) /\ vstack \in Seq(Value) /\ Len(vstack) <= VStackUnits
  <2>1. Len(Popped) = Len(vstack) - 1 /\ Len(Popped) >= fp + Own(cp) /\ Len(vstack) \in Nat
        /\ Last(vstack) \in Value /\ Good(Last(vstack))
    BY PoppedSeq
  <2>2. QED
    BY <2>1, TopOK DEF IInv, StackOK
<1>2. fp + 1 <= VStackUnits /\ fp < Len(vstack)
  BY <1>1, SizeAssumption
<1>3. Kept \in Seq(Value) /\ Len(Kept) = fp /\ \A j \in 1 .. fp : Kept[j] = vstack[j]
  <2>1. 1 \in Int /\ fp \in Int /\ \A j \in 1 .. fp : vstack[j] \in Value
    BY <1>1, <1>2
  <2>2. /\ Kept \in Seq(Value) /\ Len(Kept) = IF 1 <= fp THEN fp - 1 + 1 ELSE 0
        /\ \A j \in 1 .. fp - 1 + 1 : Kept[j] = vstack[1 + j - 1]
    BY <2>1, SubSeqProperties DEF Kept
  <2>3. Len(Kept) = fp
    BY <1>1, <2>2
  <2>4. ASSUME NEW j \in 1 .. fp PROVE Kept[j] = vstack[j]
    <3>1. j \in 1 .. fp - 1 + 1 /\ 1 + j - 1 = j
      BY <1>1
    <3>2. QED
      BY <2>2, <3>1
  <2>5. QED
    BY <2>2, <2>3, <2>4
<1> DEFINE r == Append(Kept, Last(vstack))
<1>4. /\ r \in Seq(Value) /\ Len(r) = fp + 1
      /\ \A j \in 1 .. fp : r[j] = Kept[j]
      /\ r[fp + 1] = Last(vstack)
  <2> HIDE DEF Kept, Last
  <2>1. QED
    BY <1>1, <1>3, AppendProperties
<1> HIDE DEF r
<1>5. ASSUME NEW j \in 1 .. fp + 1 PROVE r[j] = IF j <= fp THEN vstack[j] ELSE Last(vstack)
  <2>1. CASE j <= fp
    BY <1>1, <1>3, <1>4, <2>1
  <2>2. CASE j = fp + 1
    BY <1>1, <1>4, <2>2
  <2>3. QED
    BY <1>1, <2>1, <2>2
<1>6. QED
  BY <1>1, <1>2, <1>4, <1>5 DEF r

LEMMA ReturnStep ==
  ASSUME IInv, Return
  PROVE  IInv'
<1>1. /\ callstack # <<>> /\ Height > Own(Runs(pc)) /\ pop_saved
      /\ vstack' = Append(Kept, Last(vstack)) /\ UNCHANGED <<heap, lost>>
  BY DEF Return
<1>2. /\ vstack' \in Seq(Value) /\ Len(vstack') = fp + 1 /\ fp + 1 <= VStackUnits
      /\ \A j \in 1 .. fp + 1 : vstack'[j] = IF j <= fp THEN vstack[j] ELSE Last(vstack)
      /\ Last(vstack) \in Value /\ Good(Last(vstack)) /\ fp < Len(vstack) /\ fp \in Nat
  BY <1>1, ReturnStack, TopOK
<1>3. HeapGrows /\ HeapOK' /\ HeapOK
  BY <1>1, HeapSame DEF IInv
<1>4. callstack \in Seq(Nat) /\ Len(callstack) = 5 * Depth /\ Len(callstack) <= CallWords
  BY DEF IInv, FramesOK
<1>5. /\ callstack' \in Seq(Nat) /\ Len(callstack') = Len(callstack) - 5
      /\ Depth \in Nat \ {0} /\ Depth' = Depth - 1 /\ Len(callstack') = 5 * Depth'
      /\ \A i \in 1 .. Depth : \A k \in Five : Reg(i, k)' = Reg(i, k)
  BY <1>1, <1>4, ReturnRegs
<1>6. Frames' = 1 .. Depth /\ \A i \in 1 .. Depth : i \in Frames
  BY <1>5 DEF Frames
<1>7. ASSUME NEW i \in 1 .. Depth PROVE FrameOK(i)' /\ Nested(i)'
  <2>1. FrameOK(i) /\ Nested(i) /\ i \in Nat /\ Reg(i, 2) \in Nat /\ Own(Reg(i, 3)) \in Nat
    BY <1>6, FrameTypes
  <2>2. FrameOK(i)' /\ Reg(i, 2)' = Reg(i, 2) /\ Reg(i, 3)' = Reg(i, 3)
    BY <1>3, <1>5, <2>1, KeptFrame
  <2>3. Limit(i) = Reg(i + 1, 2)
    BY <1>5 DEF Limit
  <2>4. CASE i <= Depth - 1
    <3>1. Reg(i + 1, 2)' = Reg(i + 1, 2) /\ Limit(i)' = Reg(i + 1, 2)'
      BY <1>5, <2>4 DEF Five, Limit
    <3>2. QED
      BY <2>1, <2>2, <2>3, <3>1 DEF Nested, Own
  <2>5. CASE i = Depth
    <3>1. Limit(i)' = fp + 1
      <4>1. ~(i <= Depth')
        BY <1>5, <2>5
      <4>2. QED
        BY <1>2, <4>1 DEF Limit
    <3>2. Limit(i) = fp
      BY <1>4, <2>3, <2>5, TopRegs
    <3>3. Nested(i)' <=> Reg(i, 2) + Own(Reg(i, 3)) <= fp + 1
      BY <2>2, <3>1 DEF Nested, Own
    <3>4. QED
      BY <1>2, <2>1, <2>2, <3>2, <3>3 DEF Nested
  <2>6. QED
    BY <1>5, <2>2, <2>4, <2>5
<1>8. FramesOK'
  <2>1. Reg(1, 2)' = 0 /\ Reg(1, 3)' = Main
    <3>1. 1 \in 1 .. Depth
      BY <1>5
    <3>2. Reg(1, 2)' = Reg(1, 2) /\ Reg(1, 3)' = Reg(1, 3)
      BY <1>5, <3>1 DEF Five
    <3>3. QED
      BY <3>2 DEF IInv, FramesOK
  <2>2. Len(callstack') <= CallWords
    BY <1>4, <1>5, SizeAssumption
  <2>3. QED
    BY <1>5, <1>6, <1>7, <2>1, <2>2 DEF FramesOK
<1>9. ASSUME NEW j \in 1 .. Len(vstack') PROVE Good(vstack[j])'
  <2>1. PICK w : w = vstack'[j]
    OBVIOUS
  <2>2. Good(w)
    <3>1. j \in 1 .. fp + 1 /\ w = IF j <= fp THEN vstack[j] ELSE Last(vstack)
      BY <1>2, <2>1
    <3>2. j <= fp => j \in 1 .. Len(vstack)
      BY <1>2, <3>1 DEF IInv, StackOK
    <3>3. QED
      BY <1>2, <3>1, <3>2 DEF IInv, StackOK
  <2>3. Good(w)'
    BY <1>3, <2>2, GrowGood
  <2>4. QED
    BY <2>1, <2>3 DEF Good
<1>10. StackOK'
  BY <1>2, <1>9 DEF StackOK
<1>11. QED
  BY <1>1, <1>3, <1>8, <1>10 DEF IInv


-----------------------------------------------------------------------------
(* The invariant. *)

LEMMA InitInv == Init => IInv
<1> SUFFICES ASSUME Init PROVE IInv
  OBVIOUS
<1>1. vstack = <<>> /\ callstack = <<>> /\ fp = 0 /\ cp = Main /\ closure = NULL /\ fails = 0 /\ lost = "no"
  BY DEF Init
<1>2. StackOK
  BY <1>1, SizeAssumption DEF StackOK
<1>3. EnvCells[Main] \in 0 .. Base /\ EnvCells[Main] <= ArenaUnits /\ Main \in Code
  BY ProgramAssumption DEF Code
<1>4. /\ closure_ptr = Base + EnvCells[Main] /\ env = (IF EnvCells[Main] = 0 THEN NULL ELSE Base)
      /\ arena = [a \in Arena |-> Nil]
  BY DEF Init
<1>5. HeapOK
  <2>1. closure_ptr \in Base .. End
    BY <1>3, <1>4, Places, SizeAssumption DEF End
  <2>2. \A a \in Arena : arena[a] = Nil /\ Good(arena[a])
    BY <1>4, Kinds DEF Good
  <2>3. arena \in [Arena -> Word]
    BY <1>4, Kinds
  <2>4. QED
    BY <1>1, <2>1, <2>2, <2>3, SizeAssumption DEF HeapOK
<1>6. EnvOK(env, Main)
  <2>1. CASE EnvCells[Main] = 0
    BY <1>4, <2>1 DEF EnvOK
  <2>2. CASE EnvCells[Main] # 0
    <3>1. env = Base /\ Base \in Arena /\ Base # NULL
      BY <1>3, <1>4, <2>2, SizeAssumption, Places DEF Arena, End, NULL
    <3>2. ASSUME NEW k \in 0 .. EnvCells[Main] - 1 PROVE Cell(env + k)
      <4>1. env + k \in Arena /\ env + k < closure_ptr
        BY <1>3, <1>4, <3>1, SizeAssumption, Places DEF Arena, End
      <4>2. QED
        BY <1>4, <4>1, Kinds DEF Cell
    <3>3. QED
      BY <2>2, <3>1, <3>2 DEF EnvOK
  <2>3. QED
    BY <2>1, <2>2
<1>7. Depth = 0
  <2>1. Len(callstack) = 5 * 0
    BY <1>1
  <2>2. QED
    BY <2>1, FiveDiv DEF Depth
<1>8. pc \in CodePoint /\ Runs(pc) = Main
  BY <1>3, RunsAt, SizeAssumption DEF Init
<1>9. FramesOK
  <2>1. callstack \in Seq(Nat) /\ Len(callstack) = 0 /\ Frames = {1}
    BY <1>1, <1>7 DEF Frames
  <2>2. /\ Reg(1, 1) = pc /\ Reg(1, 2) = fp /\ Reg(1, 3) = cp /\ Reg(1, 4) = env /\ Reg(1, 5) = closure
        /\ Limit(1) = Len(vstack)
    BY <1>7 DEF Reg, Saved, Limit
  <2>3. FrameOK(1)
    BY <1>1, <1>3, <1>6, <1>8, <2>2, SizeAssumption DEF FrameOK, RegsOK
  <2>4. Nested(1)
    BY <1>1, <2>2 DEF Nested, Own
  <2>5. QED
    BY <1>1, <1>7, <2>1, <2>2, <2>3, <2>4, SizeAssumption DEF FramesOK
<1>10. QED
  BY <1>1, <1>2, <1>5, <1>9 DEF IInv

LEMMA NextInv == IInv /\ [Next]_vars => IInv'
<1> SUFFICES ASSUME IInv, [Next]_vars PROVE IInv'
  OBVIOUS
<1>1. CASE Jump
  BY <1>1, JumpStep
<1>2. CASE Pop
  BY <1>2, PopStep
<1>3. CASE Return
  BY <1>3, ReturnStep
<1>4. CASE ReturnFromMain
  BY <1>4, LoseStep DEF ReturnFromMain
<1>5. ASSUME NEW v \in Plain, Load(v) PROVE IInv'
  BY <1>5, PlainGood, PushStep DEF Load
<1>6. ASSUME NEW i \in 0 .. VStackUnits, GetLocal(i) PROVE IInv'
  BY <1>6, GetLocalStep
<1>7. ASSUME NEW i \in 0 .. VStackUnits, SetLocal(i) PROVE IInv'
  BY <1>7, SetLocalStep
<1>8. ASSUME NEW i \in 0 .. VStackUnits, GetCaptured(i) \/ SetCaptured(i) \/ GetUpval(i) \/ SetUpval(i)
      PROVE  IInv'
  BY <1>8, CellSteps
<1>9. ASSUME NEW i \in 0 .. VStackUnits, Call(i) PROVE IInv'
  BY <1>9, CallStep
<1>10. ASSUME NEW i \in 0 .. VStackUnits, CallTooDeep(i) \/ CallWrongly(i) PROVE IInv'
  BY <1>10, LoseStep DEF CallTooDeep, CallWrongly
<1>11. ASSUME NEW f \in Function, StaticClosure(f) PROVE IInv'
  BY <1>11, StaticClosureStep
<1>12. ASSUME NEW f \in Function, NewClosure(f) PROVE IInv'
  BY <1>12, NewClosureStep
<1>13. CASE UNCHANGED vars
  BY <1>13, TopOK, StackStep DEF vars, regs, IInv, StackOK
<1>14. QED
  BY <1>1, <1>2, <1>3, <1>4, <1>5, <1>6, <1>7, <1>8, <1>9, <1>10, <1>11, <1>12, <1>13 DEF Next

LEMMA InvHolds == Spec => []IInv
BY InitInv, NextInv, PTL DEF Spec

-----------------------------------------------------------------------------
(* What follows from it. *)

(* Both stacks hold words of their kinds within their room, and the registers *)
(* are addresses of the data area, whatever the program calls and returns.   *)
THEOREM TypeCorrect == Spec => []TypeOK
<1>1. IInv => TypeOK
  <2> SUFFICES ASSUME IInv PROVE TypeOK
    OBVIOUS
  <2>1. /\ pc \in {At(f, p) : f \in Code, p \in 0 .. NPoints} /\ fp \in 0 .. VStackUnits /\ cp \in Code
    BY TopOK DEF CodePoint
  <2>2. env \in {NULL} \cup Arena
    BY TopOK DEF EnvOK
  <2>3. closure \in {NULL} \cup 1 .. End - 1
    BY TopOK
  <2>4. QED
    BY <2>1, <2>2, <2>3 DEF IInv, StackOK, FramesOK, HeapOK, TypeOK
<1>2. QED
  BY <1>1, InvHolds, PTL

(* The frames lie one above the other, each with room for its function and  *)
(* parameters, and each takes its constants from the function whose code it *)
(* runs (op_call, op_return).                                               *)
THEOREM FramesNested == Spec => []FramesNest
<1>1. IInv => FramesNest
  <2> SUFFICES ASSUME IInv PROVE FramesNest
    OBVIOUS
  <2>1. \A i \in Frames : Runs(Reg(i, 1)) = Reg(i, 3) /\ Reg(i, 2) + Own(Reg(i, 3)) <= Limit(i)
    BY FrameTypes DEF FrameOK, RegsOK, Nested
  <2>2. QED
    BY <2>1 DEF IInv, FramesOK, FramesNest
<1>2. QED
  BY <1>1, InvHolds, PTL

(* An activation lacks the environment that its function needs only after   *)
(* an allocation was refused and counted (op_call, alloc_runtime_space).    *)
THEOREM NullCounted == Spec => []NullIsCounted
<1>1. IInv => NullIsCounted
  <2> SUFFICES ASSUME IInv, NEW i \in Frames, Reg(i, 4) = NULL, EnvCells[Reg(i, 3)] > 0
               PROVE  fails > 0
    BY DEF NullIsCounted
  <2>1. EnvOK(Reg(i, 4), Reg(i, 3))
    BY FrameTypes DEF FrameOK, RegsOK
  <2>2. QED
    BY <2>1 DEF EnvOK
<1>2. QED
  BY <1>1, InvHolds, PTL


-----------------------------------------------------------------------------
(* Refusals and losses. *)

LEMMA RefNull == ASSUME IInv, NEW a, CellRef(a), a \notin Arena PROVE fails > 0
BY DEF CellRef, Cell

LEMMA NoFails == ASSUME UNCHANGED heap PROVE fails' = fails
BY DEF heap

LEMMA PushFull ==
  ASSUME IInv, NEW v, vstack_push(vstack, v), lost' # lost
  PROVE  lost' = "limit" /\ Len(vstack) = VStackUnits
<1>1. lost' = "limit" /\ Len(vstack) >= VStackUnits
  BY DEF vstack_push
<1>2. Len(vstack) \in Nat /\ Len(vstack) <= VStackUnits
  BY DEF IInv, StackOK
<1>3. QED
  BY <1>1, <1>2, SizeAssumption

(* A step that touches a cell. *)
LEMMA CellLimits ==
  ASSUME IInv, NEW a, CellRef(a), ReadCell(a) \/ WriteCell(a), lost = "no"
  PROVE  /\ fails' = fails /\ (lost' = "null" => fails' > 0)
         /\ (lost' = "limit" => Len(vstack) = VStackUnits)
<1>1. CASE a \in Arena
  <2>1. CASE ReadCell(a)
    <3>1. vstack_push(vstack, arena[a]) /\ UNCHANGED heap
      BY <1>1, <2>1 DEF ReadCell
    <3>2. PICK v : v = arena[a]
      OBVIOUS
    <3>3. vstack_push(vstack, v)
      BY <3>1, <3>2
    <3>4. lost' # lost => lost' = "limit" /\ Len(vstack) = VStackUnits
      BY <3>3, PushFull
    <3>5. QED
      BY <3>1, <3>4, NoFails
  <2>2. CASE WriteCell(a)
    BY <1>1, <2>2 DEF WriteCell
  <2>3. QED
    BY <2>1, <2>2
<1>2. CASE a \notin Arena
  <2>1. Lose("null")
    BY <1>2 DEF ReadCell, WriteCell
  <2>2. QED
    BY <1>2, <2>1, RefNull, NoFails DEF Lose
<1>3. QED
  BY <1>1, <1>2

(* The arena refuses only what it has no room for; the machine loses a      *)
(* program at a full stack, or at a null pointer only after a refusal       *)
(* (alloc_runtime_space, vstack_push, cstack_push_hl).                      *)
THEOREM LossesAreLimits == Spec => LimitsOnly
<1> DEFINE Refused == \/ callstack' # callstack /\ closure_ptr + EnvCells[Runs(pc')] > End
                      \/ \E f \in Function : closure_ptr + Len(Captures[f]) + 1 > End /\ Encl[f] = Runs(pc)
           Full == Len(vstack) = VStackUnits \/ Len(callstack) > CallWords - 5
           Fair == /\ fails' # fails => Refused
                   /\ lost' = "limit" /\ lost # lost' => Full
                   /\ lost' = "null" => fails' > 0
<1>1. ASSUME IInv, Next PROVE Fair
  <2>1. lost = "no"
    BY <1>1 DEF Next
  <2>2. IInv
    BY <1>1
  <2>3. CASE Jump \/ Pop \/ Return \/ ReturnFromMain
    <3>1. fails' = fails /\ lost' \in {"no", "program"}
      BY <2>1, <2>3 DEF Jump, Pop, Return, ReturnFromMain, Lose, heap
    <3>2. QED
      BY <2>1, <3>1
  <2>4. ASSUME NEW v, vstack_push(vstack, v), UNCHANGED fails PROVE Fair
    <3>1. lost' # lost => lost' = "limit" /\ Len(vstack) = VStackUnits
      BY <2>2, <2>4, PushFull
    <3>2. QED
      BY <2>1, <2>4, <3>1
  <2>5. ASSUME NEW v \in Plain, Load(v) PROVE Fair
    BY <2>4, <2>5 DEF Load, heap
  <2>6. ASSUME NEW i \in 0 .. VStackUnits, GetLocal(i) PROVE Fair
    <3>1. PICK v : v = vstack[Local(i)]
      OBVIOUS
    <3>2. QED
      BY <2>4, <2>6, <3>1 DEF GetLocal, heap
  <2>7. ASSUME NEW i \in 0 .. VStackUnits, SetLocal(i) PROVE Fair
    BY <2>1, <2>7 DEF SetLocal, heap
  <2>8. ASSUME NEW i \in 0 .. VStackUnits, GetCaptured(i) \/ SetCaptured(i) \/ GetUpval(i) \/ SetUpval(i)
        PROVE  Fair
    <3>1. PICK a : CellRef(a) /\ (ReadCell(a) \/ WriteCell(a))
      <4>1. CASE GetCaptured(i) \/ SetCaptured(i)
        <5>1. CellRef(get_captured_cell_ptr(i))
          BY <2>2, <4>1, TopOK, CapturedRef, SizeAssumption DEF GetCaptured, SetCaptured
        <5>2. QED
          BY <4>1, <5>1 DEF GetCaptured, SetCaptured
      <4>2. CASE GetUpval(i) \/ SetUpval(i)
        <5>1. CellRef(get_upvalue_cell_ptr(i))
          BY <2>2, <4>2, UpvalueRef DEF GetUpval, SetUpval
        <5>2. QED
          BY <4>2, <5>1 DEF GetUpval, SetUpval
      <4>3. QED
        BY <2>8, <4>1, <4>2
    <3>2. /\ fails' = fails /\ (lost' = "null" => fails' > 0)
          /\ (lost' = "limit" => Len(vstack) = VStackUnits)
      BY <2>1, <2>2, <3>1, CellLimits
    <3>3. QED
      BY <3>2
  <2>9. ASSUME NEW i \in 0 .. VStackUnits, Call(i) PROVE Fair
    <3>1. PICK f : f = Record(Callee(i)[2])
      OBVIOUS
    <3>2. /\ f \in Function /\ pc' = At(f, 0) /\ NewEnv(EnvCells[f]) /\ callstack' = callstack \o Saved
          /\ lost' = lost
      BY <2>2, <2>9, <3>1, CalleeIs DEF Call
    <3>3. Runs(pc') = f
      BY <3>2, Places, RunsAt, SizeAssumption
    <3>4. callstack' # callstack
      <4>1. callstack \in Seq(Nat) /\ Depth + 1 \in Frames
        BY <2>2, TopRegs DEF IInv, FramesOK
      <4>2. Saved \in Seq(Nat) /\ Len(Saved) = 5
        BY <2>2, <4>1, FrameTypes, TopRegs, SavedSeq
      <4>3. Len(callstack') = Len(callstack) + 5
        BY <2>2, <3>2, <4>1, <4>2, CallRegs DEF IInv, FramesOK
      <4>4. QED
        BY <4>1, <4>3
    <3>5. fails' # fails => closure_ptr + EnvCells[f] > End
      <4>1. closure_ptr \in Nat /\ EnvCells[f] \in Nat /\ End \in Nat
        BY <2>2, <3>2, HeapTypes, Places, ProgramAssumption DEF IInv
      <4>2. QED
        BY <3>2, <4>1 DEF NewEnv, HasRoom, heap
    <3>6. QED
      BY <2>1, <3>2, <3>3, <3>4, <3>5
  <2>10. ASSUME NEW i \in 0 .. VStackUnits, CallTooDeep(i) PROVE Fair
    <3>1. callstack \in Seq(Nat) /\ Len(callstack) <= CallWords /\ CallWords \in Nat
      BY <2>2, SizeAssumption DEF IInv, FramesOK
    <3>2. QED
      BY <2>10, <3>1 DEF CallTooDeep, Lose, heap
  <2>11. ASSUME NEW i \in 0 .. VStackUnits, CallWrongly(i) PROVE Fair
    BY <2>11 DEF CallWrongly, Lose, heap
  <2>12. ASSUME NEW f \in Function, StaticClosure(f) PROVE Fair
    BY <2>4, <2>12 DEF StaticClosure, heap
  <2>13. ASSUME NEW f \in Function, NewClosure(f) PROVE Fair
    <3>1. Encl[f] = Runs(pc)
      BY <2>13 DEF NewClosure
    <3>2. CASE vstack_push(vstack, Fun(closure_ptr)) /\ UNCHANGED fails
      <4>1. PICK v : v = Fun(closure_ptr)
        OBVIOUS
      <4>2. QED
        BY <2>4, <3>2, <4>1
    <3>3. CASE ~HasRoom(Len(Captures[f]) + 1) /\ fails' = fails + 1 /\ lost' = "null"
      <4>1. /\ closure_ptr \in Nat /\ Len(Captures[f]) \in Nat /\ End \in Nat /\ fails \in Nat
        BY <2>2, HeapTypes, Places, ProgramAssumption DEF IInv
      <4>2. closure_ptr + Len(Captures[f]) + 1 > End
        BY <3>3, <4>1 DEF HasRoom
      <4>3. QED
        BY <3>1, <3>3, <4>1, <4>2
    <3>4. QED
      BY <2>13, <3>2, <3>3 DEF NewClosure
  <2>14. QED
    BY <1>1, <2>3, <2>5, <2>6, <2>7, <2>8, <2>9, <2>10, <2>11, <2>12, <2>13 DEF Next
<1>2. IInv /\ [Next]_vars => [Fair]_vars
  BY <1>1
<1>3. QED
  BY <1>2, InvHolds, PTL DEF Spec, LimitsOnly


-----------------------------------------------------------------------------
(* The activations that a program sees. *)

LEMMA FcnLen ==
  ASSUME NEW n \in Nat, NEW s, s = [i \in 1 .. n |-> s[i]]
  PROVE  /\ s \in Seq({s[i] : i \in 1 .. n}) /\ Len(s) = n /\ DOMAIN s = 1 .. n
<1> DEFINE R == {s[i] : i \in 1 .. n}
<1>1. s \in [1 .. n -> R]
  BY Zenon
<1>2. s \in Seq(R)
  BY <1>1, SeqDef
<1>3. DOMAIN s = 1 .. n
  BY <1>1
<1>4. Len(s) \in Nat /\ DOMAIN s = 1 .. Len(s)
  BY <1>2, LenProperties
<1>5. Len(s) = n
  BY <1>3, <1>4
<1>6. QED
  BY <1>2, <1>3, <1>5

LEMMA AppendFcn ==
  ASSUME NEW n \in Nat, NEW s, s = [i \in 1 .. n |-> s[i]], NEW e
  PROVE  Append(s, e) = [i \in 1 .. n + 1 |-> IF i <= n THEN s[i] ELSE e]
<1> DEFINE R == {s[i] : i \in 1 .. n} \cup {e}
<1>1. s \in [1 .. n -> R]
  BY Zenon
<1>2. s \in Seq(R) /\ Len(s) = n
  BY <1>1, SeqDef, FcnLen
<1>3. /\ Append(s, e) \in Seq(R) /\ Len(Append(s, e)) = n + 1
      /\ \A i \in 1 .. n : Append(s, e)[i] = s[i]
      /\ Append(s, e)[n + 1] = e
  BY <1>2, AppendProperties
<1> DEFINE r == Append(s, e)
<1> HIDE DEF r, R
<1>4. r = [i \in 1 .. n + 1 |-> r[i]]
  BY <1>3, LenProperties DEF r
<1>5. \A i \in 1 .. n + 1 : r[i] = IF i <= n THEN s[i] ELSE e
  BY <1>3 DEF r
<1>6. r = [i \in 1 .. n + 1 |-> IF i <= n THEN s[i] ELSE e]
  BY <1>4, <1>5
<1>7. QED
  BY <1>6 DEF r

LEMMA SubSeqFcn ==
  ASSUME NEW n \in Nat, NEW s, s = [i \in 1 .. n |-> s[i]],
         NEW a \in Nat \ {0}, NEW b \in Nat, b <= n, a <= b + 1
  PROVE  SubSeq(s, a, b) = [i \in 1 .. b - a + 1 |-> s[a + i - 1]]
<1> DEFINE R == {s[i] : i \in 1 .. n}
<1>1. s \in Seq(R) /\ Len(s) = n
  BY FcnLen
<1>2. a \in Int /\ b \in Int /\ \A i \in a .. b : s[i] \in R
  OBVIOUS
<1> HIDE DEF R
<1>3. /\ SubSeq(s, a, b) \in Seq(R)
      /\ Len(SubSeq(s, a, b)) = IF a <= b THEN b - a + 1 ELSE 0
      /\ \A i \in 1 .. b - a + 1 : SubSeq(s, a, b)[i] = s[a + i - 1]
  <2>1. SubSeq(s, a, b) \in Seq(R)
    BY <1>2, SubSeqProperties, Zenon
  <2>2. Len(SubSeq(s, a, b)) = IF a <= b THEN b - a + 1 ELSE 0
    BY <1>1, <1>2, SMT
  <2>3. \A i \in 1 .. b - a + 1 : SubSeq(s, a, b)[i] = s[a + i - 1]
    BY <1>1, <1>2, SMT
  <2>4. QED
    BY <2>1, <2>2, <2>3
<1> DEFINE r == SubSeq(s, a, b)
<1> HIDE DEF r
<1>4. Len(r) = b - a + 1 /\ r \in Seq(R)
  BY <1>3 DEF r
<1>5. r = [i \in 1 .. b - a + 1 |-> r[i]]
  BY <1>4, LenProperties
<1>6. r = [i \in 1 .. b - a + 1 |-> s[a + i - 1]]
  BY <1>3, <1>5 DEF r
<1>7. QED
  BY <1>6 DEF r

(* No frame begins above the last one. *)
LEMMA FramesAscend ==
  ASSUME IInv, NEW i \in Frames
  PROVE  Reg(i, 2) <= fp
<1> DEFINE P(k) == k <= Depth => Reg(Depth + 1 - k, 2) <= fp
           T == {k \in Nat : ~P(k)}
           R == OpToRel(<, Nat)
<1>1. IsWellFoundedOn(R, Nat)
  BY NatLessThanWellFounded, Zenon DEF OpToRel
<1>2. callstack \in Seq(Nat) /\ Depth \in Nat /\ Reg(Depth + 1, 2) = fp
  BY TopRegs DEF IInv, FramesOK
<1>3. T = {}
  <2>1. SUFFICES ASSUME T # {} PROVE FALSE
    OBVIOUS
  <2>2. PICK x \in T : \A y \in Nat : <<y, x>> \in R => ~(y \in T)
    BY <1>1, <2>1, WFMin
  <2>3. x \in Nat /\ x <= Depth /\ ~(Reg(Depth + 1 - x, 2) <= fp)
    OBVIOUS
  <2>4. x # 0
    BY <1>2, <2>3, TopOK
  <2>5. x - 1 \in Nat /\ x - 1 < x
    BY <2>3, <2>4
  <2>6. P(x - 1)
    BY <2>2, <2>3, <2>5 DEF OpToRel
  <2>7. PICK j : j = Depth + 1 - x
    OBVIOUS
  <2>8. j \in Frames /\ j <= Depth /\ j + 1 \in Frames /\ Depth + 1 - (x - 1) = j + 1
    BY <1>2, <2>3, <2>4, <2>7 DEF Frames
  <2>9. Reg(j + 1, 2) <= fp
    BY <1>2, <2>3, <2>6, <2>8
  <2>10. Reg(j, 2) \in Nat /\ Own(Reg(j, 3)) \in Nat /\ Reg(j, 2) + Own(Reg(j, 3)) <= Reg(j + 1, 2) /\ Reg(j + 1, 2) \in Nat
    BY <2>8, FrameTypes DEF Nested, Limit
  <2>11. Reg(j, 2) <= fp
    BY <2>9, <2>10, TopOK
  <2>12. QED
    BY <2>3, <2>7, <2>11
<1>4. Depth + 1 - i \in Nat /\ Depth + 1 - i <= Depth /\ Depth + 1 - (Depth + 1 - i) = i
  BY <1>2 DEF Frames
<1>5. P(Depth + 1 - i)
  BY <1>3, <1>4
<1>6. QED
  BY <1>4, <1>5

LEMMA LimitOK ==
  ASSUME IInv, NEW i \in Frames
  PROVE  /\ Limit(i) \in Nat /\ Limit(i) <= Len(vstack) /\ Reg(i, 2) <= Limit(i)
         /\ i <= Depth => Limit(i) <= fp
<1>1. Depth \in Nat /\ i \in Nat /\ Reg(i, 2) \in Nat /\ Own(Reg(i, 3)) \in Nat /\ Nested(i) /\ callstack \in Seq(Nat)
  BY FrameTypes, TopRegs DEF IInv, FramesOK
<1>2. CASE i <= Depth
  <2>1. i + 1 \in Frames
    BY <1>1, <1>2 DEF Frames
  <2>2. Limit(i) = Reg(i + 1, 2) /\ Reg(i + 1, 2) \in Nat /\ Reg(i + 1, 2) <= fp
    BY <1>2, <2>1, FramesAscend, FrameTypes DEF Limit
  <2>3. QED
    BY <1>1, <2>2, TopOK DEF Nested
<1>3. CASE ~(i <= Depth)
  <2>1. Limit(i) = Len(vstack)
    BY <1>3 DEF Limit
  <2>2. QED
    BY <1>1, <1>3, <2>1, TopOK DEF Nested
<1>4. QED
  BY <1>2, <1>3


-----------------------------------------------------------------------------
(* What is seen of a value does not change with the arena. *)

LEMMA SeenPlain == \A v \in Plain : Seen(v) = v
BY Kinds DEF Seen

LEMMA ClosureRecord ==
  ASSUME NEW a, NEW f, ClosureAt(a, f)
  PROVE  Record(a) = f /\ f \in Function /\ (a \notin Arena => Captures[f] = <<>>)
<1>1. f \in Function
  BY DEF ClosureAt
<1>2. CASE a = f /\ Captures[f] = <<>>
  BY <1>1, <1>2, Places DEF Record
<1>3. CASE a \in Arena /\ arena[a] = Header(f)
  BY <1>1, <1>3, HeaderIs DEF Record
<1>4. QED
  BY <1>1, <1>2, <1>3 DEF ClosureAt

LEMMA UpvalsSame ==
  ASSUME HeapOK, HeapGrows, NEW a, NEW f, ClosureAt(a, f)
  PROVE  Record(a)' = Record(a) /\ Upvals(a)' = Upvals(a)
<1>1. Record(a) = f /\ f \in Function
  BY ClosureRecord
<1>2. ClosureAt(a, f)'
  BY GrowClosure
<1>3. Record(a)' = f
  <2>1. CASE a = f /\ Captures[f] = <<>>
    BY <1>1, <2>1, Places DEF Record
  <2>2. CASE a \in Arena /\ arena'[a] = Header(f)
    BY <1>1, <2>2, HeaderIs DEF Record
  <2>3. QED
    BY <1>2, <2>1, <2>2 DEF ClosureAt
<1>4. CASE a \notin Arena
  BY <1>1, <1>3, <1>4 DEF Upvals
<1>5. CASE a \in Arena
  <2>1. /\ a < closure_ptr /\ arena[a] = Header(f)
        /\ \A k \in 1 .. Len(Captures[f]) :
             /\ a + k \in Arena /\ a + k < closure_ptr
             /\ \E c \in 0 .. End - 1 : arena[a + k] = Pointer(c) /\ CellRef(c)
    BY <1>5, Places DEF ClosureAt
  <2>2. \A k \in 1 .. Len(Captures[f]) : arena'[a + k] = arena[a + k]
    BY <2>1, Kinds DEF HeapGrows
  <2>3. Captures[f] \in Seq([parent : BOOLEAN, index : Nat])
    BY <1>1, ProgramAssumption
  <2>4. DOMAIN Captures[f] = 1 .. Len(Captures[f])
    BY <2>3
  <2>5. Upvals(a) = [k \in DOMAIN Captures[f] |-> CellOf(arena[a + k][2])]
    BY <1>1, <1>5 DEF Upvals
  <2>6. Upvals(a)' = [k \in DOMAIN Captures[f] |-> CellOf(arena'[a + k][2])]
    BY <1>3, <1>5 DEF Upvals, CellOf
  <2>7. QED
    BY <1>1, <1>3, <2>2, <2>4, <2>5, <2>6
<1>6. QED
  BY <1>4, <1>5, <1>1, <1>3

LEMMA SeenSame ==
  ASSUME HeapOK, HeapGrows, NEW w, Good(w)
  PROVE  Seen(w)' = Seen(w)
<1>1. CASE w \in Plain
  BY <1>1, Kinds DEF Seen
<1>2. CASE w \notin Plain
  <2>1. PICK a \in 1 .. End - 1, f \in Function : w = Fun(a) /\ ClosureAt(a, f)
    BY <1>2 DEF Good
  <2>2. w[1] = "fun" /\ w[2] = a
    BY <2>1 DEF Fun
  <2>3. Record(a)' = Record(a) /\ Upvals(a)' = Upvals(a)
    BY <2>1, UpvalsSame
  <2>4. Seen(w) = <<"closure", Record(a), Upvals(a)>>
    BY <2>2 DEF Seen
  <2>5. Seen(w)' = <<"closure", Record(a)', Upvals(a)'>>
    BY <2>2 DEF Seen
  <2>6. QED
    BY <2>3, <2>4, <2>5
<1>3. QED
  BY <1>1, <1>2

(* The cells that a program has are the addresses with values. *)
LEMMA CellsAre ==
  ASSUME HeapOK
  PROVE  \A a : a \in CellsInUse <=> Cell(a)
<1> TAKE a
<1>1. closure_ptr \in Base .. End /\ closure_ptr \in Nat /\ arena \in [Arena -> Word]
  BY HeapTypes DEF HeapOK
<1>2. a \in Base .. closure_ptr - 1 <=> a \in Arena /\ a < closure_ptr
  BY <1>1, Places DEF Arena
<1>3. \A w \in Word : w[1] \in {"nil", "num", "fun"} <=> w \in Value
  BY DEF Word, Value, Plain, Nil, Num, Fun, Header, Pointer
<1>4. a \in Arena => arena[a] \in Word
  BY <1>1
<1>5. QED
  BY <1>2, <1>3, <1>4 DEF CellsInUse, Cell

-----------------------------------------------------------------------------
(* Activations from one state to the next. *)

OpsOf(b, n) == [k \in 1 .. n - b |-> Seen(vstack[b + k])]
EnvOf(e, f) == [k \in 1 .. EnvCells[f] |-> CellOf(e + k - 1)]
Act(p, f, ops, e, ups) == [fn |-> f, at |-> p, ops |-> ops, env |-> e, ups |-> ups]

LEMMA ActivationIs ==
  ASSUME IInv, NEW i \in Frames
  PROVE  Activation(i) = Act(Reg(i, 1) % (NPoints + 1), Reg(i, 3), OpsOf(Reg(i, 2), Limit(i)),
                             EnvOf(Reg(i, 4), Reg(i, 3)), Upvals(Reg(i, 5)))
<1>1. Runs(Reg(i, 1)) = Reg(i, 3)
  BY FrameTypes DEF FrameOK, RegsOK
<1>2. QED
  BY <1>1 DEF Activation, Act, OpsOf, EnvOf

LEMMA OpsSame ==
  ASSUME IInv, HeapGrows, NEW b \in Nat, NEW n \in Nat, n <= Len(vstack),
         \A j \in b + 1 .. n : vstack'[j] = vstack[j]
  PROVE  OpsOf(b, n)' = OpsOf(b, n)
<1>1. ASSUME NEW k \in 1 .. n - b PROVE Seen(vstack[b + k])' = Seen(vstack[b + k])
  <2>1. PICK w : w = vstack[b + k]
    OBVIOUS
  <2>2. b + k \in b + 1 .. n /\ b + k \in 1 .. Len(vstack)
    BY TopOK
  <2>3. Good(w) /\ w = vstack'[b + k]
    BY <2>1, <2>2 DEF IInv, StackOK
  <2>4. Seen(w)' = Seen(w)
    BY <2>3, SeenSame DEF IInv
  <2>5. QED
    BY <2>1, <2>3, <2>4 DEF Seen
<1>2. QED
  BY <1>1 DEF OpsOf

LEMMA ActivationSame ==
  ASSUME IInv, IInv', HeapGrows, NEW i \in Nat, i \in Frames, i \in Frames',
         \A k \in Five : Reg(i, k)' = Reg(i, k),
         Limit(i)' = Limit(i), \A j \in 1 .. Limit(i) : vstack'[j] = vstack[j]
  PROVE  Activation(i)' = Activation(i)
<1>1. PICK p, b, f, e, u, n :
        /\ p = Reg(i, 1) /\ b = Reg(i, 2) /\ f = Reg(i, 3) /\ e = Reg(i, 4) /\ u = Reg(i, 5)
        /\ n = Limit(i)
  OBVIOUS
<1>2. /\ p = Reg(i, 1)' /\ b = Reg(i, 2)' /\ f = Reg(i, 3)' /\ e = Reg(i, 4)' /\ u = Reg(i, 5)'
      /\ n = Limit(i)'
  BY <1>1 DEF Five
<1>3. b \in Nat /\ n \in Nat /\ n <= Len(vstack) /\ RegsOK(p, b, f, e, u)
  BY <1>1, FrameTypes, LimitOK DEF FrameOK
<1>4. OpsOf(b, n)' = OpsOf(b, n)
  BY <1>1, <1>3, OpsSame
<1>5. Upvals(u)' = Upvals(u)
  <2>1. CASE f = Main
    <3>1. u \notin Arena
      BY <1>3, <2>1, Places DEF RegsOK
    <3>2. QED
      BY <3>1 DEF Upvals
  <2>2. CASE f # Main
    BY <1>3, <2>2, UpvalsSame DEF RegsOK, IInv
  <2>3. QED
    BY <2>1, <2>2
<1>6. Activation(i) = Act(p % (NPoints + 1), f, OpsOf(b, n), EnvOf(e, f), Upvals(u))
  BY <1>1, ActivationIs
<1>7. Activation(i)' = Act(p % (NPoints + 1), f, OpsOf(b, n)', EnvOf(e, f), Upvals(u)')
  <2>1. IInv' /\ i \in Frames'
    OBVIOUS
  <2>2. Runs(p) = f
    BY <1>3 DEF RegsOK
  <2>3. QED
    BY <1>2, <2>2 DEF Activation, Act, OpsOf, EnvOf, CellOf
<1>8. QED
  BY <1>4, <1>5, <1>6, <1>7


Acts  == IF lost = "no" THEN [i \in Frames |-> Activation(i)] ELSE <<>>
CellValues == IF lost = "no" THEN [a \in CellsInUse |-> Seen(arena[a])] ELSE <<>>

LEMMA ActsAre ==
  ASSUME IInv, lost = "no"
  PROVE  /\ Depth \in Nat /\ Acts = [i \in 1 .. Depth + 1 |-> Acts[i]]
         /\ Len(Acts) = Depth + 1 /\ DOMAIN Acts = 1 .. Depth + 1
         /\ \A i \in 1 .. Depth + 1 : Acts[i] = Activation(i)
         /\ Acts[Depth + 1] = Act(pc % (NPoints + 1), cp, OpsOf(fp, Len(vstack)), EnvOf(env, cp), Upvals(closure))
<1>1. Depth \in Nat /\ Depth + 1 \in Nat /\ Frames = 1 .. Depth + 1 /\ Depth + 1 \in Frames
  BY TopRegs DEF IInv, FramesOK, Frames
<1>2. Acts = [i \in 1 .. Depth + 1 |-> Activation(i)]
  BY <1>1 DEF Acts
<1>3. Acts = [i \in 1 .. Depth + 1 |-> Acts[i]] /\ \A i \in 1 .. Depth + 1 : Acts[i] = Activation(i)
  BY <1>2
<1>4. Len(Acts) = Depth + 1 /\ DOMAIN Acts = 1 .. Depth + 1
  BY <1>1, <1>3, FcnLen
<1>5. Activation(Depth + 1) = Act(pc % (NPoints + 1), cp, OpsOf(fp, Len(vstack)), EnvOf(env, cp), Upvals(closure))
  BY <1>1, ActivationIs, TopRegs DEF IInv, FramesOK
<1>6. QED
  BY <1>1, <1>3, <1>4, <1>5

(* The activations with point p and values s in the running one. *)
WithTop(p, s) ==
  [i \in 1 .. Depth + 1 |->
     IF i = Depth + 1 THEN Act(p, cp, s, EnvOf(env, cp), Upvals(closure)) ELSE Acts[i]]

(* A step of the running activation that leaves what is below it. *)
LEMMA TopStep ==
  ASSUME IInv, IInv', lost = "no", lost' = "no", HeapGrows,
         UNCHANGED <<callstack, fp, cp, env, closure>>,
         \A j \in 1 .. fp : vstack'[j] = vstack[j],
         NEW p, p = pc' % (NPoints + 1)
  PROVE  \A s : s = OpsOf(fp, Len(vstack))' => Acts' = WithTop(p, s)
<1>1. /\ Depth \in Nat /\ Depth' = Depth /\ Frames = 1 .. Depth + 1 /\ Frames' = Frames
  BY ActsAre DEF Depth, Frames
<1>2. Acts' = [i \in 1 .. Depth + 1 |-> Acts'[i]] /\ \A i \in 1 .. Depth + 1 : Acts'[i] = Activation(i)'
  BY <1>1 DEF Acts
<1>3. ASSUME NEW i \in 1 .. Depth + 1, i # Depth + 1
      PROVE  Acts'[i] = Acts[i]
  <2>1. i <= Depth /\ i \in Nat
    BY <1>1, <1>3
  <2>2. \A k \in Five : Reg(i, k)' = Reg(i, k)
    BY <1>1, <2>1 DEF Reg
  <2>3. Limit(i)' = Limit(i)
    <3>1. Reg(i + 1, 2)' = Reg(i + 1, 2)
      BY <1>1 DEF Reg, Saved
    <3>2. QED
      BY <1>1, <2>1, <3>1 DEF Limit
  <2>4. Limit(i) <= fp /\ Limit(i) \in Nat
    BY <1>1, <2>1, LimitOK
  <2>5. \A j \in 1 .. Limit(i) : vstack'[j] = vstack[j]
    BY <2>4, TopOK
  <2>6. Activation(i)' = Activation(i)
    BY <1>1, <1>3, <2>1, <2>2, <2>3, <2>5, ActivationSame
  <2>7. QED
    BY <1>2, <1>3, <2>6, ActsAre
<1>4. PICK d, b, f, e, u : d = Depth + 1 /\ b = fp /\ f = cp /\ e = env /\ u = closure
  OBVIOUS
<1>5. Activation(d)' = Act(p, f, OpsOf(b, Len(vstack))', EnvOf(e, f), Upvals(u)')
  <2>1. /\ Reg(d, 1)' = pc' /\ Reg(d, 2)' = b /\ Reg(d, 3)' = f /\ Reg(d, 4)' = e /\ Reg(d, 5)' = u
        /\ Limit(d)' = Len(vstack')
    <3>1. ~(d <= Depth')
      BY <1>1, <1>4
    <3>2. QED
      BY <1>4, <3>1 DEF Reg, Saved, Limit
  <2>2. d \in Frames'
    BY <1>1, <1>4
  <2>3. Runs(pc') = f
    <3>1. FrameOK(d)'
      BY <2>2 DEF IInv, FramesOK
    <3>2. QED
      BY <2>1, <3>1 DEF FrameOK, RegsOK
  <2>4. QED
    BY <2>1, <2>3 DEF Activation, Act, OpsOf, EnvOf, CellOf
<1>6. Upvals(u)' = Upvals(u)
  <2>1. CASE f = Main
    <3>1. u \notin Arena
      BY <1>4, <2>1, TopOK, Places
    <3>2. QED
      BY <3>1 DEF Upvals
  <2>2. CASE f # Main
    BY <1>4, <2>2, UpvalsSame, TopOK DEF IInv
  <2>3. QED
    BY <2>1, <2>2
<1>7. OpsOf(b, Len(vstack))' = OpsOf(fp, Len(vstack))'
  BY <1>4 DEF OpsOf
<1>8. Acts'[Depth + 1] = Act(p, cp, OpsOf(fp, Len(vstack))', EnvOf(env, cp), Upvals(closure))
  BY <1>1, <1>2, <1>4, <1>5, <1>6, <1>7
<1>9. QED
  BY <1>2, <1>3, <1>8 DEF WithTop

(* Such a step as the abstract machine writes it. *)
LEMMA WithOpsIs ==
  ASSUME IInv, lost = "no", NEW s, NEW p, p = pc % (NPoints + 1)
  PROVE  [Acts EXCEPT ![Len(Acts)].ops = s] = WithTop(p, s)
<1>1. /\ Depth \in Nat /\ Acts = [i \in 1 .. Depth + 1 |-> Acts[i]]
      /\ Len(Acts) = Depth + 1 /\ DOMAIN Acts = 1 .. Depth + 1
      /\ Acts[Depth + 1] = Act(p, cp, OpsOf(fp, Len(vstack)), EnvOf(env, cp), Upvals(closure))
  BY ActsAre
<1>2. [Acts[Depth + 1] EXCEPT !.ops = s] = Act(p, cp, s, EnvOf(env, cp), Upvals(closure))
  <2>1. PICK o, e, u : o = OpsOf(fp, Len(vstack)) /\ e = EnvOf(env, cp) /\ u = Upvals(closure)
    OBVIOUS
  <2>2. [Act(p, cp, o, e, u) EXCEPT !.ops = s] = Act(p, cp, s, e, u)
    BY DEF Act
  <2>3. QED
    BY <1>1, <2>1, <2>2
<1>3. QED
  BY <1>1, <1>2 DEF WithTop

LEMMA WithAtIs ==
  ASSUME IInv, lost = "no", NEW p
  PROVE  [Acts EXCEPT ![Len(Acts)].at = p] = WithTop(p, OpsOf(fp, Len(vstack)))
<1>1. /\ Depth \in Nat /\ Acts = [i \in 1 .. Depth + 1 |-> Acts[i]]
      /\ Len(Acts) = Depth + 1 /\ DOMAIN Acts = 1 .. Depth + 1
      /\ Acts[Depth + 1] = Act(pc % (NPoints + 1), cp, OpsOf(fp, Len(vstack)), EnvOf(env, cp), Upvals(closure))
  BY ActsAre
<1>2. [Acts[Depth + 1] EXCEPT !.at = p] = Act(p, cp, OpsOf(fp, Len(vstack)), EnvOf(env, cp), Upvals(closure))
  <2>1. PICK q, o, e, u : q = pc % (NPoints + 1) /\ o = OpsOf(fp, Len(vstack)) /\ e = EnvOf(env, cp) /\ u = Upvals(closure)
    OBVIOUS
  <2>2. [Act(q, cp, o, e, u) EXCEPT !.at = p] = Act(p, cp, o, e, u)
    BY DEF Act
  <2>3. QED
    BY <1>1, <2>1, <2>2
<1>3. QED
  BY <1>1, <1>2 DEF WithTop


-----------------------------------------------------------------------------
(* Each step of the machine is a step of the activations. *)

LEMMA OpsAre ==
  ASSUME IInv, NEW o, o = OpsOf(fp, Len(vstack)), NEW n, n = Len(vstack) - fp
  PROVE  /\ n \in Nat /\ o = [k \in 1 .. n |-> o[k]] /\ Len(o) = n /\ DOMAIN o = 1 .. n
         /\ \A k \in 1 .. n : o[k] = Seen(vstack[fp + k])
<1>1. n \in Nat
  BY TopOK
<1>2. o = [k \in 1 .. n |-> Seen(vstack[fp + k])]
  BY DEF OpsOf
<1>3. o = [k \in 1 .. n |-> o[k]] /\ \A k \in 1 .. n : o[k] = Seen(vstack[fp + k])
  BY <1>2
<1>4. QED
  BY <1>1, <1>3, FcnLen

LEMMA LostActs == lost' # "no" => Acts' = <<>> /\ CellValues' = <<>>
BY DEF Acts, CellValues

LEMMA LostRefines == lost = "no" /\ lost' # "no" => Promised!Next
BY LostActs DEF Promised!Next, Promised!Lose, Acts, CellValues

LEMMA CellsKept == UNCHANGED <<heap, lost>> => CellValues' = CellValues
BY DEF heap, CellValues, CellsInUse, Seen, Upvals, Record, CellOf

LEMMA PushActs ==
  ASSUME IInv, IInv', lost = "no", lost' = "no", HeapGrows, UNCHANGED <<callstack, pc, fp, cp, env, closure>>,
         NEW v, Good(v)', vstack' = Append(vstack, v), NEW x, x = Seen(v)'
  PROVE  Acts' = [Acts EXCEPT ![Len(Acts)].ops = Append(Acts[Len(Acts)].ops, x)]
<1>1. /\ vstack \in Seq(Value) /\ Len(vstack) \in Nat /\ fp \in Nat /\ fp <= Len(vstack)
      /\ \A j \in 1 .. Len(vstack) : Good(vstack[j])
  BY TopOK DEF IInv, StackOK
<1>2. v \in Value
  BY Kinds DEF Good, Value
<1>3. /\ Len(vstack') = Len(vstack) + 1
      /\ \A j \in 1 .. Len(vstack) : vstack'[j] = vstack[j]
      /\ vstack'[Len(vstack) + 1] = v
  BY <1>1, <1>2, AppendProperties
<1>4. PICK p, o, n : p = pc % (NPoints + 1) /\ o = OpsOf(fp, Len(vstack)) /\ n = Len(vstack) - fp
  OBVIOUS
<1>5. /\ n \in Nat /\ o = [k \in 1 .. n |-> o[k]]
      /\ \A k \in 1 .. n : o[k] = Seen(vstack[fp + k])
  BY <1>4, OpsAre
<1>6. Append(o, x) = [k \in 1 .. n + 1 |-> IF k <= n THEN o[k] ELSE x]
  BY <1>5, AppendFcn
<1>7. OpsOf(fp, Len(vstack))' = [k \in 1 .. n + 1 |-> Seen(vstack[fp + k])']
  <2>1. Len(vstack') - fp' = n + 1
    BY <1>1, <1>3, <1>4
  <2>2. OpsOf(fp, Len(vstack))' = [k \in 1 .. Len(vstack') - fp' |-> Seen(vstack[fp + k])']
    BY DEF OpsOf
  <2>3. QED
    BY <2>1, <2>2
<1>8. ASSUME NEW k \in 1 .. n + 1
      PROVE  Seen(vstack[fp + k])' = IF k <= n THEN o[k] ELSE x
  <2>1. PICK w : w = vstack'[fp' + k]
    OBVIOUS
  <2>2. PICK y : y = Seen(w)' /\ y = Seen(vstack[fp + k])'
    BY <2>1 DEF Seen
  <2>3. ASSUME k <= n PROVE y = IF k <= n THEN o[k] ELSE x
    <3>1. fp + k \in 1 .. Len(vstack) /\ k \in 1 .. n
      BY <1>1, <1>4, <1>5, <2>3
    <3>2. Good(w) /\ w = vstack[fp + k]
      <4>1. fp' = fp
        OBVIOUS
      <4>2. w = vstack[fp + k]
        BY <1>3, <2>1, <3>1, <4>1
      <4>3. QED
        BY <1>1, <3>1, <4>2
    <3>3. Seen(w)' = Seen(w)
      BY <3>2, SeenSame DEF IInv
    <3>4. Seen(w) = o[k]
      BY <1>5, <3>1, <3>2
    <3>5. y = IF k <= n THEN o[k] ELSE x
      BY <2>2, <2>3, <3>3, <3>4
    <3>6. QED
      BY <3>5
  <2>4. ASSUME k = n + 1 PROVE y = IF k <= n THEN o[k] ELSE x
    <3>1. fp' + k = Len(vstack) + 1 /\ ~(k <= n)
      BY <1>1, <1>4, <1>5, <2>4
    <3>2. w = v
      BY <1>3, <2>1, <3>1
    <3>3. QED
      BY <2>2, <3>1, <3>2
  <2>5. y = IF k <= n THEN o[k] ELSE x
    BY <1>5, <2>3, <2>4
  <2>6. QED
    BY <2>2, <2>5
<1>9. OpsOf(fp, Len(vstack))' = Append(o, x)
  BY <1>6, <1>7, <1>8
<1>10. \A j \in 1 .. fp : vstack'[j] = vstack[j]
  BY <1>1, <1>3
<1>11. PICK s : s = Append(o, x)
  OBVIOUS
<1>12. Acts' = WithTop(p, s)
  BY <1>4, <1>9, <1>10, <1>11, TopStep
<1>13. Acts[Len(Acts)].ops = o
  BY <1>4, ActsAre DEF Act
<1>14. [Acts EXCEPT ![Len(Acts)].ops = s] = WithTop(p, s)
  BY <1>4, WithOpsIs
<1>15. QED
  BY <1>11, <1>12, <1>13, <1>14


LEMMA TopIs ==
  ASSUME IInv, lost = "no", NEW t, t = Acts[Len(Acts)]
  PROVE  /\ t.fn = cp /\ t.ops = OpsOf(fp, Len(vstack)) /\ t.env = EnvOf(env, cp) /\ t.ups = Upvals(closure)
         /\ t.at = pc % (NPoints + 1)
BY ActsAre DEF Act

LEMMA TopOps ==
  ASSUME IInv, IInv', lost = "no", lost' = "no", HeapGrows,
         UNCHANGED <<callstack, pc, fp, cp, env, closure>>,
         \A j \in 1 .. fp : vstack'[j] = vstack[j],
         NEW s, s = OpsOf(fp, Len(vstack))'
  PROVE  Acts' = [Acts EXCEPT ![Len(Acts)].ops = s]
<1>1. PICK p : p = pc % (NPoints + 1)
  OBVIOUS
<1>2. p = pc' % (NPoints + 1)
  BY <1>1
<1>3. Acts' = WithTop(p, s)
  BY <1>2, TopStep
<1>4. [Acts EXCEPT ![Len(Acts)].ops = s] = WithTop(p, s)
  BY <1>1, WithOpsIs
<1>5. QED
  BY <1>3, <1>4

LEMMA SeenStays ==
  ASSUME IInv, HeapGrows, NEW j, NEW w, Good(w), vstack'[j] = w
  PROVE  Seen(vstack[j])' = Seen(w)
<1>1. Seen(vstack[j])' = Seen(w)'
  BY DEF Seen
<1>2. Seen(w)' = Seen(w)
  BY SeenSame DEF IInv
<1>3. QED
  BY <1>1, <1>2

(* Values that leave the stack or change below its top. *)
FirstOf(e, m) == [k \in 1 .. m |-> e[k]]

LEMMA ShrinkOps ==
  ASSUME IInv, HeapGrows, fp' = fp, NEW n, n = Len(vstack) - fp, n > 0, Len(vstack') = Len(vstack) - 1,
         NEW e, \A k \in 1 .. n - 1 : Good(vstack'[fp + k]) /\ Seen(vstack'[fp + k]) = e[k]
  PROVE  OpsOf(fp, Len(vstack))' = FirstOf(e, n - 1)
<1>1. n \in Nat /\ Len(vstack') - fp' = n - 1
  BY TopOK
<1>2. OpsOf(fp, Len(vstack))' = [k \in 1 .. Len(vstack') - fp' |-> Seen(vstack[fp + k])']
  BY DEF OpsOf
<1>3. ASSUME NEW k \in 1 .. n - 1 PROVE Seen(vstack[fp + k])' = e[k]
  <2>1. PICK w, j : w = vstack'[fp + k] /\ j = fp + k
    OBVIOUS
  <2>2. Good(w) /\ Seen(w) = e[k] /\ vstack'[j] = w
    BY <2>1
  <2>3. Seen(vstack[j])' = Seen(w)
    BY <2>2, SeenStays
  <2>4. Seen(vstack[fp + k])' = Seen(vstack[j])'
    <3>1. fp' + k = j
      BY <2>1
    <3>2. QED
      BY <3>1 DEF Seen
  <2>5. QED
    BY <2>2, <2>3, <2>4
<1>4. QED
  BY <1>1, <1>2, <1>3 DEF FirstOf

LEMMA PopRefines ==
  ASSUME IInv, IInv', lost = "no", Pop
  PROVE  Promised!Pop /\ UNCHANGED lost
<1>1. /\ vstack' = Popped /\ UNCHANGED <<callstack, regs, heap, lost>>
      /\ Popped \in Seq(Value) /\ Len(Popped) = Len(vstack) - 1 /\ Len(Popped) >= fp + Own(cp)
      /\ \A j \in 1 .. Len(vstack) - 1 : Popped[j] = vstack[j]
      /\ Len(vstack) \in Nat /\ fp \in Nat /\ Own(cp) \in Nat
  BY PoppedSeq, TopOK DEF Pop
<1>2. UNCHANGED <<callstack, pc, fp, cp, env, closure>> /\ fp' = fp /\ lost' = "no" /\ HeapGrows
  BY <1>1, HeapSame DEF regs, IInv
<1>3. PICK o, n, t : o = OpsOf(fp, Len(vstack)) /\ n = Len(vstack) - fp /\ t = Acts[Len(Acts)]
  OBVIOUS
<1>4. /\ n \in Nat /\ o = [k \in 1 .. n |-> o[k]] /\ Len(o) = n /\ n > 0
      /\ \A k \in 1 .. n : o[k] = Seen(vstack[fp + k])
  BY <1>1, <1>3, OpsAre
<1>5. \A k \in 1 .. n - 1 : Good(vstack'[fp + k]) /\ Seen(vstack'[fp + k]) = o[k]
  <2>1. ASSUME NEW k \in 1 .. n - 1 PROVE Good(vstack'[fp + k]) /\ Seen(vstack'[fp + k]) = o[k]
    <3>1. fp + k \in 1 .. Len(vstack) - 1 /\ k \in 1 .. n
      BY <1>1, <1>3, <1>4
    <3>2. vstack'[fp + k] = vstack[fp + k] /\ fp + k \in 1 .. Len(vstack)
      BY <1>1, <3>1
    <3>3. QED
      BY <1>4, <3>1, <3>2 DEF IInv, StackOK
  <2>2. QED
    BY <2>1
<1>6. PICK s : s = OpsOf(fp, Len(vstack))'
  OBVIOUS
<1>7. s = FirstOf(o, n - 1)
  BY <1>1, <1>2, <1>3, <1>4, <1>5, <1>6, ShrinkOps
<1>8. SubSeq(o, 1, n - 1) = FirstOf(o, n - 1)
  <2>1. SubSeq(o, 1, n - 1) = [k \in 1 .. n - 1 - 1 + 1 |-> o[1 + k - 1]]
    BY <1>4, SubSeqFcn
  <2>2. n - 1 - 1 + 1 = n - 1 /\ \A k \in 1 .. n - 1 : 1 + k - 1 = k
    BY <1>4
  <2>3. QED
    BY <2>1, <2>2 DEF FirstOf
<1>9. \A j \in 1 .. fp : vstack'[j] = vstack[j]
  BY <1>1
<1>10. Acts' = [Acts EXCEPT ![Len(Acts)].ops = s]
  BY <1>2, <1>6, <1>9, TopOps
<1>11. t.ops = o /\ t.ops # <<>> /\ s = SubSeq(t.ops, 1, Len(t.ops) - 1)
  <2>1. t.ops = o
    BY <1>3, TopIs
  <2>2. o # <<>>
    <3>1. Len(o) # 0
      BY <1>4
    <3>2. QED
      BY <3>1
  <2>3. s = SubSeq(o, 1, Len(o) - 1)
    BY <1>4, <1>7, <1>8
  <2>4. QED
    BY <2>1, <2>2, <2>3
<1>12. CellValues' = CellValues
  BY <1>1, CellsKept
<1>13. QED
  BY <1>1, <1>3, <1>10, <1>11, <1>12 DEF Promised!Pop, Promised!WithOps, Promised!Top, Acts, CellValues



LEMMA JumpRefines ==
  ASSUME IInv, IInv', lost = "no", Jump
  PROVE  Promised!Jump /\ UNCHANGED lost
<1>1. PICK p \in 0 .. NPoints : pc' = At(Runs(pc), p)
  BY DEF Jump
<1>2. UNCHANGED <<vstack, callstack, fp, cp, env, closure>> /\ UNCHANGED heap /\ lost' = "no"
  BY DEF Jump
<1>3. p = pc' % (NPoints + 1)
  BY <1>1, RunsAt, TopOK
<1>4. HeapGrows /\ HeapOK
  BY <1>2, HeapSame DEF IInv
<1>5. PICK b, n : b = fp /\ n = Len(vstack)
  OBVIOUS
<1>6. b \in Nat /\ n \in Nat /\ n <= Len(vstack) /\ \A j \in b + 1 .. n : vstack'[j] = vstack[j]
  BY <1>2, <1>5, TopOK
<1>7. OpsOf(b, n)' = OpsOf(b, n)
  BY <1>4, <1>6, OpsSame
<1>8. PICK s : s = OpsOf(fp, Len(vstack))
  OBVIOUS
<1>9. s = OpsOf(fp, Len(vstack))'
  <2>1. fp' = b /\ Len(vstack') = n
    BY <1>2, <1>5
  <2>2. OpsOf(fp, Len(vstack))' = OpsOf(b, n)'
    BY <2>1 DEF OpsOf
  <2>3. QED
    BY <1>5, <1>7, <1>8, <2>2
<1>10. Acts' = WithTop(p, s)
  BY <1>2, <1>3, <1>4, <1>9, TopStep
<1>11. [Acts EXCEPT ![Len(Acts)].at = p] = WithTop(p, s)
  BY <1>8, WithAtIs
<1>12. CellValues' = CellValues
  BY <1>2, CellsKept
<1>13. Acts' = [Acts EXCEPT ![Len(Acts)].at = p]
  BY <1>10, <1>11
<1>14. QED
  BY <1>2, <1>12, <1>13 DEF Promised!Jump, Acts, CellValues

(* A pushed value appears on top of the running activation. *)
LEMMA PushRefines ==
  ASSUME IInv, IInv', lost = "no", lost' = "no", NEW v, Good(v), vstack_push(vstack, v),
         UNCHANGED <<callstack, regs, heap>>, NEW x, x = Seen(v)
  PROVE  /\ Acts' = [Acts EXCEPT ![Len(Acts)].ops = Append(Acts[Len(Acts)].ops, x)]
         /\ CellValues' = CellValues
<1>1. UNCHANGED <<callstack, pc, fp, cp, env, closure>> /\ UNCHANGED heap /\ lost' = "no"
  BY DEF regs
<1>2. HeapGrows /\ HeapOK
  BY <1>1, HeapSame DEF IInv
<1>3. Good(v)' /\ x = Seen(v)'
  BY <1>2, GrowGood, SeenSame
<1>4. vstack' = Append(vstack, v)
  BY DEF vstack_push
<1>5. QED
  BY <1>1, <1>2, <1>3, <1>4, PushActs, CellsKept

LEMMA LoadRefines ==
  ASSUME IInv, IInv', lost = "no", lost' = "no", NEW v \in Plain, Load(v)
  PROVE  Promised!Load
<1>1. Good(v) /\ v = Seen(v)
  BY PlainGood, SeenPlain
<1>2. Acts' = [Acts EXCEPT ![Len(Acts)].ops = Append(Acts[Len(Acts)].ops, v)] /\ CellValues' = CellValues
  BY <1>1, PushRefines DEF Load
<1>3. QED
  BY <1>2 DEF Promised!Load, Promised!WithOps, Promised!Top, Acts, CellValues

LEMMA GetLocalRefines ==
  ASSUME IInv, IInv', lost = "no", lost' = "no", NEW i \in 0 .. VStackUnits, GetLocal(i)
  PROVE  Promised!GetLocal
<1>1. PICK v, o, n, x : v = vstack[Local(i)] /\ o = OpsOf(fp, Len(vstack)) /\ n = Len(vstack) - fp /\ x = Seen(v)
  OBVIOUS
<1>2. i < Height /\ vstack_push(vstack, v) /\ UNCHANGED <<callstack, regs, heap>>
  BY <1>1 DEF GetLocal
<1>3. Good(v)
  BY <1>1, <1>2, LocalIn DEF IInv, StackOK
<1>4. i + 1 \in 1 .. n /\ fp + (i + 1) = Local(i)
  BY <1>1, <1>2, TopOK DEF Height, Local
<1>5. DOMAIN o = 1 .. n /\ o[i + 1] = Seen(vstack[fp + (i + 1)])
  BY <1>1, <1>4, OpsAre
<1>6. x = o[i + 1]
  BY <1>1, <1>4, <1>5
<1>7. Acts' = [Acts EXCEPT ![Len(Acts)].ops = Append(Acts[Len(Acts)].ops, x)] /\ CellValues' = CellValues
  BY <1>1, <1>2, <1>3, PushRefines
<1>8. Acts[Len(Acts)].ops = o
  BY <1>1, TopIs
<1>9. \E k \in DOMAIN Acts[Len(Acts)].ops :
        Acts' = [Acts EXCEPT ![Len(Acts)].ops = Append(Acts[Len(Acts)].ops, Acts[Len(Acts)].ops[k])]
  BY <1>4, <1>5, <1>6, <1>7, <1>8
<1>10. QED
  BY <1>7, <1>9 DEF Promised!GetLocal, Promised!WithOps, Promised!Top, Acts, CellValues

(* Reading a cell. *)
LEMMA ReadRefines ==
  ASSUME IInv, IInv', lost = "no", lost' = "no", NEW a, CellRef(a), ReadCell(a)
  PROVE  Promised!Get(a) /\ Cell(a) /\ a = CellOf(a)
<1>1. /\ a \in Arena /\ Cell(a)
      /\ vstack_push(vstack, arena[a]) /\ UNCHANGED <<callstack, regs, heap>>
  BY Places DEF ReadCell, Lose, CellRef
<1>2. PICK v, x : v = arena[a] /\ x = Seen(v)
  OBVIOUS
<1>3. Good(v)
  BY <1>1, <1>2 DEF IInv, HeapOK, Cell
<1>4. /\ Acts' = [Acts EXCEPT ![Len(Acts)].ops = Append(Acts[Len(Acts)].ops, x)]
      /\ CellValues' = CellValues
  BY <1>1, <1>2, <1>3, PushRefines
<1>5. a \in CellsInUse
  BY <1>1, CellsAre DEF IInv
<1>6. a \in DOMAIN CellValues /\ CellValues[a] = x
  BY <1>2, <1>5 DEF CellValues
<1>7. Acts' = [Acts EXCEPT ![Len(Acts)].ops = Append(Acts[Len(Acts)].ops, CellValues[a])]
  BY <1>4, <1>6
<1>8. QED
  BY <1>1, <1>4, <1>6, <1>7 DEF Promised!Get, Promised!WithOps, Promised!Top, Acts, CellValues, CellOf


(* One value fewer on the running activation, those below it as e has them. *)
LEMMA ShrinkActs ==
  ASSUME IInv, IInv', lost = "no", lost' = "no", HeapGrows, UNCHANGED <<callstack, pc, fp, cp, env, closure>>,
         Len(vstack') = Len(vstack) - 1, NEW n, n = Len(vstack) - fp, n > 0,
         NEW e, e = [k \in 1 .. n |-> e[k]],
         \A k \in 1 .. n - 1 : Good(vstack'[fp + k]) /\ Seen(vstack'[fp + k]) = e[k],
         \A j \in 1 .. fp : vstack'[j] = vstack[j]
  PROVE  Acts' = [Acts EXCEPT ![Len(Acts)].ops = SubSeq(e, 1, n - 1)]
<1>1. n \in Nat
  BY TopOK
<1>2. PICK s : s = OpsOf(fp, Len(vstack))'
  OBVIOUS
<1>3. s = FirstOf(e, n - 1)
  <2>1. fp' = fp
    OBVIOUS
  <2>2. QED
    BY <1>2, <2>1, ShrinkOps
<1>4. SubSeq(e, 1, n - 1) = FirstOf(e, n - 1)
  <2>1. SubSeq(e, 1, n - 1) = [k \in 1 .. n - 1 - 1 + 1 |-> e[1 + k - 1]]
    BY <1>1, SubSeqFcn
  <2>2. n - 1 - 1 + 1 = n - 1 /\ \A k \in 1 .. n - 1 : 1 + k - 1 = k
    BY <1>1
  <2>3. QED
    BY <2>1, <2>2 DEF FirstOf
<1>5. Acts' = [Acts EXCEPT ![Len(Acts)].ops = s]
  BY <1>2, TopOps
<1>6. QED
  BY <1>3, <1>4, <1>5

LEMMA CapturedIs ==
  ASSUME IInv, lost = "no", NEW i \in Nat, i < EnvCells[cp], NEW a, a = get_captured_cell_ptr(i),
         NEW t, t = Acts[Len(Acts)]
  PROVE  i + 1 \in DOMAIN t.env /\ t.env[i + 1] = CellOf(a)
<1>1. EnvCells[cp] \in Nat /\ env \in Nat
  BY TopOK, ProgramAssumption, Places DEF EnvOK, NULL
<1>2. i + 1 \in 1 .. EnvCells[cp] /\ env + (i + 1) - 1 = a
  BY <1>1 DEF get_captured_cell_ptr
<1>3. t.env = [k \in 1 .. EnvCells[cp] |-> CellOf(env + k - 1)]
  BY TopIs DEF EnvOf
<1>4. t.env[i + 1] = CellOf(env + (i + 1) - 1)
  BY <1>2, <1>3
<1>5. QED
  BY <1>2, <1>3, <1>4

LEMMA UpvalueIs ==
  ASSUME IInv, lost = "no", NEW i \in Upvalues, NEW a, a = get_upvalue_cell_ptr(i),
         NEW t, t = Acts[Len(Acts)]
  PROVE  i + 1 \in DOMAIN t.ups /\ t.ups[i + 1] = CellOf(a)
<1>1. Runs(pc) = cp /\ cp # Main /\ cp \in Function
  BY TopOK DEF Upvalues, Code
<1>2. Captures[cp] \in Seq([parent : BOOLEAN, index : Nat])
  BY <1>1, ProgramAssumption
<1>3. PICK k \in 1 .. Len(Captures[cp]) : i = k - 1
  BY <1>1, <1>2 DEF Upvalues
<1>4. Captures[cp] # <<>>
  BY <1>3
<1>5. ClosureAt(closure, cp) /\ closure \in Nat
  BY <1>1, TopOK, Places
<1>6. Record(closure) = cp /\ closure \in Arena
  BY <1>4, <1>5, ClosureRecord
<1>7. Upvals(closure) = [j \in DOMAIN Captures[cp] |-> CellOf(arena[closure + j][2])]
  BY <1>6 DEF Upvals
<1>8. k \in DOMAIN Captures[cp] /\ i + 1 = k /\ closure + 1 + i = closure + k
  BY <1>2, <1>3, <1>5
<1>9. a = arena[closure + k][2]
  BY <1>8 DEF get_upvalue_cell_ptr
<1>10. t.ups = Upvals(closure)
  BY TopIs
<1>11. Upvals(closure)[k] = CellOf(a)
  BY <1>7, <1>8, <1>9
<1>12. QED
  BY <1>7, <1>8, <1>10, <1>11

LEMMA SetLocalRefines ==
  ASSUME IInv, IInv', lost = "no", NEW i \in 0 .. VStackUnits, SetLocal(i)
  PROVE  Promised!SetLocal /\ UNCHANGED lost
<1>1. PICK l, v : l = Local(i) /\ v = Last(vstack)
  OBVIOUS
<1>2. /\ Height > Own(Runs(pc)) /\ i < Height - 1
      /\ vstack' = [Popped EXCEPT ![l] = v]
      /\ UNCHANGED <<callstack, pc, fp, cp, env, closure>> /\ UNCHANGED <<heap, lost>> /\ UNCHANGED heap
  BY <1>1 DEF SetLocal, regs
<1>3. /\ Popped \in Seq(Value) /\ Len(Popped) = Len(vstack) - 1 /\ Len(Popped) >= fp + Own(cp)
      /\ \A j \in 1 .. Len(vstack) - 1 : Popped[j] = vstack[j]
      /\ Len(vstack) \in Nat /\ fp \in Nat /\ Own(cp) \in Nat /\ Good(v)
  BY <1>1, <1>2, PoppedSeq, TopOK
<1>4. HeapGrows /\ lost' = "no" /\ fp' = fp
  BY <1>2, HeapSame DEF IInv
<1>5. PICK o, n, t : o = OpsOf(fp, Len(vstack)) /\ n = Len(vstack) - fp /\ t = Acts[Len(Acts)]
  OBVIOUS
<1>6. /\ n \in Nat /\ o = [k \in 1 .. n |-> o[k]] /\ Len(o) = n /\ n > 0 /\ DOMAIN o = 1 .. n
      /\ \A k \in 1 .. n : o[k] = Seen(vstack[fp + k])
  BY <1>3, <1>5, OpsAre
<1>7. t.ops = o
  BY <1>5, TopIs
<1>8. /\ i + 1 \in 1 .. n - 1 /\ l = fp + (i + 1) /\ l \in 1 .. Len(vstack) - 1
      /\ \A k \in 1 .. n - 1 : fp + k \in 1 .. Len(vstack) - 1 /\ (fp + k = l <=> k = i + 1)
      /\ \A j \in 1 .. fp : j \in 1 .. Len(vstack) - 1 /\ j # l
  <2>1. l = fp + i + 1 /\ i < Len(vstack) - fp - 1 /\ i \in Nat
    BY <1>1, <1>2, SizeAssumption DEF Height, Local
  <2>2. i + 1 \in 1 .. n - 1 /\ l = fp + (i + 1) /\ n = Len(vstack) - fp
    BY <1>3, <1>5, <1>6, <2>1
  <2>3. l \in 1 .. Len(vstack) - 1
    BY <1>3, <1>6, <2>1
  <2>4. \A k \in 1 .. n - 1 : fp + k \in 1 .. Len(vstack) - 1 /\ (fp + k = l <=> k = i + 1)
    BY <1>3, <1>6, <2>1, <2>2
  <2>5. \A j \in 1 .. fp : j \in 1 .. Len(vstack) - 1 /\ j # l
    BY <1>3, <1>6, <2>1, <2>2
  <2>6. QED
    BY <2>2, <2>3, <2>4, <2>5
<1>9. Len(vstack') = Len(vstack) - 1 /\ \A j \in 1 .. Len(vstack) - 1 : vstack'[j] = IF j = l THEN v ELSE vstack[j]
  BY <1>2, <1>3, <1>8
<1>10. PICK e : e = [o EXCEPT ![i + 1] = o[n]]
  OBVIOUS
<1>11. e = [k \in 1 .. n |-> e[k]] /\ \A k \in 1 .. n : e[k] = IF k = i + 1 THEN o[n] ELSE o[k]
  BY <1>6, <1>10
<1>12. o[n] = Seen(v)
  <2>1. fp + n = Len(vstack) /\ n \in 1 .. n
    BY <1>3, <1>5, <1>6
  <2>2. v = vstack[fp + n]
    BY <1>1, <2>1 DEF Last
  <2>3. QED
    BY <1>6, <2>1, <2>2
<1>13. \A k \in 1 .. n - 1 : Good(vstack'[fp + k]) /\ Seen(vstack'[fp + k]) = e[k]
  <2>1. ASSUME NEW k \in 1 .. n - 1 PROVE Good(vstack'[fp + k]) /\ Seen(vstack'[fp + k]) = e[k]
    <3>1. k \in 1 .. n /\ fp + k \in 1 .. Len(vstack) - 1 /\ (fp + k = l <=> k = i + 1) /\ fp + k \in 1 .. Len(vstack)
      BY <1>3, <1>6, <1>8
    <3>2. Good(vstack[fp + k])
      BY <3>1 DEF IInv, StackOK
    <3>3. CASE k = i + 1
      BY <1>3, <1>9, <1>11, <1>12, <3>1, <3>3
    <3>4. CASE k # i + 1
      <4>1. vstack'[fp + k] = vstack[fp + k]
        BY <1>9, <3>1, <3>4
      <4>2. e[k] = o[k] /\ o[k] = Seen(vstack[fp + k])
        BY <1>6, <1>11, <3>1, <3>4
      <4>3. QED
        BY <3>2, <4>1, <4>2
    <3>5. QED
      BY <3>3, <3>4
  <2>2. QED
    BY <2>1
<1>14. \A j \in 1 .. fp : vstack'[j] = vstack[j]
  BY <1>8, <1>9
<1>15. Acts' = [Acts EXCEPT ![Len(Acts)].ops = SubSeq(e, 1, n - 1)]
  BY <1>2, <1>4, <1>5, <1>6, <1>9, <1>11, <1>13, <1>14, ShrinkActs
<1>16. CellValues' = CellValues
  BY <1>2, CellsKept
<1>17. PICK k : k = i + 1
  OBVIOUS
<1>18. k \in DOMAIN t.ops /\ k < Len(t.ops) /\ e = [t.ops EXCEPT ![k] = t.ops[Len(t.ops)]] /\ n = Len(t.ops)
  BY <1>6, <1>7, <1>8, <1>10, <1>17
<1>19. Acts' = [Acts EXCEPT ![Len(Acts)].ops =
                  SubSeq([t.ops EXCEPT ![k] = t.ops[Len(t.ops)]], 1, Len(t.ops) - 1)]
  BY <1>15, <1>18
<1>20. QED
  BY <1>2, <1>5, <1>16, <1>18, <1>19 DEF Promised!SetLocal, Promised!WithOps, Promised!Top, Acts, CellValues


(* The same of the next state. *)
LEMMA CellsAreLater == HeapOK' => \A a : a \in CellsInUse' <=> Cell(a)'
<1>1. HeapOK => \A a : a \in CellsInUse <=> Cell(a)
  BY CellsAre
<1>2. (HeapOK => \A a : a \in CellsInUse <=> Cell(a))'
  BY <1>1, PTL
<1>3. QED
  BY <1>2

(* Writing a cell. *)
LEMMA WriteHeap ==
  ASSUME IInv, NEW a, Cell(a), WriteCell(a)
  PROVE  /\ UNCHANGED <<callstack, pc, fp, cp, env, closure>> /\ UNCHANGED lost
         /\ vstack' = Popped /\ Height > Own(Runs(pc)) /\ closure_ptr' = closure_ptr
         /\ \A b \in Arena : arena'[b] = IF b = a THEN Last(vstack) ELSE arena[b]
         /\ HeapGrows /\ Last(vstack) \in Value /\ Good(Last(vstack))
<1>1. /\ a \in Arena /\ vstack' = Popped /\ Height > Own(Runs(pc))
      /\ arena' = [arena EXCEPT ![a] = Last(vstack)]
      /\ UNCHANGED <<callstack, pc, fp, cp, env, closure>>
      /\ closure_ptr' = closure_ptr /\ fails' = fails /\ UNCHANGED lost
  BY DEF WriteCell, Cell, regs
<1>2. Last(vstack) \in Value /\ Good(Last(vstack))
  BY <1>1, PoppedSeq
<1>3. closure_ptr \in Nat /\ fails \in Nat /\ arena \in [Arena -> Word]
  BY HeapTypes DEF IInv, HeapOK
<1>4. \A b \in Arena : arena'[b] = IF b = a THEN Last(vstack) ELSE arena[b]
  BY <1>1, <1>3
<1>5. HeapGrows
  BY <1>1, <1>2, <1>3, <1>4 DEF HeapGrows, Cell
<1>6. QED
  BY <1>1, <1>2, <1>4, <1>5

LEMMA WriteValues ==
  ASSUME IInv, IInv', lost = "no", NEW a, Cell(a), WriteCell(a)
  PROVE  a \in DOMAIN CellValues /\ CellValues' = [CellValues EXCEPT ![a] = Seen(Last(vstack))]
<1>1. /\ closure_ptr' = closure_ptr /\ lost' = "no"
      /\ \A b \in Arena : arena'[b] = IF b = a THEN Last(vstack) ELSE arena[b]
      /\ HeapGrows /\ HeapOK /\ Last(vstack) \in Value /\ Good(Last(vstack))
  BY WriteHeap DEF IInv
<1>2. \A b : b \in CellsInUse' <=> Cell(b)'
  <2>1. HeapOK'
    BY DEF IInv
  <2>2. QED
    BY <2>1, CellsAreLater
<1>3. \A b : Cell(b)' <=> Cell(b)
  BY <1>1 DEF Cell
<1>4. CellsInUse' = CellsInUse /\ a \in CellsInUse
  BY <1>1, <1>2, <1>3, CellsAre
<1>5. CellValues = [b \in CellsInUse |-> Seen(arena[b])]
  BY DEF CellValues
<1>6. CellValues' = [b \in CellsInUse |-> Seen(arena[b])']
  BY <1>1, <1>4 DEF CellValues
<1>7. ASSUME NEW b \in CellsInUse
      PROVE  Seen(arena[b])' = IF b = a THEN Seen(Last(vstack)) ELSE Seen(arena[b])
  <2>1. PICK w : w = arena'[b]
    OBVIOUS
  <2>2. b \in Arena /\ Cell(b)
    BY <1>1, CellsAre DEF Cell
  <2>3. w = IF b = a THEN Last(vstack) ELSE arena[b]
    BY <1>1, <2>1, <2>2
  <2>4. Good(w)
    BY <1>1, <2>2, <2>3 DEF HeapOK, Cell
  <2>5. Seen(w)' = Seen(w)
    BY <1>1, <2>4, SeenSame
  <2>6. Seen(arena[b])' = Seen(w)'
    BY <2>1 DEF Seen
  <2>7. QED
    BY <2>3, <2>5, <2>6
<1>8. QED
  BY <1>4, <1>5, <1>6, <1>7

LEMMA WriteRefines ==
  ASSUME IInv, IInv', lost = "no", lost' = "no", NEW a, CellRef(a), WriteCell(a)
  PROVE  Promised!Set(a) /\ a = CellOf(a)
<1>1. a \in Arena /\ Cell(a)
  BY Places DEF WriteCell, Lose, CellRef
<1>2. /\ UNCHANGED <<callstack, pc, fp, cp, env, closure>> /\ HeapGrows
      /\ vstack' = Popped /\ Height > Own(Runs(pc))
  BY <1>1, WriteHeap
<1>3. /\ Len(Popped) = Len(vstack) - 1 /\ Len(Popped) >= fp + Own(cp)
      /\ \A j \in 1 .. Len(vstack) - 1 : Popped[j] = vstack[j]
      /\ Len(vstack) \in Nat /\ fp \in Nat /\ Own(cp) \in Nat
  BY <1>2, PoppedSeq, TopOK
<1>4. PICK o, n, t : o = OpsOf(fp, Len(vstack)) /\ n = Len(vstack) - fp /\ t = Acts[Len(Acts)]
  OBVIOUS
<1>5. /\ n \in Nat /\ o = [k \in 1 .. n |-> o[k]] /\ Len(o) = n /\ n > 0
      /\ \A k \in 1 .. n : o[k] = Seen(vstack[fp + k])
  BY <1>3, <1>4, OpsAre
<1>6. \A k \in 1 .. n - 1 : Good(vstack'[fp + k]) /\ Seen(vstack'[fp + k]) = o[k]
  <2>1. ASSUME NEW k \in 1 .. n - 1 PROVE Good(vstack'[fp + k]) /\ Seen(vstack'[fp + k]) = o[k]
    <3>1. fp + k \in 1 .. Len(vstack) - 1 /\ k \in 1 .. n
      BY <1>3, <1>4, <1>5
    <3>2. vstack'[fp + k] = vstack[fp + k] /\ fp + k \in 1 .. Len(vstack)
      BY <1>2, <1>3, <3>1
    <3>3. QED
      BY <1>5, <3>1, <3>2 DEF IInv, StackOK
  <2>2. QED
    BY <2>1
<1>7. \A j \in 1 .. fp : vstack'[j] = vstack[j]
  BY <1>2, <1>3
<1>8. Acts' = [Acts EXCEPT ![Len(Acts)].ops = SubSeq(o, 1, n - 1)]
  <2>1. Len(vstack') = Len(vstack) - 1
    BY <1>2, <1>3
  <2>2. QED
    BY <1>2, <1>4, <1>5, <1>6, <1>7, <2>1, ShrinkActs
<1>9. a \in DOMAIN CellValues /\ CellValues' = [CellValues EXCEPT ![a] = Seen(Last(vstack))]
  BY <1>1, WriteValues
<1>10. t.ops = o
  BY <1>4, TopIs
<1>11. o # <<>>
  <2>1. Len(o) # 0
    BY <1>5
  <2>2. QED
    BY <2>1
<1>12. o[Len(o)] = Seen(Last(vstack))
  <2>1. fp + n = Len(vstack) /\ n \in 1 .. n
    BY <1>3, <1>4, <1>5
  <2>2. Last(vstack) = vstack[fp + n]
    BY <2>1 DEF Last
  <2>3. QED
    BY <1>5, <2>1, <2>2
<1>13. /\ t.ops # <<>> /\ CellValues' = [CellValues EXCEPT ![a] = t.ops[Len(t.ops)]]
       /\ Acts' = [Acts EXCEPT ![Len(Acts)].ops = SubSeq(t.ops, 1, Len(t.ops) - 1)]
  BY <1>5, <1>8, <1>9, <1>10, <1>11, <1>12
<1>14. QED
  BY <1>1, <1>4, <1>9, <1>13 DEF Promised!Set, Promised!WithOps, Promised!Top, Acts, CellValues, CellOf

LEMMA CellsRefine ==
  ASSUME IInv, IInv', lost = "no", lost' = "no", NEW i \in 0 .. VStackUnits,
         GetCaptured(i) \/ SetCaptured(i) \/ GetUpval(i) \/ SetUpval(i)
  PROVE  Promised!Step
<1>1. PICK t : t = Acts[Len(Acts)]
  OBVIOUS
<1>2. i \in Nat
  BY SizeAssumption
<1>3. CASE GetCaptured(i) \/ SetCaptured(i)
  <2>1. PICK a : a = get_captured_cell_ptr(i)
    OBVIOUS
  <2>2. i < EnvCells[cp] /\ (ReadCell(a) \/ WriteCell(a))
    BY <1>3, <2>1, TopOK DEF GetCaptured, SetCaptured
  <2>3. CellRef(a) /\ i + 1 \in DOMAIN t.env /\ t.env[i + 1] = CellOf(a)
    BY <1>1, <1>2, <2>1, <2>2, CapturedRef, CapturedIs
  <2>4. a = CellOf(a) /\ (Promised!Get(a) \/ Promised!Set(a))
    BY <2>2, <2>3, ReadRefines, WriteRefines
  <2>5. \E k \in DOMAIN t.env : Promised!Get(t.env[k]) \/ Promised!Set(t.env[k])
    BY <2>3, <2>4
  <2>6. QED
    BY <1>1, <2>5 DEF Promised!Step, Promised!Top, Acts
<1>4. CASE GetUpval(i) \/ SetUpval(i)
  <2>1. PICK a : a = get_upvalue_cell_ptr(i)
    OBVIOUS
  <2>2. i \in Upvalues /\ (ReadCell(a) \/ WriteCell(a))
    BY <1>4, <2>1 DEF GetUpval, SetUpval
  <2>3. CellRef(a) /\ i + 1 \in DOMAIN t.ups /\ t.ups[i + 1] = CellOf(a)
    BY <1>1, <2>1, <2>2, UpvalueRef, UpvalueIs
  <2>4. a = CellOf(a) /\ (Promised!Get(a) \/ Promised!Set(a))
    BY <2>2, <2>3, ReadRefines, WriteRefines
  <2>5. \E k \in DOMAIN t.ups : Promised!Get(t.ups[k]) \/ Promised!Set(t.ups[k])
    BY <2>3, <2>4
  <2>6. QED
    BY <1>1, <2>5 DEF Promised!Step, Promised!Top, Acts
<1>5. QED
  BY <1>3, <1>4


-----------------------------------------------------------------------------
(* Closures refine closures: an upvalue is the variable of the activation   *)
(* that makes the closure.                                                  *)

UpsOf(t, f) ==
  [k \in DOMAIN Captures[f] |->
     IF Captures[f][k].parent THEN t.ups[Captures[f][k].index + 1]
                              ELSE t.env[Captures[f][k].index + 1]]

LEMMA StaticClosureRefines ==
  ASSUME IInv, IInv', lost = "no", lost' = "no", NEW f \in Function, StaticClosure(f)
  PROVE  Promised!Make
<1>1. /\ Encl[f] = Runs(pc) /\ Captures[f] = <<>> /\ vstack_push(vstack, Fun(f))
      /\ UNCHANGED <<callstack, regs, heap>>
  BY DEF StaticClosure
<1>2. PICK t, u, v : t = Acts[Len(Acts)] /\ u = UpsOf(t, f) /\ v = Fun(f)
  OBVIOUS
<1>3. ClosureAt(f, f) /\ f \notin Arena
  BY <1>1, Places DEF ClosureAt
<1>4. Good(v)
  BY <1>2, <1>3, Places DEF Good
<1>5. Seen(v) = <<"closure", f, <<>> >>
  BY <1>2, <1>3, ClosureRecord DEF Seen, Fun, Upvals
<1>6. u = <<>>
  BY <1>1, <1>2 DEF UpsOf
<1>7. PICK x : x = Seen(v)
  OBVIOUS
<1>8. Acts' = [Acts EXCEPT ![Len(Acts)].ops = Append(Acts[Len(Acts)].ops, x)] /\ CellValues' = CellValues
  BY <1>1, <1>2, <1>4, <1>7, PushRefines
<1>9. t.fn = Encl[f]
  BY <1>1, <1>2, TopIs, TopOK
<1>10. Acts' = [Acts EXCEPT ![Len(Acts)].ops = Append(t.ops, <<"closure", f, u>>)]
  BY <1>2, <1>5, <1>6, <1>7, <1>8
<1>11. \E g \in Function :
         /\ Encl[g] = Acts[Len(Acts)].fn
         /\ Acts' = [Acts EXCEPT ![Len(Acts)].ops =
                       Append(Acts[Len(Acts)].ops, <<"closure", g, UpsOf(Acts[Len(Acts)], g)>>)]
  BY <1>9, <1>10, <1>2
<1>12. QED
  BY <1>8, <1>11
  DEF Promised!Make, Promised!WithOps, Promised!Top, Promised!Closure, Acts, CellValues, UpsOf

(* What the descriptors of f select in the running activation. *)
LEMMA CellsSeen ==
  ASSUME IInv, lost = "no", NEW f \in Function, Encl[f] = Runs(pc), NEW t, t = Acts[Len(Acts)]
  PROVE  \A k \in DOMAIN Captures[f] : CellOf(Cells(f)[k][2]) = UpsOf(t, f)[k]
<1> TAKE k \in DOMAIN Captures[f]
<1>1. PICK d : d = Captures[f][k]
  OBVIOUS
<1>2. Captures[f] \in Seq([parent : BOOLEAN, index : Nat])
  BY ProgramAssumption
<1>3. d \in [parent : BOOLEAN, index : Nat]
  <2>1. k \in 1 .. Len(Captures[f])
    BY <1>2
  <2>2. QED
    BY <1>1, <1>2, <2>1, ElementOfSeq
<1>4. d.index \in Nat /\ d.parent \in BOOLEAN
  BY <1>3
<1>5. IF d.parent THEN Encl[f] # Main /\ d.index + 1 \in DOMAIN Captures[Encl[f]]
                  ELSE d.index \in 0 .. EnvCells[Encl[f]] - 1
  BY <1>1, ProgramAssumption
<1>6. PICK a : a = IF d.parent THEN get_upvalue_cell_ptr(d.index) ELSE get_captured_cell_ptr(d.index)
  OBVIOUS
<1>7. Cells(f)[k][2] = a
  BY <1>1, <1>6 DEF Cells, Pointer
<1>8. UpsOf(t, f)[k] = IF d.parent THEN t.ups[d.index + 1] ELSE t.env[d.index + 1]
  BY <1>1 DEF UpsOf
<1>9. PICK j : j = d.index
  OBVIOUS
<1>10. CASE d.parent
  <2>1. j + 1 \in DOMAIN Captures[Runs(pc)] /\ Runs(pc) # Main
    BY <1>5, <1>9, <1>10
  <2>2. j \in Upvalues
    <3>1. j = (j + 1) - 1
      BY <1>4, <1>9
    <3>2. QED
      BY <2>1, <3>1 DEF Upvalues
  <2>3. a = get_upvalue_cell_ptr(j)
    BY <1>6, <1>9, <1>10
  <2>4. t.ups[j + 1] = CellOf(a)
    BY <2>2, <2>3, UpvalueIs
  <2>5. QED
    BY <1>7, <1>8, <1>9, <1>10, <2>4
<1>11. CASE ~d.parent
  <2>1. j < EnvCells[cp] /\ j \in Nat
    <3>1. EnvCells[cp] \in Int /\ d.index \in 0 .. EnvCells[cp] - 1
      BY <1>5, <1>11, TopOK, ProgramAssumption, Places
    <3>2. QED
      BY <1>4, <1>9, <3>1
  <2>2. a = get_captured_cell_ptr(j)
    BY <1>6, <1>9, <1>11
  <2>3. t.env[j + 1] = CellOf(a)
    BY <2>1, <2>2, CapturedIs
  <2>4. QED
    BY <1>7, <1>8, <1>9, <1>11, <2>3
<1>12. QED
  BY <1>10, <1>11

(* The cells of a step that hands out none and writes none. *)
LEMMA CellValuesSame ==
  ASSUME IInv, IInv', lost = "no", lost' = "no", HeapGrows,
         \A a : (Cell(a)' <=> Cell(a)) /\ (Cell(a) => arena'[a] = arena[a])
  PROVE  CellValues' = CellValues
<1>1. \A a : a \in CellsInUse' <=> Cell(a)'
  BY CellsAreLater DEF IInv
<1>2. CellsInUse' = CellsInUse
  BY <1>1, CellsAre DEF IInv
<1>3. ASSUME NEW b \in CellsInUse PROVE Seen(arena[b])' = Seen(arena[b])
  <2>1. Cell(b) /\ arena'[b] = arena[b]
    BY <1>3, CellsAre DEF IInv
  <2>2. PICK w : w = arena[b]
    OBVIOUS
  <2>3. Good(w)
    BY <2>1, <2>2 DEF IInv, HeapOK, Cell
  <2>4. Seen(w)' = Seen(w)
    BY <2>3, SeenSame DEF IInv
  <2>5. Seen(arena[b])' = Seen(w)'
    BY <2>1, <2>2 DEF Seen
  <2>6. QED
    BY <2>2, <2>4, <2>5
<1>4. QED
  BY <1>2, <1>3 DEF CellValues

LEMMA NewClosureRefines ==
  ASSUME IInv, IInv', lost = "no", lost' = "no", NEW f \in Function, NewClosure(f)
  PROVE  Promised!Make
<1>1. PICK n, p, v : n = Len(Captures[f]) + 1 /\ p = closure_ptr /\ v = Fun(p)
  OBVIOUS
<1>2. /\ Encl[f] = Runs(pc) /\ n > 1 /\ HasRoom(n)
      /\ arena' = [a \in Arena |->
                     IF a = closure_ptr THEN Header(f)
                     ELSE IF a \in closure_ptr + 1 .. closure_ptr + n - 1
                            THEN Cells(f)[a - closure_ptr] ELSE arena[a]]
      /\ closure_ptr' = closure_ptr + n /\ vstack_push(vstack, Fun(closure_ptr))
      /\ UNCHANGED <<callstack, regs, fails>>
  BY <1>1 DEF NewClosure
<1>3. UNCHANGED <<callstack, pc, fp, cp, env, closure>> /\ fails' = fails /\ vstack' = Append(vstack, v)
  BY <1>1, <1>2 DEF regs, vstack_push
<1>4. n \in Nat /\ Captures[f] \in Seq([parent : BOOLEAN, index : Nat]) /\ DOMAIN Captures[f] = 1 .. n - 1
  BY <1>1, ProgramAssumption
<1>5. /\ HeapGrows /\ HeapOK' /\ closure_ptr \in 1 .. End - 1
      /\ \A a : a = closure_ptr => Good(Fun(a))'
  BY <1>1, <1>2, <1>3, <1>4, MakeClosure
<1>6. Good(v)'
  BY <1>1, <1>5
<1>7. PICK t, u, x : t = Acts[Len(Acts)] /\ u = UpsOf(t, f) /\ x = Seen(v)'
  OBVIOUS
<1>8. /\ p \in Nat /\ p >= Base /\ p + n <= End /\ n >= 1
      /\ closure_ptr \in Nat
  BY <1>1, <1>2, <1>4, HeapTypes, Places DEF IInv, HeapOK, HasRoom
<1>9. p \in Arena /\ arena'[p] = Header(f)
  <2>1. p \in Arena
    BY <1>4, <1>8, Places DEF Arena
  <2>2. QED
    BY <1>1, <1>2, <2>1
<1>10. ASSUME NEW k \in DOMAIN Captures[f] PROVE p + k \in Arena /\ arena'[p + k] = Cells(f)[k]
  <2>1. PICK a : a = p + k
    OBVIOUS
  <2>2. a \in Arena /\ a # p /\ a \in p + 1 .. p + n - 1 /\ a - p = k
    BY <1>4, <1>8, <2>1, Places DEF Arena
  <2>3. arena'[a] = Cells(f)[a - p]
    BY <1>1, <1>2, <2>2
  <2>4. QED
    BY <2>1, <2>2, <2>3
<1>11. Upvals(p)' = u
  <2>1. Record(p)' = f
    BY <1>9, HeaderIs DEF Record
  <2>2. Upvals(p)' = [k \in DOMAIN Captures[f] |-> CellOf(arena'[p + k][2])]
    BY <1>9, <2>1 DEF Upvals, CellOf
  <2>3. \A k \in DOMAIN Captures[f] : CellOf(arena'[p + k][2]) = UpsOf(t, f)[k]
    BY <1>2, <1>7, <1>10, CellsSeen
  <2>4. UpsOf(t, f) = [k \in DOMAIN Captures[f] |-> UpsOf(t, f)[k]]
    BY DEF UpsOf
  <2>5. QED
    BY <1>7, <2>2, <2>3, <2>4
<1>12. x = <<"closure", f, u>>
  <2>1. Record(p)' = f
    BY <1>9, HeaderIs DEF Record
  <2>2. v[1] = "fun" /\ v[2] = p
    BY <1>1 DEF Fun
  <2>3. Seen(v)' = <<"closure", Record(p)', Upvals(p)'>>
    BY <2>2 DEF Seen
  <2>4. QED
    BY <1>7, <1>11, <2>1, <2>3
<1>13. Acts' = [Acts EXCEPT ![Len(Acts)].ops = Append(Acts[Len(Acts)].ops, x)]
  BY <1>3, <1>5, <1>6, <1>7, PushActs
<1>14. CellValues' = CellValues
  <2>1. ASSUME NEW a PROVE (Cell(a)' <=> Cell(a)) /\ (Cell(a) => arena'[a] = arena[a])
    <3>1. CASE a \in Arena /\ a < closure_ptr
      <4>1. a # closure_ptr /\ a \notin closure_ptr + 1 .. closure_ptr + n - 1 /\ a < closure_ptr'
        BY <1>2, <1>4, <1>8, <3>1, Places
      <4>2. arena'[a] = arena[a]
        BY <1>2, <3>1, <4>1
      <4>3. QED
        BY <3>1, <4>1, <4>2 DEF Cell
    <3>2. CASE ~(a \in Arena /\ a < closure_ptr)
      <4>1. ~Cell(a)
        BY <3>2 DEF Cell
      <4>2. ASSUME Cell(a)' PROVE FALSE
        <5>1. a \in Arena /\ a < closure_ptr + n /\ arena'[a] \in Value
          BY <1>2, <4>2 DEF Cell
        <5>2. a \in Nat /\ a >= p /\ a < p + n
          BY <1>1, <1>8, <3>2, <5>1, Places
        <5>3. a = p \/ (a - p \in 1 .. n - 1 /\ a = p + (a - p))
          BY <1>4, <1>8, <5>2
        <5>4. CASE a = p
          BY <1>9, <5>1, <5>4, Kinds
        <5>5. CASE a - p \in 1 .. n - 1 /\ a = p + (a - p)
          <6>1. PICK k : k = a - p
            OBVIOUS
          <6>2. k \in 1 .. n - 1 /\ a = p + k
            BY <5>5, <6>1
          <6>3. k \in 1 .. Len(Captures[f])
            BY <1>4, <6>2
          <6>4. \E c \in 0 .. End - 1 : Cells(f)[k] = Pointer(c)
            BY <1>2, <6>3, CellsPoint
          <6>5. arena'[a] = Cells(f)[k]
            BY <1>4, <1>10, <6>2
          <6>6. QED
            BY <5>1, <6>4, <6>5, Kinds
        <5>6. QED
          BY <5>3, <5>4, <5>5
      <4>3. QED
        BY <4>1, <4>2
    <3>3. QED
      BY <3>1, <3>2
  <2>2. QED
    BY <1>5, <2>1, CellValuesSame
<1>15. t.fn = Encl[f]
  BY <1>2, <1>7, TopIs, TopOK
<1>16. Acts' = [Acts EXCEPT ![Len(Acts)].ops = Append(t.ops, <<"closure", f, u>>)]
  BY <1>7, <1>12, <1>13
<1>17. \E g \in Function :
         /\ Encl[g] = Acts[Len(Acts)].fn
         /\ Acts' = [Acts EXCEPT ![Len(Acts)].ops =
                       Append(Acts[Len(Acts)].ops, <<"closure", g, UpsOf(Acts[Len(Acts)], g)>>)]
  BY <1>15, <1>16, <1>7
<1>18. QED
  BY <1>14, <1>17
  DEF Promised!Make, Promised!WithOps, Promised!Top, Promised!Closure, Acts, CellValues, UpsOf


-----------------------------------------------------------------------------
(* Calls refine calls. *)

(* The cells after a call whose environment is e. *)
WithFresh(cv, e) ==
  [c \in DOMAIN cv \cup ({e[i] : i \in DOMAIN e} \ {NULL}) |-> IF c \in DOMAIN cv THEN cv[c] ELSE Nil]

LEMMA WithNone ==
  ASSUME NEW S, NEW cv, cv = [c \in S |-> cv[c]], NEW e, \A i \in DOMAIN e : e[i] = NULL
  PROVE  WithFresh(cv, e) = cv
<1>1. DOMAIN cv = S /\ {e[i] : i \in DOMAIN e} \ {NULL} = {}
  OBVIOUS
<1>2. DOMAIN cv \cup ({e[i] : i \in DOMAIN e} \ {NULL}) = S
  BY <1>1
<1>3. QED
  BY <1>1, <1>2 DEF WithFresh

LEMMA CellValuesAre ==
  ASSUME IInv, lost = "no"
  PROVE  /\ CellValues = [c \in CellsInUse |-> CellValues[c]] /\ DOMAIN CellValues = CellsInUse
         /\ \A c \in CellsInUse : CellValues[c] = Seen(arena[c])
BY DEF CellValues

(* A call that gets no cells: none are needed, or there is no room. *)
LEMMA NoCells ==
  ASSUME IInv, IInv', lost = "no", lost' = "no", NEW f \in Function, env' = NULL,
         closure_ptr' = closure_ptr, arena' = arena, fails <= fails', fails' \in Nat,
         NEW e, e = EnvOf(env, f)'
  PROVE  e = Promised!Missing(f) /\ CellValues' = WithFresh(CellValues, e)
<1>1. EnvCells[f] \in 0 .. Base /\ Base \in Nat
  BY Places, ProgramAssumption
<1>2. \A k \in 1 .. EnvCells[f] : CellOf(NULL + k - 1) = NULL
  <2>1. ASSUME NEW k \in 1 .. EnvCells[f] PROVE CellOf(NULL + k - 1) = NULL
    <3>1. NULL + k - 1 < Base
      BY <1>1 DEF NULL
    <3>2. NULL + k - 1 \notin Arena
      BY <1>1, <3>1, Places
    <3>3. QED
      BY <3>2 DEF CellOf
  <2>2. QED
    BY <2>1
<1>3. e = [k \in 1 .. EnvCells[f] |-> CellOf(NULL + k - 1)]
  BY DEF EnvOf, CellOf
<1>4. e = [k \in 1 .. EnvCells[f] |-> NULL]
  BY <1>2, <1>3
<1>5. HeapGrows
  BY HeapTypes DEF HeapGrows, IInv
<1>6. CellValues' = CellValues
  <2>1. \A a : (Cell(a)' <=> Cell(a)) /\ (Cell(a) => arena'[a] = arena[a])
    BY DEF Cell
  <2>2. QED
    BY <1>5, <2>1, CellValuesSame
<1>7. WithFresh(CellValues, e) = CellValues
  <2>1. \A i \in DOMAIN e : e[i] = NULL
    BY <1>4
  <2>2. PICK S, cv : S = CellsInUse /\ cv = CellValues
    OBVIOUS
  <2>3. cv = [c \in S |-> cv[c]]
    BY <2>2, CellValuesAre
  <2>4. QED
    BY <2>1, <2>2, <2>3, WithNone
<1>8. QED
  BY <1>4, <1>6, <1>7 DEF Promised!Missing

(* A call that gets its cells: addresses that were not in use. *)
LEMMA NewCells ==
  ASSUME IInv, IInv', lost = "no", lost' = "no", HeapGrows, NEW f \in Function, EnvCells[f] > 0,
         HasRoom(EnvCells[f]), env' = closure_ptr, closure_ptr' = closure_ptr + EnvCells[f], arena' = arena,
         NEW e, e = EnvOf(env, f)'
  PROVE  e \in Promised!Fresh(f) /\ CellValues' = WithFresh(CellValues, e)
<1>1. PICK n, p : n = EnvCells[f] /\ p = closure_ptr
  OBVIOUS
<1>2. n \in Nat /\ n > 0 /\ p \in Nat /\ p >= Base /\ p + n <= End /\ closure_ptr' = p + n
  BY <1>1, HeapTypes, Places, ProgramAssumption DEF IInv, HeapOK, HasRoom
<1>3. \A k \in 1 .. n : p + k - 1 \in Arena /\ p + k - 1 # NULL /\ p + k - 1 \notin CellsInUse
  <2>1. ASSUME NEW k \in 1 .. n PROVE p + k - 1 \in Arena /\ p + k - 1 # NULL /\ p + k - 1 \notin CellsInUse
    <3>1. p + k - 1 \in Arena /\ p + k - 1 >= p
      BY <1>2, Places DEF Arena
    <3>2. ~Cell(p + k - 1)
      BY <1>1, <1>2, <3>1 DEF Cell
    <3>3. QED
      BY <3>1, <3>2, CellsAre, Places DEF IInv
  <2>2. QED
    BY <2>1
<1>4. e = [k \in 1 .. n |-> p + k - 1]
  <2>1. e = [k \in 1 .. n |-> CellOf(p + k - 1)]
    BY <1>1 DEF EnvOf, CellOf
  <2>2. \A k \in 1 .. n : CellOf(p + k - 1) = p + k - 1
    BY <1>3 DEF CellOf
  <2>3. QED
    BY <2>1, <2>2
<1>5. \A i, j \in 1 .. n : i # j => e[i] # e[j]
  <2>1. ASSUME NEW i \in 1 .. n, NEW j \in 1 .. n, e[i] = e[j] PROVE i = j
    <3>1. p + i - 1 = p + j - 1
      BY <1>4, <2>1
    <3>2. QED
      BY <1>2, <3>1
  <2>2. QED
    BY <2>1
<1>6. DOMAIN CellValues = CellsInUse
  BY CellValuesAre
<1>7. e \in [1 .. n -> Arena \ DOMAIN CellValues]
  BY <1>3, <1>4, <1>6
<1>8. e \in Promised!Fresh(f)
  <2>1. e \in [1 .. EnvCells[f] -> Arena \ DOMAIN CellValues] /\ DOMAIN e = 1 .. n
    BY <1>1, <1>4, <1>7
  <2>2. \A i, j \in DOMAIN e : i # j => e[i] # e[j]
    BY <1>5, <2>1
  <2>3. QED
    BY <2>1, <2>2 DEF Promised!Fresh, CellValues
<1>9. PICK N : N = {e[i] : i \in DOMAIN e} \ {NULL}
  OBVIOUS
<1>10. \A a : a \in N <=> \E k \in 1 .. n : a = p + k - 1
  BY <1>3, <1>4, <1>9
<1>11. \A a : Cell(a)' <=> Cell(a) \/ a \in N
  <2>1. ASSUME NEW a, Cell(a)' PROVE Cell(a) \/ a \in N
    <3>1. a \in Arena /\ a < p + n /\ arena[a] \in Value /\ a \in Nat
      BY <1>2, <2>1, Places DEF Cell
    <3>2. CASE a < p
      BY <1>1, <3>1, <3>2 DEF Cell
    <3>3. CASE a >= p
      <4>1. a - p + 1 \in 1 .. n /\ a = p + (a - p + 1) - 1
        BY <1>2, <3>1, <3>3
      <4>2. QED
        BY <1>10, <4>1
    <3>4. QED
      BY <1>2, <3>1, <3>2, <3>3
  <2>2. ASSUME NEW a, Cell(a) PROVE Cell(a)'
    BY <1>1, <1>2, <2>2, Places DEF Cell
  <2>3. ASSUME NEW a, a \in N PROVE Cell(a)'
    <3>1. PICK k \in 1 .. n : a = p + k - 1
      BY <1>10, <2>3
    <3>2. a \in Arena /\ a < closure_ptr' /\ a >= closure_ptr
      BY <1>1, <1>2, <1>3, <3>1
    <3>3. arena[a] = Nil
      BY <3>2 DEF IInv, HeapOK
    <3>4. QED
      BY <3>2, <3>3, Kinds DEF Cell
  <2>4. QED
    BY <2>1, <2>2, <2>3
<1>12. CellsInUse' = CellsInUse \cup N
  BY <1>11, CellsAre, CellsAreLater DEF IInv
<1>13. CellValues' = [a \in CellsInUse \cup N |-> Seen(arena[a])']
  BY <1>12 DEF CellValues
<1>14. ASSUME NEW a \in CellsInUse \cup N
       PROVE  Seen(arena[a])' = IF a \in CellsInUse THEN CellValues[a] ELSE Nil
  <2>1. PICK w : w = arena[a]
    OBVIOUS
  <2>2. a \in Arena /\ w \in Value /\ (a \notin CellsInUse => w = Nil)
    <3>1. CASE a \in CellsInUse
      BY <2>1, <3>1, CellsAre DEF IInv, Cell
    <3>2. CASE a \notin CellsInUse
      <4>1. PICK k \in 1 .. n : a = p + k - 1
        BY <1>10, <1>14, <3>2
      <4>2. a \in Arena /\ a >= closure_ptr
        BY <1>1, <1>2, <1>3, <4>1
      <4>3. QED
        BY <2>1, <4>2, Kinds DEF IInv, HeapOK
    <3>3. QED
      BY <3>1, <3>2
  <2>3. Good(w)
    BY <2>1, <2>2 DEF IInv, HeapOK
  <2>4. Seen(w)' = Seen(w) /\ Seen(arena[a])' = Seen(w)'
    <3>1. Seen(w)' = Seen(w)
      BY <2>3, SeenSame DEF IInv
    <3>2. QED
      BY <2>1, <3>1 DEF Seen
  <2>5. CASE a \in CellsInUse
    BY <2>1, <2>4, <2>5, CellValuesAre
  <2>6. CASE a \notin CellsInUse
    BY <2>2, <2>4, <2>6, SeenPlain, Kinds
  <2>7. QED
    BY <2>5, <2>6
<1>15. WithFresh(CellValues, e) = [a \in CellsInUse \cup N |-> IF a \in CellsInUse THEN CellValues[a] ELSE Nil]
  BY <1>6, <1>9 DEF WithFresh
<1>16. QED
  BY <1>8, <1>13, <1>14, <1>15

LEMMA NewEnvRefines ==
  ASSUME IInv, IInv', lost = "no", lost' = "no", HeapGrows, NEW f \in Function, NewEnv(EnvCells[f]),
         NEW e, e = EnvOf(env, f)'
  PROVE  e \in Promised!Fresh(f) \cup {Promised!Missing(f)} /\ CellValues' = WithFresh(CellValues, e)
<1>1. fails' \in Nat /\ fails <= fails'
  BY DEF HeapGrows
<1>2. CASE EnvCells[f] > 0 /\ HasRoom(EnvCells[f])
  <2>1. env' = closure_ptr /\ closure_ptr' = closure_ptr + EnvCells[f] /\ arena' = arena
    <3>1. EnvCells[f] # 0
      BY <1>2
    <3>2. QED
      BY <1>2, <3>1 DEF NewEnv
  <2>2. QED
    BY <1>2, <2>1, NewCells
<1>3. CASE ~(EnvCells[f] > 0 /\ HasRoom(EnvCells[f]))
  <2>1. env' = NULL /\ closure_ptr' = closure_ptr /\ arena' = arena
    BY <1>3 DEF NewEnv, heap
  <2>2. QED
    BY <1>1, <2>1, NoCells
<1>4. QED
  BY <1>2, <1>3


(* Part of the values of a frame. *)
LEMMA SubOps ==
  ASSUME NEW b \in Nat, NEW m \in Nat, NEW l \in Nat, NEW h \in Nat, b <= l, l <= h, h <= m
  PROVE  SubSeq(OpsOf(b, m), l - b + 1, h - b) = OpsOf(l, h)
<1>1. PICK o, n : o = OpsOf(b, m) /\ n = m - b
  OBVIOUS
<1>2. n \in Nat /\ o = [k \in 1 .. n |-> o[k]] /\ \A k \in 1 .. n : o[k] = Seen(vstack[b + k])
  BY <1>1 DEF OpsOf
<1>3. PICK x, y : x = l - b + 1 /\ y = h - b
  OBVIOUS
<1>4. x \in Nat \ {0} /\ y \in Nat /\ y <= n /\ x <= y + 1 /\ y - x + 1 = h - l
  BY <1>1, <1>3
<1>5. SubSeq(o, x, y) = [k \in 1 .. y - x + 1 |-> o[x + k - 1]]
  BY <1>2, <1>4, SubSeqFcn
<1>6. \A k \in 1 .. h - l : o[x + k - 1] = Seen(vstack[l + k])
  <2>1. ASSUME NEW k \in 1 .. h - l PROVE o[x + k - 1] = Seen(vstack[l + k])
    <3>1. x + k - 1 \in 1 .. n /\ b + (x + k - 1) = l + k
      BY <1>1, <1>3, <1>4
    <3>2. QED
      BY <1>2, <3>1
  <2>2. QED
    BY <2>1
<1>7. SubSeq(o, x, y) = [k \in 1 .. h - l |-> Seen(vstack[l + k])]
  BY <1>4, <1>5, <1>6
<1>8. QED
  BY <1>1, <1>3, <1>7 DEF OpsOf

(* A frame whose registers stay: only its values can differ. *)
LEMMA ActivationOps ==
  ASSUME IInv, IInv', HeapGrows, NEW i \in Nat, i \in Frames, i \in Frames',
         \A k \in Five : Reg(i, k)' = Reg(i, k),
         NEW b, b = Reg(i, 2), NEW n, n = Limit(i)', NEW s, s = OpsOf(b, n)'
  PROVE  Activation(i)' = Act(Reg(i, 1) % (NPoints + 1), Reg(i, 3), s,
                              EnvOf(Reg(i, 4), Reg(i, 3)), Upvals(Reg(i, 5)))
<1>1. PICK p, f, e, u :
        p = Reg(i, 1) /\ f = Reg(i, 3) /\ e = Reg(i, 4) /\ u = Reg(i, 5)
  OBVIOUS
<1>2. p = Reg(i, 1)' /\ b = Reg(i, 2)' /\ f = Reg(i, 3)' /\ e = Reg(i, 4)' /\ u = Reg(i, 5)'
  BY <1>1 DEF Five
<1>3. RegsOK(p, b, f, e, u)
  BY <1>1, FrameTypes DEF FrameOK
<1>4. Upvals(u)' = Upvals(u)
  <2>1. CASE f = Main
    <3>1. u \notin Arena
      BY <1>3, <2>1, Places DEF RegsOK
    <3>2. QED
      BY <3>1 DEF Upvals
  <2>2. CASE f # Main
    BY <1>3, <2>2, UpvalsSame DEF RegsOK, IInv
  <2>3. QED
    BY <2>1, <2>2
<1>5. Activation(i)' = Act(p % (NPoints + 1), f, OpsOf(b, n)', EnvOf(e, f), Upvals(u)')
  <2>1. Runs(p) = f
    BY <1>3 DEF RegsOK
  <2>2. QED
    BY <1>2, <2>1 DEF Activation, Act, OpsOf, EnvOf, CellOf
<1>6. QED
  BY <1>1, <1>4, <1>5

(* The frame on top after a step. *)
LEMMA TopFrame ==
  ASSUME IInv', NEW d, Depth' + 1 = d
  PROVE  ~(d <= Depth') /\ d \in Frames'
<1>1. Depth' \in Nat
  BY DEF IInv, FramesOK, Depth
<1>2. QED
  BY <1>1 DEF Frames

LEMMA TopActivation ==
  ASSUME IInv', NEW d, Depth' + 1 = d, NEW p, p = pc', NEW b, b = fp', NEW n, n = Len(vstack'),
         NEW f, f = cp', NEW e, e = EnvOf(env, f)', NEW u, u = closure', NEW s, s = OpsOf(b, n)'
  PROVE  d \in Frames' /\ Activation(d)' = Act(p % (NPoints + 1), f, s, e, Upvals(u)')
<1>1. ~(d <= Depth') /\ d \in Frames'
  BY TopFrame
<1>2. /\ Reg(d, 1)' = p /\ Reg(d, 2)' = b /\ Reg(d, 3)' = f /\ Reg(d, 4)' = env' /\ Reg(d, 5)' = u
      /\ Limit(d)' = n
  BY <1>1 DEF Reg, Saved, Limit
<1>3. d \in Frames'
  BY <1>1
<1>4. Runs(p) = f
  <2>1. FrameOK(d)'
    BY <1>3 DEF IInv, FramesOK
  <2>2. QED
    BY <1>2, <2>1 DEF FrameOK, RegsOK
<1>5. QED
  BY <1>2, <1>3, <1>4 DEF Activation, Act, OpsOf, EnvOf, CellOf

(* The frames below a call: the caller's values end below the callee. *)
LEMMA CallersActs ==
  ASSUME IInv, IInv', lost = "no", lost' = "no", HeapGrows, UNCHANGED vstack,
         NEW l \in Nat, fp' = l, fp <= l, l <= Len(vstack),
         Depth' = Depth + 1, \A i \in 1 .. Depth + 1 : \A k \in Five : Reg(i, k)' = Reg(i, k),
         NEW p, p = pc % (NPoints + 1), NEW s, s = OpsOf(fp, l)
  PROVE  \A i \in 1 .. Depth + 1 : Acts'[i] = WithTop(p, s)[i]
<1>1. Depth \in Nat /\ Frames = 1 .. Depth + 1 /\ Frames' = 1 .. Depth + 2 /\ fp \in Nat /\ Len(vstack) \in Nat
  BY ActsAre, TopOK DEF Frames
<1>2. \A i \in 1 .. Depth + 2 : Acts'[i] = Activation(i)'
  BY <1>1 DEF Acts
<1>3. ASSUME NEW i \in 1 .. Depth + 1 PROVE i \in Nat /\ i \in Frames /\ i \in Frames' /\ Limit(i)' = Reg(i + 1, 2)'
  BY <1>1 DEF Limit
<1>4. ASSUME NEW i \in 1 .. Depth + 1, i # Depth + 1 PROVE Acts'[i] = WithTop(p, s)[i]
  <2>1. i <= Depth /\ i \in Nat /\ i \in Frames /\ i \in Frames' /\ i + 1 \in 1 .. Depth + 1
    BY <1>1, <1>3, <1>4
  <2>2. Limit(i)' = Limit(i)
    BY <1>3, <2>1 DEF Limit, Five
  <2>3. Limit(i) \in Nat /\ Limit(i) <= Len(vstack)
    BY <2>1, LimitOK
  <2>4. Activation(i)' = Activation(i)
    BY <2>1, <2>2, <2>3, ActivationSame
  <2>5. Acts[i] = Activation(i) /\ i \in 1 .. Depth + 2
    BY <1>1, ActsAre
  <2>6. QED
    BY <1>2, <1>4, <2>4, <2>5 DEF WithTop
<1>5. ASSUME NEW i, i = Depth + 1 PROVE Acts'[i] = WithTop(p, s)[i]
  <2>1. i \in 1 .. Depth + 1 /\ i \in 1 .. Depth + 2
    BY <1>1, <1>5
  <2>2. i \in Nat /\ i \in Frames /\ i \in Frames'
    BY <1>3, <2>1
  <2>3. Limit(i)' = l
    <3>1. ~(i + 1 <= Depth') /\ i <= Depth'
      BY <1>1, <1>5
    <3>2. QED
      BY <3>1 DEF Limit, Reg, Saved
  <2>4. PICK b : b = fp
    OBVIOUS
  <2>5. Reg(i, 1) = pc /\ Reg(i, 2) = b /\ Reg(i, 3) = cp /\ Reg(i, 4) = env /\ Reg(i, 5) = closure
    BY <1>5, <2>4, TopRegs DEF IInv, FramesOK
  <2>6. OpsOf(b, l)' = s
    <3>1. OpsOf(b, l)' = OpsOf(b, l)
      BY <1>1, <2>4, OpsSame
    <3>2. QED
      BY <2>4, <3>1
  <2>7. Activation(i)' = Act(p, cp, s, EnvOf(env, cp), Upvals(closure))
    <3>1. \A k \in Five : Reg(i, k)' = Reg(i, k)
      BY <2>1
    <3>2. Activation(i)' = Act(Reg(i, 1) % (NPoints + 1), Reg(i, 3), s,
                              EnvOf(Reg(i, 4), Reg(i, 3)), Upvals(Reg(i, 5)))
      BY <2>2, <2>3, <2>5, <2>6, <3>1, ActivationOps
    <3>3. QED
      BY <2>5, <3>2
  <2>8. QED
    BY <1>2, <1>5, <2>1, <2>7 DEF WithTop
<1>6. QED
  BY <1>4, <1>5

LEMMA CallRefines ==
  ASSUME IInv, IInv', lost = "no", NEW n \in 0 .. VStackUnits, Call(n)
  PROVE  Promised!Call /\ UNCHANGED lost
<1>1. /\ Height >= Own(Runs(pc)) + n + 1 /\ fails < MaxFails /\ Suits(n)
      /\ callstack' = callstack \o Saved
      /\ UNCHANGED vstack /\ UNCHANGED lost /\ lost' = "no"
  BY DEF Call
<1>2. PICK a, f : a = Callee(n)[2] /\ f = Record(a)
  OBVIOUS
<1>3. a \in 1 .. End - 1 /\ f \in Function /\ ClosureAt(a, f) /\ n = Params[f] /\ Callee(n)[1] = "fun"
  BY <1>1, <1>2, CalleeIs DEF Suits
<1>4. fp' = Frame(n) /\ closure' = a /\ pc' = At(f, 0) /\ cp' = f /\ NewEnv(EnvCells[f])
  BY <1>2 DEF Call
<1>5. HeapGrows /\ HeapOK
  BY <1>1, <1>3, <1>4, NewEnvOK DEF IInv
<1>6. callstack \in Seq(Nat) /\ Len(callstack) = 5 * Depth /\ Depth \in Nat /\ Depth + 1 \in Frames
  BY TopRegs DEF IInv, FramesOK
<1>7. Saved \in Seq(Nat) /\ Len(Saved) = 5
  BY <1>6, FrameTypes, TopRegs, SavedSeq
<1>8. Depth' = Depth + 1 /\ \A i \in 1 .. Depth + 1 : \A k \in Five : Reg(i, k)' = Reg(i, k)
  BY <1>1, <1>6, <1>7, CallRegs
<1>9. PICK b, h, l : b = fp /\ h = Len(vstack) /\ l = h - n - 1
  OBVIOUS
<1>10. /\ b \in Nat /\ h \in Nat /\ l \in Nat /\ b <= l /\ l < h /\ fp' = l /\ n \in Nat /\ h - l = n + 1
  <2>1. Own(cp) \in Nat /\ h - b >= Own(cp) + n + 1 /\ b \in Nat /\ h \in Nat /\ n \in Nat
    BY <1>1, <1>9, TopOK, SizeAssumption DEF Height
  <2>2. fp' = l
    BY <1>4, <1>9 DEF Frame
  <2>3. QED
    BY <1>9, <2>1, <2>2
<1>11. PICK o, t, m, at : o = OpsOf(b, h) /\ t = Acts[Len(Acts)] /\ m = h - b /\ at = m - n
  OBVIOUS
<1>12. /\ m \in Nat /\ at >= 1 /\ at \in 1 .. m /\ Len(o) = m /\ b + at = h - n
       /\ at = l - b + 1 /\ \A k \in 1 .. m : o[k] = Seen(vstack[b + k])
  <2>1. m \in Nat /\ at \in 1 .. m /\ b + at = h - n /\ at = l - b + 1
    BY <1>9, <1>10, <1>11
  <2>2. QED
    BY <1>9, <1>11, <2>1, OpsAre
<1>13. t.ops = o
  BY <1>9, <1>11, TopIs
<1>14. o[at] = <<"closure", f, Upvals(a)>>
  <2>1. o[at] = Seen(Callee(n))
    BY <1>9, <1>12 DEF Callee
  <2>2. QED
    BY <1>2, <1>3, <2>1 DEF Seen
<1>15. PICK p, s, e, x, u : /\ p = pc % (NPoints + 1) /\ s = OpsOf(b, l) /\ e = EnvOf(env, f)'
                            /\ x = OpsOf(l, h) /\ u = Upvals(a)
  OBVIOUS
<1>16. s = SubSeq(o, 1, at - 1) /\ x = SubSeq(o, at, m)
  <2>1. SubSeq(OpsOf(b, h), b - b + 1, l - b) = OpsOf(b, l)
    BY <1>10, SubOps
  <2>2. SubSeq(OpsOf(b, h), l - b + 1, h - b) = OpsOf(l, h)
    BY <1>10, SubOps
  <2>3. b - b + 1 = 1 /\ l - b = at - 1
    BY <1>10, <1>12
  <2>4. QED
    BY <1>11, <1>12, <1>15, <2>1, <2>2, <2>3
<1>17. \A i \in 1 .. Depth + 1 : Acts'[i] = WithTop(p, s)[i]
  <2>1. fp <= l /\ l <= Len(vstack) /\ s = OpsOf(fp, l) /\ p = pc % (NPoints + 1)
    BY <1>9, <1>10, <1>15
  <2>2. l \in Nat /\ fp' = l
    BY <1>10
  <2>3. QED
    BY <1>1, <1>5, <1>8, <2>1, <2>2, CallersActs
<1>18. PICK d, w : d = Depth + 2 /\ w = Act(0, f, x, e, u)
  OBVIOUS
<1>19. d \in Frames' /\ Activation(d)' = w
  <2>1. PICK q : q = pc'
    OBVIOUS
  <2>2. q % (NPoints + 1) = 0
    <3>1. 0 \in 0 .. NPoints /\ f \in Code
      BY <1>3, SizeAssumption, Places
    <3>2. QED
      BY <1>4, <2>1, <3>1, RunsAt
  <2>3. d = Depth' + 1 /\ l = fp' /\ h = Len(vstack') /\ f = cp' /\ a = closure'
    BY <1>1, <1>4, <1>6, <1>8, <1>9, <1>10, <1>18
  <2>4. x = OpsOf(l, h)'
    <3>1. OpsOf(l, h)' = OpsOf(l, h)
      BY <1>1, <1>5, <1>9, <1>10, OpsSame
    <3>2. QED
      BY <1>15, <3>1
  <2>5. Upvals(a)' = u
    BY <1>3, <1>5, <1>15, UpvalsSame
  <2>6. d \in Frames' /\ Activation(d)' = Act(q % (NPoints + 1), f, x, e, Upvals(a)')
    BY <1>15, <2>1, <2>3, <2>4, TopActivation
  <2>7. QED
    BY <1>18, <2>2, <2>5, <2>6
<1>20. Acts' = Append(WithTop(p, s), w)
  <2>1. PICK y, k : y = WithTop(p, s) /\ k = Depth + 1
    OBVIOUS
  <2>2. k \in Nat /\ d = k + 1 /\ y = [i \in 1 .. k |-> y[i]]
    BY <1>6, <1>18, <2>1 DEF WithTop
  <2>3. Append(y, w) = [i \in 1 .. k + 1 |-> IF i <= k THEN y[i] ELSE w]
    BY <2>2, AppendFcn
  <2>4. Frames' = 1 .. k + 1
    BY <1>6, <1>8, <2>1 DEF Frames
  <2>5. Acts' = [i \in 1 .. k + 1 |-> Acts'[i]] /\ \A i \in 1 .. k + 1 : Acts'[i] = Activation(i)'
    BY <1>1, <2>4 DEF Acts
  <2>6. \A i \in 1 .. k + 1 : Acts'[i] = IF i <= k THEN y[i] ELSE w
    <3>1. ASSUME NEW i \in 1 .. k + 1 PROVE Acts'[i] = IF i <= k THEN y[i] ELSE w
      <4>1. CASE i <= k
        BY <1>17, <2>1, <4>1
      <4>2. CASE i = k + 1
        <5>1. ~(i <= k)
          BY <2>2, <4>2
        <5>2. QED
          BY <1>19, <2>2, <2>5, <4>2, <5>1
      <4>3. QED
        BY <2>2, <4>1, <4>2
    <3>2. QED
      BY <3>1
  <2>7. QED
    BY <2>1, <2>3, <2>5, <2>6
<1>21. [Acts EXCEPT ![Len(Acts)].ops = s] = WithTop(p, s)
  BY <1>15, WithOpsIs
<1>22. e \in Promised!Fresh(f) \cup {Promised!Missing(f)} /\ CellValues' = WithFresh(CellValues, e)
  BY <1>1, <1>3, <1>4, <1>5, <1>15, NewEnvRefines
<1>23. Acts' = Append([Acts EXCEPT ![Len(Acts)].ops = SubSeq(@, 1, at - 1)],
                      Promised!Start(f, SubSeq(t.ops, at, Len(t.ops)), e, t.ops[at][3]))
  <2>1. w = Promised!Start(f, SubSeq(t.ops, at, Len(t.ops)), e, t.ops[at][3])
    <3>1. SubSeq(t.ops, at, Len(t.ops)) = x
      BY <1>12, <1>13, <1>16
    <3>2. t.ops[at][3] = u
      BY <1>13, <1>14, <1>15
    <3>3. QED
      BY <1>18, <3>1, <3>2 DEF Act, Promised!Start
  <2>2. [Acts EXCEPT ![Len(Acts)].ops = SubSeq(@, 1, at - 1)] = [Acts EXCEPT ![Len(Acts)].ops = s]
    BY <1>11, <1>13, <1>16
  <2>3. QED
    BY <1>20, <1>21, <2>1, <2>2
<1>24. at = Len(t.ops) - Params[f] /\ at >= 1 /\ t.ops[at][1] = "closure" /\ t.ops[at][2] = f
  BY <1>3, <1>11, <1>12, <1>13, <1>14
<1>25. \E g \in Function : \E z \in Promised!Fresh(g) \cup {Promised!Missing(g)} :
         LET k == Len(Acts[Len(Acts)].ops) - Params[g] IN
         /\ k >= 1 /\ Acts[Len(Acts)].ops[k][1] = "closure" /\ Acts[Len(Acts)].ops[k][2] = g
         /\ Acts' = Append([Acts EXCEPT ![Len(Acts)].ops = SubSeq(@, 1, k - 1)],
                      Promised!Start(g, SubSeq(Acts[Len(Acts)].ops, k, Len(Acts[Len(Acts)].ops)), z,
                                     Acts[Len(Acts)].ops[k][3]))
         /\ CellValues' = WithFresh(CellValues, z)
  BY <1>3, <1>11, <1>22, <1>23, <1>24
<1>26. Promised!Call
  BY <1>25 DEF Promised!Call, Promised!Top, Acts, CellValues, WithFresh
<1>27. QED
  BY <1>1, <1>26


-----------------------------------------------------------------------------
(* Returns refine returns: the caller's activation with the result on top.  *)

(* The values of the caller after the return. *)
LEMMA ResultOps ==
  ASSUME IInv, HeapGrows, Height > Own(Runs(pc)), vstack' = Append(Kept, Last(vstack)),
         NEW b \in Nat, NEW h, h = fp, b <= h, NEW m \in Nat, h + 1 = m, NEW v, v = Seen(Last(vstack))
  PROVE  OpsOf(b, m)' = Append(OpsOf(b, h), v)
<1>1. /\ Len(vstack') = fp + 1 /\ fp \in Nat /\ fp < Len(vstack) /\ Len(vstack) \in Nat
      /\ \A j \in 1 .. fp + 1 : vstack'[j] = IF j <= fp THEN vstack[j] ELSE Last(vstack)
      /\ Good(Last(vstack))
  BY ReturnStack, TopOK
<1>2. PICK o, n : o = OpsOf(b, h) /\ n = h - b
  OBVIOUS
<1>3. n \in Nat /\ o = [k \in 1 .. n |-> o[k]] /\ \A k \in 1 .. n : o[k] = Seen(vstack[b + k])
  BY <1>1, <1>2 DEF OpsOf
<1>4. Append(o, v) = [k \in 1 .. n + 1 |-> IF k <= n THEN o[k] ELSE v]
  BY <1>3, AppendFcn
<1>5. OpsOf(b, m)' = [k \in 1 .. m - b |-> Seen(vstack[b + k])']
  BY DEF OpsOf
<1>6. m - b = n + 1
  BY <1>1, <1>2
<1>7. ASSUME NEW k \in 1 .. n + 1 PROVE Seen(vstack[b + k])' = IF k <= n THEN o[k] ELSE v
  <2>1. PICK j, w : j = b + k /\ w = vstack'[j]
    OBVIOUS
  <2>2. j \in 1 .. fp + 1 /\ (j <= fp <=> k <= n)
    BY <1>1, <1>2, <1>3, <2>1
  <2>3. w = IF j <= fp THEN vstack[j] ELSE Last(vstack)
    BY <1>1, <2>1, <2>2
  <2>4. j <= fp => Good(vstack[j])
    <3>1. j <= fp => j \in 1 .. Len(vstack)
      BY <1>1, <2>2
    <3>2. QED
      BY <3>1 DEF IInv, StackOK
  <2>5. Good(w)
    BY <1>1, <2>3, <2>4
  <2>6. Seen(vstack[j])' = Seen(w)
    BY <2>1, <2>5, SeenStays
  <2>7. Seen(vstack[b + k])' = Seen(w)
    BY <2>1, <2>6
  <2>8. CASE k <= n
    BY <1>3, <2>1, <2>2, <2>3, <2>7, <2>8
  <2>9. CASE ~(k <= n)
    BY <2>2, <2>3, <2>7, <2>9
  <2>10. QED
    BY <2>8, <2>9
<1>8. OpsOf(b, m)' = [k \in 1 .. n + 1 |-> Seen(vstack[b + k])']
  BY <1>5, <1>6
<1>9. OpsOf(b, m)' = [k \in 1 .. n + 1 |-> IF k <= n THEN o[k] ELSE v]
  BY <1>7, <1>8
<1>10. QED
  BY <1>2, <1>4, <1>9

LEMMA ReturnRefines ==
  ASSUME IInv, IInv', lost = "no", Return
  PROVE  Promised!Return /\ UNCHANGED lost
<1>1. /\ callstack # <<>> /\ Height > Own(Runs(pc)) /\ pop_saved
      /\ vstack' = Append(Kept, Last(vstack)) /\ UNCHANGED <<heap, lost>> /\ UNCHANGED heap /\ lost' = "no"
  BY DEF Return
<1>2. /\ Len(vstack') = fp + 1 /\ fp < Len(vstack) /\ fp \in Nat /\ Len(vstack) \in Nat
      /\ \A j \in 1 .. fp + 1 : vstack'[j] = IF j <= fp THEN vstack[j] ELSE Last(vstack)
  BY <1>1, ReturnStack, TopOK
<1>3. HeapGrows /\ HeapOK
  BY <1>1, HeapSame DEF IInv
<1>4. callstack \in Seq(Nat) /\ Len(callstack) = 5 * Depth
  BY DEF IInv, FramesOK
<1>5. /\ Depth \in Nat \ {0} /\ Depth' = Depth - 1
      /\ \A i \in 1 .. Depth : \A k \in Five : Reg(i, k)' = Reg(i, k)
  BY <1>1, <1>4, ReturnRegs
<1>6. PICK c : c = Depth
  OBVIOUS
<1>7. c \in Nat /\ c >= 1 /\ Frames = 1 .. c + 1 /\ Frames' = 1 .. c
  BY <1>5, <1>6 DEF Frames
<1>8. /\ Acts = [i \in 1 .. c + 1 |-> Acts[i]] /\ Len(Acts) = c + 1
      /\ \A i \in 1 .. c + 1 : Acts[i] = Activation(i)
  BY <1>6, ActsAre
<1>9. Acts' = [i \in 1 .. c |-> Acts'[i]] /\ \A i \in 1 .. c : Acts'[i] = Activation(i)'
  BY <1>1, <1>7 DEF Acts
<1>10. ASSUME NEW i \in 1 .. c, i # c PROVE Acts'[i] = Acts[i]
  <2>1. i \in Nat /\ i <= c - 1 /\ i \in Frames /\ i \in Frames' /\ i <= Depth /\ i <= Depth' /\ i + 1 \in 1 .. Depth
    BY <1>5, <1>6, <1>7, <1>10
  <2>2. Limit(i)' = Limit(i)
    BY <1>5, <2>1 DEF Limit, Five
  <2>3. Limit(i) \in Nat /\ Limit(i) <= fp
    BY <2>1, LimitOK
  <2>4. \A j \in 1 .. Limit(i) : vstack'[j] = vstack[j]
    BY <1>2, <2>3
  <2>5. \A k \in Five : Reg(i, k)' = Reg(i, k)
    BY <1>5, <1>6
  <2>6. Activation(i)' = Activation(i)
    BY <1>3, <2>1, <2>2, <2>4, <2>5, ActivationSame
  <2>7. i \in 1 .. c + 1
    BY <1>7
  <2>8. QED
    BY <1>8, <1>9, <2>6, <2>7
<1>11. c \in Frames /\ c \in Frames' /\ c \in 1 .. c + 1 /\ c \in 1 .. c
  BY <1>7
<1>12. PICK p, b, f, e, u, h : /\ p = Reg(c, 1) % (NPoints + 1) /\ b = Reg(c, 2) /\ f = Reg(c, 3)
                               /\ e = EnvOf(Reg(c, 4), Reg(c, 3)) /\ u = Upvals(Reg(c, 5)) /\ h = fp
  OBVIOUS
<1>13. Limit(c) = h /\ b \in Nat /\ b <= h
  <2>1. Limit(c) = Reg(c + 1, 2)
    BY <1>6, <1>7 DEF Limit
  <2>2. Reg(c + 1, 2) = fp
    BY <1>4, <1>6, TopRegs
  <2>3. b \in Nat /\ b <= Limit(c)
    BY <1>11, <1>12, FrameTypes, LimitOK
  <2>4. QED
    BY <1>12, <2>1, <2>2, <2>3
<1>14. PICK o, v, s : o = OpsOf(b, h) /\ v = Seen(Last(vstack)) /\ s = Append(o, v)
  OBVIOUS
<1>15. Acts[c] = Act(p, f, o, e, u)
  BY <1>8, <1>11, <1>12, <1>13, <1>14, ActivationIs
<1>16. Acts'[c] = Act(p, f, s, e, u)
  <2> PICK m \in Nat : h + 1 = m
    BY <1>2, <1>12
  <2>1. s = OpsOf(b, m)'
    BY <1>1, <1>3, <1>12, <1>13, <1>14, ResultOps
  <2>2. m = Limit(c)'
    <3>1. ~(c <= Depth')
      BY <1>5, <1>6, <1>7
    <3>2. QED
      BY <1>2, <1>12, <3>1 DEF Limit
  <2>3. \A k \in Five : Reg(c, k)' = Reg(c, k)
    BY <1>5, <1>6, <1>11
  <2>4. Activation(c)' = Act(Reg(c, 1) % (NPoints + 1), Reg(c, 3), s,
                             EnvOf(Reg(c, 4), Reg(c, 3)), Upvals(Reg(c, 5)))
    BY <1>3, <1>7, <1>11, <1>12, <2>1, <2>2, <2>3, ActivationOps
  <2>5. QED
    BY <1>9, <1>11, <1>12, <2>4
<1>17. PICK r : r = SubSeq(Acts, 1, c)
  OBVIOUS
<1>18. r = [i \in 1 .. c |-> Acts[i]]
  <2>1. PICK q, n : q = Acts /\ n = c + 1
    OBVIOUS
  <2>2. n \in Nat /\ q = [i \in 1 .. n |-> q[i]] /\ c <= n /\ 1 <= c + 1
    BY <1>7, <1>8, <2>1
  <2>3. SubSeq(q, 1, c) = [i \in 1 .. c - 1 + 1 |-> q[1 + i - 1]]
    BY <1>7, <2>2, SubSeqFcn
  <2>4. c - 1 + 1 = c /\ \A i \in 1 .. c : 1 + i - 1 = i
    BY <1>7
  <2>5. QED
    BY <1>17, <2>1, <2>3, <2>4
<1>19. DOMAIN r = 1 .. c /\ r[c] = Act(p, f, o, e, u)
  BY <1>11, <1>15, <1>18
<1>20. [r[c] EXCEPT !.ops = Append(@, v)] = Act(p, f, s, e, u)
  BY <1>14, <1>19 DEF Act
<1>21. [r EXCEPT ![c].ops = Append(@, v)] = [i \in 1 .. c |-> IF i = c THEN Act(p, f, s, e, u) ELSE Acts[i]]
  BY <1>18, <1>19, <1>20
<1>22. Acts' = [r EXCEPT ![c].ops = Append(@, v)]
  BY <1>9, <1>10, <1>16, <1>21
<1>23. PICK t, x, n : t = Acts[Len(Acts)] /\ x = OpsOf(fp, Len(vstack)) /\ n = Len(vstack) - fp
  OBVIOUS
<1>24. n \in Nat /\ n > 0 /\ Len(x) = n /\ x[n] = v /\ t.ops = x /\ x # <<>>
  <2>1. n \in Nat /\ n > 0 /\ n \in 1 .. n /\ fp + n = Len(vstack)
    BY <1>2, <1>23
  <2>2. Len(x) = n /\ x[n] = Seen(vstack[fp + n])
    BY <1>23, <2>1, OpsAre
  <2>3. x[n] = v
    BY <1>14, <2>1, <2>2 DEF Last
  <2>4. x # <<>>
    <3>1. Len(x) # 0
      BY <2>1, <2>2
    <3>2. QED
      BY <3>1
  <2>5. QED
    BY <1>23, <2>1, <2>2, <2>3, <2>4, TopIs
<1>25. CellValues' = CellValues
  BY <1>1, CellsKept
<1>26. /\ c = Len(Acts) - 1 /\ c >= 1 /\ t.ops # <<>>
       /\ Acts' = [SubSeq(Acts, 1, c) EXCEPT ![c].ops = Append(@, t.ops[Len(t.ops)])]
  <2>1. c = Len(Acts) - 1
    BY <1>7, <1>8
  <2>2. t.ops[Len(t.ops)] = v
    BY <1>24
  <2>3. QED
    BY <1>7, <1>17, <1>22, <1>24, <2>1, <2>2
<1>27. Promised!Return
  BY <1>23, <1>25, <1>26 DEF Promised!Return, Promised!Top, Acts, CellValues
<1>28. QED
  BY <1>1, <1>27


-----------------------------------------------------------------------------
(* The refinement. *)

LEMMA InitRefines == Init => Promised!Init
<1> SUFFICES ASSUME Init PROVE Promised!Init
  OBVIOUS
<1>1. IInv /\ lost = "no"
  BY InitInv DEF Init
<1>2. Depth = 0
  <2>1. Len(callstack) = 0
    BY DEF Init
  <2>2. QED
    BY <2>1 DEF Depth
<1>3. Acts = [i \in 1 .. 1 |-> Acts[i]] /\ Len(Acts) = 1
      /\ Acts[1] = Act(pc % (NPoints + 1), cp, OpsOf(fp, Len(vstack)), EnvOf(env, cp), Upvals(closure))
  BY <1>1, <1>2, ActsAre
<1>4. pc % (NPoints + 1) = 0 /\ cp = Main /\ OpsOf(fp, Len(vstack)) = <<>> /\ Upvals(closure) = <<>>
  <2>1. pc = At(Main, 0) /\ cp = Main /\ fp = 0 /\ vstack = <<>> /\ closure = NULL
    BY DEF Init
  <2>2. pc % (NPoints + 1) = 0
    <3>1. Main \in Code /\ 0 \in 0 .. NPoints
      BY SizeAssumption DEF Code
    <3>2. QED
      BY <2>1, <3>1, RunsAt
  <2>3. Len(vstack) = 0
    BY <2>1
  <2>4. OpsOf(fp, Len(vstack)) = <<>>
    BY <2>1, <2>3 DEF OpsOf
  <2>5. Upvals(closure) = <<>>
    BY <2>1, Places DEF Upvals
  <2>6. QED
    BY <2>1, <2>2, <2>4, <2>5
<1>5. PICK e, n : e = EnvOf(env, cp) /\ n = EnvCells[Main]
  OBVIOUS
<1>6. Acts = <<Promised!Start(Main, <<>>, e, <<>>)>>
  <2>1. Acts[1] = Promised!Start(Main, <<>>, e, <<>>)
    BY <1>3, <1>4, <1>5 DEF Act, Promised!Start
  <2>2. QED
    BY <1>3, <2>1
<1>7. n \in Nat /\ Base \in Nat /\ Base + n <= End /\ closure_ptr = Base + n
  BY <1>1, <1>5, Places, ProgramAssumption DEF Init, IInv, HeapOK, Code
<1>8. e = [k \in 1 .. n |-> Base + k - 1] /\ \A k \in 1 .. n : Base + k - 1 \in Arena
  <2>1. \A k \in 1 .. n : Base + k - 1 \in Arena
    BY <1>7, Places DEF Arena
  <2>2. n > 0 => env = Base
    BY <1>5, <1>7 DEF Init
  <2>3. e = [k \in 1 .. n |-> CellOf(env + k - 1)]
    BY <1>4, <1>5 DEF EnvOf
  <2>4. \A k \in 1 .. n : CellOf(env + k - 1) = Base + k - 1
    BY <1>7, <2>1, <2>2 DEF CellOf
  <2>5. QED
    BY <2>1, <2>3, <2>4
<1>9. \A i, j \in 1 .. n : i # j => e[i] # e[j]
  <2>1. ASSUME NEW i \in 1 .. n, NEW j \in 1 .. n, e[i] = e[j] PROVE i = j
    <3>1. Base + i - 1 = Base + j - 1
      BY <1>8, <2>1
    <3>2. QED
      BY <1>7, <3>1
  <2>2. QED
    BY <2>1
<1>10. CellsInUse = {e[i] : i \in DOMAIN e}
  <2>1. ASSUME NEW a PROVE a \in CellsInUse <=> \E k \in 1 .. n : a = Base + k - 1
    <3>1. Cell(a) <=> a \in Arena /\ a < Base + n
      <4>1. \A b \in Arena : arena[b] = Nil
        BY DEF Init
      <4>2. QED
        BY <1>7, <4>1, Kinds DEF Cell
    <3>2. ASSUME a \in Arena, a < Base + n PROVE \E k \in 1 .. n : a = Base + k - 1
      <4>1. a \in Nat /\ a >= Base
        BY <3>2, Places
      <4>2. a - Base + 1 \in 1 .. n /\ a = Base + (a - Base + 1) - 1
        BY <1>7, <3>2, <4>1
      <4>3. QED
        BY <4>2
    <3>3. ASSUME NEW k \in 1 .. n, a = Base + k - 1 PROVE a \in Arena /\ a < Base + n
      BY <1>7, <1>8, <3>3
    <3>4. QED
      BY <1>1, <3>1, <3>2, <3>3, CellsAre DEF IInv
  <2>2. DOMAIN e = 1 .. n /\ \A k \in 1 .. n : e[k] = Base + k - 1
    BY <1>8
  <2>3. QED
    BY <2>1, <2>2
<1>11. CellValues = [c \in {e[i] : i \in DOMAIN e} |-> Nil]
  <2>1. \A c \in CellsInUse : CellValues[c] = Nil
    <3>1. ASSUME NEW c \in CellsInUse PROVE Seen(arena[c]) = Nil
      <4>1. c \in Arena
        BY <1>1, CellsAre DEF IInv, Cell
      <4>2. arena[c] = Nil
        BY <4>1 DEF Init
      <4>3. QED
        BY <4>2, SeenPlain, Kinds
    <3>2. QED
      BY <1>1, <3>1, CellValuesAre
  <2>2. QED
    BY <1>1, <1>10, <2>1, CellValuesAre
<1>12. e \in [1 .. EnvCells[Main] -> Arena] /\ DOMAIN e = 1 .. n
  BY <1>5, <1>8
<1>13. QED
  BY <1>1, <1>6, <1>9, <1>11, <1>12 DEF Promised!Init, Acts, CellValues

LEMMA NextRefines ==
  IInv /\ IInv' /\ Next => Promised!Next
<1> SUFFICES ASSUME IInv, IInv', Next PROVE Promised!Next
  OBVIOUS
<1>1. lost = "no"
  BY DEF Next
<1>2. CASE lost' # "no"
  BY <1>1, <1>2, LostRefines
<1>3. CASE lost' = "no"
  <2>1. Promised!Step
    <3>1. CASE Jump
      BY <1>1, <3>1, JumpRefines DEF Promised!Step
    <3>2. CASE Pop
      BY <1>1, <3>2, PopRefines DEF Promised!Step
    <3>3. CASE Return
      BY <1>1, <3>3, ReturnRefines DEF Promised!Step
    <3>4. CASE \E v \in Plain : Load(v)
      BY <1>1, <1>3, <3>4, LoadRefines DEF Promised!Step
    <3>5. CASE \E i \in 0 .. VStackUnits : GetLocal(i)
      BY <1>1, <1>3, <3>5, GetLocalRefines DEF Promised!Step
    <3>6. CASE \E i \in 0 .. VStackUnits : SetLocal(i)
      BY <1>1, <3>6, SetLocalRefines DEF Promised!Step
    <3>7. CASE \E i \in 0 .. VStackUnits : GetCaptured(i) \/ SetCaptured(i) \/ GetUpval(i) \/ SetUpval(i)
      BY <1>1, <1>3, <3>7, CellsRefine
    <3>8. CASE \E i \in 0 .. VStackUnits : Call(i)
      BY <1>1, <3>8, CallRefines DEF Promised!Step
    <3>9. CASE \E f \in Function : StaticClosure(f) \/ NewClosure(f)
      BY <1>1, <1>3, <3>9, StaticClosureRefines, NewClosureRefines DEF Promised!Step
    <3>10. \A i : ~CallTooDeep(i) /\ ~CallWrongly(i)
      BY <1>3 DEF CallTooDeep, CallWrongly, Lose
    <3>11. ~ReturnFromMain
      BY <1>3 DEF ReturnFromMain, Lose
    <3>12. QED
      BY <3>1, <3>2, <3>3, <3>4, <3>5, <3>6, <3>7, <3>8, <3>9, <3>10, <3>11 DEF Next
  <2>2. QED
    BY <1>1, <1>3, <2>1 DEF Promised!Next
<1>4. QED
  BY <1>2, <1>3

LEMMA StutterRefines ==
  UNCHANGED vars => Acts' = Acts /\ CellValues' = CellValues /\ lost' = lost
<1> SUFFICES ASSUME UNCHANGED vars PROVE Acts' = Acts /\ CellValues' = CellValues /\ lost' = lost
  OBVIOUS
<1>1. /\ vstack' = vstack /\ callstack' = callstack /\ pc' = pc /\ fp' = fp /\ cp' = cp /\ env' = env
      /\ closure' = closure /\ closure_ptr' = closure_ptr /\ arena' = arena /\ lost' = lost
  BY DEF vars, regs, heap
<1>2. Acts' = Acts
  BY <1>1 DEF Acts, Frames, Depth, Activation, Reg, Saved, Limit, Seen, Upvals, Record, CellOf
<1>3. CellValues' = CellValues
  BY <1>1 DEF CellValues, CellsInUse, Seen, Upvals, Record, CellOf
<1>4. QED
  BY <1>1, <1>2, <1>3

(* Calls, returns and closures behave as activations with variables of     *)
(* their own, for every program and every room of the stacks and the arena *)
(* (op_call, op_return, op_closure).                                       *)
THEOREM ActivationsImplemented == Spec => ImplementsActivations
<1>1. Init => Promised!Init
  BY InitRefines
<1>2. IInv /\ IInv' /\ [Next]_vars => [Promised!Next]_<<Acts, CellValues, lost>>
  BY NextRefines, StutterRefines
<1>3. QED
  BY <1>1, <1>2, InvHolds, PTL DEF Spec, ImplementsActivations, Promised!Spec, Acts, CellValues

=============================================================================
