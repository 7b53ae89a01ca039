-------------------------- MODULE Z80EncoderProofs --------------------------
(***************************************************************************)
(* Proofs about the encoder, for every radix, every capacity of the image  *)
(* and of the tables and every program.                                    *)
(***************************************************************************)
EXTENDS Z80Encoder, SequenceTheorems, FiniteSetTheorems, WellFoundedInduction, TLAPS

-----------------------------------------------------------------------------
(* Bytes and words. *)

LEMMA Sizes ==
  /\ Radix \in Nat /\ Radix >= 2 /\ Word \in Nat /\ Word >= 2 * Radix
  /\ Word \div 2 \in Nat /\ Word = 2 * (Word \div 2)
  /\ Radix \div 2 \in Nat /\ Radix = 2 * (Radix \div 2)
  /\ Base \in Nat /\ Base >= Radix /\ Capacity \in Nat /\ Base + Capacity <= Word
  /\ MAX_LABELS \in Nat /\ MAX_REFS \in Nat
<1>1. Radix \in Nat /\ Radix >= 2 /\ Radix \div 2 \in Nat /\ Radix = 2 * (Radix \div 2)
  BY SizeAssumption, Z3
<1>2. PICK r \in Nat : Radix = 2 * r
  BY <1>1
<1>3. Word \in Nat /\ Word >= 2 * Radix
  <2>1. Radix * Radix \in Nat /\ Radix * Radix >= 2 * Radix
    BY <1>1, Z3
  <2>2. QED
    BY <2>1 DEF Word
<1>4. Word = 2 * (r * Radix) /\ r * Radix \in Nat
  <2>1. Radix * Radix = 2 * (r * Radix) /\ r * Radix \in Nat
    BY <1>1, <1>2, Z3
  <2>2. QED
    BY <2>1 DEF Word
<1>5. PICK h \in Nat : Word = 2 * h
  BY <1>4
<1>6. Word \div 2 = h
  BY <1>5, Z3
<1>7. QED
  BY <1>1, <1>3, <1>5, <1>6, SizeAssumption DEF Word

LEMMA ModIs ==
  ASSUME NEW x \in Int, NEW d \in Nat \ {0}
  PROVE  (x % d) \in 0 .. d - 1 /\ \E c \in Int : (x % d) = x + (c * d)
<1>1. x % d \in 0 .. d - 1
  BY Z3
<1>2. PICK q \in Int : q = x \div d
  BY Z3
<1>3. x = q * d + (x % d)
  BY <1>2, Z3
<1>4. PICK c \in Int : c = -q
  OBVIOUS
<1>5. PICK m \in Int : m = q * d
  BY Z3
<1>6. c * d = -m
  BY <1>4, <1>5, Z3
<1>7. PICK r \in Int : r = x % d
  BY <1>1
<1>8. x = m + r
  BY <1>3, <1>5, <1>7
<1>9. PICK w \in Int : w = c * d
  BY Z3
<1>10. r = x + w
  BY <1>6, <1>8, <1>9
<1>11. x % d = x + c * d
  BY <1>7, <1>9, <1>10
<1>12. QED
  BY <1>1, <1>11

(* Two numbers less than d apart that differ by a multiple of d. *)
LEMMA MultipleIsNone ==
  ASSUME NEW x \in Int, NEW y \in Int, NEW d \in Nat \ {0}, NEW c \in Int, x = y + c * d,
         x - y < d, y - x < d
  PROVE  x = y
<1>1. c * d \in Int /\ c * d < d /\ -(c * d) < d
  BY Z3
<1>2. ASSUME c >= 1 PROVE FALSE
  <2>1. c * d >= d
    BY <1>2, Z3
  <2>2. QED
    BY <1>1, <2>1
<1>3. ASSUME c <= -1 PROVE FALSE
  <2>1. c * d <= -d
    BY <1>3, Z3
  <2>2. QED
    BY <1>1, <2>1
<1>4. c = 0
  BY <1>2, <1>3
<1>5. c * d = 0
  BY <1>4, Z3
<1>6. QED
  BY <1>5

LEMMA ModUnique ==
  ASSUME NEW x \in Int, NEW d \in Nat \ {0}, NEW r \in 0 .. d - 1, NEW c \in Int, x = r + c * d
  PROVE  x % d = r
<1>1. PICK e \in Int : x % d = x + e * d /\ x % d \in 0 .. d - 1
  BY ModIs
<1>2. PICK f \in Int : f = c + e
  OBVIOUS
<1>3. f * d = c * d + e * d /\ c * d \in Int /\ e * d \in Int
  BY <1>2, Z3
<1>4. x % d = r + f * d
  BY <1>1, <1>3
<1>5. QED
  BY <1>1, <1>4, MultipleIsNone

LEMMA SignedIs ==
  ASSUME NEW x \in Int
  PROVE  /\ Signed(x) \in Int /\ -(Word \div 2) <= Signed(x) /\ Signed(x) < Word \div 2
         /\ \E c \in Int : Signed(x) = x + c * Word
<1>1. Word \in Nat \ {0} /\ x + Word \div 2 \in Int
  BY Sizes
<1>2. PICK y, c \in Int : y = (x + Word \div 2) % Word /\ y \in 0 .. Word - 1 /\ y = (x + Word \div 2) + c * Word
  <2>1. PICK z \in Int : z = x + Word \div 2
    BY <1>1
  <2>2. PICK c \in Int : z % Word \in 0 .. Word - 1 /\ z % Word = z + c * Word
    BY <1>1, ModIs
  <2>3. z % Word \in Int
    BY <1>1, <2>2
  <2>4. QED
    BY <2>1, <2>2, <2>3
<1>3. c * Word \in Int
  BY <1>1, Z3
<1>4. PICK m : m = c * Word /\ m \in Int
  BY <1>3
<1>5. Signed(x) = y - (Word \div 2)
  BY <1>2 DEF Signed
<1>6. Signed(x) = x + m
  BY <1>2, <1>4, <1>5, Sizes
<1>7. -(Word \div 2) <= Signed(x) /\ Signed(x) < Word \div 2 /\ Signed(x) \in Int
  BY <1>2, <1>5, Sizes
<1>8. QED
  BY <1>4, <1>6, <1>7

-----------------------------------------------------------------------------
(* Places. *)

(* The bytes of item k as pairs, and those before it. *)
BytesOf(p, k)     == {b \in {k} \X {1, 2} : b[2] <= A!Width(p[k])}
BytesBefore(p, k) == {b \in (1 .. k - 1) \X {1, 2} : b[2] <= A!Width(p[b[1]])}

LEMMA WidthIs ==
  ASSUME NEW it \in A!Item
  PROVE  A!Width(it) \in {0, 1, 2}
BY DEF A!Item, A!Width

LEMMA ItemOf ==
  ASSUME NEW p \in Seq(A!Item), NEW k \in 1 .. Len(p)
  PROVE  p[k] \in A!Item
<1>1. Len(p) \in Nat /\ p \in [1 .. Len(p) -> A!Item]
  BY LenProperties
<1>2. QED
  BY <1>1

LEMMA PlaceIs ==
  ASSUME NEW p, NEW k
  PROVE  A!Place(p, k) = Cardinality(BytesBefore(p, k))
BY DEF A!Place, A!Cardinality, Cardinality, BytesBefore

LEMMA BytesFinite ==
  ASSUME NEW p, NEW k \in Nat
  PROVE  IsFiniteSet(BytesBefore(p, k))
<1>1. 1 \in Int /\ 2 \in Int /\ 1 .. 2 = {1, 2} /\ k - 1 \in Int
  OBVIOUS
<1>2. IsFiniteSet(1 .. k - 1) /\ IsFiniteSet(1 .. 2)
  BY <1>1, FS_Interval
<1>3. IsFiniteSet((1 .. k - 1) \X (1 .. 2))
  BY <1>2, FS_Product
<1>4. BytesBefore(p, k) \subseteq (1 .. k - 1) \X (1 .. 2)
  BY <1>1 DEF BytesBefore
<1>5. QED
  BY <1>3, <1>4, FS_Subset

LEMMA BytesOfCount ==
  ASSUME NEW p, NEW k \in Nat, A!Width(p[k]) \in {0, 1, 2}
  PROVE  IsFiniteSet(BytesOf(p, k)) /\ Cardinality(BytesOf(p, k)) = A!Width(p[k])
<1>1. CASE A!Width(p[k]) = 0
  <2>1. BytesOf(p, k) = {}
    BY <1>1 DEF BytesOf
  <2>2. QED
    BY <1>1, <2>1, FS_EmptySet
<1>2. CASE A!Width(p[k]) = 1
  <2>1. BytesOf(p, k) = {<<k, 1>>}
    BY <1>2 DEF BytesOf
  <2>2. QED
    BY <1>2, <2>1, FS_Singleton
<1>3. CASE A!Width(p[k]) = 2
  <2>1. BytesOf(p, k) = {<<k, 1>>} \cup {<<k, 2>>} /\ <<k, 2>> \notin {<<k, 1>>}
    BY <1>3 DEF BytesOf
  <2>2. IsFiniteSet({<<k, 1>>}) /\ Cardinality({<<k, 1>>}) = 1
    BY FS_Singleton
  <2>3. IsFiniteSet({<<k, 1>>} \cup {<<k, 2>>})
        /\ Cardinality({<<k, 1>>} \cup {<<k, 2>>}) = Cardinality({<<k, 1>>}) + 1
    BY <2>1, <2>2, FS_AddElement
  <2>4. Cardinality(BytesOf(p, k)) = 2
    BY <2>1, <2>2, <2>3
  <2>5. QED
    BY <1>3, <2>1, <2>3, <2>4
<1>4. QED
  BY <1>1, <1>2, <1>3

LEMMA PlaceStep ==
  ASSUME NEW p \in Seq(A!Item), NEW k \in 1 .. Len(p)
  PROVE  A!Place(p, k + 1) = A!Place(p, k) + A!Width(p[k])
<1>1. k \in Nat /\ k + 1 \in Nat /\ A!Width(p[k]) \in {0, 1, 2}
  BY ItemOf, WidthIs
<1>2. BytesBefore(p, k + 1) = BytesBefore(p, k) \cup BytesOf(p, k)
      /\ BytesBefore(p, k) \cap BytesOf(p, k) = {}
  <2>1. 1 .. (k + 1) - 1 = (1 .. k - 1) \cup {k} /\ k \notin 1 .. k - 1
    BY <1>1
  <2>2. QED
    BY <2>1 DEF BytesBefore, BytesOf
<1>3. IsFiniteSet(BytesBefore(p, k)) /\ IsFiniteSet(BytesOf(p, k))
      /\ Cardinality(BytesOf(p, k)) = A!Width(p[k])
  BY <1>1, BytesFinite, BytesOfCount
<1>4. Cardinality({}) = 0
  BY FS_EmptySet
<1>5. Cardinality(BytesBefore(p, k + 1))
        = Cardinality(BytesBefore(p, k)) + Cardinality(BytesOf(p, k)) - Cardinality({})
  BY <1>2, <1>3, FS_Union
<1>6. Cardinality(BytesBefore(p, k)) \in Nat
  BY <1>3, FS_CardinalityType
<1>7. QED
  BY <1>1, <1>3, <1>4, <1>5, <1>6, PlaceIs

LEMMA PlaceOrder ==
  ASSUME NEW p, NEW i \in Nat, NEW k \in Nat, i <= k
  PROVE  A!Place(p, i) \in Nat /\ A!Place(p, i) <= A!Place(p, k)
<1>1. IsFiniteSet(BytesBefore(p, i)) /\ IsFiniteSet(BytesBefore(p, k))
  BY BytesFinite
<1>2. BytesBefore(p, i) \subseteq BytesBefore(p, k)
  <2>1. 1 .. i - 1 \subseteq 1 .. k - 1
    OBVIOUS
  <2>2. QED
    BY <2>1 DEF BytesBefore
<1>3. Cardinality(BytesBefore(p, i)) \in Nat
      /\ Cardinality(BytesBefore(p, i)) <= Cardinality(BytesBefore(p, k))
  BY <1>1, <1>2, FS_Subset, FS_CardinalityType
<1>4. QED
  BY <1>3, PlaceIs

LEMMA PlaceFirst ==
  ASSUME NEW p
  PROVE  A!Place(p, 1) = 0
<1>1. BytesBefore(p, 1) = {}
  BY DEF BytesBefore
<1>2. QED
  BY <1>1, PlaceIs, FS_EmptySet

(* An item ends before the next one begins, and where the bytes end at the latest. *)
LEMMA PlaceApart ==
  ASSUME NEW p \in Seq(A!Item), NEW i \in 1 .. Len(p), NEW k \in Nat, i < k
  PROVE  /\ A!Place(p, i) \in Nat /\ A!Width(p[i]) \in {0, 1, 2} /\ A!Place(p, k) \in Nat
         /\ A!Place(p, i) + A!Width(p[i]) <= A!Place(p, k)
<1>1. i \in Nat /\ i + 1 \in Nat /\ i + 1 <= k
  OBVIOUS
<1>2. A!Place(p, i) \in Nat /\ A!Place(p, k) \in Nat /\ A!Place(p, i + 1) <= A!Place(p, k)
  BY <1>1, PlaceOrder
<1>3. A!Width(p[i]) \in {0, 1, 2}
  BY ItemOf, WidthIs
<1>4. QED
  BY <1>2, <1>3, PlaceStep

LEMMA PlaceInside ==
  ASSUME NEW p \in Seq(A!Item), NEW i \in 1 .. Len(p)
  PROVE  /\ A!Place(p, i) \in Nat /\ A!Width(p[i]) \in {0, 1, 2} /\ A!Size(p) \in Nat
         /\ A!Place(p, i) + A!Width(p[i]) <= A!Size(p)
<1>1. Len(p) + 1 \in Nat /\ i < Len(p) + 1
  BY LenProperties
<1>2. QED
  BY <1>1, PlaceApart DEF A!Size

LEMMA SizeIsNat ==
  ASSUME NEW p \in Seq(A!Item)
  PROVE  A!Size(p) \in Nat
<1>1. Len(p) + 1 \in Nat
  BY LenProperties
<1>2. QED
  BY <1>1, PlaceOrder DEF A!Size

LEMMA Appended ==
  ASSUME NEW p \in Seq(A!Item), NEW it \in A!Item
  PROVE  /\ Append(p, it) \in Seq(A!Item) /\ Len(Append(p, it)) = Len(p) + 1 /\ Len(p) \in Nat
         /\ \A k \in 1 .. Len(p) : Append(p, it)[k] = p[k]
         /\ Append(p, it)[Len(p) + 1] = it
BY AppendProperties, LenProperties

LEMMA PlaceAppend ==
  ASSUME NEW p \in Seq(A!Item), NEW it \in A!Item, NEW k \in 1 .. Len(p) + 1
  PROVE  A!Place(Append(p, it), k) = A!Place(p, k)
<1>1. PICK q : q = Append(p, it)
  OBVIOUS
<1>2. Len(p) \in Nat /\ \A i \in 1 .. Len(p) : q[i] = p[i]
  BY <1>1, Appended
<1>3. BytesBefore(q, k) = BytesBefore(p, k)
  <2>1. 1 .. k - 1 \subseteq 1 .. Len(p)
    BY <1>2
  <2>2. QED
    BY <1>2, <2>1 DEF BytesBefore
<1>4. QED
  BY <1>1, <1>3, PlaceIs

LEMMA SizeAppend ==
  ASSUME NEW p \in Seq(A!Item), NEW it \in A!Item
  PROVE  A!Size(Append(p, it)) = A!Size(p) + A!Width(it)
<1>1. PICK q : q = Append(p, it)
  OBVIOUS
<1>2. q \in Seq(A!Item) /\ Len(q) = Len(p) + 1 /\ Len(p) \in Nat /\ q[Len(p) + 1] = it
  BY <1>1, Appended
<1>3. Len(p) + 1 \in 1 .. Len(q)
  BY <1>2
<1>4. A!Place(q, (Len(p) + 1) + 1) = A!Place(q, Len(p) + 1) + A!Width(it)
  BY <1>2, <1>3, PlaceStep
<1>5. Len(p) + 1 \in 1 .. Len(p) + 1
  BY <1>2
<1>6. A!Place(q, Len(p) + 1) = A!Place(p, Len(p) + 1)
  BY <1>1, <1>5, PlaceAppend
<1>7. QED
  BY <1>1, <1>2, <1>4, <1>6 DEF A!Size

-----------------------------------------------------------------------------
(* A table lists a set of items: in their order, each once and none else. *)

Lists(pos, n, S) ==
  /\ pos \in [1 .. n -> S]
  /\ \A x \in S : \E k \in 1 .. n : pos[k] = x
  /\ \A j, k \in 1 .. n : j < k => pos[j] < pos[k]

LabelItems(p) == {i \in 1 .. Len(p) : p[i][1] = "label"}
RefItems(p)   == {i \in 1 .. Len(p) : A!Uses(p[i])}

Extended(pos, n, x) == [k \in 1 .. n + 1 |-> IF k = n + 1 THEN x ELSE pos[k]]

LEMMA ExtendedIs ==
  ASSUME NEW pos, NEW n \in Nat, NEW x
  PROVE  /\ Extended(pos, n, x)[n + 1] = x
         /\ \A k \in 1 .. n : Extended(pos, n, x)[k] = pos[k]
<1>1. n + 1 \in 1 .. n + 1 /\ \A k \in 1 .. n : k \in 1 .. n + 1 /\ k # n + 1
  OBVIOUS
<1>2. QED
  BY <1>1 DEF Extended

LEMMA ListsExtended ==
  ASSUME NEW S \in SUBSET Nat, NEW n \in Nat, NEW pos, Lists(pos, n, S),
         NEW x \in Nat, \A y \in S : y < x
  PROVE  Lists(Extended(pos, n, x), n + 1, S \cup {x})
<1>1. PICK q : q = Extended(pos, n, x)
  OBVIOUS
<1>2. 1 .. n + 1 = (1 .. n) \cup {n + 1} /\ n + 1 \notin 1 .. n
  OBVIOUS
<1>3. q[n + 1] = x /\ \A k \in 1 .. n : q[k] = pos[k] /\ pos[k] \in S
  BY <1>1, <1>2 DEF Lists, Extended
<1>4. q \in [1 .. n + 1 -> S \cup {x}]
  BY <1>1, <1>2, <1>3 DEF Extended
<1>5. \A y \in S \cup {x} : \E k \in 1 .. n + 1 : q[k] = y
  <2>1. ASSUME NEW y \in S PROVE \E k \in 1 .. n + 1 : q[k] = y
    BY <1>2, <1>3 DEF Lists
  <2>2. QED
    BY <1>2, <1>3, <2>1
<1>6. \A j, k \in 1 .. n + 1 : j < k => q[j] < q[k]
  <2> SUFFICES ASSUME NEW j \in 1 .. n + 1, NEW k \in 1 .. n + 1, j < k
               PROVE  q[j] < q[k]
    OBVIOUS
  <2>1. j \in 1 .. n
    BY <1>2
  <2>2. CASE k = n + 1
    BY <1>3, <2>1, <2>2
  <2>3. CASE k \in 1 .. n
    BY <1>3, <2>1, <2>3 DEF Lists
  <2>4. QED
    BY <1>2, <2>2, <2>3
<1>7. QED
  BY <1>1, <1>3, <1>4, <1>5, <1>6 DEF Lists

LEMMA ListsCount ==
  ASSUME NEW S \in SUBSET Nat, NEW n \in Nat, NEW pos, Lists(pos, n, S)
  PROVE  IsFiniteSet(S) /\ Cardinality(S) = n
<1>1. \A j, k \in 1 .. n : pos[j] = pos[k] => j = k
  <2> SUFFICES ASSUME NEW j \in 1 .. n, NEW k \in 1 .. n, pos[j] = pos[k]
               PROVE  j = k
    OBVIOUS
  <2>1. pos[j] \in Nat /\ pos[k] \in Nat
    BY DEF Lists
  <2>2. ~(j < k) /\ ~(k < j)
    BY <2>1 DEF Lists
  <2>3. QED
    BY <2>2
<1>2. pos \in Bijection(1 .. n, S)
  BY <1>1 DEF Lists, Bijection, Injection, Surjection, IsInjective
<1>3. ExistsBijection(1 .. n, S)
  BY <1>2 DEF ExistsBijection
<1>4. IsFiniteSet(1 .. n) /\ Cardinality(1 .. n) = n
  <2>1. 1 \in Int /\ n \in Int
    OBVIOUS
  <2>2. IsFiniteSet(1 .. n) /\ Cardinality(1 .. n) = IF 1 > n THEN 0 ELSE n - 1 + 1
    BY <2>1, FS_Interval
  <2>3. QED
    BY <2>2
<1>5. QED
  BY <1>3, <1>4, FS_Bijection

LEMMA LeastElement ==
  ASSUME NEW S \in SUBSET Nat, S # {}
  PROVE  \E x \in S : \A y \in S : x <= y
<1> DEFINE R == {ss \in Nat \X Nat : ss[1] < ss[2]}
<1>1. IsWellFoundedOn(R, Nat)
  BY NatLessThanWellFounded, Zenon DEF OpToRel
<1>2. PICK x \in S : \A y \in S : ~(<<y, x>> \in R)
  BY <1>1, WFMin
<1>3. ASSUME NEW y \in S PROVE x <= y
  <2>1. x \in Nat /\ y \in Nat /\ <<y, x>> \in Nat \X Nat
    OBVIOUS
  <2>2. ~(y < x)
    BY <1>2, <2>1
  <2>3. QED
    BY <2>1, <2>2
<1>4. QED
  BY <1>3

-----------------------------------------------------------------------------
(* The tables mirror the program, and the bytes are those of its image. *)

LabelAt(p, i) == [name |-> p[i][2], addr |-> (Base + A!Place(p, i)) % Word]
RefAt(p, i)   == [name |-> p[i][2], kind |-> p[i][1], patch |-> A!Place(p, i)]

(* Can the reference be resolved, and does the buffer hold the item? *)
Good(p, i) ==
  /\ A!Definitions(p, p[i][2]) # {}
  /\ p[i][1] = "rel" => A!Distance(p, i) + Radix \div 2 \in 0 .. Radix - 1
Holds(buf, p, i) ==
  \A j \in 1 .. A!Width(p[i]) : buf[A!Place(p, i) + j] = A!Held(p, i, j)

LabelsMirror(ls, p) ==
  \E pos : /\ Lists(pos, Len(ls), LabelItems(p))
           /\ \A k \in 1 .. Len(ls) : ls[k] = LabelAt(p, pos[k])
(* References before n are resolved if they can be. *)
RefsMirror(rs, p, buf, n, good) ==
  \E pos : /\ Lists(pos, Len(rs), RefItems(p))
           /\ \A k \in 1 .. Len(rs) : rs[k] = RefAt(p, pos[k])
           /\ \A k \in 1 .. n - 1 : Good(p, pos[k]) => Holds(buf, p, pos[k])
           /\ good <=> \A k \in 1 .. n - 1 : Good(p, pos[k])
BytesMirror(buf, p) ==
  /\ Len(buf) = A!Size(p)
  /\ \A i \in 1 .. Len(p) : p[i][1] = "byte" => Holds(buf, p, i)
Mirrors ==
  /\ LabelsMirror(labels, asked)
  /\ RefsMirror(refs, asked, buffer, next, ok)
  /\ BytesMirror(buffer, asked)

(* No label lies beyond the bytes emitted. *)
Reach == \A k \in 1 .. Len(labels) : (labels[k].addr - Base) % Word <= Len(buffer)

Phases ==
  /\ next <= Len(refs) + 1
  /\ phase = "emit" => next = 1 /\ ok
  /\ phase \in {"emit", "resolve", "export", "write"} => bin = <<>>
  /\ phase \in {"export", "write"} => ok /\ next > Len(refs)

IInv == TypeOK /\ Reach /\ Phases /\ (~dropped => Mirrors)

-----------------------------------------------------------------------------
(* Type correctness. *)

Byte  == 0 .. Radix - 1
Label == [name : Names, addr : 0 .. Word - 1]
Ref   == [name : Names, kind : Kinds, patch : 0 .. Capacity]

LEMMA AddressIs ==
  ASSUME NEW k \in 0 .. Capacity
  PROVE  /\ (Base + k) % Word \in 0 .. Word - 1
         /\ (((Base + k) % Word) - Base) % Word = k
<1>1. Word \in Nat \ {0} /\ k \in 0 .. Word - 1 /\ k \in Int
  BY Sizes
<1>2. PICK z \in Int : z = Base + k
  BY <1>1, Sizes
<1>3. PICK c \in Int : z % Word \in 0 .. Word - 1 /\ z % Word = z + c * Word
  BY <1>1, ModIs
<1>4. PICK y \in Int : y = z % Word
  BY <1>3, <1>1
<1>5. PICK m \in Int : m = c * Word
  BY <1>1, Z3
<1>6. PICK x \in Int : x = y - Base
  BY Sizes
<1>7. x = k + m
  BY <1>1, <1>2, <1>3, <1>4, <1>5, <1>6, Sizes
<1>8. x = k + c * Word
  BY <1>5, <1>7
<1>9. x % Word = k
  BY <1>1, <1>8, ModUnique
<1>10. QED
  BY <1>2, <1>3, <1>4, <1>6, <1>9

LEMMA TargetFound ==
  ASSUME labels \in Seq(Label), NEW n, Labelled(n) # {}
  PROVE  \E k \in Labelled(n) : /\ \A j \in Labelled(n) : k <= j
                                /\ target(n) = labels[k].addr
                                /\ k \in 1 .. Len(labels) /\ labels[k] \in Label
<1>1. Len(labels) \in Nat /\ DOMAIN labels = 1 .. Len(labels)
      /\ labels \in [1 .. Len(labels) -> Label]
  BY LenProperties
<1>2. Labelled(n) \in SUBSET Nat /\ Labelled(n) \subseteq 1 .. Len(labels)
  BY <1>1 DEF Labelled
<1>3. \E x \in Labelled(n) : \A y \in Labelled(n) : x <= y
  BY <1>2, LeastElement
<1>4. PICK k : k = CHOOSE x \in Labelled(n) : \A y \in Labelled(n) : x <= y
  OBVIOUS
<1>5. k \in Labelled(n) /\ \A y \in Labelled(n) : k <= y
  BY <1>3, <1>4
<1>6. target(n) = labels[k].addr
  BY <1>4 DEF target
<1>7. QED
  BY <1>1, <1>2, <1>5, <1>6

LEMMA Emitted ==
  ASSUME buffer \in Seq(Byte), Len(buffer) <= Capacity, dropped \in BOOLEAN,
         NEW bytes \in Seq(Byte), emit(bytes)
  PROVE  /\ buffer' \in Seq(Byte) /\ Len(buffer') <= Capacity /\ Len(buffer) <= Len(buffer')
         /\ dropped' \in BOOLEAN
         /\ ~dropped' => ~dropped /\ buffer' = buffer \o bytes
         /\ dropped' => dropped \/ Len(buffer) + Len(bytes) > Capacity
<1>1. Len(buffer) \in Nat /\ Len(bytes) \in Nat /\ Capacity \in Nat
  BY LenProperties, Sizes
<1>2. PICK w : w = IF Len(bytes) <= Capacity - Len(buffer) THEN Len(bytes) ELSE Capacity - Len(buffer)
  OBVIOUS
<1>3. w \in Nat /\ w <= Len(bytes) /\ Len(buffer) + w <= Capacity
      /\ (Len(bytes) <= Capacity - Len(buffer) => w = Len(bytes))
  BY <1>1, <1>2
<1>4. PICK kept : kept = SubSeq(bytes, 1, w)
  OBVIOUS
<1>5. kept \in Seq(Byte) /\ Len(kept) = w /\ \A i \in 1 .. w : kept[i] = bytes[i]
  <2>1. 1 \in 1 .. Len(bytes) + 1 /\ w \in (1 - 1) .. Len(bytes)
    BY <1>1, <1>3
  <2>2. /\ SubSeq(bytes, 1, w) \in Seq(Byte)
        /\ Len(SubSeq(bytes, 1, w)) = IF 1 <= w THEN w - 1 + 1 ELSE 0
        /\ \A i \in 1 .. w - 1 + 1 : SubSeq(bytes, 1, w)[i] = bytes[1 + i - 1]
    BY <2>1, SubSeqProperties
  <2>3. w - 1 + 1 = w /\ (~(1 <= w) => w = 0) /\ \A i \in 1 .. w : 1 + i - 1 = i
    BY <1>3
  <2>4. QED
    BY <1>4, <2>2, <2>3
<1>6. buffer' = buffer \o kept /\ dropped' = (dropped \/ kept # bytes)
  BY <1>2, <1>4 DEF emit
<1>7. buffer \o kept \in Seq(Byte) /\ Len(buffer \o kept) = Len(buffer) + w
  BY <1>5, ConcatProperties
<1>8. kept # bytes <=> w # Len(bytes)
  BY <1>5, SeqEqual
<1>9. PICK b : b = buffer \o kept
  OBVIOUS
<1>10. buffer' = b /\ b \in Seq(Byte) /\ Len(b) = Len(buffer) + w
  BY <1>6, <1>7, <1>9
<1>11. Len(buffer') <= Capacity /\ Len(buffer) <= Len(buffer')
  BY <1>1, <1>3, <1>10
<1>12. ASSUME ~dropped' PROVE ~dropped /\ buffer' = buffer \o bytes
  BY <1>6, <1>12
<1>13. ASSUME dropped' PROVE dropped \/ Len(buffer) + Len(bytes) > Capacity
  BY <1>1, <1>3, <1>6, <1>8, <1>13
<1>14. dropped' \in BOOLEAN
  BY <1>6, Zenon
<1>15. QED
  BY <1>10, <1>11, <1>12, <1>13, <1>14

LEMMA PatchedTyped ==
  ASSUME labels \in Seq(Label), NEW r \in Ref
  PROVE  Patched(r) \in Seq(Byte)
<1>1. ASSUME NEW x \in Int PROVE x % Radix \in Byte
  BY <1>1, ModIs, Sizes DEF Byte
<1>2. r.kind \in Kinds
  BY DEF Ref
<1>3. CASE Labelled(r.name) = {}
  <2>1. Patched(r) = <<>>
    BY <1>3 DEF Patched
  <2>2. QED
    BY <2>1
<1>4. CASE Labelled(r.name) # {} /\ r.kind = "rel"
  <2>1. PICK k : target(r.name) = labels[k].addr /\ labels[k] \in Label
    BY <1>4, TargetFound
  <2>2. target(r.name) \in Int /\ Base + r.patch + 1 \in Int
    BY <2>1, Sizes DEF Label, Ref
  <2>3. PICK s, t \in Int : s = Signed(target(r.name)) /\ t = Signed(Base + r.patch + 1)
    BY <2>2, SignedIs
  <2>4. s - t \in Int
    OBVIOUS
  <2>5. Signed(s - t) \in Int
    BY <2>4, SignedIs
  <2>6. PICK v \in Int : v = Rel(r)
    BY <2>3, <2>5 DEF Rel
  <2>7. v % Radix \in Byte
    BY <1>1
  <2>8. Patched(r) = IF Fits(v) THEN <<v % Radix>> ELSE <<>>
    BY <1>4, <2>6 DEF Patched
  <2>9. QED
    BY <2>7, <2>8
<1>5. CASE Labelled(r.name) # {} /\ r.kind = "word"
  <2>1. PICK k : target(r.name) = labels[k].addr /\ labels[k] \in Label
    BY <1>5, TargetFound
  <2>2. PICK v \in Int : v = target(r.name)
    BY <2>1, Sizes DEF Label
  <2>3. PICK h \in Int : h = v \div Radix
    BY Sizes, Z3
  <2>4. Low(v) \in Byte /\ High(v) \in Byte
    BY <1>1, <2>3 DEF Low, High
  <2>5. Patched(r) = <<Low(v), High(v)>>
    BY <1>5, <2>2 DEF Patched
  <2>6. QED
    BY <2>4, <2>5
<1>6. QED
  BY <1>2, <1>3, <1>4, <1>5 DEF Kinds

Patch(buf, bytes, at) ==
  [a \in DOMAIN buf |-> IF a - at \in DOMAIN bytes THEN bytes[a - at] ELSE buf[a]]

LEMMA PatchIs ==
  ASSUME NEW buf \in Seq(Byte), NEW bytes \in Seq(Byte), NEW at \in Nat
  PROVE  /\ Patch(buf, bytes, at) \in Seq(Byte) /\ Len(Patch(buf, bytes, at)) = Len(buf)
         /\ \A a \in 1 .. Len(buf) : a - at \in 1 .. Len(bytes) => Patch(buf, bytes, at)[a] = bytes[a - at]
         /\ \A a \in 1 .. Len(buf) : a - at \notin 1 .. Len(bytes) => Patch(buf, bytes, at)[a] = buf[a]
<1>1. Len(buf) \in Nat /\ DOMAIN buf = 1 .. Len(buf) /\ \A a \in 1 .. Len(buf) : buf[a] \in Byte
  BY LenProperties, ElementOfSeq
<1>2. DOMAIN bytes = 1 .. Len(bytes) /\ \A i \in DOMAIN bytes : bytes[i] \in Byte
  BY LenProperties
<1>3. PICK new : new = Patch(buf, bytes, at)
  OBVIOUS
<1>4. \A a \in 1 .. Len(buf) : new[a] = IF a - at \in 1 .. Len(bytes) THEN bytes[a - at] ELSE buf[a]
  BY <1>1, <1>2, <1>3 DEF Patch
<1>5. \A a \in 1 .. Len(buf) : new[a] \in Byte
  BY <1>1, <1>2, <1>4
<1>6. new \in [1 .. Len(buf) -> Byte]
  BY <1>1, <1>3, <1>5 DEF Patch
<1>7. new \in Seq(Byte) /\ Len(new) = Len(buf)
  BY <1>1, <1>6
<1>8. QED
  BY <1>3, <1>4, <1>7

Typed == TypeOK /\ Reach /\ Phases

LEMMA InitTyped == Init => Typed
<1> SUFFICES ASSUME Init PROVE Typed
  OBVIOUS
<1>1. Len(buffer) = 0 /\ Len(labels) = 0 /\ Len(refs) = 0
  BY DEF Init
<1>2. TypeOK
  <2>1. buffer \in Seq(0 .. Radix - 1) /\ bin \in Seq(0 .. Radix - 1)
        /\ labels \in Seq([name : Names, addr : 0 .. Word - 1]) /\ sym \in Seq([name : Names, addr : 0 .. Word - 1])
        /\ refs \in Seq([name : Names, kind : Kinds, patch : 0 .. Capacity])
        /\ asked \in Seq(A!Item)
    BY EmptySeq DEF Init
  <2>2. Len(buffer) <= Capacity /\ Len(labels) <= MAX_LABELS /\ Len(refs) <= MAX_REFS
        /\ next \in 1 .. MAX_REFS + 1
    BY <1>1, Sizes DEF Init
  <2>3. phase = "emit" /\ ok = TRUE /\ dropped = FALSE
    BY DEF Init
  <2>4. QED
    BY <2>1, <2>2, <2>3 DEF TypeOK
<1>3. Reach /\ Phases
  BY <1>1 DEF Init, Reach, Phases
<1>4. QED
  BY <1>2, <1>3 DEF Typed

LEMMA ItemsAre ==
  /\ \A b \in Bytes : <<"byte", b>> \in A!Item
  /\ \A n \in Names : <<"label", n>> \in A!Item /\ \A kind \in Kinds : <<kind, n>> \in A!Item
BY DEF A!Item, Kinds

(* What the generator asks for leaves everything else as it was. *)
LEMMA AskTyped ==
  ASSUME TypeOK, NEW it \in A!Item, Ask(it)
  PROVE  asked' \in Seq(A!Item)
<1>1. Append(asked, it) \in Seq(A!Item)
  BY Appended DEF TypeOK
<1>2. QED
  BY <1>1 DEF Ask

(* Labels stay within reach while the buffer does not shrink. *)
LEMMA ReachStays ==
  ASSUME TypeOK, Reach, NEW k \in 1 .. Len(labels), Len(buffer) <= Len(buffer'), Len(buffer') \in Nat
  PROVE  (labels[k].addr - Base) % Word <= Len(buffer')
<1>1. labels[k] \in Label /\ Len(buffer) \in Nat
  BY ElementOfSeq, LenProperties DEF TypeOK, Label
<1>2. labels[k].addr - Base \in Int
  BY <1>1, Sizes DEF Label
<1>3. PICK v \in Int : v = (labels[k].addr - Base) % Word
  <2>1. PICK x \in Int : x = labels[k].addr - Base
    BY <1>2
  <2>2. Word \in Nat \ {0}
    BY Sizes
  <2>3. x % Word \in 0 .. Word - 1
    BY <2>2, ModIs
  <2>4. QED
    BY <2>1, <2>2, <2>3
<1>4. v <= Len(buffer)
  BY <1>3 DEF Reach
<1>5. QED
  BY <1>1, <1>3, <1>4

LEMMA ByteTyped ==
  ASSUME Typed, NEW b \in Bytes, EmitByte(b)
  PROVE  Typed'
<1>1. TypeOK /\ Reach /\ Phases
  BY DEF Typed
<1>2. Ask(<<"byte", b>>) /\ emit(<<b>>) /\ UNCHANGED <<labels, refs>>
  BY DEF EmitByte
<1>3. asked' \in Seq(A!Item)
  BY <1>1, <1>2, ItemsAre, AskTyped
<1>4. phase = "emit" /\ UNCHANGED <<phase, next, ok, sym, bin>>
  BY <1>2 DEF Ask, files
<1>5. <<b>> \in Seq(Byte)
  BY SizeAssumption DEF Byte
<1>6. buffer' \in Seq(Byte) /\ Len(buffer') <= Capacity /\ Len(buffer) <= Len(buffer')
      /\ dropped' \in BOOLEAN
  BY <1>1, <1>2, <1>5, Emitted DEF TypeOK, Byte
<1>7. TypeOK'
  BY <1>1, <1>2, <1>3, <1>4, <1>6 DEF TypeOK, Byte
<1>8. Reach'
  <2>1. Len(buffer') \in Nat
    BY <1>6, LenProperties
  <2>2. \A k \in 1 .. Len(labels) : (labels[k].addr - Base) % Word <= Len(buffer')
    BY <1>1, <1>6, <2>1, ReachStays
  <2>3. QED
    BY <1>2, <2>2 DEF Reach
<1>9. Phases'
  BY <1>1, <1>2, <1>4 DEF Phases
<1>10. QED
  BY <1>7, <1>8, <1>9 DEF Typed

LEMMA LabelTyped ==
  ASSUME Typed, NEW n \in Names, z80_add_label(n)
  PROVE  Typed'
<1>1. TypeOK /\ Reach /\ Phases
  BY DEF Typed
<1>2. Ask(<<"label", n>>) /\ UNCHANGED <<buffer, refs>>
  BY DEF z80_add_label
<1>3. asked' \in Seq(A!Item)
  BY <1>1, <1>2, ItemsAre, AskTyped
<1>4. phase = "emit" /\ UNCHANGED <<phase, next, ok, sym, bin>>
  BY <1>2 DEF Ask, files
<1>5. labels \in Seq(Label) /\ Len(labels) \in Nat /\ Len(buffer) \in 0 .. Capacity
      /\ dropped \in BOOLEAN /\ Len(labels) <= MAX_LABELS
  BY <1>1, LenProperties, Sizes DEF TypeOK, Label
<1>6. PICK l : l = [name |-> n, addr |-> Here]
  OBVIOUS
<1>7. Here \in 0 .. Word - 1 /\ (Here - Base) % Word = Len(buffer)
  BY <1>5, AddressIs DEF Here
<1>8. l \in Label /\ l.addr = Here
  BY <1>6, <1>7 DEF Label
<1>9. /\ Append(labels, l) \in Seq(Label) /\ Len(Append(labels, l)) = Len(labels) + 1
      /\ \A k \in 1 .. Len(labels) : Append(labels, l)[k] = labels[k]
      /\ Append(labels, l)[Len(labels) + 1] = l
  BY <1>5, <1>8, AppendProperties
<1>10. CASE Len(labels) < MAX_LABELS /\ labels' = Append(labels, l) /\ dropped' = dropped
  <2>1. labels' \in Seq(Label) /\ Len(labels') <= MAX_LABELS /\ dropped' \in BOOLEAN
    BY <1>5, <1>9, <1>10, Sizes
  <2>2. TypeOK'
    BY <1>1, <1>2, <1>3, <1>4, <2>1 DEF TypeOK, Label
  <2>3. Reach'
    <3> SUFFICES ASSUME NEW k \in 1 .. Len(labels')
                 PROVE  (labels'[k].addr - Base) % Word <= Len(buffer')
      BY DEF Reach
    <3>1. k \in 1 .. Len(labels) \/ k = Len(labels) + 1
      BY <1>5, <1>9, <1>10
    <3>2. CASE k \in 1 .. Len(labels)
      BY <1>1, <1>2, <1>9, <1>10, <3>2 DEF Reach
    <3>3. CASE k = Len(labels) + 1
      <4>1. labels'[k] = l
        BY <1>9, <1>10, <3>3
      <4>2. (labels'[k].addr - Base) % Word = Len(buffer)
        BY <1>7, <1>8, <4>1
      <4>3. QED
        BY <1>2, <1>5, <4>2
    <3>4. QED
      BY <3>1, <3>2, <3>3
  <2>4. Phases'
    BY <1>1, <1>2, <1>4 DEF Phases
  <2>5. QED
    BY <2>2, <2>3, <2>4 DEF Typed
<1>11. CASE dropped' = TRUE /\ labels' = labels
  <2>1. TypeOK'
    BY <1>1, <1>2, <1>3, <1>4, <1>11 DEF TypeOK
  <2>2. Reach' /\ Phases'
    BY <1>1, <1>2, <1>4, <1>11 DEF Reach, Phases
  <2>3. QED
    BY <2>1, <2>2 DEF Typed
<1>12. QED
  BY <1>6, <1>10, <1>11 DEF z80_add_label

LEMMA RefTyped ==
  ASSUME Typed, NEW n \in Names, NEW kind \in Kinds, z80_add_ref(n, kind)
  PROVE  Typed'
<1>1. TypeOK /\ Reach /\ Phases
  BY DEF Typed
<1>2. Ask(<<kind, n>>) /\ UNCHANGED labels
  BY DEF z80_add_ref
<1>3. asked' \in Seq(A!Item)
  BY <1>1, <1>2, ItemsAre, AskTyped
<1>4. phase = "emit" /\ UNCHANGED <<phase, next, ok, sym, bin>>
  BY <1>2 DEF Ask, files
<1>5. refs \in Seq(Ref) /\ Len(refs) \in Nat /\ Len(buffer) \in 0 .. Capacity
      /\ dropped \in BOOLEAN /\ Len(refs) <= MAX_REFS
  BY <1>1, LenProperties, Sizes DEF TypeOK, Ref
<1>6. PICK r : r = [name |-> n, kind |-> kind, patch |-> Len(buffer)]
  OBVIOUS
<1>7. r \in Ref
  BY <1>5, <1>6 DEF Ref
<1>8. Append(refs, r) \in Seq(Ref) /\ Len(Append(refs, r)) = Len(refs) + 1
  BY <1>5, <1>7, AppendProperties
<1>9. CASE HasRef /\ refs' = Append(refs, r) /\ emit(Operand(kind))
  <2>1. refs' \in Seq(Ref) /\ Len(refs') <= MAX_REFS /\ Len(refs') >= Len(refs)
    BY <1>5, <1>8, <1>9, Sizes DEF HasRef
  <2>2. Operand(kind) \in Seq(Byte)
    <3>1. 0 \in Byte
      BY Sizes DEF Byte
    <3>2. <<0, 0>> \in Seq(Byte) /\ <<0>> \in Seq(Byte)
      BY <3>1
    <3>3. QED
      BY <3>2 DEF Operand
  <2>3. buffer' \in Seq(Byte) /\ Len(buffer') <= Capacity /\ Len(buffer) <= Len(buffer')
        /\ dropped' \in BOOLEAN
    BY <1>1, <1>9, <2>2, Emitted DEF TypeOK, Byte
  <2>4. TypeOK'
    BY <1>1, <1>2, <1>3, <1>4, <2>1, <2>3 DEF TypeOK, Byte, Ref
  <2>5. Reach'
    <3>1. Len(buffer') \in Nat
      BY <2>3, LenProperties
    <3>2. \A k \in 1 .. Len(labels) : (labels[k].addr - Base) % Word <= Len(buffer')
      BY <1>1, <2>3, <3>1, ReachStays
    <3>3. QED
      BY <1>2, <3>2 DEF Reach
  <2>6. Phases'
    BY <1>1, <1>4, <1>5, <1>8, <1>9 DEF Phases
  <2>7. QED
    BY <2>4, <2>5, <2>6 DEF Typed
<1>10. CASE dropped' = TRUE /\ refs' = refs /\ buffer' = buffer
  <2>1. TypeOK'
    BY <1>1, <1>2, <1>3, <1>4, <1>10 DEF TypeOK
  <2>2. Reach' /\ Phases'
    BY <1>1, <1>2, <1>4, <1>10 DEF Reach, Phases
  <2>3. QED
    BY <2>1, <2>2 DEF Typed
<1>11. QED
  BY <1>6, <1>9, <1>10 DEF z80_add_ref

LEMMA ResolveTyped ==
  ASSUME Typed, ResolveOne
  PROVE  Typed' /\ Len(buffer') = Len(buffer)
<1>1. TypeOK /\ Reach /\ Phases
  BY DEF Typed
<1>2. phase = "resolve" /\ next <= Len(refs) /\ next' = next + 1
      /\ UNCHANGED <<labels, refs, phase, sym, bin, asked, dropped>>
  BY DEF ResolveOne, files
<1>3. next \in Nat /\ next >= 1 /\ Len(refs) \in Nat /\ Len(refs) <= MAX_REFS /\ next \in 1 .. Len(refs)
  BY <1>1, <1>2, LenProperties, Sizes DEF TypeOK
<1>4. PICK r : r = refs[next]
  OBVIOUS
<1>5. r \in Ref
  BY <1>1, <1>3, <1>4, ElementOfSeq DEF TypeOK, Ref
<1>6. PICK bytes : bytes = Patched(r)
  OBVIOUS
<1>7. labels \in Seq(Label) /\ buffer \in Seq(Byte)
  BY <1>1 DEF TypeOK, Label, Byte
<1>8. bytes \in Seq(Byte)
  BY <1>5, <1>6, <1>7, PatchedTyped
<1>9. /\ buffer' = [a \in DOMAIN buffer |->
                      IF a - r.patch \in DOMAIN bytes THEN bytes[a - r.patch] ELSE buffer[a]]
      /\ ok' = (ok /\ bytes # <<>>)
  BY <1>4, <1>6 DEF ResolveOne
<1>10. r.patch \in Nat
  BY <1>5, Sizes DEF Ref
<1>11. PICK at \in Nat : at = r.patch
  BY <1>10
<1>12. buffer' = Patch(buffer, bytes, at)
  BY <1>9, <1>11 DEF Patch
<1>13. buffer' \in Seq(Byte) /\ Len(buffer') = Len(buffer)
  BY <1>7, <1>8, <1>12, PatchIs
<1>14. ok' \in BOOLEAN
  BY <1>9, Zenon
<1>15. next' \in 1 .. MAX_REFS + 1 /\ next' <= Len(refs) + 1
  BY <1>2, <1>3, Sizes
<1>16. TypeOK'
  BY <1>1, <1>2, <1>13, <1>14, <1>15 DEF TypeOK, Byte
<1>17. Reach' /\ Phases'
  BY <1>1, <1>2, <1>13, <1>15 DEF Reach, Phases
<1>18. QED
  BY <1>13, <1>16, <1>17 DEF Typed

(* A beginning of the buffer is a file of bytes. *)
LEMMA BeginningTyped ==
  ASSUME TypeOK, NEW n \in 0 .. Len(buffer)
  PROVE  SubSeq(buffer, 1, n) \in Seq(0 .. Radix - 1)
<1>1. Len(buffer) \in Nat /\ n \in Int /\ 1 \in Int
  BY LenProperties DEF TypeOK
<1>2. \A i \in 1 .. n : buffer[i] \in 0 .. Radix - 1
  <2> SUFFICES ASSUME NEW i \in 1 .. n PROVE buffer[i] \in 0 .. Radix - 1
    OBVIOUS
  <2>1. i \in 1 .. Len(buffer)
    BY <1>1
  <2>2. QED
    BY <2>1, ElementOfSeq DEF TypeOK
<1>3. QED
  BY <1>1, <1>2, SubSeqProperties

LEMMA WrittenReaches ==
  ASSUME TypeOK, Reach, Labelled(BssStart) # {}
  PROVE  Written \in 0 .. Len(buffer)
<1>1. labels \in Seq(Label) /\ Len(buffer) \in Nat
  BY LenProperties DEF TypeOK, Label
<1>2. PICK k \in 1 .. Len(labels) : target(BssStart) = labels[k].addr /\ labels[k] \in Label
  BY <1>1, TargetFound
<1>3. PICK x \in Int : x = labels[k].addr - Base
  BY <1>2, Sizes DEF Label
<1>4. Written = x % Word /\ x % Word <= Len(buffer)
  BY <1>2, <1>3 DEF Written, Reach
<1>5. Word \in Nat \ {0}
  BY Sizes
<1>6. x % Word \in 0 .. Word - 1
  BY <1>5, ModIs
<1>7. QED
  BY <1>1, <1>4, <1>5, <1>6

LEMMA WriteTyped ==
  ASSUME Typed, WriteImage
  PROVE  Typed'
<1>1. TypeOK /\ Reach /\ Phases
  BY DEF Typed
<1>2. phase = "write" /\ UNCHANGED <<buffer, labels, refs, next, ok, sym, asked, dropped>>
  BY DEF WriteImage, enc
<1>3. phase' \in {"generated", "error"}
  BY DEF WriteImage
<1>4. bin' \in Seq(0 .. Radix - 1)
  <2>1. CASE Labelled(BssStart) = {}
    <3>1. bin' = <<>>
      BY <2>1 DEF WriteImage
    <3>2. QED
      BY <3>1
  <2>2. CASE Labelled(BssStart) # {}
    <3>1. PICK w : w = Written /\ w \in 0 .. Len(buffer)
      BY <1>1, <2>2, WrittenReaches
    <3>2. \E n \in 0 .. w : bin' = SubSeq(buffer, 1, n)
      BY <2>2, <3>1 DEF WriteImage
    <3>3. Len(buffer) \in Nat
      BY <1>1, LenProperties DEF TypeOK
    <3>4. \E n \in 0 .. Len(buffer) : bin' = SubSeq(buffer, 1, n)
      BY <3>1, <3>2, <3>3
    <3>5. QED
      BY <1>1, <3>4, BeginningTyped
  <2>3. QED
    BY <2>1, <2>2
<1>5. TypeOK'
  BY <1>1, <1>2, <1>3, <1>4 DEF TypeOK
<1>6. Reach' /\ Phases'
  BY <1>1, <1>2, <1>3 DEF Reach, Phases
<1>7. QED
  BY <1>5, <1>6 DEF Typed

LEMMA ExportTyped ==
  ASSUME Typed, ExportSymbols
  PROVE  Typed'
<1>1. TypeOK /\ Reach /\ Phases
  BY DEF Typed
<1>2. phase = "export" /\ UNCHANGED <<buffer, labels, refs, next, ok, bin, asked, dropped>>
  BY DEF ExportSymbols, enc
<1>3. phase' \in {"write", "error"}
  BY DEF ExportSymbols
<1>4. labels \in Seq(Label) /\ Len(labels) \in Nat /\ \A i \in 1 .. Len(labels) : labels[i] \in Label
  BY <1>1, LenProperties, ElementOfSeq DEF TypeOK, Label
<1>5. ASSUME NEW n \in 0 .. Len(labels) PROVE SubSeq(labels, 1, n) \in Seq(Label)
  <2>1. 1 \in Int /\ n \in Int /\ \A i \in 1 .. n : labels[i] \in Label
    BY <1>4
  <2>2. QED
    BY <2>1, SubSeqProperties
<1>6. sym' \in Seq(Label)
  BY <1>4, <1>5 DEF ExportSymbols
<1>7. TypeOK'
  BY <1>1, <1>2, <1>3, <1>6 DEF TypeOK, Label
<1>8. Reach' /\ Phases'
  BY <1>1, <1>2, <1>3 DEF Reach, Phases
<1>9. QED
  BY <1>7, <1>8 DEF Typed

LEMMA TurnTyped ==
  ASSUME Typed, StartResolve \/ EndResolve
  PROVE  Typed'
<1>1. TypeOK /\ Reach /\ Phases
  BY DEF Typed
<1>2. UNCHANGED <<buffer, labels, refs, sym, bin, asked, dropped>>
  BY DEF StartResolve, EndResolve, enc, files
<1>3. CASE StartResolve
  <2>1. phase' = "resolve" /\ next' = 1 /\ ok' = TRUE /\ phase = "emit"
    BY <1>3 DEF StartResolve
  <2>2. Len(refs) \in Nat
    BY <1>1, LenProperties DEF TypeOK
  <2>3. TypeOK'
    BY <1>1, <1>2, <2>1, Sizes DEF TypeOK
  <2>4. Reach' /\ Phases'
    BY <1>1, <1>2, <2>1, <2>2 DEF Reach, Phases
  <2>5. QED
    BY <2>3, <2>4 DEF Typed
<1>4. CASE EndResolve
  <2>1. next' = next /\ ok' = ok /\ next > Len(refs) /\ phase = "resolve"
        /\ phase' = IF ok THEN "export" ELSE "error"
    BY <1>4 DEF EndResolve
  <2>2. TypeOK'
    BY <1>1, <1>2, <2>1 DEF TypeOK
  <2>3. Reach' /\ Phases'
    BY <1>1, <1>2, <2>1 DEF Reach, Phases
  <2>4. QED
    BY <2>2, <2>3 DEF Typed
<1>5. QED
  BY <1>3, <1>4

LEMMA NextTyped == Typed /\ [Next]_vars => Typed'
<1> SUFFICES ASSUME Typed, [Next]_vars PROVE Typed'
  OBVIOUS
<1>1. CASE UNCHANGED vars
  BY <1>1 DEF Typed, TypeOK, Reach, Phases, vars, enc, files
<1>2. CASE Next
  BY <1>2, ByteTyped, LabelTyped, RefTyped, ResolveTyped, WriteTyped, ExportTyped, TurnTyped DEF Next
<1>3. QED
  BY <1>1, <1>2

(* The tables and the buffer stay within their limits and everything in    *)
(* them within its width, whatever has been left out before (z80_emit_b,   *)
(* z80_add_label, z80_add_ref, z80_resolve_refs, write_image_file).        *)
THEOREM TypeCorrect == Spec => []TypeOK
<1>1. Init => Typed
  BY InitTyped
<1>2. Typed /\ [Next]_vars => Typed'
  BY NextTyped
<1>3. Typed => TypeOK
  BY DEF Typed
<1>4. QED
  BY <1>1, <1>2, <1>3, PTL DEF Spec

-----------------------------------------------------------------------------
(* What is looked up and stored is what the abstract assembler computes. *)

LEMMA EntriesAre ==
  ASSUME NEW p, NEW i
  PROVE  /\ LabelAt(p, i).name = p[i][2] /\ LabelAt(p, i).addr = (Base + A!Place(p, i)) % Word
         /\ RefAt(p, i).name = p[i][2] /\ RefAt(p, i).kind = p[i][1]
         /\ RefAt(p, i).patch = A!Place(p, i)
BY DEF LabelAt, RefAt

(* A label's place is that of the first definition of its name. *)
LEMMA TargetIs ==
  ASSUME labels \in Seq(Label), NEW p \in Seq(A!Item), LabelsMirror(labels, p), NEW n
  PROVE  /\ Labelled(n) = {} <=> A!Definitions(p, n) = {}
         /\ Labelled(n) # {} =>
              /\ A!First(p, n) \in A!Definitions(p, n)
              /\ target(n) = (Base + A!Place(p, A!First(p, n))) % Word
<1>1. PICK pos : /\ Lists(pos, Len(labels), LabelItems(p))
                 /\ \A k \in 1 .. Len(labels) : labels[k] = LabelAt(p, pos[k])
  BY DEF LabelsMirror
<1>2. Len(labels) \in Nat /\ DOMAIN labels = 1 .. Len(labels) /\ Len(p) \in Nat
  BY LenProperties
<1>3. \A k \in 1 .. Len(labels) : pos[k] \in LabelItems(p) /\ pos[k] \in 1 .. Len(p)
  BY <1>1 DEF Lists, LabelItems
<1>4. \A i \in LabelItems(p) : i \in 1 .. Len(p) /\ p[i] = <<"label", p[i][2]>>
  <2> SUFFICES ASSUME NEW i \in LabelItems(p)
               PROVE  i \in 1 .. Len(p) /\ p[i] = <<"label", p[i][2]>>
    OBVIOUS
  <2>1. i \in 1 .. Len(p) /\ p[i][1] = "label"
    BY DEF LabelItems
  <2>2. PICK it \in A!Item : it = p[i]
    BY <2>1, ItemOf
  <2>3. it = <<it[1], it[2]>>
    BY DEF A!Item
  <2>4. QED
    BY <2>1, <2>2, <2>3
<1>5. \A k \in 1 .. Len(labels) : labels[k].name = p[pos[k]][2]
  BY <1>1, EntriesAre
<1>6. \A k \in 1 .. Len(labels) : k \in Labelled(n) <=> pos[k] \in A!Definitions(p, n)
  <2> SUFFICES ASSUME NEW k \in 1 .. Len(labels)
               PROVE  k \in Labelled(n) <=> pos[k] \in A!Definitions(p, n)
    OBVIOUS
  <2>1. k \in Labelled(n) <=> p[pos[k]][2] = n
    BY <1>2, <1>5 DEF Labelled
  <2>2. pos[k] \in A!Definitions(p, n) <=> p[pos[k]] = <<"label", n>>
    BY <1>3 DEF A!Definitions
  <2>3. p[pos[k]] = <<"label", p[pos[k]][2]>>
    BY <1>3, <1>4
  <2>4. PICK m : m = p[pos[k]][2]
    OBVIOUS
  <2>5. p[pos[k]] = <<"label", n>> <=> m = n
    BY <2>3, <2>4
  <2>6. QED
    BY <2>1, <2>2, <2>4, <2>5
<1>7. \A i \in A!Definitions(p, n) : i \in Nat /\ \E k \in 1 .. Len(labels) : pos[k] = i
  <2> SUFFICES ASSUME NEW i \in A!Definitions(p, n)
               PROVE  i \in Nat /\ \E k \in 1 .. Len(labels) : pos[k] = i
    OBVIOUS
  <2>1. i \in 1 .. Len(p) /\ p[i] = <<"label", n>>
    BY DEF A!Definitions
  <2>2. p[i][1] = "label"
    BY <2>1
  <2>3. QED
    BY <1>1, <2>1, <2>2 DEF Lists, LabelItems
<1>8. Labelled(n) \subseteq 1 .. Len(labels)
  BY <1>2 DEF Labelled
<1>9. Labelled(n) = {} <=> A!Definitions(p, n) = {}
  BY <1>6, <1>7, <1>8
<1>10. ASSUME Labelled(n) # {}
       PROVE  /\ A!First(p, n) \in A!Definitions(p, n)
              /\ target(n) = (Base + A!Place(p, A!First(p, n))) % Word
  <2>1. PICK k \in 1 .. Len(labels) : /\ k \in Labelled(n) /\ \A j \in Labelled(n) : k <= j
                                      /\ target(n) = labels[k].addr
    BY <1>10, TargetFound
  <2>2. pos[k] \in A!Definitions(p, n)
    BY <1>6, <2>1
  <2>3. ASSUME NEW i \in A!Definitions(p, n) PROVE pos[k] <= i
    <3>1. PICK j \in 1 .. Len(labels) : pos[j] = i
      BY <1>7
    <3>2. j \in Labelled(n)
      BY <1>6, <3>1
    <3>3. k <= j
      BY <2>1, <3>2
    <3>4. k < j => pos[k] < pos[j]
      BY <1>1 DEF Lists
    <3>5. pos[k] \in Nat /\ pos[j] \in Nat
      BY <1>3
    <3>6. CASE k = j
      BY <3>1, <3>5, <3>6
    <3>7. CASE k < j
      BY <3>1, <3>4, <3>5, <3>7
    <3>8. QED
      BY <3>3, <3>6, <3>7
  <2>4. PICK f : f = A!First(p, n)
    OBVIOUS
  <2>5. f \in A!Definitions(p, n) /\ \A j \in A!Definitions(p, n) : f <= j
    BY <2>2, <2>3, <2>4 DEF A!First
  <2>6. f = pos[k]
    <3>1. f \in Nat /\ pos[k] \in Nat
      BY <1>7, <2>2, <2>5
    <3>2. f <= pos[k] /\ pos[k] <= f
      BY <2>2, <2>3, <2>5
    <3>3. QED
      BY <3>1, <3>2
  <2>7. labels[k].addr = (Base + A!Place(p, pos[k])) % Word
    BY <1>1, EntriesAre
  <2>8. QED
    BY <2>1, <2>4, <2>5, <2>6, <2>7
<1>11. QED
  BY <1>9, <1>10

(* The displacement in 16-bit arithmetic is the distance, if it fits. *)
LEMMA RelativeIs ==
  ASSUME NEW a \in 0 .. Capacity, NEW b \in 0 .. Capacity - 1, NEW v,
         v = Signed(Signed((Base + a) % Word) - Signed(Base + b + 1))
  PROVE  /\ v \in Int
         /\ Fits(v) <=> (a - b - 1) + Radix \div 2 \in 0 .. Radix - 1
         /\ Fits(v) => v = a - b - 1
<1>1. /\ Word \in Nat \ {0} /\ Base \in Nat /\ Capacity \in Nat /\ Base >= Radix
      /\ Base + Capacity <= Word /\ Radix \in Nat /\ Word >= 2 * Radix
  BY Sizes
<1>2. PICK H \in Nat : H = Word \div 2 /\ Word = 2 * H
  BY Sizes
<1>3. PICK h \in Nat : h = Radix \div 2 /\ Radix = 2 * h
  BY Sizes
<1>4. PICK z \in Int : z = Base + a
  BY <1>1
<1>5. PICK c1 \in Int : z % Word \in 0 .. Word - 1 /\ z % Word = z + c1 * Word
  BY <1>1, ModIs
<1>6. PICK t \in Int : t = z % Word
  BY <1>1, <1>5
<1>7. PICK s1, c2 \in Int : s1 = Signed(t) /\ s1 = t + c2 * Word
  BY SignedIs
<1>8. PICK u \in Int : u = Base + b + 1
  BY <1>1
<1>9. PICK s2, c3 \in Int : s2 = Signed(u) /\ s2 = u + c3 * Word
  BY SignedIs
<1>10. PICK e \in Int : e = s1 - s2
  OBVIOUS
<1>11. v = Signed(e)
  BY <1>4, <1>6, <1>7, <1>8, <1>9, <1>10
<1>12. PICK c4 \in Int : v = e + c4 * Word /\ v \in Int /\ -H <= v /\ v < H
  BY <1>2, <1>11, SignedIs
<1>13. PICK c \in Int : c = c1 + c2 - c3 + c4
  OBVIOUS
<1>14. PICK d \in Int : d = a - b - 1
  BY <1>1
<1>15. v = d + c * Word
  <2>1. PICK m1, m2, m3, m4 \in Int : m1 = c1 * Word /\ m2 = c2 * Word /\ m3 = c3 * Word /\ m4 = c4 * Word
    <3>1. c1 * Word \in Int /\ c2 * Word \in Int /\ c3 * Word \in Int /\ c4 * Word \in Int
      BY <1>1, Z3
    <3>2. QED
      BY <3>1
  <2>2. c * Word = m1 + m2 - m3 + m4
    BY <1>1, <1>13, <2>1, Z3
  <2>3. t = z + m1 /\ s1 = t + m2 /\ s2 = u + m3 /\ v = e + m4
    BY <1>5, <1>6, <1>7, <1>9, <1>12, <2>1
  <2>4. v = d + (m1 + m2 - m3 + m4)
    BY <1>1, <1>4, <1>8, <1>10, <1>12, <1>14, <2>1, <2>3
  <2>5. QED
    BY <2>2, <2>4
<1>16. d <= Word - Radix /\ -d <= Word - Radix
  BY <1>1, <1>14
<1>17. Fits(v) <=> (-h <= v /\ v < h)
  BY <1>3 DEF Fits
<1>18. ASSUME -h <= v /\ v < h PROVE v = d
  <2>1. v - d < Word /\ d - v < Word
    BY <1>1, <1>3, <1>12, <1>16, <1>18
  <2>2. QED
    BY <1>1, <1>12, <1>15, <2>1, MultipleIsNone
<1>19. ASSUME d + h \in 0 .. Radix - 1 PROVE v = d
  <2>1. -h <= d /\ d < h
    BY <1>3, <1>19
  <2>2. v - d < Word /\ d - v < Word
    BY <1>1, <1>2, <1>3, <1>12, <2>1
  <2>3. QED
    BY <1>1, <1>12, <1>15, <2>2, MultipleIsNone
<1>20. Fits(v) <=> d + h \in 0 .. Radix - 1
  BY <1>3, <1>12, <1>17, <1>18, <1>19
<1>21. QED
  BY <1>3, <1>12, <1>14, <1>17, <1>18, <1>20

(* Only the end of a full buffer has another address than its place says,  *)
(* and both bytes of that are zero.                                        *)
LEMMA WordIs ==
  ASSUME NEW a \in 0 .. Capacity, NEW t, t = (Base + a) % Word
  PROVE  Low(t) = (Base + a) % Radix /\ High(t) = ((Base + a) \div Radix) % Radix
<1>1. /\ Word \in Nat \ {0} /\ Base \in Nat /\ Capacity \in Nat
      /\ Base + Capacity <= Word /\ Radix \in Nat \ {0} /\ Word = Radix * Radix
  BY Sizes DEF Word
<1>2. PICK z \in Nat : z = Base + a /\ z <= Word
  BY <1>1
<1>3. CASE z < Word
  <2>1. z \in 0 .. Word - 1 /\ z = z + 0 * Word /\ 0 \in Int
    BY <1>1, <1>3
  <2>2. z % Word = z
    BY <1>1, <2>1, ModUnique
  <2>3. t = z
    BY <1>2, <2>2
  <2>4. QED
    BY <1>2, <2>3 DEF Low, High
<1>4. CASE z = Word
  <2>1. 0 \in 0 .. Word - 1 /\ z = 0 + 1 * Word /\ 1 \in Int
    BY <1>1, <1>4
  <2>2. z % Word = 0
    BY <1>1, <2>1, ModUnique
  <2>3. 0 \in 0 .. Radix - 1 /\ z = 0 + Radix * Radix /\ Radix = 0 + 1 * Radix /\ Radix \in Int
    BY <1>1, <1>4
  <2>4. z % Radix = 0
    BY <1>1, <2>3, ModUnique
  <2>5. Radix % Radix = 0
    BY <1>1, <2>3, ModUnique
  <2>6. z \div Radix = Radix
    BY <1>1, <1>4, Z3
  <2>7. 0 % Radix = 0 /\ 0 \div Radix = 0
    BY <1>1, Z3
  <2>8. t = 0
    BY <1>2, <2>2
  <2>9. QED
    BY <1>2, <2>4, <2>5, <2>6, <2>7, <2>8 DEF Low, High
<1>5. QED
  BY <1>1, <1>2, <1>3, <1>4

LEMMA DefinitionsAre ==
  ASSUME NEW p \in Seq(A!Item), NEW n, NEW f \in A!Definitions(p, n), A!Size(p) <= Capacity
  PROVE  f \in 1 .. Len(p) /\ A!Place(p, f) \in 0 .. Capacity
<1>1. f \in 1 .. Len(p)
  BY DEF A!Definitions
<1>2. QED
  BY <1>1, PlaceInside, Sizes

(* A reference is resolved exactly if the assembler can, and to its value. *)
LEMMA PatchedIs ==
  ASSUME labels \in Seq(Label), NEW p \in Seq(A!Item), LabelsMirror(labels, p),
         A!Size(p) <= Capacity, NEW i \in RefItems(p), NEW r, r = RefAt(p, i)
  PROVE  /\ Patched(r) # <<>> <=> Good(p, i)
         /\ Good(p, i) => /\ Len(Patched(r)) = A!Width(p[i])
                          /\ \A j \in 1 .. A!Width(p[i]) : Patched(r)[j] = A!Held(p, i, j)
<1>1. i \in 1 .. Len(p) /\ p[i][1] \in {"rel", "word"}
  BY DEF RefItems, A!Uses
<1>2. PICK n, kind : n = p[i][2] /\ kind = p[i][1]
  OBVIOUS
<1>3. kind \in {"rel", "word"} /\ r.name = n /\ r.kind = kind /\ r.patch = A!Place(p, i)
  BY <1>1, <1>2, EntriesAre
<1>4. /\ Labelled(n) = {} <=> A!Definitions(p, n) = {}
      /\ Labelled(n) # {} =>
           /\ A!First(p, n) \in A!Definitions(p, n)
           /\ target(n) = (Base + A!Place(p, A!First(p, n))) % Word
  BY TargetIs
<1>5. CASE Labelled(n) = {}
  <2>1. Patched(r) = <<>>
    BY <1>3, <1>5 DEF Patched
  <2>2. ~Good(p, i)
    BY <1>2, <1>4, <1>5 DEF Good
  <2>3. QED
    BY <2>1, <2>2
<1>6. CASE Labelled(n) # {}
  <2>1. PICK a : a = A!Place(p, A!First(p, n))
    OBVIOUS
  <2>2. a \in 0 .. Capacity /\ target(n) = (Base + a) % Word /\ A!Address(p, n) = Base + a
    BY <1>4, <1>6, <2>1, DefinitionsAre DEF A!Address
  <2>3. A!Definitions(p, p[i][2]) # {}
    BY <1>2, <1>4, <1>6
  <2>4. CASE kind = "word"
    <3>1. Patched(r) = <<Low(target(n)), High(target(n))>>
      BY <1>3, <1>6, <2>4 DEF Patched
    <3>2. Good(p, i) /\ A!Width(p[i]) = 2
      BY <1>2, <2>3, <2>4 DEF Good, A!Width
    <3>3. A!Held(p, i, 1) = (Base + a) % Radix
          /\ A!Held(p, i, 2) = ((Base + a) \div Radix) % Radix
      BY <1>2, <2>2, <2>4 DEF A!Held
    <3>4. Low(target(n)) = (Base + a) % Radix /\ High(target(n)) = ((Base + a) \div Radix) % Radix
      BY <2>2, WordIs
    <3>5. PICK x, y : x = Low(target(n)) /\ y = High(target(n))
      OBVIOUS
    <3>6. Patched(r) = <<x, y>> /\ A!Held(p, i, 1) = x /\ A!Held(p, i, 2) = y
      BY <3>1, <3>3, <3>4, <3>5
    <3>7. Len(Patched(r)) = 2 /\ Patched(r) # <<>>
          /\ \A j \in 1 .. 2 : Patched(r)[j] = A!Held(p, i, j)
      BY <3>6
    <3>8. QED
      BY <3>2, <3>7
  <2>5. CASE kind = "rel"
    <3>1. PICK b \in Int : b = A!Place(p, i)
      BY <1>1, PlaceInside
    <3>2. A!Width(p[i]) = 1
      BY <1>2, <2>5 DEF A!Width
    <3>3. b \in 0 .. Capacity - 1
      <4>1. b \in Nat /\ b + 1 <= A!Size(p) /\ A!Size(p) \in Nat
        BY <1>1, <3>1, <3>2, PlaceInside
      <4>2. QED
        BY <4>1, Sizes
    <3>4. A!Distance(p, i) = (Base + a) - (Base + b + 1)
      BY <1>2, <2>2, <3>1 DEF A!Distance
    <3>5. A!Distance(p, i) = a - b - 1
      BY <2>2, <3>3, <3>4, Sizes
    <3>6. PICK v : v = Signed(Signed((Base + a) % Word) - Signed(Base + b + 1))
      OBVIOUS
    <3>7. v = Rel(r)
      BY <1>3, <2>2, <3>1, <3>6 DEF Rel
    <3>8. /\ v \in Int
          /\ Fits(v) <=> (a - b - 1) + Radix \div 2 \in 0 .. Radix - 1
          /\ Fits(v) => v = a - b - 1
      BY <2>2, <3>3, <3>6, RelativeIs
    <3>9. Good(p, i) <=> Fits(v)
      BY <1>2, <2>3, <2>5, <3>5, <3>8 DEF Good
    <3>10. Patched(r) = IF Fits(v) THEN <<v % Radix>> ELSE <<>>
      BY <1>3, <1>6, <2>5, <3>7 DEF Patched
    <3>11. A!Held(p, i, 1) = A!Distance(p, i) % Radix
      BY <1>2, <2>5 DEF A!Held
    <3>12. PICK x : x = v % Radix
      OBVIOUS
    <3>13. ASSUME Fits(v) PROVE A!Held(p, i, 1) = x
      BY <3>5, <3>8, <3>11, <3>12, <3>13
    <3>14. CASE Fits(v)
      <4>1. Patched(r) = <<x>> /\ A!Held(p, i, 1) = x
        BY <3>10, <3>12, <3>13, <3>14
      <4>2. Len(Patched(r)) = 1 /\ Patched(r) # <<>> /\ \A j \in 1 .. 1 : Patched(r)[j] = A!Held(p, i, j)
        BY <4>1
      <4>3. QED
        BY <3>2, <3>9, <3>14, <4>2
    <3>15. CASE ~Fits(v)
      BY <3>9, <3>10, <3>15
    <3>16. QED
      BY <3>14, <3>15
  <2>6. QED
    BY <1>3, <2>4, <2>5
<1>7. QED
  BY <1>5, <1>6

(* A buffer that holds every item of the program is its image. *)
LEMMA ImageIs ==
  ASSUME NEW p \in Seq(A!Item), NEW buf \in Seq(Byte), Len(buf) = A!Size(p),
         \A i \in 1 .. Len(p) : Holds(buf, p, i)
  PROVE  buf = A!Image(p)
<1>1. Len(p) \in Nat /\ Len(buf) \in Nat /\ DOMAIN buf = 1 .. Len(buf)
      /\ buf = [a \in 1 .. Len(buf) |-> buf[a]]
  BY LenProperties
<1>2. ASSUME NEW a \in 1 .. Len(buf)
      PROVE  \E j \in 1 .. Len(p) : A!Place(p, j) < a /\ a <= A!Place(p, j + 1)
  <2> DEFINE S == {j \in 1 .. Len(p) : a <= A!Place(p, j + 1)}
  <2>1. Len(p) \in S
    <3>1. a <= A!Place(p, Len(p) + 1)
      BY DEF A!Size
    <3>2. Len(p) # 0
      BY <3>1, PlaceFirst
    <3>3. QED
      BY <1>1, <3>1, <3>2
  <2>2. S \in SUBSET Nat
    BY <1>1
  <2>3. PICK j \in S : \A i \in S : j <= i
    BY <2>1, <2>2, LeastElement
  <2>4. A!Place(p, j) < a
    <3>1. CASE j = 1
      BY <3>1, PlaceFirst
    <3>2. CASE j # 1
      <4>1. j - 1 \in 1 .. Len(p) /\ (j - 1) + 1 = j /\ ~(j <= j - 1)
        BY <1>1, <3>2
      <4>2. j - 1 \notin S
        BY <2>3, <4>1
      <4>3. ~(a <= A!Place(p, j))
        BY <4>1, <4>2
      <4>4. A!Place(p, j) \in Nat
        BY <4>1, PlaceInside
      <4>5. QED
        BY <4>3, <4>4
    <3>3. QED
      BY <3>1, <3>2
  <2>5. QED
    BY <2>3, <2>4
<1>3. ASSUME NEW a \in 1 .. Len(buf),
             NEW k, k = CHOOSE j \in 1 .. Len(p) : A!Place(p, j) < a /\ a <= A!Place(p, j + 1)
      PROVE  buf[a] = A!Held(p, k, a - A!Place(p, k))
  <2>1. k \in 1 .. Len(p) /\ A!Place(p, k) < a /\ a <= A!Place(p, k + 1)
    BY <1>2, <1>3
  <2>2. A!Place(p, k + 1) = A!Place(p, k) + A!Width(p[k]) /\ A!Place(p, k) \in Nat
        /\ A!Width(p[k]) \in {0, 1, 2}
    BY <2>1, PlaceStep, PlaceInside
  <2>3. PICK w \in Nat : w = A!Place(p, k)
    BY <2>2
  <2>4. PICK j : j = a - w
    OBVIOUS
  <2>5. j \in 1 .. A!Width(p[k]) /\ w + j = a
    BY <2>1, <2>2, <2>3, <2>4
  <2>6. buf[w + j] = A!Held(p, k, j)
    BY <2>1, <2>3, <2>5 DEF Holds
  <2>7. QED
    BY <2>3, <2>4, <2>5, <2>6
<1>4. \A a \in 1 .. Len(buf) :
        buf[a] = LET k == CHOOSE j \in 1 .. Len(p) : A!Place(p, j) < a /\ a <= A!Place(p, j + 1)
                 IN  A!Held(p, k, a - A!Place(p, k))
  BY <1>3
<1>5. QED
  BY <1>1, <1>4 DEF A!Image

-----------------------------------------------------------------------------
(* The generator asks for one more item. *)

LEMMA EntriesStay ==
  ASSUME NEW p \in Seq(A!Item), NEW it \in A!Item, NEW i \in 1 .. Len(p), NEW q, q = Append(p, it)
  PROVE  LabelAt(q, i) = LabelAt(p, i) /\ RefAt(q, i) = RefAt(p, i)
<1>1. q[i] = p[i] /\ Len(p) \in Nat /\ i \in 1 .. Len(p) + 1
  BY Appended
<1>2. A!Place(q, i) = A!Place(p, i)
  BY <1>1, PlaceAppend
<1>3. QED
  BY <1>1, <1>2 DEF LabelAt, RefAt

(* Its own entry is the one that the encoder makes. *)
LEMMA EntriesNew ==
  ASSUME NEW p \in Seq(A!Item), NEW it \in A!Item, NEW q, q = Append(p, it)
  PROVE  /\ LabelAt(q, Len(p) + 1) = [name |-> it[2], addr |-> (Base + A!Size(p)) % Word]
         /\ RefAt(q, Len(p) + 1) = [name |-> it[2], kind |-> it[1], patch |-> A!Size(p)]
<1>1. q[Len(p) + 1] = it /\ Len(p) \in Nat /\ Len(p) + 1 \in 1 .. Len(p) + 1
  BY Appended
<1>2. A!Place(q, Len(p) + 1) = A!Size(p)
  BY <1>1, PlaceAppend DEF A!Size
<1>3. QED
  BY <1>1, <1>2 DEF LabelAt, RefAt

LEMMA ItemsGrow ==
  ASSUME NEW p \in Seq(A!Item), NEW it \in A!Item, NEW q, q = Append(p, it)
  PROVE  /\ LabelItems(p) \in SUBSET Nat /\ RefItems(p) \in SUBSET Nat
         /\ \A y \in LabelItems(p) \cup RefItems(p) : y \in 1 .. Len(p) /\ y < Len(p) + 1
         /\ it[1] # "label" => LabelItems(q) = LabelItems(p)
         /\ it[1] = "label" => LabelItems(q) = LabelItems(p) \cup {Len(p) + 1}
         /\ ~A!Uses(it) => RefItems(q) = RefItems(p)
         /\ A!Uses(it) => RefItems(q) = RefItems(p) \cup {Len(p) + 1}
<1>1. /\ Len(q) = Len(p) + 1 /\ Len(p) \in Nat /\ q[Len(p) + 1] = it
      /\ \A k \in 1 .. Len(p) : q[k] = p[k]
      /\ 1 .. Len(p) + 1 = (1 .. Len(p)) \cup {Len(p) + 1}
  BY Appended
<1>2. \A y \in 1 .. Len(p) : y \in Nat /\ y < Len(p) + 1
  BY <1>1
<1>3. QED
  BY <1>1, <1>2 DEF LabelItems, RefItems

LEMMA LabelsGrow ==
  ASSUME NEW p \in Seq(A!Item), NEW it \in A!Item, NEW q, q = Append(p, it),
         NEW ls \in Seq(Label), LabelsMirror(ls, p)
  PROVE  /\ it[1] # "label" => LabelsMirror(ls, q)
         /\ it[1] = "label" => \A l \in Label : l = LabelAt(q, Len(p) + 1) =>
              LabelsMirror(Append(ls, l), q)
<1>1. PICK pos : /\ Lists(pos, Len(ls), LabelItems(p))
                 /\ \A k \in 1 .. Len(ls) : ls[k] = LabelAt(p, pos[k])
  BY DEF LabelsMirror
<1>2. \A k \in 1 .. Len(ls) : pos[k] \in LabelItems(p) /\ pos[k] \in 1 .. Len(p)
  BY <1>1 DEF Lists, LabelItems
<1>3. \A k \in 1 .. Len(ls) : ls[k] = LabelAt(q, pos[k])
  BY <1>1, <1>2, EntriesStay
<1>4. ASSUME it[1] # "label" PROVE LabelsMirror(ls, q)
  <2>1. LabelItems(q) = LabelItems(p)
    BY <1>4, ItemsGrow
  <2>2. QED
    BY <1>1, <1>3, <2>1 DEF LabelsMirror
<1>5. ASSUME it[1] = "label", NEW l \in Label, l = LabelAt(q, Len(p) + 1)
      PROVE  LabelsMirror(Append(ls, l), q)
  <2>1. PICK x \in Nat : x = Len(p) + 1
    BY Appended
  <2>2. LabelItems(p) \in SUBSET Nat /\ (\A y \in LabelItems(p) : y < x)
        /\ LabelItems(q) = LabelItems(p) \cup {x}
    BY <1>5, <2>1, ItemsGrow
  <2>3. PICK n \in Nat : n = Len(ls)
    BY LenProperties
  <2>4. PICK pos2 : /\ Lists(pos2, n + 1, LabelItems(q))
                    /\ pos2[n + 1] = x /\ \A k \in 1 .. n : pos2[k] = pos[k]
    <3>1. PICK S \in SUBSET Nat : S = LabelItems(p)
      BY <2>2
    <3>2. Lists(pos, n, S) /\ \A y \in S : y < x
      BY <1>1, <2>2, <2>3, <3>1
    <3>3. PICK f : f = Extended(pos, n, x)
      OBVIOUS
    <3>4. Lists(f, n + 1, S \cup {x}) /\ f[n + 1] = x /\ \A k \in 1 .. n : f[k] = pos[k]
      <4>1. Lists(Extended(pos, n, x), n + 1, S \cup {x})
        BY <3>2, ListsExtended
      <4>2. f[n + 1] = x /\ \A k \in 1 .. n : f[k] = pos[k]
        BY <3>3, ExtendedIs
      <4>3. QED
        BY <3>3, <4>1, <4>2
    <3>5. QED
      BY <2>2, <3>1, <3>4
  <2>5. PICK ms : ms = Append(ls, l)
    OBVIOUS
  <2>6. Len(ms) = n + 1 /\ ms[n + 1] = l /\ \A k \in 1 .. n : ms[k] = ls[k]
    BY <2>3, <2>5, AppendProperties
  <2>7. \A k \in 1 .. Len(ms) : ms[k] = LabelAt(q, pos2[k])
    <3>1. ASSUME NEW k \in 1 .. n PROVE ms[k] = LabelAt(q, pos2[k])
      BY <1>3, <2>3, <2>4, <2>6, <3>1
    <3>2. ms[n + 1] = LabelAt(q, pos2[n + 1])
      BY <1>5, <2>1, <2>4, <2>6
    <3>3. \A k \in 1 .. Len(ms) : k \in 1 .. n \/ k = n + 1
      BY <2>6
    <3>4. QED
      BY <3>1, <3>2, <3>3
  <2>8. LabelsMirror(ms, q)
    BY <2>4, <2>6, <2>7 DEF LabelsMirror
  <2>9. QED
    BY <2>5, <2>8
<1>6. QED
  BY <1>4, <1>5

(* While code is generated no reference has been looked at. *)
LEMMA RefsGrow ==
  ASSUME NEW p \in Seq(A!Item), NEW it \in A!Item, NEW q, q = Append(p, it),
         NEW rs \in Seq(Ref), NEW buf, NEW buf2, RefsMirror(rs, p, buf, 1, TRUE)
  PROVE  /\ ~A!Uses(it) => RefsMirror(rs, q, buf2, 1, TRUE)
         /\ A!Uses(it) => \A r \in Ref : r = RefAt(q, Len(p) + 1) =>
              RefsMirror(Append(rs, r), q, buf2, 1, TRUE)
<1>1. PICK pos : /\ Lists(pos, Len(rs), RefItems(p))
                 /\ \A k \in 1 .. Len(rs) : rs[k] = RefAt(p, pos[k])
  BY DEF RefsMirror
<1>2. \A k \in 1 .. Len(rs) : pos[k] \in RefItems(p) /\ pos[k] \in 1 .. Len(p)
  BY <1>1 DEF Lists, RefItems
<1>3. \A k \in 1 .. Len(rs) : rs[k] = RefAt(q, pos[k])
  BY <1>1, <1>2, EntriesStay
<1>4. 1 .. 1 - 1 = {}
  OBVIOUS
<1>5. ASSUME ~A!Uses(it) PROVE RefsMirror(rs, q, buf2, 1, TRUE)
  <2>1. RefItems(q) = RefItems(p)
    BY <1>5, ItemsGrow
  <2>2. QED
    BY <1>1, <1>3, <1>4, <2>1 DEF RefsMirror
<1>6. ASSUME A!Uses(it), NEW r \in Ref, r = RefAt(q, Len(p) + 1)
      PROVE  RefsMirror(Append(rs, r), q, buf2, 1, TRUE)
  <2>1. PICK x \in Nat : x = Len(p) + 1
    BY Appended
  <2>2. RefItems(p) \in SUBSET Nat /\ (\A y \in RefItems(p) : y < x)
        /\ RefItems(q) = RefItems(p) \cup {x}
    BY <1>6, <2>1, ItemsGrow
  <2>3. PICK n \in Nat : n = Len(rs)
    BY LenProperties
  <2>4. PICK pos2 : /\ Lists(pos2, n + 1, RefItems(q))
                    /\ pos2[n + 1] = x /\ \A k \in 1 .. n : pos2[k] = pos[k]
    <3>1. PICK S \in SUBSET Nat : S = RefItems(p)
      BY <2>2
    <3>2. Lists(pos, n, S) /\ \A y \in S : y < x
      BY <1>1, <2>2, <2>3, <3>1
    <3>3. PICK f : f = Extended(pos, n, x)
      OBVIOUS
    <3>4. Lists(f, n + 1, S \cup {x}) /\ f[n + 1] = x /\ \A k \in 1 .. n : f[k] = pos[k]
      <4>1. Lists(Extended(pos, n, x), n + 1, S \cup {x})
        BY <3>2, ListsExtended
      <4>2. f[n + 1] = x /\ \A k \in 1 .. n : f[k] = pos[k]
        BY <3>3, ExtendedIs
      <4>3. QED
        BY <3>3, <4>1, <4>2
    <3>5. QED
      BY <2>2, <3>1, <3>4
  <2>5. PICK ss : ss = Append(rs, r)
    OBVIOUS
  <2>6. Len(ss) = n + 1 /\ ss[n + 1] = r /\ \A k \in 1 .. n : ss[k] = rs[k]
    BY <2>3, <2>5, AppendProperties
  <2>7. \A k \in 1 .. Len(ss) : ss[k] = RefAt(q, pos2[k])
    <3>1. ASSUME NEW k \in 1 .. n PROVE ss[k] = RefAt(q, pos2[k])
      BY <1>3, <2>3, <2>4, <2>6, <3>1
    <3>2. ss[n + 1] = RefAt(q, pos2[n + 1])
      BY <1>6, <2>1, <2>4, <2>6
    <3>3. \A k \in 1 .. Len(ss) : k \in 1 .. n \/ k = n + 1
      BY <2>6
    <3>4. QED
      BY <3>1, <3>2, <3>3
  <2>8. RefsMirror(ss, q, buf2, 1, TRUE)
    BY <1>4, <2>4, <2>6, <2>7 DEF RefsMirror
  <2>9. QED
    BY <2>5, <2>8
<1>7. QED
  BY <1>5, <1>6

(* The bytes of a byte item are in place and stay there. *)
LEMMA BytesGrow ==
  ASSUME NEW p \in Seq(A!Item), NEW it \in A!Item, NEW q, q = Append(p, it),
         NEW buf \in Seq(Byte), BytesMirror(buf, p), NEW bytes \in Seq(Byte), NEW buf2,
         buf2 = buf \o bytes, Len(bytes) = A!Width(it), it[1] = "byte" => bytes = <<it[2]>>
  PROVE  BytesMirror(buf2, q)
<1>1. /\ q \in Seq(A!Item) /\ Len(q) = Len(p) + 1 /\ Len(p) \in Nat /\ q[Len(p) + 1] = it
      /\ \A k \in 1 .. Len(p) : q[k] = p[k]
  BY Appended
<1>0. Len(buf2) = Len(buf) + Len(bytes) /\ \A a \in 1 .. Len(buf) + Len(bytes) :
        buf2[a] = IF a <= Len(buf) THEN buf[a] ELSE bytes[a - Len(buf)]
  BY ConcatProperties
<1>2. PICK s \in Nat : s = A!Size(p) /\ s = Len(buf)
  BY SizeIsNat DEF BytesMirror
<1>3. Len(buf2) = A!Size(q) /\ \A a \in 1 .. s : buf2[a] = buf[a]
  <2>1. A!Size(q) = s + A!Width(it)
    BY <1>2, SizeAppend
  <2>2. A!Width(it) \in Nat
    BY WidthIs
  <2>3. Len(buf2) = s + A!Width(it) /\ \A a \in 1 .. s + A!Width(it) :
          buf2[a] = IF a <= s THEN buf[a] ELSE bytes[a - s]
    BY <1>2, <1>0
  <2>4. QED
    BY <2>1, <2>2, <2>3
<1>4. ASSUME NEW i \in 1 .. Len(q), q[i][1] = "byte" PROVE Holds(buf2, q, i)
  <2>1. A!Width(q[i]) = 1 /\ A!Held(q, i, 1) = q[i][2]
    BY <1>4 DEF A!Width, A!Held
  <2>2. CASE i \in 1 .. Len(p)
    <3>1. q[i] = p[i] /\ A!Place(q, i) = A!Place(p, i)
      <4>1. i \in 1 .. Len(p) + 1
        BY <1>1, <2>2
      <4>2. QED
        BY <1>1, <2>2, <4>1, PlaceAppend
    <3>2. A!Held(p, i, 1) = p[i][2] /\ A!Width(p[i]) = 1 /\ p[i][1] = "byte"
      BY <1>4, <3>1 DEF A!Held, A!Width
    <3>3. Holds(buf, p, i)
      BY <2>2, <3>2 DEF BytesMirror
    <3>4. PICK w : w = A!Place(p, i)
      OBVIOUS
    <3>5. buf[w + 1] = p[i][2]
      BY <3>2, <3>3, <3>4 DEF Holds
    <3>6. w + 1 \in 1 .. s
      <4>1. w \in Nat /\ w + 1 <= A!Size(p)
        BY <2>2, <3>2, <3>4, PlaceInside
      <4>2. QED
        BY <1>2, <4>1
    <3>7. buf2[w + 1] = q[i][2]
      BY <1>3, <3>1, <3>5, <3>6
    <3>8. \A j \in 1 .. 1 : buf2[w + j] = A!Held(q, i, j)
      <4>1. buf2[w + 1] = A!Held(q, i, 1)
        BY <2>1, <3>7
      <4>2. \A j \in 1 .. 1 : j = 1
        OBVIOUS
      <4>3. QED
        BY <4>1, <4>2, Zenon
    <3>9. QED
      BY <2>1, <3>1, <3>4, <3>8 DEF Holds
  <2>3. CASE i = Len(p) + 1
    <3>1. it[1] = "byte" /\ bytes = <<it[2]>> /\ q[i] = it
      BY <1>1, <1>4, <2>3
    <3>2. A!Place(q, i) = s
      <4>1. i \in 1 .. Len(p) + 1
        BY <1>1, <2>3
      <4>2. QED
        BY <1>2, <2>3, <4>1, PlaceAppend DEF A!Size
    <3>3. Len(bytes) = 1 /\ bytes[1] = it[2]
      BY <3>1
    <3>4. buf2[s + 1] = it[2]
      <4>1. \A a \in 1 .. s + 1 : buf2[a] = IF a <= s THEN buf[a] ELSE bytes[a - s]
        BY <1>2, <1>0, <3>3
      <4>2. s + 1 \in 1 .. s + 1 /\ ~(s + 1 <= s) /\ (s + 1) - s = 1
        BY <1>2
      <4>3. QED
        BY <3>3, <4>1, <4>2
    <3>5. \A j \in 1 .. 1 : buf2[s + j] = A!Held(q, i, j)
      <4>1. buf2[s + 1] = A!Held(q, i, 1)
        BY <2>1, <3>1, <3>4
      <4>2. \A j \in 1 .. 1 : j = 1
        OBVIOUS
      <4>3. QED
        BY <4>1, <4>2, Zenon
    <3>6. QED
      BY <2>1, <3>2, <3>5 DEF Holds
  <2>4. QED
    BY <1>1, <1>4, <2>2, <2>3
<1>5. QED
  BY <1>3, <1>4 DEF BytesMirror

LEMMA ByteMirrors ==
  ASSUME IInv, NEW b \in Bytes, EmitByte(b), ~dropped'
  PROVE  Mirrors'
<1>1. TypeOK /\ Phases
  BY DEF IInv
<1>2. phase = "emit" /\ next = 1 /\ ok = TRUE /\ asked' = Append(asked, <<"byte", b>>)
      /\ emit(<<b>>) /\ UNCHANGED <<labels, refs, next, ok>>
  BY <1>1 DEF EmitByte, Ask, Phases, TypeOK
<1>3. <<b>> \in Seq(Byte)
  BY SizeAssumption DEF Byte
<1>4. ~dropped /\ buffer' = buffer \o <<b>>
  BY <1>1, <1>2, <1>3, Emitted DEF TypeOK, Byte
<1>5. Mirrors
  BY <1>4 DEF IInv
<1>6. PICK p, q, buf, ls, rs : p = asked /\ q = asked' /\ buf = buffer /\ ls = labels /\ rs = refs
  OBVIOUS
<1>7. p \in Seq(A!Item) /\ buf \in Seq(Byte) /\ ls \in Seq(Label) /\ rs \in Seq(Ref)
  BY <1>1, <1>6 DEF TypeOK, Byte, Label, Ref
<1>8. PICK it \in A!Item : it = <<"byte", b>>
  BY ItemsAre
<1>9. q = Append(p, it) /\ it[1] = "byte" /\ it[2] = b /\ ~A!Uses(it) /\ A!Width(it) = 1
  BY <1>2, <1>6, <1>8 DEF A!Uses, A!Width
<1>10. LabelsMirror(ls, p) /\ RefsMirror(rs, p, buf, 1, TRUE) /\ BytesMirror(buf, p)
  BY <1>2, <1>5, <1>6 DEF Mirrors
<1>11. PICK buf2 : buf2 = buffer'
  OBVIOUS
<1>12. LabelsMirror(ls, q)
  BY <1>7, <1>9, <1>10, LabelsGrow
<1>13. RefsMirror(rs, q, buf2, 1, TRUE)
  BY <1>7, <1>9, <1>10, RefsGrow
<1>14. buf2 = buf \o <<b>> /\ Len(<<b>>) = 1
  BY <1>4, <1>6, <1>11
<1>15. BytesMirror(buf2, q)
  <2>1. PICK bytes \in Seq(Byte) : bytes = <<b>>
    BY <1>3
  <2>2. QED
    BY <1>7, <1>9, <1>10, <1>14, <2>1, BytesGrow
<1>16. QED
  BY <1>2, <1>6, <1>11, <1>12, <1>13, <1>15 DEF Mirrors

LEMMA LabelMirrors ==
  ASSUME IInv, NEW n \in Names, z80_add_label(n), ~dropped'
  PROVE  Mirrors'
<1>1. TypeOK /\ Phases
  BY DEF IInv
<1>2. phase = "emit" /\ next = 1 /\ ok = TRUE /\ asked' = Append(asked, <<"label", n>>)
      /\ UNCHANGED <<buffer, refs, next, ok>>
  BY <1>1 DEF z80_add_label, Ask, Phases, TypeOK
<1>3. ~dropped /\ labels' = Append(labels, [name |-> n, addr |-> Here])
  BY DEF z80_add_label
<1>4. Mirrors
  BY <1>3 DEF IInv
<1>5. PICK p, q, buf, ls, rs : p = asked /\ q = asked' /\ buf = buffer /\ ls = labels /\ rs = refs
  OBVIOUS
<1>6. p \in Seq(A!Item) /\ buf \in Seq(Byte) /\ ls \in Seq(Label) /\ rs \in Seq(Ref)
  BY <1>1, <1>5 DEF TypeOK, Byte, Label, Ref
<1>7. PICK it \in A!Item : it = <<"label", n>>
  BY ItemsAre
<1>8. q = Append(p, it) /\ it[1] = "label" /\ it[2] = n /\ ~A!Uses(it) /\ A!Width(it) = 0
  BY <1>2, <1>5, <1>7 DEF A!Uses, A!Width
<1>9. LabelsMirror(ls, p) /\ RefsMirror(rs, p, buf, 1, TRUE) /\ BytesMirror(buf, p)
  BY <1>2, <1>4, <1>5 DEF Mirrors
<1>10. PICK l : l = [name |-> n, addr |-> Here]
  OBVIOUS
<1>11. l = LabelAt(q, Len(p) + 1)
  <2>1. LabelAt(q, Len(p) + 1) = [name |-> n, addr |-> (Base + A!Size(p)) % Word]
    BY <1>6, <1>8, EntriesNew
  <2>2. Here = (Base + A!Size(p)) % Word
    BY <1>5, <1>9 DEF Here, BytesMirror
  <2>3. QED
    BY <1>10, <2>1, <2>2
<1>12. l \in Label
  <2>1. Len(buffer) \in 0 .. Capacity
    BY <1>1, LenProperties, Sizes DEF TypeOK
  <2>2. Here \in 0 .. Word - 1
    BY <2>1, AddressIs DEF Here
  <2>3. QED
    BY <1>10, <2>2 DEF Label
<1>13. LabelsMirror(Append(ls, l), q)
  BY <1>6, <1>8, <1>9, <1>11, <1>12, LabelsGrow
<1>14. RefsMirror(rs, q, buf, 1, TRUE)
  BY <1>6, <1>8, <1>9, RefsGrow
<1>15. BytesMirror(buf, q)
  <2>1. buf = buf \o <<>> /\ Len(<<>>) = 0 /\ <<>> \in Seq(Byte)
    BY <1>6, ConcatEmptySeq, EmptySeq
  <2>2. PICK bytes \in Seq(Byte) : bytes = <<>>
    BY <2>1
  <2>3. buf = buf \o bytes /\ Len(bytes) = A!Width(it) /\ it[1] # "byte"
    BY <1>8, <2>1, <2>2
  <2>4. QED
    BY <1>6, <1>8, <1>9, <2>3, BytesGrow
<1>16. QED
  BY <1>2, <1>3, <1>5, <1>10, <1>13, <1>14, <1>15 DEF Mirrors

LEMMA OperandIs ==
  ASSUME NEW kind \in Kinds, NEW n
  PROVE  Operand(kind) \in Seq(Byte) /\ Len(Operand(kind)) = A!Width(<<kind, n>>)
<1>1. 0 \in Byte
  BY Sizes DEF Byte
<1>2. <<0, 0>> \in Seq(Byte) /\ <<0>> \in Seq(Byte) /\ Len(<<0, 0>>) = 2 /\ Len(<<0>>) = 1
  BY <1>1
<1>3. CASE kind = "word"
  <2>1. Operand(kind) = <<0, 0>> /\ A!Width(<<kind, n>>) = 2
    BY <1>3 DEF Operand, A!Width
  <2>2. QED
    BY <1>2, <2>1
<1>4. CASE kind = "rel"
  <2>1. Operand(kind) = <<0>> /\ A!Width(<<kind, n>>) = 1
    BY <1>4 DEF Operand, A!Width
  <2>2. QED
    BY <1>2, <2>1
<1>5. QED
  BY <1>3, <1>4 DEF Kinds

LEMMA RefMirrors ==
  ASSUME IInv, NEW n \in Names, NEW kind \in Kinds, z80_add_ref(n, kind), ~dropped'
  PROVE  Mirrors'
<1>1. TypeOK /\ Phases
  BY DEF IInv
<1>2. phase = "emit" /\ next = 1 /\ ok = TRUE /\ asked' = Append(asked, <<kind, n>>)
      /\ UNCHANGED <<labels, next, ok>>
  BY <1>1 DEF z80_add_ref, Ask, Phases, TypeOK
<1>3. /\ refs' = Append(refs, [name |-> n, kind |-> kind, patch |-> Len(buffer)])
      /\ emit(Operand(kind))
  BY DEF z80_add_ref
<1>4. Operand(kind) \in Seq(Byte) /\ Len(Operand(kind)) = A!Width(<<kind, n>>)
  BY OperandIs
<1>5. ~dropped /\ buffer' = buffer \o Operand(kind)
  BY <1>1, <1>3, <1>4, Emitted DEF TypeOK, Byte
<1>6. Mirrors
  BY <1>5 DEF IInv
<1>7. PICK p, q, buf, ls, rs, buf2 : p = asked /\ q = asked' /\ buf = buffer /\ ls = labels /\ rs = refs
                                     /\ buf2 = buffer'
  OBVIOUS
<1>8. p \in Seq(A!Item) /\ buf \in Seq(Byte) /\ ls \in Seq(Label) /\ rs \in Seq(Ref)
  BY <1>1, <1>7 DEF TypeOK, Byte, Label, Ref
<1>9. PICK it \in A!Item : it = <<kind, n>>
  BY ItemsAre
<1>10. q = Append(p, it) /\ it[1] = kind /\ it[2] = n /\ A!Uses(it)
       /\ it[1] # "label" /\ it[1] # "byte"
  BY <1>2, <1>7, <1>9 DEF A!Uses, Kinds
<1>11. LabelsMirror(ls, p) /\ RefsMirror(rs, p, buf, 1, TRUE) /\ BytesMirror(buf, p)
  BY <1>2, <1>6, <1>7 DEF Mirrors
<1>12. PICK r : r = [name |-> n, kind |-> kind, patch |-> Len(buf)]
  OBVIOUS
<1>13. r = RefAt(q, Len(p) + 1)
  <2>1. RefAt(q, Len(p) + 1) = [name |-> n, kind |-> kind, patch |-> A!Size(p)]
    BY <1>8, <1>10, EntriesNew
  <2>2. QED
    BY <1>11, <1>12, <2>1 DEF BytesMirror
<1>14. r \in Ref
  <2>1. Len(buf) \in 0 .. Capacity
    BY <1>1, <1>7, LenProperties, Sizes DEF TypeOK
  <2>2. QED
    BY <1>12, <2>1 DEF Ref
<1>15. LabelsMirror(ls, q)
  BY <1>8, <1>10, <1>11, LabelsGrow
<1>16. RefsMirror(Append(rs, r), q, buf2, 1, TRUE)
  <2>1. \A e \in Ref : e = RefAt(q, Len(p) + 1) => RefsMirror(Append(rs, e), q, buf2, 1, TRUE)
    BY <1>8, <1>10, <1>11, RefsGrow
  <2>2. QED
    BY <1>13, <1>14, <2>1
<1>17. BytesMirror(buf2, q)
  <2>1. PICK bytes \in Seq(Byte) : bytes = Operand(kind) /\ Len(bytes) = A!Width(it)
    BY <1>4, <1>9
  <2>2. buf2 = buf \o bytes
    BY <1>5, <1>7, <2>1
  <2>3. QED
    BY <1>8, <1>10, <1>11, <2>1, <2>2, BytesGrow
<1>18. QED
  BY <1>2, <1>3, <1>7, <1>12, <1>15, <1>16, <1>17 DEF Mirrors

-----------------------------------------------------------------------------
(* The references are resolved one by one; none disturbs another item. *)

LEMMA PatchApart ==
  ASSUME NEW p \in Seq(A!Item), NEW buf \in Seq(Byte), Len(buf) = A!Size(p),
         NEW i \in 1 .. Len(p), NEW m \in 1 .. Len(p), m # i, Holds(buf, p, m),
         NEW bytes \in Seq(Byte), Len(bytes) <= A!Width(p[i]),
         NEW new, new = Patch(buf, bytes, A!Place(p, i))
  PROVE  Holds(new, p, m)
<1>1. PICK w, at \in Nat : w = A!Place(p, m) /\ at = A!Place(p, i)
  BY PlaceInside
<1>2. A!Width(p[m]) \in {0, 1, 2} /\ A!Width(p[i]) \in {0, 1, 2} /\ w + A!Width(p[m]) <= Len(buf)
      /\ Len(buf) \in Nat /\ Len(bytes) \in Nat
  BY <1>1, PlaceInside, LenProperties
<1>3. \/ w + A!Width(p[m]) <= at \/ at + A!Width(p[i]) <= w
  <2>1. m \in Nat /\ i \in Nat
    OBVIOUS
  <2>2. CASE m < i
    BY <1>1, <2>1, <2>2, PlaceApart
  <2>3. CASE i < m
    BY <1>1, <2>1, <2>3, PlaceApart
  <2>4. QED
    BY <2>1, <2>2, <2>3
<1>4. /\ \A a \in 1 .. Len(buf) : a - at \in 1 .. Len(bytes) => new[a] = bytes[a - at]
      /\ \A a \in 1 .. Len(buf) : a - at \notin 1 .. Len(bytes) => new[a] = buf[a]
  <2>1. new = Patch(buf, bytes, at)
    BY <1>1
  <2>2. QED
    BY <2>1, PatchIs
<1>5. ASSUME NEW j \in 1 .. A!Width(p[m]) PROVE new[w + j] = A!Held(p, m, j)
  <2>1. PICK a \in Nat : a = w + j
    BY <1>1, <1>2
  <2>2. a \in 1 .. Len(buf) /\ a - at \notin 1 .. Len(bytes)
    BY <1>1, <1>2, <1>3, <2>1
  <2>3. new[a] = buf[a]
    BY <1>4, <2>2
  <2>4. buf[w + j] = A!Held(p, m, j)
    BY <1>1 DEF Holds
  <2>5. QED
    BY <2>1, <2>3, <2>4
<1>6. QED
  BY <1>1, <1>5 DEF Holds

LEMMA PatchPlaced ==
  ASSUME NEW p \in Seq(A!Item), NEW buf \in Seq(Byte), Len(buf) = A!Size(p),
         NEW i \in 1 .. Len(p),
         NEW bytes \in Seq(Byte), Len(bytes) = A!Width(p[i]),
         \A j \in 1 .. A!Width(p[i]) : bytes[j] = A!Held(p, i, j),
         NEW new, new = Patch(buf, bytes, A!Place(p, i))
  PROVE  Holds(new, p, i)
<1>1. PICK at \in Nat : at = A!Place(p, i)
  BY PlaceInside
<1>2. A!Width(p[i]) \in {0, 1, 2} /\ at + A!Width(p[i]) <= Len(buf) /\ Len(buf) \in Nat
  BY <1>1, PlaceInside, LenProperties
<1>3. /\ \A a \in 1 .. Len(buf) : a - at \in 1 .. Len(bytes) => new[a] = bytes[a - at]
      /\ \A a \in 1 .. Len(buf) : a - at \notin 1 .. Len(bytes) => new[a] = buf[a]
  <2>1. new = Patch(buf, bytes, at)
    BY <1>1
  <2>2. \A a \in 1 .. Len(buf) :
          /\ a - at \in 1 .. Len(bytes) => Patch(buf, bytes, at)[a] = bytes[a - at]
          /\ a - at \notin 1 .. Len(bytes) => Patch(buf, bytes, at)[a] = buf[a]
    BY PatchIs, Zenon
  <2>3. QED
    BY <2>1, <2>2, Zenon
<1>4. ASSUME NEW j \in 1 .. A!Width(p[i]) PROVE new[at + j] = A!Held(p, i, j)
  <2>1. PICK a \in Nat : a = at + j
    BY <1>1, <1>2
  <2>2. a \in 1 .. Len(buf) /\ a - at = j /\ j \in 1 .. Len(bytes)
    BY <1>1, <1>2, <2>1
  <2>3. new[a] = bytes[j]
    BY <1>3, <2>2
  <2>4. QED
    BY <2>1, <2>3
<1>5. QED
  BY <1>1, <1>4 DEF Holds

LEMMA ResolveMirrors ==
  ASSUME IInv, ResolveOne, ~dropped
  PROVE  Mirrors'
<1>1. TypeOK /\ Phases /\ Mirrors
  BY DEF IInv
<1>2. phase = "resolve" /\ next <= Len(refs) /\ next' = next + 1
      /\ UNCHANGED <<labels, refs, asked>>
  BY DEF ResolveOne
<1>3. PICK p, buf, ls, rs, n, good :
        p = asked /\ buf = buffer /\ ls = labels /\ rs = refs /\ n = next /\ good = ok
  OBVIOUS
<1>4. p \in Seq(A!Item) /\ buf \in Seq(Byte) /\ ls \in Seq(Label) /\ rs \in Seq(Ref)
      /\ good \in BOOLEAN /\ Len(buf) <= Capacity
  BY <1>1, <1>3 DEF TypeOK, Byte, Label, Ref
<1>5. n \in 1 .. Len(rs) /\ Len(rs) \in Nat /\ n \in Nat
  BY <1>1, <1>2, <1>3, <1>4, LenProperties, Sizes DEF TypeOK
<1>6. LabelsMirror(labels, p) /\ RefsMirror(rs, p, buf, n, good) /\ BytesMirror(buf, p)
  BY <1>1, <1>3 DEF Mirrors
<1>7. PICK pos : /\ Lists(pos, Len(rs), RefItems(p))
                 /\ \A k \in 1 .. Len(rs) : rs[k] = RefAt(p, pos[k])
                 /\ \A k \in 1 .. n - 1 : Good(p, pos[k]) => Holds(buf, p, pos[k])
                 /\ good <=> \A k \in 1 .. n - 1 : Good(p, pos[k])
  BY <1>6 DEF RefsMirror
<1>8. \A k \in 1 .. Len(rs) : pos[k] \in RefItems(p) /\ pos[k] \in 1 .. Len(p)
  BY <1>7 DEF Lists, RefItems
<1>9. PICK i : i = pos[n]
  OBVIOUS
<1>10. i \in RefItems(p) /\ i \in 1 .. Len(p) /\ p[i][1] # "byte"
  BY <1>5, <1>8, <1>9 DEF RefItems, A!Uses
<1>11. PICK r \in Ref : r = RefAt(p, i) /\ r = rs[n]
  BY <1>4, <1>5, <1>7, <1>9, ElementOfSeq
<1>12. labels \in Seq(Label)
  BY <1>3, <1>4
<1>13. PICK bytes \in Seq(Byte) : bytes = Patched(r)
  BY <1>12, PatchedTyped
<1>14. Len(buf) = A!Size(p) /\ A!Size(p) <= Capacity
  BY <1>4, <1>6 DEF BytesMirror
<1>15. /\ bytes # <<>> <=> Good(p, i)
       /\ Good(p, i) => /\ Len(bytes) = A!Width(p[i])
                        /\ \A j \in 1 .. A!Width(p[i]) : bytes[j] = A!Held(p, i, j)
  BY <1>4, <1>6, <1>10, <1>11, <1>12, <1>13, <1>14, PatchedIs
<1>16. Len(bytes) <= A!Width(p[i]) /\ A!Width(p[i]) \in {0, 1, 2}
  <2>1. A!Width(p[i]) \in {0, 1, 2} /\ Len(bytes) \in Nat
    BY <1>4, <1>10, PlaceInside, LenProperties
  <2>2. CASE Good(p, i)
    BY <1>15, <2>1, <2>2
  <2>3. CASE ~Good(p, i)
    BY <1>15, <2>1, <2>3
  <2>4. QED
    BY <2>1, <2>2, <2>3
<1>17. PICK new : new = Patch(buf, bytes, A!Place(p, i))
  OBVIOUS
<1>18. buffer' = new
  <2>1. refs[next] = r /\ r.patch = A!Place(p, i)
    BY <1>3, <1>11, EntriesAre
  <2>2. buffer' = [a \in DOMAIN buf |->
                     IF a - r.patch \in DOMAIN bytes THEN bytes[a - r.patch] ELSE buf[a]]
    BY <1>3, <1>13, <2>1 DEF ResolveOne
  <2>3. QED
    BY <1>17, <2>1, <2>2 DEF Patch
<1>19. ok' = (good /\ bytes # <<>>)
  BY <1>3, <1>11, <1>13 DEF ResolveOne
<1>20. A!Place(p, i) \in Nat
  BY <1>4, <1>10, PlaceInside
<1>21. Len(new) = Len(buf)
  BY <1>4, <1>17, <1>20, PatchIs
<1>22. ASSUME NEW m \in 1 .. Len(p), m # i, Holds(buf, p, m) PROVE Holds(new, p, m)
  BY <1>4, <1>10, <1>14, <1>16, <1>17, <1>22, PatchApart
<1>23. ASSUME Good(p, i) PROVE Holds(new, p, i)
  BY <1>4, <1>10, <1>14, <1>15, <1>17, <1>23, PatchPlaced
<1>24. BytesMirror(new, p)
  BY <1>6, <1>10, <1>14, <1>21, <1>22 DEF BytesMirror
<1>25. \A k \in 1 .. (n + 1) - 1 : k \in 1 .. n - 1 \/ k = n
  BY <1>5
<1>26. \A k \in 1 .. (n + 1) - 1 : Good(p, pos[k]) => Holds(new, p, pos[k])
  <2> SUFFICES ASSUME NEW k \in 1 .. (n + 1) - 1, Good(p, pos[k])
               PROVE  Holds(new, p, pos[k])
    OBVIOUS
  <2>1. CASE k = n
    BY <1>9, <1>23, <2>1
  <2>2. CASE k \in 1 .. n - 1
    <3>1. k \in 1 .. Len(rs) /\ k < n
      BY <1>5, <2>2
    <3>2. pos[k] < pos[n]
      BY <1>5, <1>7, <3>1 DEF Lists
    <3>3. pos[k] \in 1 .. Len(p) /\ pos[k] # i
      BY <1>8, <1>9, <1>10, <3>1, <3>2
    <3>4. Holds(buf, p, pos[k])
      BY <1>7, <2>2
    <3>5. QED
      BY <1>22, <3>3, <3>4
  <2>3. QED
    BY <1>25, <2>1, <2>2
<1>27. PICK good2 : good2 = ok'
  OBVIOUS
<1>28. good2 <=> \A k \in 1 .. (n + 1) - 1 : Good(p, pos[k])
  <2>1. good2 <=> good /\ Good(p, i)
    BY <1>15, <1>19, <1>27
  <2>2. \A k \in 1 .. n - 1 : k \in 1 .. (n + 1) - 1
    BY <1>5
  <2>3. n \in 1 .. (n + 1) - 1
    BY <1>5
  <2>4. QED
    BY <1>7, <1>9, <1>25, <2>1, <2>2, <2>3, Zenon
<1>29. RefsMirror(rs, p, new, n + 1, good2)
  BY <1>7, <1>26, <1>28 DEF RefsMirror
<1>30. QED
  BY <1>2, <1>3, <1>6, <1>18, <1>24, <1>27, <1>29 DEF Mirrors

-----------------------------------------------------------------------------
(* The invariant. *)

LEMMA InitInvariant == Init => IInv
<1> SUFFICES ASSUME Init PROVE IInv
  OBVIOUS
<1>1. Typed
  BY InitTyped
<1>2. PICK p : p = asked /\ p = <<>> /\ p \in Seq(A!Item) /\ Len(p) = 0
  BY EmptySeq DEF Init
<1>3. labels = <<>> /\ refs = <<>> /\ buffer = <<>> /\ next = 1 /\ ok = TRUE
      /\ Len(labels) = 0 /\ Len(refs) = 0 /\ Len(buffer) = 0
  BY DEF Init
<1>4. LabelItems(p) = {} /\ RefItems(p) = {} /\ 1 .. 0 = {} /\ 1 .. 1 - 1 = {}
  BY <1>2 DEF LabelItems, RefItems
<1>5. PICK e : e = [k \in 1 .. 0 |-> 0]
  OBVIOUS
<1>6. Lists(e, 0, {})
  BY <1>4, <1>5 DEF Lists
<1>7. LabelsMirror(<<>>, p)
  BY <1>4, <1>6 DEF LabelsMirror
<1>8. RefsMirror(<<>>, p, <<>>, 1, TRUE)
  BY <1>4, <1>6 DEF RefsMirror
<1>9. BytesMirror(<<>>, p)
  <2>1. A!Size(p) = 0
    BY <1>2, PlaceFirst DEF A!Size
  <2>2. QED
    BY <1>2, <2>1 DEF BytesMirror
<1>10. Mirrors
  BY <1>2, <1>3, <1>7, <1>8, <1>9 DEF Mirrors
<1>11. QED
  BY <1>1, <1>10 DEF IInv, Typed

LEMMA MirrorsStay ==
  ASSUME Mirrors, UNCHANGED <<labels, refs, buffer, asked, next, ok>>
  PROVE  Mirrors'
BY DEF Mirrors

LEMMA NextInvariant == IInv /\ [Next]_vars => IInv'
<1> SUFFICES ASSUME IInv, [Next]_vars PROVE IInv'
  OBVIOUS
<1>1. Typed
  BY DEF IInv, Typed
<1>2. Typed'
  BY <1>1, NextTyped
<1>3. ASSUME ~dropped' PROVE Mirrors'
  <2>1. CASE UNCHANGED vars
    <3>1. UNCHANGED <<labels, refs, buffer, asked, next, ok, dropped>>
      BY <2>1 DEF vars, enc
    <3>2. QED
      BY <1>3, <3>1, MirrorsStay DEF IInv
  <2>2. ASSUME NEW b \in Bytes, EmitByte(b) PROVE Mirrors'
    BY <1>3, <2>2, ByteMirrors
  <2>3. ASSUME NEW n \in Names, z80_add_label(n) PROVE Mirrors'
    BY <1>3, <2>3, LabelMirrors
  <2>4. ASSUME NEW n \in Names, NEW kind \in Kinds, z80_add_ref(n, kind) PROVE Mirrors'
    BY <1>3, <2>4, RefMirrors
  <2>5. CASE ResolveOne
    <3>1. ~dropped
      BY <1>3, <2>5 DEF ResolveOne
    <3>2. QED
      BY <2>5, <3>1, ResolveMirrors
  <2>6. CASE StartResolve
    <3>1. UNCHANGED <<labels, refs, buffer, asked, dropped>> /\ next' = 1 /\ ok' = TRUE /\ phase = "emit"
      BY <2>6 DEF StartResolve, enc
    <3>2. next = 1 /\ ok = TRUE
      BY <1>1, <3>1 DEF Typed, Phases, TypeOK
    <3>3. QED
      BY <1>3, <3>1, <3>2, MirrorsStay DEF IInv
  <2>7. CASE EndResolve \/ ExportSymbols \/ WriteImage
    <3>1. UNCHANGED <<labels, refs, buffer, asked, next, ok, dropped>>
      BY <2>7 DEF EndResolve, ExportSymbols, WriteImage, enc
    <3>2. QED
      BY <1>3, <3>1, MirrorsStay DEF IInv
  <2>8. QED
    BY <2>1, <2>2, <2>3, <2>4, <2>5, <2>6, <2>7 DEF Next
<1>4. QED
  BY <1>2, <1>3 DEF IInv, Typed

-----------------------------------------------------------------------------
(* The steps of the abstract assembler. *)

LEMMA Abstracted ==
  /\ ~dropped => Program = asked /\ File = bin
  /\ dropped => Program = <<>> /\ File = <<>> /\ Stage = "overrun"
  /\ ~dropped /\ phase \in {"emit", "resolve"} => Stage = "open"
  /\ ~dropped /\ phase \in {"export", "write"} => Stage = "assembled"
  /\ ~dropped /\ phase = "generated" => Stage = "made"
  /\ ~dropped /\ phase = "error" => Stage = "refused"
BY DEF Program, File, Stage

LEMMA AbstractedNext ==
  /\ ~dropped' => Program' = asked' /\ File' = bin'
  /\ dropped' => Program' = <<>> /\ File' = <<>> /\ Stage' = "overrun"
  /\ ~dropped' /\ phase' \in {"emit", "resolve"} => Stage' = "open"
  /\ ~dropped' /\ phase' \in {"export", "write"} => Stage' = "assembled"
  /\ ~dropped' /\ phase' = "generated" => Stage' = "made"
  /\ ~dropped' /\ phase' = "error" => Stage' = "refused"
BY DEF Program, File, Stage

LEMMA InitAbstract == Init => A!Init
<1> SUFFICES ASSUME Init PROVE A!Init
  OBVIOUS
<1>1. asked = <<>> /\ bin = <<>> /\ phase = "emit" /\ ~dropped
  BY DEF Init
<1>2. QED
  BY <1>1, Abstracted DEF A!Init

(* What has been left out, the abstract assembler had no room for. *)
LEMMA OverrunStep ==
  ASSUME ~dropped, dropped', phase = "emit", NEW it \in A!Item, ~A!Fits(Append(asked, it))
  PROVE  A!Next
<1>1. Stage = "open" /\ Program = asked /\ Stage' = "overrun" /\ Program' = <<>> /\ File' = <<>>
  BY Abstracted, AbstractedNext
<1>2. A!Overrun
  BY <1>1 DEF A!Overrun
<1>3. QED
  BY <1>2 DEF A!Next

LEMMA WriteStep ==
  ASSUME ~dropped, ~dropped', NEW it \in A!Item, Ask(it)
  PROVE  A!Next
<1>1. phase = "emit" /\ asked' = Append(asked, it) /\ UNCHANGED <<phase, bin>>
  BY DEF Ask, files
<1>2. Stage = "open" /\ Program = asked /\ File = bin
      /\ Stage' = "open" /\ Program' = Append(asked, it) /\ File' = bin
  BY <1>1, Abstracted, AbstractedNext
<1>3. A!Write(it)
  BY <1>2 DEF A!Write
<1>4. QED
  BY <1>3 DEF A!Next

LEMMA CountIs ==
  ASSUME NEW S
  PROVE  A!Cardinality(S) = Cardinality(S)
BY DEF A!Cardinality, Cardinality

LEMMA LabelItemsCount ==
  ASSUME NEW p \in Seq(A!Item), NEW ls \in Seq(Label), LabelsMirror(ls, p)
  PROVE  Cardinality(LabelItems(p)) = Len(ls) /\ IsFiniteSet(LabelItems(p))
<1>1. PICK pos : Lists(pos, Len(ls), LabelItems(p))
  BY DEF LabelsMirror
<1>2. LabelItems(p) \in SUBSET Nat /\ Len(ls) \in Nat
  BY LenProperties DEF LabelItems
<1>3. QED
  BY <1>1, <1>2, ListsCount

LEMMA RefItemsCount ==
  ASSUME NEW p \in Seq(A!Item), NEW rs \in Seq(Ref), NEW buf, NEW n, NEW good,
         RefsMirror(rs, p, buf, n, good)
  PROVE  Cardinality(RefItems(p)) = Len(rs) /\ IsFiniteSet(RefItems(p))
<1>1. PICK pos : Lists(pos, Len(rs), RefItems(p))
  BY DEF RefsMirror
<1>2. RefItems(p) \in SUBSET Nat /\ Len(rs) \in Nat
  BY LenProperties DEF RefItems
<1>3. QED
  BY <1>1, <1>2, ListsCount

(* A program with more labels, references or bytes than there is room for. *)
LEMMA NoRoom ==
  ASSUME IInv, ~dropped, NEW it \in A!Item,
         \/ it[1] = "label" /\ Len(labels) >= MAX_LABELS
         \/ A!Uses(it) /\ Len(refs) >= MAX_REFS
         \/ Len(buffer) + A!Width(it) > Capacity
  PROVE  ~A!Fits(Append(asked, it))
<1>1. PICK p, q : p = asked /\ q = Append(p, it)
  OBVIOUS
<1>2. p \in Seq(A!Item) /\ labels \in Seq(Label) /\ refs \in Seq(Ref)
      /\ Len(labels) \in Nat /\ Len(refs) \in Nat
  BY <1>1, LenProperties DEF IInv, TypeOK, Label, Ref
<1>3. LabelsMirror(labels, p) /\ RefsMirror(refs, p, buffer, next, ok) /\ Len(buffer) = A!Size(p)
  BY <1>1 DEF IInv, Mirrors, BytesMirror
<1>4. A!Fits(q) => /\ Cardinality(LabelItems(q)) <= MAX_LABELS
                   /\ Cardinality(RefItems(q)) <= MAX_REFS
                   /\ A!Size(q) <= Capacity
  BY CountIs DEF A!Fits, LabelItems, RefItems
<1>5. /\ \A y \in LabelItems(p) \cup RefItems(p) : y \in 1 .. Len(p) /\ y < Len(p) + 1
      /\ it[1] = "label" => LabelItems(q) = LabelItems(p) \cup {Len(p) + 1}
      /\ A!Uses(it) => RefItems(q) = RefItems(p) \cup {Len(p) + 1}
  BY <1>1, <1>2, ItemsGrow
<1>6. Len(p) + 1 \notin LabelItems(p) /\ Len(p) + 1 \notin RefItems(p)
  <2>1. Len(p) \in Nat
    BY <1>2, LenProperties
  <2>2. QED
    BY <1>5, <2>1
<1>7. CASE it[1] = "label" /\ Len(labels) >= MAX_LABELS
  <2>1. Cardinality(LabelItems(p)) = Len(labels) /\ IsFiniteSet(LabelItems(p))
    BY <1>2, <1>3, LabelItemsCount
  <2>2. Cardinality(LabelItems(p) \cup {Len(p) + 1}) = Cardinality(LabelItems(p)) + 1
    BY <1>6, <2>1, FS_AddElement
  <2>3. Cardinality(LabelItems(q)) = Len(labels) + 1
    BY <1>5, <1>7, <2>1, <2>2
  <2>4. QED
    BY <1>1, <1>2, <1>4, <1>7, <2>3, Sizes
<1>8. CASE A!Uses(it) /\ Len(refs) >= MAX_REFS
  <2>1. Cardinality(RefItems(p)) = Len(refs) /\ IsFiniteSet(RefItems(p))
    BY <1>2, <1>3, RefItemsCount
  <2>2. Cardinality(RefItems(p) \cup {Len(p) + 1}) = Cardinality(RefItems(p)) + 1
    BY <1>6, <2>1, FS_AddElement
  <2>3. Cardinality(RefItems(q)) = Len(refs) + 1
    BY <1>5, <1>8, <2>1, <2>2
  <2>4. QED
    BY <1>1, <1>2, <1>4, <1>8, <2>3, Sizes
<1>9. CASE Len(buffer) + A!Width(it) > Capacity
  <2>1. A!Size(q) = A!Size(p) + A!Width(it) /\ A!Size(p) \in Nat /\ A!Width(it) \in {0, 1, 2}
    BY <1>1, <1>2, SizeAppend, SizeIsNat, WidthIs
  <2>2. QED
    BY <1>1, <1>3, <1>4, <1>9, <2>1, Sizes
<1>10. QED
  BY <1>7, <1>8, <1>9

(* An item the generator asks for is written, or there was no room for it. *)
LEMMA EmitStep ==
  ASSUME IInv, ~dropped, NEW it \in A!Item, Ask(it),
         dropped' => \/ it[1] = "label" /\ Len(labels) >= MAX_LABELS
                     \/ A!Uses(it) /\ Len(refs) >= MAX_REFS
                     \/ Len(buffer) + A!Width(it) > Capacity
  PROVE  A!Next
<1>1. CASE dropped'
  <2>1. ~A!Fits(Append(asked, it))
    BY <1>1, NoRoom
  <2>2. phase = "emit"
    BY DEF Ask
  <2>3. QED
    BY <1>1, <2>1, <2>2, OverrunStep
<1>2. CASE ~dropped'
  BY <1>2, WriteStep
<1>3. QED
  BY <1>1, <1>2

LEMMA ByteStep ==
  ASSUME IInv, ~dropped, NEW b \in Bytes, EmitByte(b)
  PROVE  A!Next
<1>1. PICK it \in A!Item : it = <<"byte", b>>
  BY ItemsAre
<1>2. Ask(it) /\ emit(<<b>>) /\ A!Width(it) = 1
  BY <1>1 DEF EmitByte, A!Width
<1>3. PICK bytes \in Seq(Byte) : bytes = <<b>> /\ Len(bytes) = 1
  <2>1. b \in Byte
    BY SizeAssumption DEF Byte
  <2>2. <<b>> \in Seq(Byte) /\ Len(<<b>>) = 1
    BY <2>1
  <2>3. QED
    BY <2>2
<1>4. buffer \in Seq(Byte) /\ Len(buffer) <= Capacity /\ dropped \in BOOLEAN /\ emit(bytes)
  BY <1>2, <1>3 DEF IInv, TypeOK, Byte
<1>5. dropped' => Len(buffer) + Len(bytes) > Capacity
  BY <1>4, Emitted
<1>6. QED
  BY <1>2, <1>3, <1>5, EmitStep

LEMMA LabelStep ==
  ASSUME IInv, ~dropped, NEW n \in Names, z80_add_label(n)
  PROVE  A!Next
<1>1. PICK it \in A!Item : it = <<"label", n>>
  BY ItemsAre
<1>2. Ask(it) /\ it[1] = "label"
  BY <1>1 DEF z80_add_label
<1>3. dropped' => Len(labels) >= MAX_LABELS
  BY DEF z80_add_label
<1>4. QED
  BY <1>2, <1>3, EmitStep

LEMMA RefStep ==
  ASSUME IInv, ~dropped, NEW n \in Names, NEW kind \in Kinds, z80_add_ref(n, kind)
  PROVE  A!Next
<1>1. PICK it \in A!Item : it = <<kind, n>>
  BY ItemsAre
<1>2. Ask(it) /\ A!Uses(it)
  BY <1>1 DEF z80_add_ref, A!Uses, Kinds
<1>3. PICK bytes \in Seq(Byte) : bytes = Operand(kind) /\ Len(bytes) = A!Width(it)
  BY <1>1, OperandIs
<1>4. buffer \in Seq(Byte) /\ Len(buffer) <= Capacity /\ dropped \in BOOLEAN /\ Len(refs) \in Nat
  BY LenProperties DEF IInv, TypeOK, Byte
<1>5. CASE HasRef /\ emit(Operand(kind))
  <2>1. emit(bytes)
    BY <1>3, <1>5
  <2>2. dropped' => Len(buffer) + Len(bytes) > Capacity
    BY <1>4, <2>1, Emitted
  <2>3. QED
    BY <1>2, <1>3, <2>2, EmitStep
<1>6. CASE ~HasRef
  <2>1. Len(refs) >= MAX_REFS
    BY <1>4, <1>6, Sizes DEF HasRef
  <2>2. QED
    BY <1>2, <2>1, EmitStep
<1>7. QED
  BY <1>5, <1>6 DEF z80_add_ref

(* When all references have been looked at, the result says whether there  *)
(* is an image, and the buffer is that image.                              *)
LEMMA AssembleStep ==
  ASSUME IInv, ~dropped, EndResolve
  PROVE  A!Next
<1>1. phase = "resolve" /\ next > Len(refs) /\ phase' = (IF ok THEN "export" ELSE "error")
      /\ UNCHANGED <<bin, asked, dropped>>
  BY DEF EndResolve, files
<1>2. next = Len(refs) + 1 /\ Len(refs) \in Nat
  <2>1. Len(refs) \in Nat
    BY LenProperties DEF IInv, TypeOK
  <2>2. next \in Int /\ next <= Len(refs) + 1
    BY Sizes DEF IInv, TypeOK, Phases
  <2>3. QED
    BY <1>1, <2>1, <2>2
<1>3. PICK pos : /\ Lists(pos, Len(refs), RefItems(asked))
                 /\ ok <=> \A k \in 1 .. next - 1 : Good(asked, pos[k])
  BY DEF IInv, Mirrors, RefsMirror
<1>4. next - 1 = Len(refs)
  BY <1>2
<1>5. (\A k \in 1 .. next - 1 : Good(asked, pos[k])) <=> \A i \in RefItems(asked) : Good(asked, i)
  BY <1>3, <1>4 DEF Lists
<1>6. ok <=> A!Sound(asked)
  BY <1>3, <1>5 DEF A!Sound, Good, RefItems
<1>7. Stage = "open" /\ Program = asked /\ File = bin
      /\ Stage' = (IF ok THEN "assembled" ELSE "refused") /\ Program' = asked /\ File' = bin
  BY <1>1, Abstracted, AbstractedNext
<1>8. A!Assemble
  BY <1>6, <1>7 DEF A!Assemble
<1>9. QED
  BY <1>8 DEF A!Next

LEMMA Assembled ==
  ASSUME IInv, ~dropped, phase \in {"export", "write"}
  PROVE  buffer = A!Image(asked) /\ Len(buffer) = A!Size(asked)
<1>1. PICK pos : /\ Lists(pos, Len(refs), RefItems(asked))
                 /\ \A k \in 1 .. next - 1 : Good(asked, pos[k]) => Holds(buffer, asked, pos[k])
                 /\ ok <=> \A k \in 1 .. next - 1 : Good(asked, pos[k])
  BY DEF IInv, Mirrors, RefsMirror
<1>2. Len(refs) \in Nat /\ next \in Int /\ ok /\ next > Len(refs)
  BY LenProperties, Sizes DEF IInv, TypeOK, Phases
<1>3. \A k \in 1 .. Len(refs) : Holds(buffer, asked, pos[k])
  BY <1>1, <1>2
<1>4. PICK p, buf : p = asked /\ buf = buffer
  OBVIOUS
<1>5. p \in Seq(A!Item) /\ buf \in Seq(Byte) /\ BytesMirror(buf, p)
  BY <1>4 DEF IInv, TypeOK, Byte, Mirrors
<1>6. ASSUME NEW i \in 1 .. Len(p) PROVE Holds(buf, p, i)
  <2>1. PICK it \in A!Item : it = p[i]
    BY <1>5, ItemOf
  <2>2. it[1] = "byte" \/ it[1] = "label" \/ A!Uses(it)
    BY DEF A!Item, A!Uses
  <2>3. CASE it[1] = "byte"
    BY <1>5, <2>1, <2>3 DEF BytesMirror
  <2>4. CASE it[1] = "label"
    <3>1. A!Width(p[i]) = 0 /\ 1 .. 0 = {}
      BY <2>1, <2>4 DEF A!Width
    <3>2. QED
      BY <3>1 DEF Holds
  <2>5. CASE A!Uses(it)
    <3>1. i \in RefItems(asked)
      BY <1>4, <2>1, <2>5 DEF RefItems
    <3>2. PICK k \in 1 .. Len(refs) : pos[k] = i
      BY <1>1, <3>1 DEF Lists
    <3>3. QED
      BY <1>3, <1>4, <3>2
  <2>6. QED
    BY <2>2, <2>3, <2>4, <2>5
<1>7. Len(buf) = A!Size(p)
  BY <1>5 DEF BytesMirror
<1>8. buf = A!Image(p)
  BY <1>5, <1>6, <1>7, ImageIs
<1>9. QED
  BY <1>4, <1>7, <1>8

(* A beginning of the image, of whatever length, may be all that there is. *)
LEMMA GiveStep ==
  ASSUME IInv, ~dropped, phase \in {"export", "write"}, phase' = "error",
         UNCHANGED <<asked, dropped>>, NEW n \in 0 .. Len(buffer), bin' = SubSeq(buffer, 1, n)
  PROVE  A!Next
<1>1. buffer = A!Image(asked) /\ Len(buffer) = A!Size(asked)
  BY Assembled
<1>2. Stage = "assembled" /\ Program = asked /\ Stage' = "refused" /\ Program' = asked /\ File' = bin'
  BY Abstracted, AbstractedNext
<1>3. n \in 0 .. A!Size(Program) /\ File' = A!Part(A!Image(Program), n)
  BY <1>1, <1>2 DEF A!Part
<1>4. A!Give
  BY <1>2, <1>3 DEF A!Give
<1>5. QED
  BY <1>4 DEF A!Next

LEMMA NothingIsBeginning ==
  ASSUME NEW s
  PROVE  SubSeq(s, 1, 0) = <<>>
BY SubSeqEmpty

LEMMA ExportStep ==
  ASSUME IInv, ~dropped, ExportSymbols
  PROVE  A!Next \/ UNCHANGED <<Program, Stage, File>>
<1>1. phase = "export" /\ UNCHANGED <<bin, asked, dropped>> /\ bin = <<>>
  BY DEF ExportSymbols, IInv, Phases
<1>2. CASE phase' = "write"
  BY <1>1, <1>2, Abstracted, AbstractedNext
<1>3. CASE phase' = "error"
  <2>1. bin' = SubSeq(buffer, 1, 0)
    BY <1>1, NothingIsBeginning
  <2>2. 0 \in 0 .. Len(buffer)
    BY LenProperties DEF IInv, TypeOK
  <2>3. QED
    BY <1>1, <1>3, <2>1, <2>2, GiveStep
<1>4. QED
  BY <1>2, <1>3 DEF ExportSymbols

(* The image file ends where the first bss_start label was. *)
LEMMA WrittenIs ==
  ASSUME IInv, ~dropped, Labelled(BssStart) # {}
  PROVE  /\ A!Definitions(asked, BssStart) # {}
         /\ Written = A!Place(asked, A!First(asked, BssStart))
<1>1. PICK p : p = asked
  OBVIOUS
<1>2. p \in Seq(A!Item) /\ labels \in Seq(Label) /\ LabelsMirror(labels, p)
      /\ A!Size(p) <= Capacity
  BY <1>1 DEF IInv, TypeOK, Label, Mirrors, BytesMirror
<1>3. PICK f : f = A!First(p, BssStart)
  OBVIOUS
<1>4. /\ A!Definitions(p, BssStart) # {} /\ f \in A!Definitions(p, BssStart)
      /\ target(BssStart) = (Base + A!Place(p, f)) % Word
  BY <1>2, <1>3, TargetIs
<1>5. PICK a \in 0 .. Capacity : a = A!Place(p, f)
  BY <1>2, <1>4, DefinitionsAre
<1>6. Written = a
  BY <1>4, <1>5, AddressIs DEF Written
<1>7. QED
  BY <1>1, <1>3, <1>4, <1>5, <1>6

LEMMA WriteImageStep ==
  ASSUME IInv, ~dropped, WriteImage
  PROVE  A!Next
<1>1. phase = "write" /\ UNCHANGED <<asked, dropped>>
  BY DEF WriteImage
<1>2. TypeOK /\ Reach
  BY DEF IInv
<1>3. CASE Labelled(BssStart) # {} /\ phase' = "generated" /\ bin' = SubSeq(buffer, 1, Written)
  <2>1. buffer = A!Image(asked)
    BY <1>1, Assembled
  <2>2. Stage = "assembled" /\ Program = asked /\ Stage' = "made" /\ Program' = asked /\ File' = bin'
    BY <1>1, <1>3, Abstracted, AbstractedNext
  <2>3. A!Definitions(asked, BssStart) # {} /\ Written = A!Place(asked, A!First(asked, BssStart))
    BY <1>3, WrittenIs
  <2>4. A!Make
    BY <1>3, <2>1, <2>2, <2>3 DEF A!Make, A!Part
  <2>5. QED
    BY <2>4 DEF A!Next
<1>4. CASE Labelled(BssStart) # {} /\ phase' = "error" /\ \E n \in 0 .. Written : bin' = SubSeq(buffer, 1, n)
  <2>1. Written \in 0 .. Len(buffer) /\ Len(buffer) \in Nat
    BY <1>2, <1>4, WrittenReaches, LenProperties DEF TypeOK
  <2>2. PICK n \in 0 .. Len(buffer) : bin' = SubSeq(buffer, 1, n)
    BY <1>4, <2>1
  <2>3. QED
    BY <1>1, <1>4, <2>2, GiveStep
<1>5. CASE Labelled(BssStart) = {} /\ phase' = "error" /\ bin' = <<>>
  <2>1. bin' = SubSeq(buffer, 1, 0)
    BY <1>5, NothingIsBeginning
  <2>2. 0 \in 0 .. Len(buffer)
    BY <1>2, LenProperties DEF TypeOK
  <2>3. QED
    BY <1>1, <1>5, <2>1, <2>2, GiveStep
<1>6. QED
  BY <1>3, <1>4, <1>5 DEF WriteImage

(* Whatever is done after something was left out is nothing to the         *)
(* abstract assembler.                                                     *)
LEMMA DroppedStays ==
  ASSUME IInv, dropped, [Next]_vars
  PROVE  dropped'
<1>1. ASSUME NEW bytes, emit(bytes) PROVE dropped'
  BY <1>1 DEF emit
<1>2. CASE UNCHANGED vars
  BY <1>2 DEF vars
<1>3. CASE Next
  <2>1. ASSUME NEW b \in Bytes, EmitByte(b) PROVE dropped'
    BY <1>1, <2>1 DEF EmitByte
  <2>2. ASSUME NEW n \in Names, z80_add_label(n) PROVE dropped'
    BY <2>2 DEF z80_add_label
  <2>3. ASSUME NEW n \in Names, NEW kind \in Kinds, z80_add_ref(n, kind) PROVE dropped'
    BY <1>1, <2>3 DEF z80_add_ref
  <2>4. CASE StartResolve \/ ResolveOne \/ EndResolve \/ ExportSymbols \/ WriteImage
    BY <2>4 DEF StartResolve, ResolveOne, EndResolve, ExportSymbols, WriteImage
  <2>5. QED
    BY <1>3, <2>1, <2>2, <2>3, <2>4 DEF Next
<1>4. QED
  BY <1>2, <1>3

LEMMA StepAbstract == IInv /\ [Next]_vars => [A!Next]_<<Program, Stage, File>>
<1> SUFFICES ASSUME IInv, [Next]_vars
             PROVE  A!Next \/ UNCHANGED <<Program, Stage, File>>
  OBVIOUS
<1>1. CASE dropped
  <2>1. dropped'
    BY <1>1, DroppedStays
  <2>2. QED
    BY <1>1, <2>1, Abstracted, AbstractedNext
<1>2. CASE ~dropped
  <2>1. CASE UNCHANGED vars
    <3>1. UNCHANGED <<phase, asked, bin, dropped>>
      BY <2>1 DEF vars, files
    <3>2. QED
      BY <3>1 DEF Program, Stage, File
  <2>2. CASE StartResolve
    <3>1. phase = "emit" /\ phase' = "resolve" /\ UNCHANGED <<asked, bin, dropped>>
      BY <2>2 DEF StartResolve, files
    <3>2. QED
      BY <1>2, <3>1, Abstracted, AbstractedNext
  <2>3. CASE ResolveOne
    <3>1. phase = "resolve" /\ UNCHANGED <<phase, asked, bin, dropped>>
      BY <2>3 DEF ResolveOne, files
    <3>2. QED
      BY <1>2, <3>1, Abstracted, AbstractedNext
  <2>4. QED
    BY <1>2, <2>1, <2>2, <2>3, ByteStep, LabelStep, RefStep, AssembleStep, ExportStep,
       WriteImageStep DEF Next
<1>3. QED
  BY <1>1, <1>2

(* A program that fits becomes the image that an assembler without tables  *)
(* makes of it, whatever the order of labels and references, or is refused *)
(* for the same reason; a failure on the way leaves a beginning of that    *)
(* image; and nothing is left out but of a program that has more labels,   *)
(* references or bytes than there is room for (codegen_generate).          *)
THEOREM AssemblerImplemented == Spec => ImplementsAssembler
<1>1. Init => IInv /\ A!Init
  BY InitInvariant, InitAbstract
<1>2. IInv /\ [Next]_vars => IInv'
  BY NextInvariant
<1>3. IInv /\ [Next]_vars => [A!Next]_<<Program, Stage, File>>
  BY StepAbstract
<1>4. A!vars = <<Program, Stage, File>>
  BY DEF A!vars
<1>5. QED
  BY <1>1, <1>2, <1>3, <1>4, PTL DEF Spec, ImplementsAssembler, A!Spec, A!vars

=============================================================================
