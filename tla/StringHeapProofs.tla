-------------------------- MODULE StringHeapProofs --------------------------
(***************************************************************************)
(* Proofs about the string heap, for every arena, every bound of the       *)
(* length classes and every number of cells.                               *)
(***************************************************************************)
EXTENDS StringHeap, SequenceTheorems, TLAPS

Byte == Chars \cup {Link}

-----------------------------------------------------------------------------
(* Type correctness.  References lead to carved objects, and an object      *)
(* takes at least Overhead + 1 bytes of the arena.                          *)

Target == Carved \cup {NULL}

HeapTyped ==
  /\ carved \in 0 .. ArenaBytes \div (Overhead + 1) /\ used \in 0 .. ArenaBytes
  /\ size \in [Block -> 0 .. ArenaBytes]
  /\ text \in [Block -> Seq(Byte)] /\ mark \in [Block -> Mark]
  /\ str \in [Cells -> Target]
  /\ carved * (Overhead + 1) <= used

ListsTyped ==
  /\ link \in [Block -> Target] /\ head \in [Class -> Target]
  /\ freeSeq \in [Class -> Seq(Block)]

ScanTyped ==
  /\ pc \in {"run", "fit", "clear", "sweep", "wild", "lost"}
  /\ req \in [cell : Cells \cup {NULL}, text : Seq(Byte)]
  /\ prev \in Target /\ cur \in 0 .. carved + 1
  /\ pc = "fit" => /\ req.cell \in Cells /\ ClassOf(Len(req.text)) = "large"
                   /\ cur \in Target
  /\ pc \in {"clear", "sweep"} => cur # NULL
  /\ rooted \subseteq Carved

Typed == HeapTyped /\ ListsTyped /\ ScanTyped

(* The lists, by the length the header says: the objects of list k are the  *)
(* free ones of class k, and the scan stands between two of the large list. *)

FreeOf(k) == {b \in Carved : mark[b] = "free" /\ ClassOf(Len(text[b])) = k}

Linked(k) ==
  LET q == freeSeq[k] IN
  /\ head[k] = IF q = <<>> THEN NULL ELSE q[1]
  /\ \A i \in 1 .. Len(q) : link[q[i]] = IF i = Len(q) THEN NULL ELSE q[i + 1]
  /\ \A i, j \in 1 .. Len(q) : q[i] = q[j] => i = j
  /\ \A i \in 1 .. Len(q) : q[i] \in FreeOf(k)
  /\ \A b \in FreeOf(k) : \E i \in 1 .. Len(q) : b = q[i]

AllLinked == pc # "wild" => \A k \in Class : Linked(k)

ScanAt(n) ==
  LET q == freeSeq["large"] IN
  /\ cur = IF n = Len(q) + 1 THEN NULL ELSE q[n]
  /\ prev = IF n = 1 THEN NULL ELSE q[n - 1]
  /\ \A i \in 1 .. n - 1 : Len(text[q[i]]) < Len(req.text)

OnList == pc = "fit" => \E n \in 1 .. Len(freeSeq["large"]) + 1 : ScanAt(n)

(* In a program that is not Mixed every header says what the object was     *)
(* carved with, and the scan asks for no less than any large object has.    *)
Uniform ==
  /\ pc # "wild"
  /\ \A b \in Carved : Len(text[b]) = size[b]
  /\ pc = "fit" => \A b \in Carved : ClassOf(size[b]) = "large" => size[b] <= Len(req.text)

(* The marks the walks leave behind them. *)
MarksOrdered ==
  /\ pc = "clear" => \A b \in Carved : mark[b] = "set" => b >= cur
  /\ pc = "sweep" => \A b \in Carved : mark[b] = "set" => b \in rooted
  /\ pc = "sweep" => \A b \in Carved : mark[b] = "clear" => b >= cur

(* Where the mark phase finds every string the program holds, each carries  *)
(* a mark until the sweep has ended.                                       *)
HeldMarked == pc = "sweep" => \A c \in Cells : str[c] # NULL => mark[str[c]] = "set"

(* What the scan works for is still what the program asked for. *)
Asked ==
  pc = "fit" => \/ req.text \in Literals
                \/ \E d, e \in Cells : req.text = Value(d) \o Value(e)

IInv ==
  /\ Typed /\ AllLinked /\ OnList /\ MarksOrdered /\ Asked
  /\ ~Mixed => Uniform
  /\ Covers => HeldMarked /\ HeldStringsKept

LEMMA DivBound ==
  ASSUME NEW n \in Nat, NEW d \in Nat \ {0}, NEW m \in Nat, n * d <= m
  PROVE  n <= m \div d
<1> DEFINE q == m \div d
<1>1. q \in Nat /\ m < (q + 1) * d
  BY Z3
<1>2. n * d < (q + 1) * d
  BY <1>1
<1>3. ASSUME n >= q + 1 PROVE FALSE
  <2>1. n * d >= (q + 1) * d
    BY <1>1, <1>3, Z3
  <2>2. QED
    BY <1>1, <1>2, <2>1
<1>4. QED
  BY <1>1, <1>3

(* An arena with room for one more content has a number for it. *)
LEMMA RoomBound ==
  ASSUME Typed, NEW s \in Seq(Byte), s # <<>>, used + Len(s) + Overhead <= ArenaBytes
  PROVE  /\ carved \in Nat /\ carved + 1 \in Block
         /\ (carved + 1) * (Overhead + 1) <= used + Len(s) + Overhead
         /\ Len(s) \in 0 .. ArenaBytes /\ used + Len(s) + Overhead \in 0 .. ArenaBytes
<1>1. Len(s) \in Nat \ {0} /\ carved \in Nat /\ used \in Nat /\ Overhead \in Nat \ {0} /\ ArenaBytes \in Nat
  BY EmptySeq, SizeAssumption DEF Typed, HeapTyped
<1>2. (carved + 1) * (Overhead + 1) = carved * (Overhead + 1) + Overhead + 1
  BY <1>1
<1>3. (carved + 1) * (Overhead + 1) <= used + Len(s) + Overhead
  BY <1>1, <1>2 DEF Typed, HeapTyped
<1>4. (carved + 1) * (Overhead + 1) <= ArenaBytes
  BY <1>1, <1>3
<1>5. carved + 1 <= ArenaBytes \div (Overhead + 1)
  <2>1. carved + 1 \in Nat /\ Overhead + 1 \in Nat \ {0}
    BY <1>1
  <2>2. QED
    BY <1>1, <1>4, <2>1, DivBound
<1>6. QED
  BY <1>1, <1>3, <1>5 DEF Block

LEMMA InitTyped == Init => Typed
BY SizeAssumption, ProgramAssumption, EmptySeq
   DEF Init, Typed, HeapTyped, ListsTyped, ScanTyped, Target, Carved, NoReq, Class, Mark, NULL, Block

LEMMA TypedIsTypeOK == Typed => TypeOK
BY SizeAssumption
   DEF Typed, HeapTyped, ListsTyped, ScanTyped, TypeOK, Target, Carved, Ref, Byte, Block

LEMMA SanitizedType ==
  ASSUME Typed, NEW k \in Class, NEW mk
  PROVE  Sanitized(k, mk) \in Target
BY DEF Typed, ListsTyped, Sanitized, Target

LEMMA FailTyped ==
  ASSUME Typed, NEW c \in Cells, Fail(c)
  PROVE  HeapTyped' /\ carved' = carved
BY DEF Typed, HeapTyped, Fail, arena, Target, Carved, NULL

LEMMA BumpTyped ==
  ASSUME Typed, NEW c \in Cells, NEW s \in Seq(Byte), s # <<>>, Bump(c, s)
  PROVE  HeapTyped' /\ (carved' = carved \/ carved' = carved + 1)
<1>1. CASE used + Len(s) + Overhead > ArenaBytes
  BY <1>1, FailTyped DEF Bump
<1>2. CASE ~(used + Len(s) + Overhead > ArenaBytes)
  <2>1. Len(s) \in Nat /\ used \in Nat /\ Overhead \in Nat /\ ArenaBytes \in Nat
    BY SizeAssumption DEF Typed, HeapTyped
  <2>2. /\ carved \in Nat /\ carved + 1 \in Block
        /\ (carved + 1) * (Overhead + 1) <= used + Len(s) + Overhead
        /\ Len(s) \in 0 .. ArenaBytes /\ used + Len(s) + Overhead \in 0 .. ArenaBytes
    BY <1>2, <2>1, RoomBound
  <2>3. carved' \in 0 .. ArenaBytes \div (Overhead + 1)
    BY <1>2, <2>2, SizeAssumption DEF Bump, Block
  <2>4. str' \in [Cells -> Target']
    BY <1>2, <2>2 DEF Bump, Typed, HeapTyped, Target, Carved
  <2>5. /\ used' \in 0 .. ArenaBytes /\ carved' = carved + 1
        /\ carved' * (Overhead + 1) <= used'
    BY <1>2, <2>2 DEF Bump
  <2>6. /\ size' \in [Block -> 0 .. ArenaBytes]
        /\ text' \in [Block -> Seq(Byte)] /\ mark' \in [Block -> Mark]
    BY <1>2, <2>2 DEF Bump, Typed, HeapTyped, Mark
  <2>7. QED
    BY <2>3, <2>4, <2>5, <2>6 DEF HeapTyped
<1>3. QED
  BY <1>1, <1>2

LEMMA ReuseTyped ==
  ASSUME Typed, NEW c \in Cells, NEW s \in Seq(Byte), NEW b \in Carved,
         Reuse(c, b, s), UNCHANGED arena
  PROVE  HeapTyped' /\ pc' \in {"run", "wild"}
BY DEF Typed, HeapTyped, Reuse, arena, Target, Carved, Mark

(* References stay references while the arena grows. *)
LEMMA TargetGrows ==
  ASSUME Typed, (carved' = carved \/ carved' = carved + 1)
  PROVE  Target \subseteq Target' /\ Carved \subseteq Carved' /\ cur \in 0 .. carved' + 1
<1>1. carved \in Nat
  BY SizeAssumption DEF Typed, HeapTyped
<1>2. carved' \in Nat /\ carved <= carved'
  BY <1>1
<1>3. Carved \subseteq Carved'
  BY <1>1, <1>2 DEF Carved
<1>4. cur \in 0 .. carved' + 1
  <2>1. cur \in 0 .. carved + 1
    BY DEF Typed, ScanTyped
  <2>2. CASE carved' = carved
    BY <2>1, <2>2
  <2>3. CASE carved' = carved + 1
    <3>1. carved' + 1 = carved + 2
      BY <1>1, <2>3
    <3>2. QED
      BY <1>1, <2>1, <3>1
  <2>4. QED
    BY <2>2, <2>3
<1>5. QED
  BY <1>3, <1>4 DEF Target

LEMMA TakeHeadTyped ==
  ASSUME Typed, NEW c \in Cells, NEW s \in Seq(Byte), s # <<>>, NEW k \in Class,
         pc = "run", TakeHead(c, k, s), UNCHANGED rooted
  PROVE  Typed'
<1> DEFINE b == Sanitized(k, mark)
<1>1. b \in Target
  BY SanitizedType
<1>2. CASE b = NULL
  <2>1. HeapTyped' /\ (carved' = carved \/ carved' = carved + 1)
    BY <1>2, BumpTyped DEF TakeHead
  <2>2. Target \subseteq Target' /\ Carved \subseteq Carved' /\ cur \in 0 .. carved' + 1
    BY <2>1, TargetGrows
  <2>3. /\ link' = link /\ head' = [head EXCEPT ![k] = NULL]
        /\ freeSeq' = [freeSeq EXCEPT ![k] = <<>>]
    BY <1>2 DEF TakeHead
  <2>4. ListsTyped'
    BY <2>2, <2>3, EmptySeq DEF Typed, ListsTyped, Target
  <2>5. pc' = pc /\ UNCHANGED scan
    BY <1>2 DEF TakeHead
  <2>6. ScanTyped'
    BY <2>2, <2>5 DEF Typed, ScanTyped, scan
  <2>7. QED
    BY <2>1, <2>4, <2>6 DEF Typed
<1>3. CASE b # NULL
  <2>1. b \in Carved /\ UNCHANGED <<arena, scan>>
    BY <1>1, <1>3 DEF Target, TakeHead
  <2>2. HeapTyped' /\ pc' \in {"run", "wild"}
    BY <1>3, <2>1, ReuseTyped DEF TakeHead
  <2>3. /\ head' = [head EXCEPT ![k] = link[b]] /\ link' = [link EXCEPT ![b] = NULL]
        /\ freeSeq' = [freeSeq EXCEPT ![k] = IF @ = <<>> THEN @ ELSE Tail(@)]
    BY <1>3 DEF TakeHead
  <2>4. freeSeq' \in [Class -> Seq(Block)]
    <3>1. freeSeq[k] \in Seq(Block)
      BY DEF Typed, ListsTyped
    <3>2. freeSeq[k] # <<>> => Tail(freeSeq[k]) \in Seq(Block)
      BY <3>1, HeadTailProperties
    <3>3. QED
      BY <2>3, <3>1, <3>2 DEF Typed, ListsTyped
  <2>5. b \in Block
    BY <2>1, SizeAssumption DEF Carved, Block, Typed, HeapTyped
  <2>6. ListsTyped'
    BY <2>1, <2>3, <2>4, <2>5 DEF Typed, ListsTyped, Target, arena, Carved
  <2>7. ScanTyped'
    BY <2>1, <2>2 DEF Typed, ScanTyped, scan, arena, Target, Carved
  <2>8. QED
    BY <2>2, <2>6, <2>7 DEF Typed
<1>4. QED
  BY <1>2, <1>3

LEMMA StartFitTyped ==
  ASSUME Typed, NEW c \in Cells, NEW s \in Seq(Byte), ClassOf(Len(s)) = "large",
         StartFit(c, s), UNCHANGED rooted
  PROVE  Typed'
<1>1. Sanitized("large", mark) \in Target
  BY SanitizedType DEF Class
<1>2. HeapTyped' /\ Target' = Target /\ Carved' = Carved /\ carved' = carved
  BY DEF Typed, HeapTyped, StartFit, arena, Target, Carved
<1>3. head' \in [Class -> Target']
  BY <1>1, <1>2 DEF Typed, ListsTyped, StartFit
<1>4. ListsTyped'
  BY <1>2, <1>3, EmptySeq DEF Typed, ListsTyped, StartFit
<1>5. cur' \in Target' /\ prev' = NULL /\ pc' = "fit" /\ req' = [cell |-> c, text |-> s]
  BY <1>2, <1>3 DEF StartFit, Class
<1>6. cur' \in 0 .. carved' + 1
  <2>1. carved \in Nat
    BY SizeAssumption DEF Typed, HeapTyped
  <2>2. QED
    BY <1>2, <1>5, <2>1 DEF Target, Carved, NULL
<1>7. ScanTyped'
  BY <1>2, <1>5, <1>6 DEF Typed, ScanTyped, Target
<1>8. QED
  BY <1>2, <1>4, <1>7 DEF Typed

LEMMA AllocTyped ==
  ASSUME Typed, NEW c \in Cells, NEW s \in Seq(Byte), Alloc(c, s)
  PROVE  Typed'
<1>1. CASE s = <<>>
  <2>1. Fail(c) /\ UNCHANGED <<lists, pc, scan, rooted>>
    BY <1>1 DEF Alloc, Empty
  <2>2. HeapTyped' /\ carved' = carved
    BY <2>1, FailTyped
  <2>3. QED
    BY <2>1, <2>2 DEF Typed, ListsTyped, ScanTyped, lists, scan, Target, Carved
<1>2. CASE s # <<>> /\ ClassOf(Len(s)) = "large"
  <2>1. StartFit(c, s) /\ UNCHANGED rooted
    BY <1>2 DEF Alloc
  <2>2. QED
    BY <1>2, <2>1, StartFitTyped
<1>3. CASE s # <<>> /\ ClassOf(Len(s)) # "large"
  <2>1. TakeHead(c, ClassOf(Len(s)), s) /\ UNCHANGED rooted /\ pc = "run"
    BY <1>3 DEF Alloc
  <2>2. ClassOf(Len(s)) \in Class
    BY DEF ClassOf, Class
  <2>3. QED
    BY <1>3, <2>1, <2>2, TakeHeadTyped
<1>4. QED
  BY <1>1, <1>2, <1>3

LEMMA FitSkipTyped == ASSUME Typed, FitSkip PROVE Typed'
<1>1. carved \in Nat /\ Carved \subseteq Block
  BY SizeAssumption DEF Typed, HeapTyped, Carved, Block
<1>2. cur \in Carved
  BY DEF Typed, ScanTyped, FitSkip, Target
<1>3. cur' \in Target /\ cur' \in 0 .. carved + 1
  BY <1>1, <1>2 DEF Typed, ListsTyped, FitSkip, Target, Carved, NULL
<1>4. QED
  BY <1>2, <1>3
     DEF Typed, HeapTyped, ListsTyped, ScanTyped, FitSkip, arena, lists, Target, Carved

(* Taking the object at position n out of a sequence. *)
LEMMA WithoutProperties ==
  ASSUME NEW S, NEW q \in Seq(S), NEW n \in 1 .. Len(q),
         \A i, j \in 1 .. Len(q) : q[i] = q[j] => i = j
  PROVE  /\ Without(q, q[n]) \in Seq(S)
         /\ Len(Without(q, q[n])) = Len(q) - 1
         /\ \A i \in 1 .. Len(q) - 1 :
              Without(q, q[n])[i] = IF i < n THEN q[i] ELSE q[i + 1]
<1> DEFINE front == SubSeq(q, 1, n - 1)
           back  == SubSeq(q, n + 1, Len(q))
<1>1. /\ Len(q) \in Nat /\ DOMAIN q = 1 .. Len(q)
      /\ \A i \in 1 .. Len(q) : q[i] \in S
  BY LenProperties, ElementOfSeq
<1>2. (CHOOSE i \in DOMAIN q : q[i] = q[n]) = n
  BY <1>1
<1>3. Without(q, q[n]) = front \o back
  BY <1>2 DEF Without
<1>4. /\ front \in Seq(S) /\ Len(front) = n - 1
      /\ \A i \in 1 .. n - 1 : front[i] = q[i]
  <2>1. 1 \in Int /\ n - 1 \in Int /\ \A i \in 1 .. n - 1 : q[i] \in S
    BY <1>1
  <2>2. /\ front \in Seq(S) /\ Len(front) = IF 1 <= n - 1 THEN n - 1 - 1 + 1 ELSE 0
        /\ \A i \in 1 .. n - 1 - 1 + 1 : front[i] = q[1 + i - 1]
    BY <2>1, SubSeqProperties
  <2>3. QED
    BY <1>1, <2>2
<1>5. /\ back \in Seq(S) /\ Len(back) = Len(q) - n
      /\ \A i \in 1 .. Len(q) - n : back[i] = q[n + i]
  <2>1. n + 1 \in Int /\ Len(q) \in Int /\ \A i \in n + 1 .. Len(q) : q[i] \in S
    BY <1>1
  <2>2. /\ back \in Seq(S) /\ Len(back) = IF n + 1 <= Len(q) THEN Len(q) - (n + 1) + 1 ELSE 0
        /\ \A i \in 1 .. Len(q) - (n + 1) + 1 : back[i] = q[n + 1 + i - 1]
    BY <2>1, SubSeqProperties
  <2>3. Len(back) = Len(q) - n
    <3> HIDE DEF back
    <3>1. n \in Int /\ n <= Len(q) /\ Len(q) \in Int
      BY <1>1
    <3>2. Len(back) = IF n + 1 <= Len(q) THEN Len(q) - (n + 1) + 1 ELSE 0
      BY <2>2
    <3>3. QED
      BY <3>1, <3>2
  <2>4. ASSUME NEW i \in 1 .. Len(q) - n PROVE back[i] = q[n + i]
    <3>1. n + 1 + i - 1 = n + i /\ i \in 1 .. Len(q) - (n + 1) + 1
      BY <1>1
    <3>2. QED
      BY <2>2, <3>1
  <2>5. QED
    BY <2>2, <2>3, <2>4
<1> HIDE DEF front, back
<1>6. /\ front \o back \in Seq(S) /\ Len(front \o back) = Len(front) + Len(back)
      /\ \A i \in 1 .. Len(front) + Len(back) : (front \o back)[i] =
                  IF i <= Len(front) THEN front[i] ELSE back[i - Len(front)]
  <2>1. front \in Seq(S) /\ back \in Seq(S)
    BY <1>4, <1>5
  <2>2. QED
    BY <2>1, ConcatProperties
<1>7. QED
  <2>1. Len(front) + Len(back) = Len(q) - 1
    BY <1>1, <1>4, <1>5
  <2>2. ASSUME NEW i \in 1 .. Len(q) - 1
        PROVE  (front \o back)[i] = IF i < n THEN q[i] ELSE q[i + 1]
    <3>1. CASE i < n
      BY <1>1, <1>4, <1>6, <2>1, <3>1
    <3>2. CASE ~(i < n)
      <4>1. i - (n - 1) \in 1 .. Len(q) - n /\ n + (i - (n - 1)) = i + 1
        BY <1>1, <3>2
      <4>2. (front \o back)[i] = back[i - (n - 1)]
        BY <1>1, <1>4, <1>6, <2>1, <3>2
      <4>3. QED
        BY <1>5, <3>2, <4>1, <4>2
    <3>3. QED
      BY <3>1, <3>2
  <2>3. QED
    BY <1>3, <1>6, <2>1, <2>2

-----------------------------------------------------------------------------
(* What holds of an intact list. *)

LEMMA CarvedBlocks == Typed => carved \in Nat /\ Carved \subseteq Block /\ NULL \notin Carved
BY SizeAssumption DEF Typed, HeapTyped, Carved, Block, NULL

LEMMA ListType ==
  ASSUME Typed, NEW k \in Class
  PROVE  /\ freeSeq[k] \in Seq(Block) /\ Len(freeSeq[k]) \in Nat
         /\ freeSeq[k] = <<>> <=> Len(freeSeq[k]) = 0
         /\ DOMAIN freeSeq[k] = 1 .. Len(freeSeq[k])
BY EmptySeq, LenProperties DEF Typed, ListsTyped

(* The check of a head never rejects an object that is on the list. *)
LEMMA SanitizedHead ==
  ASSUME Typed, NEW k \in Class, Linked(k), NEW mk,
         \A b \in Carved : mark[b] = "free" => mk[b] = "free"
  PROVE  /\ Sanitized(k, mk) = head[k]
         /\ head[k] = NULL <=> freeSeq[k] = <<>>
         /\ freeSeq[k] # <<>> => head[k] = freeSeq[k][1] /\ head[k] \in FreeOf(k)
<1>1. /\ freeSeq[k] \in Seq(Block) /\ Len(freeSeq[k]) \in Nat
      /\ freeSeq[k] = <<>> <=> Len(freeSeq[k]) = 0
  BY ListType
<1>2. CASE freeSeq[k] = <<>>
  <2>1. head[k] = NULL
    BY <1>2 DEF Linked
  <2>2. QED
    BY <1>2, <2>1, CarvedBlocks DEF Sanitized
<1>3. CASE freeSeq[k] # <<>>
  <2>1. 1 \in 1 .. Len(freeSeq[k])
    BY <1>1, <1>3
  <2>2. head[k] = freeSeq[k][1] /\ freeSeq[k][1] \in FreeOf(k)
    BY <1>3, <2>1 DEF Linked
  <2>3. head[k] \in Carved /\ mk[head[k]] = "free" /\ ClassOf(Len(text[head[k]])) = k
    BY <2>2 DEF FreeOf
  <2>4. head[k] # NULL
    BY <2>3, CarvedBlocks
  <2>5. QED
    BY <1>3, <2>2, <2>3, <2>4 DEF Sanitized
<1>4. QED
  BY <1>2, <1>3

LEMMA LinkedKept ==
  ASSUME NEW k \in Class, Linked(k), freeSeq'[k] = freeSeq[k], head'[k] = head[k],
         \A b \in FreeOf(k) : link'[b] = link[b], FreeOf(k)' = FreeOf(k)
  PROVE  Linked(k)'
BY DEF Linked

LEMMA AllKept ==
  ASSUME AllLinked, pc # "wild", lists' = lists, \A k \in Class : FreeOf(k)' = FreeOf(k)
  PROVE  AllLinked'
BY LinkedKept DEF AllLinked, lists

(* The objects a list has are the same when no mark of a free object comes  *)
(* or goes and no header of one changes.                                   *)
LEMMA FreeKept ==
  ASSUME carved' = carved, text' = text,
         \A b \in Carved : mark'[b] = "free" <=> mark[b] = "free"
  PROVE  \A k \in Class : FreeOf(k)' = FreeOf(k)
BY DEF FreeOf, Carved

LEMMA BumpKeepsFree ==
  ASSUME Typed, NEW c \in Cells, NEW s \in Seq(Byte), s # <<>>, Bump(c, s)
  PROVE  \A k \in Class : FreeOf(k)' = FreeOf(k)
<1>1. CASE used + Len(s) + Overhead > ArenaBytes
  BY <1>1, FreeKept DEF Bump, Fail, arena
<1>2. CASE ~(used + Len(s) + Overhead > ArenaBytes)
  <2>1. Len(s) \in Nat /\ used \in Nat /\ Overhead \in Nat /\ ArenaBytes \in Nat
    BY SizeAssumption DEF Typed, HeapTyped
  <2>2. carved \in Nat /\ carved + 1 \in Block
    BY <1>2, <2>1, RoomBound
  <2>3. /\ carved' = carved + 1
        /\ text' = [text EXCEPT ![carved + 1] = s]
        /\ mark' = [mark EXCEPT ![carved + 1] = "clear"]
    BY <1>2 DEF Bump
  <2>4. /\ \A b \in Carved : b # carved + 1 /\ b \in Block
        /\ Carved' = Carved \cup {carved + 1}
    BY <2>2, <2>3, CarvedBlocks DEF Carved
  <2>5. mark'[carved + 1] = "clear"
    BY <2>2, <2>3 DEF Typed, HeapTyped
  <2>6. \A b \in Carved : mark'[b] = mark[b] /\ text'[b] = text[b]
    BY <2>2, <2>3, <2>4 DEF Typed, HeapTyped
  <2>7. QED
    BY <2>4, <2>5, <2>6 DEF FreeOf
<1>3. QED
  BY <1>1, <1>2

-----------------------------------------------------------------------------
(* The lists stay intact. *)

LEMMA TakeHeadLinked ==
  ASSUME Typed, AllLinked, NEW c \in Cells, NEW s \in Seq(Byte), s # <<>>, NEW k \in Class,
         pc = "run", TakeHead(c, k, s), pc' # "wild"
  PROVE  \A j \in Class : Linked(j)'
<1> DEFINE b == Sanitized(k, mark)
           q == freeSeq[k]
<1>1. Linked(k) /\ \A j \in Class : Linked(j)
  BY DEF AllLinked
<1>2. /\ b = head[k] /\ (head[k] = NULL <=> q = <<>>)
      /\ q # <<>> => head[k] = q[1] /\ head[k] \in FreeOf(k)
  BY <1>1, SanitizedHead
<1>3. /\ q \in Seq(Block) /\ Len(q) \in Nat /\ (q = <<>> <=> Len(q) = 0)
  BY ListType
<1>4. CASE b = NULL
  <2>1. head' = head /\ freeSeq' = freeSeq
    <3>1. /\ head' = [head EXCEPT ![k] = NULL] /\ head[k] = NULL
          /\ freeSeq' = [freeSeq EXCEPT ![k] = <<>>] /\ freeSeq[k] = <<>>
      BY <1>2, <1>4 DEF TakeHead
    <3>2. QED
      BY <3>1 DEF Typed, ListsTyped
  <2>2. link' = link /\ Bump(c, s)
    BY <1>4 DEF TakeHead
  <2>3. \A j \in Class : FreeOf(j)' = FreeOf(j)
    BY <2>2, BumpKeepsFree
  <2>4. QED
    BY <1>1, <2>1, <2>2, <2>3, LinkedKept
<1>5. CASE b # NULL
  <2>1. /\ b = q[1] /\ b \in FreeOf(k) /\ 1 \in 1 .. Len(q) /\ q # <<>>
    BY <1>2, <1>3, <1>5
  <2>2. b \in Carved /\ b \in Block /\ mark[b] = "free"
    BY <2>1, CarvedBlocks DEF FreeOf
  <2>3. /\ head' = [head EXCEPT ![k] = link[b]] /\ link' = [link EXCEPT ![b] = NULL]
        /\ freeSeq' = [freeSeq EXCEPT ![k] = Tail(q)]
        /\ Reuse(c, b, s) /\ UNCHANGED arena
    BY <1>5, <2>1 DEF TakeHead
  <2>4. /\ text' = [text EXCEPT ![b] = s] /\ mark' = [mark EXCEPT ![b] = "clear"]
        /\ carved' = carved
    BY <2>3 DEF Reuse, arena
  <2>5. \A j \in Class : FreeOf(j)' = FreeOf(j) \ {b}
    BY <2>2, <2>4 DEF FreeOf, Carved, Typed, HeapTyped
  <2>6. /\ freeSeq'[k] = Tail(q) /\ head'[k] = link[b]
        /\ \A x \in Block : x # b => link'[x] = link[x]
    BY <2>3 DEF Typed, ListsTyped
  <2>7. ASSUME NEW j \in Class, j # k PROVE Linked(j)'
    <3>1. b \notin FreeOf(j)
      BY <2>1, <2>7 DEF FreeOf
    <3>2. /\ freeSeq'[j] = freeSeq[j] /\ head'[j] = head[j]
          /\ FreeOf(j)' = FreeOf(j)
      BY <2>3, <2>5, <2>7, <3>1 DEF Typed, ListsTyped
    <3>3. \A x \in FreeOf(j) : link'[x] = link[x]
      BY <2>6, <3>1, CarvedBlocks DEF FreeOf
    <3>4. QED
      BY <1>1, <3>2, <3>3, LinkedKept
  <2>8. Linked(k)'
    <3> DEFINE r == Tail(q)
    <3>1. /\ Len(r) = Len(q) - 1 /\ r \in Seq(Block)
          /\ \A i \in 1 .. Len(q) - 1 : r[i] = q[i + 1]
      BY <1>3, <2>1, HeadTailProperties
    <3>2. r = <<>> <=> Len(r) = 0
      BY <3>1, EmptySeq
    <3>3. /\ \A i \in 1 .. Len(q) : link[q[i]] = IF i = Len(q) THEN NULL ELSE q[i + 1]
          /\ \A i, j \in 1 .. Len(q) : q[i] = q[j] => i = j
          /\ \A i \in 1 .. Len(q) : q[i] \in FreeOf(k)
          /\ \A x \in FreeOf(k) : \E i \in 1 .. Len(q) : x = q[i]
      BY <1>1 DEF Linked
    <3> HIDE DEF r, q, b
    <3>4. \A i \in 1 .. Len(r) : /\ i + 1 \in 1 .. Len(q) /\ r[i] = q[i + 1] /\ r[i] # b
                                 /\ r[i] \in FreeOf(k)
      BY <1>3, <2>1, <3>1, <3>3
    <3>5. head'[k] = IF r = <<>> THEN NULL ELSE r[1]
      BY <1>3, <2>1, <2>6, <3>1, <3>2, <3>3
    <3>6. ASSUME NEW i \in 1 .. Len(r)
          PROVE  link'[r[i]] = IF i = Len(r) THEN NULL ELSE r[i + 1]
      <4>1. r[i] \in Block /\ r[i] # b
        BY <3>4, CarvedBlocks DEF FreeOf
      <4>2. link'[r[i]] = link[q[i + 1]]
        BY <2>6, <3>4, <4>1
      <4>3. link[q[i + 1]] = IF i + 1 = Len(q) THEN NULL ELSE q[i + 1 + 1]
        BY <3>3, <3>4
      <4>4. CASE i = Len(r)
        BY <1>3, <3>1, <4>2, <4>3, <4>4
      <4>5. CASE i # Len(r)
        <5>1. i + 1 \in 1 .. Len(r) /\ i + 1 # Len(q)
          BY <1>3, <3>1, <4>5
        <5>2. QED
          BY <3>4, <4>2, <4>3, <4>5, <5>1
      <4>6. QED
        BY <4>4, <4>5
    <3>7. \A i, j \in 1 .. Len(r) : r[i] = r[j] => i = j
      <4>1. ASSUME NEW i \in 1 .. Len(r), NEW j \in 1 .. Len(r), r[i] = r[j] PROVE i = j
        <5>1. i + 1 = j + 1
          BY <3>3, <3>4, <4>1
        <5>2. QED
          BY <1>3, <3>1, <5>1
      <4>2. QED
        BY <4>1
    <3>8. \A i \in 1 .. Len(r) : r[i] \in FreeOf(k)'
      BY <2>5, <3>4
    <3>9. ASSUME NEW x \in FreeOf(k)' PROVE \E i \in 1 .. Len(r) : x = r[i]
      <4>1. x \in FreeOf(k) /\ x # b
        BY <2>5
      <4>2. PICK n \in 1 .. Len(q) : x = q[n]
        BY <3>3, <4>1
      <4>3. n # 1
        BY <2>1, <4>1, <4>2
      <4>4. n - 1 \in 1 .. Len(r) /\ n - 1 + 1 = n
        BY <1>3, <3>1, <4>3
      <4>5. x = r[n - 1]
        BY <3>4, <4>2, <4>4
      <4>6. QED
        BY <4>4, <4>5
    <3>10. freeSeq'[k] = r
      BY <2>6 DEF r
    <3>11. QED
      BY <3>5, <3>6, <3>7, <3>8, <3>9, <3>10 DEF Linked
  <2>9. QED
    BY <2>7, <2>8
<1>6. QED
  BY <1>4, <1>5

LEMMA GarbledLen ==
  ASSUME NEW s \in Seq(Byte) PROVE Garbled(s) \in Seq(Byte) /\ Len(Garbled(s)) = Len(s)
<1>1. Len(s) \in Nat /\ DOMAIN s = 1 .. Len(s)
  BY LenProperties
<1>2. Garbled(s) \in [1 .. Len(s) -> Byte] /\ DOMAIN Garbled(s) = 1 .. Len(s)
  BY <1>1 DEF Garbled, Byte
<1>3. Garbled(s) \in Seq(Byte)
  BY <1>1, <1>2, SeqDef
<1>4. DOMAIN Garbled(s) = 1 .. Len(Garbled(s)) /\ Len(Garbled(s)) \in Nat
  BY <1>3, LenProperties
<1>5. QED
  BY <1>1, <1>2, <1>3, <1>4

LEMMA FreeObjectLinked ==
  ASSUME Typed, \A k \in Class : Linked(k), NEW b \in Carved, mark[b] = "clear",
         free_string_object(b), carved' = carved
  PROVE  \A j \in Class : Linked(j)'
<1>0. PICK k \in Class : k = ClassOf(Len(text[b]))
  BY DEF ClassOf, Class
<1> DEFINE q  == freeSeq[k]
           mk == [mark EXCEPT ![b] = "free"]
<1>1. b \in Block
  BY CarvedBlocks
<1>2. /\ Sanitized(k, mk) = head[k] /\ (head[k] = NULL <=> q = <<>>)
      /\ q # <<>> => head[k] = q[1] /\ head[k] \in FreeOf(k)
  <2>1. \A x \in Carved : mark[x] = "free" => mk[x] = "free"
    BY <1>1, CarvedBlocks DEF Typed, HeapTyped
  <2>2. QED
    BY <1>1, <2>1, SanitizedHead
<1>3. /\ q \in Seq(Block) /\ Len(q) \in Nat /\ (q = <<>> <=> Len(q) = 0)
  BY <1>1, ListType
<1>4. /\ mark' = mk /\ link' = [link EXCEPT ![b] = head[k]]
      /\ head' = [head EXCEPT ![k] = b]
      /\ freeSeq' = [freeSeq EXCEPT ![k] = <<b>> \o (IF link'[b] = NULL THEN <<>> ELSE @)]
      /\ text' = [text EXCEPT ![b] = Garbled(@)]
  BY <1>0, <1>2 DEF free_string_object
<1>5. link'[b] = head[k] /\ head'[k] = b /\ freeSeq'[k] = <<b>> \o q
  BY <1>1, <1>2, <1>4 DEF Typed, ListsTyped
<1>6. \A x \in Carved : Len(text'[x]) = Len(text[x])
  <2>1. text[b] \in Seq(Byte) /\ text'[b] = Garbled(text[b])
    BY <1>1, <1>4 DEF Typed, HeapTyped
  <2>2. QED
    BY <1>4, <2>1, GarbledLen, CarvedBlocks DEF Typed, HeapTyped
<1>7. /\ mark'[b] = "free" /\ \A x \in Carved : x # b => mark'[x] = mark[x]
  BY <1>1, <1>4, CarvedBlocks DEF Typed, HeapTyped
<1>8. ASSUME NEW j \in Class PROVE FreeOf(j)' = IF j = k THEN FreeOf(j) \cup {b} ELSE FreeOf(j)
  <2>1. Carved' = Carved
    BY DEF Carved
  <2>2. QED
    BY <1>0, <1>6, <1>7, <2>1 DEF FreeOf
<1>9. \A j \in Class : b \notin FreeOf(j)
  BY DEF FreeOf
<1>10. ASSUME NEW j \in Class, j # k PROVE Linked(j)'
  <2>1. freeSeq'[j] = freeSeq[j] /\ head'[j] = head[j]
    BY <1>1, <1>4, <1>10 DEF Typed, ListsTyped
  <2>2. \A x \in FreeOf(j) : link'[x] = link[x]
    BY <1>1, <1>4, <1>9, CarvedBlocks DEF Typed, ListsTyped, FreeOf
  <2>3. QED
    BY <1>8, <1>10, <2>1, <2>2, LinkedKept
<1>11. Linked(k)'
  <2> DEFINE r == <<b>> \o q
  <2>1. /\ r \in Seq(Block) /\ Len(r) = Len(q) + 1 /\ r[1] = b
        /\ \A i \in 1 .. Len(q) : r[i + 1] = q[i]
    <3>1. <<b>> \in Seq(Block) /\ Len(<<b>>) = 1 /\ <<b>>[1] = b
      BY <1>1
    <3> DEFINE u == <<b>>
    <3> HIDE DEF u, q
    <3>2. u \in Seq(Block) /\ Len(u) = 1 /\ u[1] = b
      BY <3>1 DEF u
    <3>3. /\ u \o q \in Seq(Block) /\ Len(u \o q) = Len(u) + Len(q)
          /\ \A i \in 1 .. Len(u) + Len(q) :
               (u \o q)[i] = IF i <= Len(u) THEN u[i] ELSE q[i - Len(u)]
      <4>1. u \in Seq(Block) /\ q \in Seq(Block)
        BY <1>3, <3>2
      <4>2. QED
        BY <4>1, ConcatProperties
    <3>4. (u \o q)[1] = b
      BY <1>3, <3>2, <3>3
    <3>5. ASSUME NEW i \in 1 .. Len(q) PROVE (u \o q)[i + 1] = q[i]
      <4>1. i + 1 \in 1 .. Len(u) + Len(q) /\ ~(i + 1 <= 1) /\ i + 1 - 1 = i
        BY <1>3, <3>2
      <4>2. QED
        BY <3>2, <3>3, <4>1
    <3>6. Len(u \o q) = Len(q) + 1
      BY <1>3, <3>2, <3>3
    <3>7. QED
      BY <3>3, <3>4, <3>5, <3>6 DEF u
  <2>2. /\ \A i \in 1 .. Len(q) : link[q[i]] = IF i = Len(q) THEN NULL ELSE q[i + 1]
        /\ \A i, j \in 1 .. Len(q) : q[i] = q[j] => i = j
        /\ \A i \in 1 .. Len(q) : q[i] \in FreeOf(k)
        /\ \A x \in FreeOf(k) : \E i \in 1 .. Len(q) : x = q[i]
        /\ head[k] = IF q = <<>> THEN NULL ELSE q[1]
    BY <1>1 DEF Linked
  <2>3. \A x \in FreeOf(k) : x # b /\ link'[x] = link[x]
    BY <1>1, <1>4, <1>9, CarvedBlocks DEF Typed, ListsTyped, FreeOf
  <2>4. FreeOf(k)' = FreeOf(k) \cup {b}
    BY <1>1, <1>8
  <2> HIDE DEF r, q
  <2>5. ASSUME NEW i \in 1 .. Len(r), i # 1
        PROVE  i - 1 \in 1 .. Len(q) /\ r[i] = q[i - 1] /\ r[i] # b /\ r[i] \in FreeOf(k)
    <3>1. i - 1 \in 1 .. Len(q) /\ i - 1 + 1 = i
      BY <1>3, <2>1, <2>5
    <3>2. r[i] = q[i - 1]
      BY <2>1, <3>1
    <3>3. QED
      BY <2>2, <2>3, <3>1, <3>2
  <2>6. ASSUME NEW i \in 1 .. Len(r)
        PROVE  link'[r[i]] = IF i = Len(r) THEN NULL ELSE r[i + 1]
    <3>1. CASE i = 1
      <4>1. link'[r[i]] = head[k]
        BY <1>5, <2>1, <3>1
      <4>2. CASE Len(q) = 0
        BY <1>3, <2>1, <2>2, <3>1, <4>1, <4>2
      <4>3. CASE Len(q) # 0
        <5>1. 1 \in 1 .. Len(q) /\ i + 1 = 2 /\ 1 + 1 = 2 /\ q # <<>> /\ i # Len(r)
          BY <1>3, <2>1, <3>1, <4>3
        <5>2. r[2] = q[1]
          BY <2>1, <5>1
        <5>3. QED
          BY <2>2, <4>1, <5>1, <5>2
      <4>4. QED
        BY <4>2, <4>3
    <3>2. CASE i # 1
      <4>1. i - 1 \in 1 .. Len(q) /\ r[i] = q[i - 1] /\ r[i] \in FreeOf(k)
        BY <2>5, <3>2
      <4>2. link'[r[i]] = IF i - 1 = Len(q) THEN NULL ELSE q[i - 1 + 1]
        BY <2>2, <2>3, <4>1
      <4>3. CASE i = Len(r)
        BY <1>3, <2>1, <4>2, <4>3
      <4>4. CASE i # Len(r)
        <5>1. i \in 1 .. Len(q) /\ i - 1 # Len(q) /\ i - 1 + 1 = i
          BY <1>3, <2>1, <3>2, <4>4
        <5>2. QED
          BY <2>1, <4>2, <4>4, <5>1
      <4>5. QED
        BY <4>3, <4>4
    <3>3. QED
      BY <3>1, <3>2
  <2>7. ASSUME NEW i \in 1 .. Len(r), NEW j \in 1 .. Len(r), r[i] = r[j] PROVE i = j
    <3>1. CASE i = 1 /\ j = 1
      BY <3>1
    <3>2. CASE i = 1 /\ j # 1
      BY <2>1, <2>5, <2>7, <3>2
    <3>3. CASE i # 1 /\ j = 1
      BY <2>1, <2>5, <2>7, <3>3
    <3>4. CASE i # 1 /\ j # 1
      <4>1. i - 1 = j - 1
        BY <2>2, <2>5, <2>7, <3>4
      <4>2. QED
        BY <1>3, <2>1, <4>1
    <3>5. QED
      BY <3>1, <3>2, <3>3, <3>4
  <2>8. \A i \in 1 .. Len(r) : r[i] \in FreeOf(k)'
    BY <2>1, <2>4, <2>5
  <2>9. ASSUME NEW x \in FreeOf(k)' PROVE \E i \in 1 .. Len(r) : x = r[i]
    <3>1. CASE x = b
      <4>1. 1 \in 1 .. Len(r)
        BY <1>3, <2>1
      <4>2. QED
        BY <2>1, <3>1, <4>1
    <3>2. CASE x # b
      <4>1. PICK i \in 1 .. Len(q) : x = q[i]
        BY <2>2, <2>4, <3>2
      <4>2. i + 1 \in 1 .. Len(r) /\ x = r[i + 1]
        BY <1>3, <2>1, <4>1
      <4>3. QED
        BY <4>2
    <3>3. QED
      BY <3>1, <3>2
  <2>10. freeSeq'[k] = r /\ head'[k] = IF r = <<>> THEN NULL ELSE r[1]
    <3>1. Len(r) # 0 /\ r # <<>>
      BY <1>3, <2>1, EmptySeq
    <3>2. QED
      BY <1>5, <2>1, <3>1 DEF r
  <2>11. QED
    BY <2>6, <2>7, <2>8, <2>9, <2>10 DEF Linked
<1>12. QED
  BY <1>10, <1>11

(* Where the scan stands on an object, this is the one it unlinks. *)
LEMMA ScanOnObject ==
  ASSUME Typed, AllLinked, OnList, pc = "fit", cur # NULL
  PROVE  /\ cur \in FreeOf("large") /\ cur \in Carved /\ cur \in Block /\ mark[cur] = "free"
         /\ \E n \in 1 .. Len(freeSeq["large"]) : ScanAt(n) /\ cur = freeSeq["large"][n]
<1> DEFINE q == freeSeq["large"]
<1>1. "large" \in Class /\ Linked("large") /\ Len(q) \in Nat
  BY ListType DEF AllLinked, Class
<1>2. PICK n \in 1 .. Len(q) + 1 : ScanAt(n)
  BY DEF OnList
<1>3. n \in 1 .. Len(q) /\ cur = q[n]
  BY <1>1, <1>2 DEF ScanAt
<1>4. cur \in FreeOf("large")
  BY <1>1, <1>3 DEF Linked
<1>5. QED
  BY <1>2, <1>3, <1>4, CarvedBlocks DEF FreeOf

LEMMA FitTakeSeq ==
  ASSUME Typed, AllLinked, OnList, FitTake
  PROVE  freeSeq' \in [Class -> Seq(Block)]
<1> DEFINE q == freeSeq["large"]
<1>1. "large" \in Class /\ q \in Seq(Block) /\ Linked("large")
  BY ListType DEF AllLinked, Class, FitTake
<1>2. PICK n \in 1 .. Len(q) : cur = q[n]
  BY ScanOnObject DEF FitTake
<1>3. Without(q, q[n]) \in Seq(Block)
  <2>1. \A i, j \in 1 .. Len(q) : q[i] = q[j] => i = j
    BY <1>1 DEF Linked
  <2>2. QED
    BY <1>1, <2>1, WithoutProperties
<1>4. QED
  BY <1>2, <1>3 DEF FitTake, Typed, ListsTyped

LEMMA FitTakeLinked ==
  ASSUME Typed, AllLinked, OnList, FitTake, pc' # "wild"
  PROVE  \A j \in Class : Linked(j)'
<1> DEFINE q == freeSeq["large"]
           r == Without(q, cur)
<1>1. "large" \in Class /\ q \in Seq(Block) /\ Linked("large") /\ Len(q) \in Nat
  BY ListType DEF AllLinked, Class, FitTake
<1>2. cur \in FreeOf("large") /\ cur \in Carved /\ cur \in Block
  BY ScanOnObject DEF FitTake
<1>3. PICK n \in 1 .. Len(q) : ScanAt(n) /\ cur = q[n]
  BY ScanOnObject DEF FitTake
<1>4. /\ \A i \in 1 .. Len(q) : link[q[i]] = IF i = Len(q) THEN NULL ELSE q[i + 1]
      /\ \A i, j \in 1 .. Len(q) : q[i] = q[j] => i = j
      /\ \A i \in 1 .. Len(q) : q[i] \in FreeOf("large")
      /\ \A x \in FreeOf("large") : \E i \in 1 .. Len(q) : x = q[i]
      /\ head["large"] = IF q = <<>> THEN NULL ELSE q[1]
  BY <1>1 DEF Linked
<1>5. /\ r \in Seq(Block) /\ Len(r) = Len(q) - 1
      /\ \A i \in 1 .. Len(q) - 1 : r[i] = IF i < n THEN q[i] ELSE q[i + 1]
  <2> HIDE DEF q
  <2>1. q \in Seq(Block) /\ \A i, j \in 1 .. Len(q) : q[i] = q[j] => i = j
    BY <1>1, <1>4
  <2>2. /\ Without(q, q[n]) \in Seq(Block) /\ Len(Without(q, q[n])) = Len(q) - 1
        /\ \A i \in 1 .. Len(q) - 1 : Without(q, q[n])[i] = IF i < n THEN q[i] ELSE q[i + 1]
    BY <2>1, WithoutProperties
  <2>3. QED
    BY <1>3, <2>2
<1>6. prev = IF n = 1 THEN NULL ELSE q[n - 1]
  BY <1>3 DEF ScanAt
<1>7. /\ text' = [text EXCEPT ![cur] = req.text] /\ mark' = [mark EXCEPT ![cur] = "clear"]
      /\ carved' = carved
  BY DEF FitTake, Reuse, arena
<1>8. \A j \in Class : FreeOf(j)' = FreeOf(j) \ {cur}
  BY <1>2, <1>7 DEF FreeOf, Carved, Typed, HeapTyped
<1>9. n # 1 => n - 1 \in 1 .. Len(q) /\ prev = q[n - 1] /\ prev \in Carved /\ prev \in Block
                /\ prev # cur /\ prev # NULL /\ prev \in FreeOf("large")
  <2>1. n # 1 => n - 1 \in 1 .. Len(q) /\ prev = q[n - 1]
    BY <1>1, <1>6
  <2>2. n # 1 => n - 1 # n
    BY <1>1
  <2>3. n # 1 => prev # cur
    BY <1>3, <1>4, <2>1, <2>2
  <2>4. QED
    BY <1>4, <2>1, <2>3, CarvedBlocks DEF FreeOf
<1>10. /\ head' = IF n = 1 THEN [head EXCEPT !["large"] = link[cur]] ELSE head
       /\ link' = IF n = 1 THEN [link EXCEPT ![cur] = NULL]
                           ELSE [link EXCEPT ![prev] = link[cur], ![cur] = NULL]
  BY <1>6, <1>9 DEF FitTake, Unlink
<1>11. freeSeq' = [freeSeq EXCEPT !["large"] = r]
  BY DEF FitTake
<1>12. ASSUME NEW j \in Class, j # "large" PROVE Linked(j)'
  <2>1. freeSeq'[j] = freeSeq[j] /\ head'[j] = head[j]
    BY <1>10, <1>11, <1>12 DEF Typed, ListsTyped
  <2>2. \A x \in FreeOf(j) : x \in Block /\ x # cur /\ x \notin FreeOf("large")
    BY <1>2, <1>12, CarvedBlocks DEF FreeOf
  <2>3. \A x \in FreeOf(j) : link'[x] = link[x]
    <3>1. CASE n = 1
      BY <1>10, <2>2, <3>1 DEF Typed, ListsTyped
    <3>2. CASE n # 1
      BY <1>9, <1>10, <2>2, <3>2 DEF Typed, ListsTyped
    <3>3. QED
      BY <3>1, <3>2
  <2>4. FreeOf(j)' = FreeOf(j)
    BY <1>8, <2>2
  <2>5. Linked(j)
    BY DEF AllLinked, FitTake
  <2>6. QED
    BY <2>1, <2>3, <2>4, <2>5, LinkedKept
<1>13. Linked("large")'
  <2>1. freeSeq'["large"] = r
    BY <1>1, <1>11 DEF Typed, ListsTyped
  <2>2. \A x \in Block : x # cur /\ (n # 1 => x # prev) => link'[x] = link[x]
    BY <1>10 DEF Typed, ListsTyped
  <2>3. n # 1 => link'[prev] = link[cur]
    BY <1>2, <1>9, <1>10 DEF Typed, ListsTyped
  <2>4. head'["large"] = IF n = 1 THEN link[cur] ELSE head["large"]
    BY <1>1, <1>10 DEF Typed, ListsTyped
  <2>5. r = <<>> <=> Len(r) = 0
    BY <1>5, EmptySeq
  <2>6. q = <<>> <=> Len(q) = 0
    BY <1>1, EmptySeq
  <2> HIDE DEF r, q
  <2>7. link[cur] = IF n = Len(q) THEN NULL ELSE q[n + 1]
    BY <1>3, <1>4
  <2>8. \A i \in 1 .. Len(r) : i < n => i \in 1 .. Len(q) /\ r[i] = q[i]
    BY <1>1, <1>5
  <2>9. \A i \in 1 .. Len(r) : ~(i < n) => i + 1 \in 1 .. Len(q) /\ r[i] = q[i + 1]
    BY <1>1, <1>5
  <2>10. head'["large"] = IF r = <<>> THEN NULL ELSE r[1]
    <3>1. CASE n = 1
      <4>1. CASE Len(q) = 1
        <5>1. head'["large"] = NULL /\ Len(r) = 0
          BY <1>5, <2>4, <2>7, <3>1, <4>1
        <5>2. QED
          BY <2>5, <5>1
      <4>2. CASE Len(q) # 1
        <5>1. Len(r) # 0 /\ 1 \in 1 .. Len(r) /\ ~(1 < n) /\ 1 # Len(q) /\ n + 1 = 1 + 1
          BY <1>1, <1>3, <1>5, <3>1, <4>2
        <5>2. r[1] = q[1 + 1]
          BY <2>9, <5>1
        <5>3. head'["large"] = q[1 + 1]
          BY <2>4, <2>7, <3>1, <5>1
        <5>4. QED
          BY <2>5, <5>1, <5>2, <5>3
      <4>3. QED
        BY <4>1, <4>2
    <3>2. CASE n # 1
      <4>1. Len(r) # 0 /\ Len(q) # 0 /\ 1 \in 1 .. Len(r) /\ 1 < n
        BY <1>1, <1>3, <1>5, <3>2
      <4>2. r[1] = q[1] /\ r # <<>> /\ q # <<>>
        BY <2>5, <2>6, <2>8, <4>1
      <4>3. QED
        BY <1>4, <2>4, <3>2, <4>2
    <3>3. QED
      BY <3>1, <3>2
  <2>11. ASSUME NEW i \in 1 .. Len(r)
         PROVE  /\ r[i] # cur /\ r[i] \in FreeOf("large") /\ r[i] \in Block
                /\ n # 1 /\ r[i] = prev => i = n - 1
    <3>1. CASE i < n
      <4>1. r[i] = q[i] /\ i \in 1 .. Len(q) /\ i # n
        BY <2>8, <3>1
      <4>2. r[i] # cur /\ r[i] \in FreeOf("large")
        BY <1>3, <1>4, <4>1
      <4>3. n # 1 /\ r[i] = prev => i = n - 1
        BY <1>4, <1>9, <4>1
      <4>4. QED
        BY <4>2, <4>3, CarvedBlocks DEF FreeOf
    <3>2. CASE ~(i < n)
      <4>1. r[i] = q[i + 1] /\ i + 1 \in 1 .. Len(q) /\ i + 1 # n /\ i + 1 # n - 1
        BY <1>1, <1>5, <2>9, <3>2
      <4>2. r[i] # cur /\ r[i] \in FreeOf("large")
        BY <1>3, <1>4, <4>1
      <4>3. n # 1 => r[i] # prev
        BY <1>4, <1>9, <4>1
      <4>4. QED
        BY <4>2, <4>3, CarvedBlocks DEF FreeOf
    <3>3. QED
      BY <3>1, <3>2
  <2>12. ASSUME NEW i \in 1 .. Len(r)
         PROVE  link'[r[i]] = IF i = Len(r) THEN NULL ELSE r[i + 1]
    <3>1. CASE i = n - 1
      <4>1. n # 1 /\ n - 1 = i /\ i < n /\ r[i] = q[i]
        BY <1>1, <2>8, <3>1
      <4>2. r[i] = prev /\ link'[r[i]] = IF n = Len(q) THEN NULL ELSE q[n + 1]
        BY <1>9, <2>3, <2>7, <4>1
      <4>3. CASE i = Len(r)
        BY <1>1, <1>5, <3>1, <4>2, <4>3
      <4>4. CASE i # Len(r)
        <5>1. i + 1 \in 1 .. Len(r) /\ ~(i + 1 < n) /\ i + 1 = n /\ n # Len(q)
          BY <1>1, <1>5, <3>1, <4>4
        <5>2. r[i + 1] = q[n + 1]
          BY <2>9, <5>1
        <5>3. QED
          BY <4>2, <4>4, <5>1, <5>2
      <4>5. QED
        BY <4>3, <4>4
    <3>2. CASE i < n - 1
      <4>1. link'[r[i]] = link[r[i]]
        <5>1. i # n - 1
          BY <3>2
        <5>2. QED
          BY <2>2, <2>11, <5>1
      <4>2. i < n /\ i \in 1 .. Len(q) /\ i # Len(q) /\ i + 1 \in 1 .. Len(r) /\ i + 1 < n /\ i # Len(r)
        BY <1>1, <1>5, <3>2
      <4>3. r[i] = q[i] /\ r[i + 1] = q[i + 1]
        BY <2>8, <4>2
      <4>4. QED
        BY <1>4, <4>1, <4>2, <4>3
    <3>3. CASE ~(i < n)
      <4>1. i # n - 1 /\ i + 1 \in 1 .. Len(q) /\ r[i] = q[i + 1]
        BY <1>1, <2>9, <3>3
      <4>2. link'[r[i]] = IF i + 1 = Len(q) THEN NULL ELSE q[i + 1 + 1]
        BY <1>4, <2>2, <2>11, <4>1
      <4>3. CASE i = Len(r)
        BY <1>1, <1>5, <4>2, <4>3
      <4>4. CASE i # Len(r)
        <5>1. i + 1 \in 1 .. Len(r) /\ ~(i + 1 < n) /\ i + 1 # Len(q)
          BY <1>1, <1>5, <3>3, <4>4
        <5>2. QED
          BY <2>9, <4>2, <4>4, <5>1
      <4>5. QED
        BY <4>3, <4>4
    <3>4. QED
      BY <1>1, <3>1, <3>2, <3>3
  <2>13. ASSUME NEW i \in 1 .. Len(r), NEW j \in 1 .. Len(r), r[i] = r[j] PROVE i = j
    <3>1. CASE i < n /\ j < n
      BY <1>4, <2>8, <2>13, <3>1
    <3>2. CASE i < n /\ ~(j < n)
      <4>1. i = j + 1
        BY <1>4, <2>8, <2>9, <2>13, <3>2
      <4>2. QED
        BY <1>1, <1>5, <3>2, <4>1
    <3>3. CASE ~(i < n) /\ j < n
      <4>1. j = i + 1
        BY <1>4, <2>8, <2>9, <2>13, <3>3
      <4>2. QED
        BY <1>1, <1>5, <3>3, <4>1
    <3>4. CASE ~(i < n) /\ ~(j < n)
      <4>1. i + 1 = j + 1
        BY <1>4, <2>9, <2>13, <3>4
      <4>2. QED
        BY <1>1, <1>5, <4>1
    <3>5. QED
      BY <3>1, <3>2, <3>3, <3>4
  <2>14. \A i \in 1 .. Len(r) : r[i] \in FreeOf("large")'
    BY <1>1, <1>8, <2>11
  <2>15. ASSUME NEW x \in FreeOf("large")' PROVE \E i \in 1 .. Len(r) : x = r[i]
    <3>1. x \in FreeOf("large") /\ x # cur
      BY <1>1, <1>8
    <3>2. PICK i \in 1 .. Len(q) : x = q[i]
      BY <1>4, <3>1
    <3>3. i # n
      BY <1>3, <3>1, <3>2
    <3>4. CASE i < n
      <4>1. i \in 1 .. Len(r)
        BY <1>1, <1>5, <3>4
      <4>2. QED
        BY <2>8, <3>2, <3>4, <4>1
    <3>5. CASE ~(i < n)
      <4>1. i - 1 \in 1 .. Len(r) /\ ~(i - 1 < n) /\ i - 1 + 1 = i
        BY <1>1, <1>5, <3>3, <3>5
      <4>2. x = r[i - 1]
        BY <2>9, <3>2, <4>1
      <4>3. QED
        BY <4>1, <4>2
    <3>6. QED
      BY <3>4, <3>5
  <2>16. QED
    BY <2>1, <2>10, <2>12, <2>13, <2>14, <2>15 DEF Linked
<1>14. QED
  BY <1>12, <1>13

-----------------------------------------------------------------------------
(* Every step keeps the types. *)

LEMMA AdvanceType ==
  ASSUME Typed, cur \in Carved, Advance, carved' = carved, pc \in {"clear", "sweep"}
  PROVE  cur' \in 0 .. carved' + 1 /\ cur' # NULL /\ pc' \in {"clear", "sweep", "wild"}
BY CarvedBlocks DEF Advance, Carved, NULL

LEMMA ValueType ==
  ASSUME Typed, NEW c \in Cells
  PROVE  Value(c) \in Seq(Byte)
BY EmptySeq, CarvedBlocks DEF Typed, HeapTyped, Value, Target

LEMMA LargeIsLong ==
  ASSUME NEW s \in Seq(Byte), ClassOf(Len(s)) = "large"
  PROVE  s # <<>>
BY EmptySeq, SizeAssumption DEF ClassOf

LEMMA RequestText ==
  ASSUME Typed, pc = "fit"
  PROVE  req.cell \in Cells /\ req.text \in Seq(Byte) /\ req.text # <<>>
BY LargeIsLong DEF Typed, ScanTyped

LEMMA FitTakeTyped == ASSUME Typed, AllLinked, OnList, FitTake PROVE Typed'
<1>1. cur \in Carved /\ cur \in Block
  BY ScanOnObject DEF FitTake
<1>2. req.cell \in Cells /\ req.text \in Seq(Byte)
  BY RequestText DEF FitTake
<1>3. Reuse(req.cell, cur, req.text) /\ UNCHANGED arena /\ UNCHANGED rooted
  BY DEF FitTake, EndFit
<1>4. HeapTyped' /\ pc' \in {"run", "wild"}
  BY <1>1, <1>2, <1>3, ReuseTyped
<1>5. Carved' = Carved /\ Target' = Target /\ carved' = carved
  BY <1>3 DEF arena, Carved, Target
<1>6. link[cur] \in Target /\ NULL \in Target
  BY <1>1 DEF Typed, ListsTyped, Target
<1>7. head' \in [Class -> Target] /\ link' \in [Block -> Target]
  <2>1. CASE prev = NULL
    BY <1>6, <2>1 DEF FitTake, Unlink, Typed, ListsTyped
  <2>2. CASE prev # NULL
    BY <1>6, <2>2 DEF FitTake, Unlink, Typed, ListsTyped
  <2>3. QED
    BY <2>1, <2>2
<1>8. ListsTyped'
  BY <1>5, <1>7, FitTakeSeq DEF ListsTyped
<1>9. req' = NoReq /\ prev' = NULL /\ cur' = NULL
  BY DEF FitTake, EndFit
<1>10. req' \in [cell : Cells \cup {NULL}, text : Seq(Byte)]
  BY <1>9, EmptySeq DEF NoReq
<1>11. cur' \in 0 .. carved' + 1
  BY <1>5, <1>9, CarvedBlocks DEF NULL
<1>12. ScanTyped'
  BY <1>3, <1>4, <1>5, <1>6, <1>9, <1>10, <1>11 DEF Typed, ScanTyped
<1>13. QED
  BY <1>4, <1>8, <1>12 DEF Typed

LEMMA FitNoneTyped == ASSUME Typed, FitNone PROVE Typed'
<1>1. req.cell \in Cells /\ req.text \in Seq(Byte) /\ req.text # <<>>
  BY RequestText DEF FitNone
<1>2. HeapTyped' /\ (carved' = carved \/ carved' = carved + 1)
  BY <1>1, BumpTyped DEF FitNone
<1>3. Target \subseteq Target' /\ Carved \subseteq Carved'
  BY <1>2, TargetGrows
<1>4. ListsTyped'
  BY <1>3 DEF Typed, ListsTyped, FitNone, lists
<1>5. req' = NoReq /\ prev' = NULL /\ cur' = NULL /\ pc' = "run" /\ UNCHANGED rooted
  BY DEF FitNone, EndFit
<1>6. req' \in [cell : Cells \cup {NULL}, text : Seq(Byte)]
  BY <1>5, EmptySeq DEF NoReq
<1>7. cur' \in 0 .. carved' + 1
  BY <1>2, <1>5, CarvedBlocks DEF NULL
<1>8. ScanTyped'
  BY <1>3, <1>5, <1>6, <1>7 DEF Typed, ScanTyped, Target
<1>9. QED
  BY <1>2, <1>4, <1>8 DEF Typed

(* A step of a collection that leaves the lists alone. *)
LEMMA WalkTyped ==
  ASSUME Typed, UNCHANGED <<arena, lists, text, str, req>>, prev' = prev,
         mark' \in [Block -> Mark], cur' \in 0 .. carved + 1,
         pc' \in {"run", "clear", "sweep", "wild"}, pc' \in {"clear", "sweep"} => cur' # NULL,
         rooted' \subseteq Carved
  PROVE  Typed'
BY DEF Typed, HeapTyped, ListsTyped, ScanTyped, arena, lists, Target, Carved

LEMMA SweepFreeTyped ==
  ASSUME Typed, SweepOne, mark[cur] = "clear"
  PROVE  Typed'
<1>1. cur \in Carved /\ cur \in Block /\ free_string_object(cur)
  BY CarvedBlocks DEF SweepOne
<1>2. carved' = carved /\ Carved' = Carved /\ Target' = Target
  BY DEF SweepOne, arena, Carved, Target
<1>3. PICK k \in Class : k = ClassOf(Len(text[cur]))
  BY DEF ClassOf, Class
<1>4. text[cur] \in Seq(Byte)
  BY <1>1 DEF Typed, HeapTyped
<1>5. HeapTyped'
  BY <1>1, <1>2, <1>4, GarbledLen
     DEF Typed, HeapTyped, free_string_object, SweepOne, arena, Mark
<1>6. ListsTyped'
  <2>1. Sanitized(k, mark') \in Target
    BY SanitizedType
  <2>2. <<cur>> \o (IF link'[cur] = NULL THEN <<>> ELSE freeSeq[k]) \in Seq(Block)
    BY <1>1, EmptySeq, ConcatProperties DEF Typed, ListsTyped
  <2>3. QED
    BY <1>1, <1>2, <1>3, <2>1, <2>2 DEF Typed, ListsTyped, free_string_object, Target
<1>7. cur' \in 0 .. carved' + 1 /\ cur' # NULL /\ pc' \in {"clear", "sweep", "wild"}
  BY <1>1, <1>2, AdvanceType DEF SweepOne
<1>8. ScanTyped'
  BY <1>2, <1>7 DEF Typed, ScanTyped, SweepOne
<1>9. QED
  BY <1>5, <1>6, <1>8 DEF Typed

LEMMA LiteralType == Literals \subseteq Seq(Byte)
<1>1. Chars \subseteq Byte
  BY DEF Byte
<1>2. ASSUME NEW s \in Literals PROVE s \in Seq(Byte)
  <2>1. s \in Seq(Chars)
    BY ProgramAssumption DEF Text
  <2>2. QED
    BY <1>1, <2>1, SeqMonotonic
<1>3. QED
  BY <1>2

LEMMA AssignTyped ==
  ASSUME Typed, NEW c \in Cells, NEW b \in Target, Assign(c, b)
  PROVE  Typed'
BY DEF Assign, Typed, HeapTyped, ListsTyped, ScanTyped, arena, lists, scan, Target, Carved

LEMMA NextTyped == ASSUME Typed, AllLinked, OnList, Next PROVE Typed'
<1>1. CASE FitSkip
  BY <1>1, FitSkipTyped
<1>2. CASE FitTake
  BY <1>2, FitTakeTyped
<1>3. CASE FitNone
  BY <1>3, FitNoneTyped
<1>4. CASE ClearOne
  <2>1. cur \in Carved /\ cur \in Block /\ pc = "clear" /\ Advance /\ carved' = carved
    BY <1>4, CarvedBlocks DEF ClearOne, arena
  <2>2. cur' \in 0 .. carved + 1 /\ cur' # NULL /\ pc' \in {"clear", "sweep", "wild"}
    BY <2>1, AdvanceType
  <2>3. mark' \in [Block -> Mark]
    BY <1>4, <2>1 DEF ClearOne, Typed, HeapTyped, Mark
  <2>4. rooted' \subseteq Carved
    BY <1>4 DEF ClearOne, Typed, ScanTyped
  <2>5. QED
    BY <1>4, <2>2, <2>3, <2>4, WalkTyped DEF ClearOne
<1>5. ASSUME NEW M \in SUBSET Unmarked, MarkRoots(M) PROVE Typed'
  <2>1. mark' \in [Block -> Mark] /\ rooted' \subseteq Carved
    BY <1>5 DEF MarkRoots, Typed, HeapTyped, Mark, Unmarked
  <2>2. cur' \in 0 .. carved + 1 /\ cur' # NULL /\ pc' = "sweep"
    BY <1>5, CarvedBlocks DEF MarkRoots, NULL
  <2>3. QED
    BY <1>5, <2>1, <2>2, WalkTyped DEF MarkRoots
<1>6. CASE SweepOne
  <2>1. CASE mark[cur] = "clear"
    BY <1>6, <2>1, SweepFreeTyped
  <2>2. CASE mark[cur] # "clear"
    <3>1. cur \in Carved /\ pc = "sweep" /\ Advance /\ carved' = carved
      BY <1>6 DEF SweepOne, arena
    <3>2. cur' \in 0 .. carved + 1 /\ cur' # NULL /\ pc' \in {"clear", "sweep", "wild"}
      BY <3>1, AdvanceType
    <3>3. mark' \in [Block -> Mark] /\ rooted' \subseteq Carved
      BY <1>6, <2>2 DEF SweepOne, Typed, HeapTyped, ScanTyped
    <3>4. QED
      BY <1>6, <2>2, <3>2, <3>3, WalkTyped DEF SweepOne
  <2>3. QED
    BY <2>1, <2>2
<1>7. CASE EndSweep
  <2>1. cur' \in 0 .. carved + 1 /\ pc' = "run" /\ mark' \in [Block -> Mark] /\ rooted' \subseteq Carved
    BY <1>7, CarvedBlocks DEF EndSweep, Typed, HeapTyped, NULL
  <2>2. QED
    BY <1>7, <2>1, WalkTyped DEF EndSweep
<1>8. CASE StartCycle
  <2>1. /\ cur' \in 0 .. carved + 1 /\ cur' # NULL /\ pc' = "clear"
        /\ mark' \in [Block -> Mark] /\ rooted' \subseteq Carved
    BY <1>8, CarvedBlocks DEF StartCycle, Typed, HeapTyped, ScanTyped, NULL
  <2>2. QED
    BY <1>8, <2>1, WalkTyped DEF StartCycle
<1>9. ASSUME NEW c \in Cells, Drop(c) PROVE Typed'
  BY <1>9, AssignTyped DEF Drop, Target
<1>10. ASSUME NEW c \in Cells, NEW s \in Literals, New(c, s) PROVE Typed'
  BY <1>10, LiteralType, AllocTyped DEF New
<1>11. ASSUME NEW c \in Cells, NEW d \in Cells, Copy(c, d) PROVE Typed'
  BY <1>11, AssignTyped DEF Copy, Typed, HeapTyped
<1>12. ASSUME NEW c \in Cells, NEW d \in Cells, NEW e \in Cells, Concat(c, d, e) PROVE Typed'
  <2>1. Value(d) \in Seq(Byte) /\ Value(e) \in Seq(Byte)
    BY ValueType
  <2>2. Value(d) \o Value(e) \in Seq(Byte)
    BY <2>1, ConcatProperties
  <2>3. QED
    BY <1>12, <2>2, AllocTyped DEF Concat
<1>13. CASE MarkLost
  <2>1. carved' = carved /\ cur' = cur /\ pc' = "lost" /\ rooted' = rooted /\ mark' = mark
    BY <1>13 DEF MarkLost, arena, scan
  <2>2. QED
    BY <1>13, <2>1 DEF MarkLost, Typed, HeapTyped, ListsTyped, ScanTyped, Target, Carved,
       arena, lists, scan
<1>14. QED
  BY <1>1, <1>2, <1>3, <1>4, <1>5, <1>6, <1>7, <1>8, <1>9, <1>10, <1>11, <1>12, <1>13
     DEF Next, Runtime, Marker, Program

-----------------------------------------------------------------------------
(* Every step keeps the lists intact and the scan on its list. *)

LEMMA AllocLinked ==
  ASSUME Typed, AllLinked, NEW c \in Cells, NEW s \in Seq(Byte), Alloc(c, s)
  PROVE  AllLinked'
<1>1. CASE s = <<>>
  BY <1>1, FreeKept, AllKept DEF Alloc, Empty, Fail, arena
<1>2. CASE s # <<>> /\ ClassOf(Len(s)) = "large"
  <2>1. StartFit(c, s) /\ pc = "run"
    BY <1>2 DEF Alloc
  <2>2. "large" \in Class /\ Linked("large")
    BY <2>1 DEF AllLinked, Class
  <2>3. Sanitized("large", mark) = head["large"]
    BY <2>2, SanitizedHead
  <2>4. head' = head
    BY <2>1, <2>3 DEF StartFit, Typed, ListsTyped
  <2>5. lists' = lists
    BY <2>1, <2>4 DEF StartFit, lists
  <2>6. QED
    BY <2>1, <2>5, FreeKept, AllKept DEF StartFit, arena
<1>3. CASE s # <<>> /\ ClassOf(Len(s)) # "large"
  <2>1. TakeHead(c, ClassOf(Len(s)), s) /\ pc = "run" /\ ClassOf(Len(s)) \in Class
    BY <1>3 DEF Alloc, ClassOf, Class
  <2>2. QED
    BY <1>3, <2>1, TakeHeadLinked DEF AllLinked
<1>4. QED
  BY <1>1, <1>2, <1>3

LEMMA AssignLinked ==
  ASSUME AllLinked, NEW c \in Cells, NEW b, Assign(c, b)
  PROVE  AllLinked'
BY FreeKept, AllKept DEF Assign, arena

LEMMA NextLinked == ASSUME Typed, AllLinked, OnList, Next PROVE AllLinked'
<1>1. CASE FitSkip
  BY <1>1, FreeKept, AllKept DEF FitSkip, arena
<1>2. CASE FitTake
  BY <1>2, FitTakeLinked DEF AllLinked
<1>3. CASE FitNone
  <2>1. req.cell \in Cells /\ req.text \in Seq(Byte) /\ req.text # <<>> /\ pc # "wild"
    BY <1>3, RequestText DEF FitNone
  <2>2. Bump(req.cell, req.text) /\ lists' = lists
    BY <1>3 DEF FitNone
  <2>3. QED
    BY <2>1, <2>2, BumpKeepsFree, AllKept
<1>4. CASE ClearOne
  <2>1. cur \in Block /\ mark' = [mark EXCEPT ![cur] = IF @ = "set" THEN "clear" ELSE @]
    BY <1>4, CarvedBlocks DEF ClearOne
  <2>2. \A b \in Carved : mark'[b] = "free" <=> mark[b] = "free"
    BY <2>1, CarvedBlocks DEF Typed, HeapTyped
  <2>3. pc # "wild" /\ lists' = lists /\ text' = text /\ carved' = carved
    BY <1>4 DEF ClearOne, arena
  <2>4. QED
    BY <2>2, <2>3, FreeKept, AllKept
<1>5. ASSUME NEW M \in SUBSET Unmarked, MarkRoots(M) PROVE AllLinked'
  <2>1. \A b \in Carved : mark'[b] = "free" <=> mark[b] = "free"
    BY <1>5, CarvedBlocks DEF MarkRoots, Unmarked
  <2>2. pc # "wild" /\ lists' = lists /\ text' = text /\ carved' = carved
    BY <1>5 DEF MarkRoots, arena
  <2>3. QED
    BY <2>1, <2>2, FreeKept, AllKept
<1>6. CASE SweepOne
  <2>1. CASE mark[cur] = "clear"
    <3>1. cur \in Carved /\ free_string_object(cur) /\ carved' = carved
      BY <1>6, <2>1 DEF SweepOne, arena
    <3>2. \A k \in Class : Linked(k)
      BY <1>6 DEF AllLinked, SweepOne
    <3>3. QED
      BY <2>1, <3>1, <3>2, FreeObjectLinked DEF AllLinked
  <2>2. CASE mark[cur] # "clear"
    <3>1. pc # "wild" /\ UNCHANGED <<lists, text, mark, carved>>
      BY <1>6, <2>2 DEF SweepOne, arena
    <3>2. QED
      BY <3>1, FreeKept, AllKept
  <2>3. QED
    BY <2>1, <2>2
<1>7. CASE EndSweep
  BY <1>7, FreeKept, AllKept DEF EndSweep, arena
<1>8. CASE StartCycle
  BY <1>8, FreeKept, AllKept DEF StartCycle, arena
<1>9. ASSUME NEW c \in Cells, Drop(c) PROVE AllLinked'
  BY <1>9, AssignLinked DEF Drop
<1>10. ASSUME NEW c \in Cells, NEW s \in Literals, New(c, s) PROVE AllLinked'
  BY <1>10, LiteralType, AllocLinked DEF New
<1>11. ASSUME NEW c \in Cells, NEW d \in Cells, Copy(c, d) PROVE AllLinked'
  BY <1>11, AssignLinked DEF Copy
<1>12. ASSUME NEW c \in Cells, NEW d \in Cells, NEW e \in Cells, Concat(c, d, e) PROVE AllLinked'
  <2>1. Value(d) \in Seq(Byte) /\ Value(e) \in Seq(Byte)
    BY ValueType
  <2>2. Value(d) \o Value(e) \in Seq(Byte)
    BY <2>1, ConcatProperties
  <2>3. QED
    BY <1>12, <2>2, AllocLinked DEF Concat
<1>13. CASE MarkLost
  BY <1>13, FreeKept, AllKept DEF MarkLost, arena
<1>14. QED
  BY <1>1, <1>2, <1>3, <1>4, <1>5, <1>6, <1>7, <1>8, <1>9, <1>10, <1>11, <1>12, <1>13
     DEF Next, Runtime, Marker, Program

(* The steps that leave the heap in a scan: its start and its move to the   *)
(* next object.                                                            *)
LEMMA ScanSteps ==
  ASSUME Next, pc' = "fit"
  PROVE  \/ FitSkip
         \/ /\ pc = "run"
            /\ \E c \in Cells : \/ \E s \in Literals : Alloc(c, s) /\ StartFit(c, s)
                                \/ \E d, e \in Cells : /\ Alloc(c, Value(d) \o Value(e))
                                                       /\ StartFit(c, Value(d) \o Value(e))
<1>1. ASSUME NEW c \in Cells, NEW s, Alloc(c, s) PROVE StartFit(c, s) /\ pc = "run"
  BY <1>1 DEF Alloc, Empty, TakeHead, Bump, Fail, Reuse
<1>2. pc # "wild" /\ (pc = "clear" => pc' # "fit") /\ (pc = "sweep" => pc' # "fit")
  BY DEF Next, Runtime, Marker, Program, FitSkip, FitTake, FitNone, ClearOne, MarkRoots,
         MarkLost, SweepOne, EndSweep, StartCycle, Drop, Copy, Assign, New, Concat, Alloc, Advance
<1>3. CASE Runtime \/ Marker
  BY <1>2, <1>3 DEF Runtime, Marker, FitTake, FitNone, ClearOne, MarkRoots, MarkLost, SweepOne,
         EndSweep, Reuse
<1>4. CASE Program
  BY <1>1, <1>4 DEF Program, StartCycle, Drop, Copy, Assign, New, Concat
<1>5. QED
  BY <1>3, <1>4 DEF Next

LEMMA StartFitOnList ==
  ASSUME Typed, AllLinked, pc = "run", NEW c, NEW s, StartFit(c, s)
  PROVE  OnList'
<1> DEFINE q == freeSeq["large"]
<1>1. "large" \in Class /\ Linked("large")
  BY DEF AllLinked, Class
<1>2. /\ Sanitized("large", mark) = head["large"] /\ (head["large"] = NULL <=> q = <<>>)
      /\ q # <<>> => head["large"] = q[1]
  BY <1>1, SanitizedHead
<1>3. Len(q) \in Nat /\ (q = <<>> <=> Len(q) = 0)
  BY <1>1, ListType
<1>4. head' = head
  BY <1>2 DEF StartFit, Typed, ListsTyped
<1>5. freeSeq' = freeSeq /\ cur' = head["large"] /\ prev' = NULL
  BY <1>4 DEF StartFit
<1>6. 1 \in 1 .. Len(q) + 1 /\ (1 = Len(q) + 1 <=> q = <<>>) /\ 1 .. 1 - 1 = {}
  BY <1>3
<1>7. cur' = IF 1 = Len(q) + 1 THEN NULL ELSE q[1]
  BY <1>2, <1>5, <1>6
<1>8. ScanAt(1)'
  BY <1>5, <1>6, <1>7 DEF ScanAt
<1>9. QED
  BY <1>5, <1>6, <1>8 DEF OnList

LEMMA FitSkipOnList ==
  ASSUME Typed, AllLinked, OnList, FitSkip
  PROVE  OnList'
<1> DEFINE q == freeSeq["large"]
<1>1. "large" \in Class /\ Linked("large")
  BY DEF AllLinked, Class, FitSkip
<1>2. PICK n \in 1 .. Len(q) : ScanAt(n) /\ cur = q[n]
  BY ScanOnObject DEF FitSkip
<1>3. Len(q) \in Nat
  BY <1>1, ListType
<1>4. /\ freeSeq' = freeSeq /\ text' = text /\ req' = req /\ prev' = cur /\ cur' = link[cur]
      /\ ~(Len(text[cur]) >= Len(req.text))
  BY DEF FitSkip, Fits, lists
<1>5. link[cur] = IF n = Len(q) THEN NULL ELSE q[n + 1]
  BY <1>1, <1>2 DEF Linked
<1>6. n + 1 \in 1 .. Len(q) + 1 /\ (n + 1 = Len(q) + 1 <=> n = Len(q)) /\ n + 1 # 1 /\ n + 1 - 1 = n
  BY <1>3
<1>7. Len(text[cur]) < Len(req.text)
  <2>1. cur \in Block /\ req.text \in Seq(Byte)
    BY ScanOnObject, RequestText DEF FitSkip
  <2>2. Len(text[cur]) \in Nat /\ Len(req.text) \in Nat
    BY <2>1 DEF Typed, HeapTyped
  <2>3. QED
    BY <1>4, <2>2
<1>8. \A i \in 1 .. n : Len(text[q[i]]) < Len(req.text)
  BY <1>2, <1>3, <1>7 DEF ScanAt
<1>9. ScanAt(n + 1)'
  BY <1>2, <1>4, <1>5, <1>6, <1>8 DEF ScanAt
<1>10. QED
  BY <1>4, <1>6, <1>9 DEF OnList

LEMMA NextOnList == ASSUME Typed, AllLinked, OnList, Next PROVE OnList'
<1>1. CASE pc' = "fit"
  BY <1>1, ScanSteps, StartFitOnList, FitSkipOnList
<1>2. CASE pc' # "fit"
  BY <1>2 DEF OnList
<1>3. QED
  BY <1>1, <1>2


-----------------------------------------------------------------------------
(* The marks. *)

(* Outside a collection no step leads into the walks but the one that       *)
(* starts them, and no walk is left but at its end.                        *)
LEMMA WalkSteps ==
  ASSUME Next
  PROVE  /\ pc' = "clear" => StartCycle \/ ClearOne
         /\ pc' = "sweep" => SweepOne \/ \E M \in SUBSET Unmarked : MarkRoots(M)
<1>1. CASE Runtime
  <2>1. FitSkip \/ FitTake \/ FitNone \/ EndSweep => pc' \notin {"clear", "sweep"}
    BY DEF FitSkip, FitTake, FitNone, EndSweep, Reuse
  <2>2. (ClearOne => pc' # "sweep") /\ (SweepOne => pc' # "clear")
    BY DEF ClearOne, SweepOne, Advance
  <2>3. QED
    BY <1>1, <2>1, <2>2 DEF Runtime
<1>2. CASE Marker
  BY <1>2 DEF Marker, MarkRoots, MarkLost
<1>3. CASE Program
  <2>1. ASSUME NEW c \in Cells, NEW s, Alloc(c, s) PROVE pc' \notin {"clear", "sweep"}
    BY <2>1 DEF Alloc, Empty, TakeHead, StartFit, Reuse
  <2>2. QED
    BY <1>3, <2>1 DEF Program, StartCycle, Drop, Copy, Assign, New, Concat
<1>4. QED
  BY <1>1, <1>2, <1>3 DEF Next

LEMMA NextMarks == ASSUME Typed, MarksOrdered, Next PROVE MarksOrdered'
<1>1. CASE pc' = "clear"
  <2>1. CASE StartCycle
    BY <1>1, <2>1, CarvedBlocks DEF StartCycle, MarksOrdered, arena, Carved
  <2>2. CASE ClearOne
    <3>1. cur \in Carved /\ cur \in Block /\ pc = "clear" /\ Carved' = Carved
      BY <2>2, CarvedBlocks DEF ClearOne, arena, Carved
    <3>2. cur' = cur + 1
      BY <1>1, <2>2, <3>1 DEF ClearOne, Advance
    <3>3. ASSUME NEW b \in Carved, mark'[b] = "set" PROVE b >= cur + 1
      <4>1. b # cur /\ mark[b] = "set"
        BY <2>2, <3>1, <3>3, CarvedBlocks DEF ClearOne, Typed, HeapTyped
      <4>2. b >= cur
        BY <3>1, <4>1 DEF MarksOrdered
      <4>3. QED
        BY <3>1, <4>1, <4>2, CarvedBlocks DEF Carved
    <3>4. QED
      BY <1>1, <3>1, <3>2, <3>3 DEF MarksOrdered
  <2>3. QED
    BY <1>1, <2>1, <2>2, WalkSteps
<1>2. CASE pc' = "sweep"
  <2>1. CASE SweepOne
    <3>1. cur \in Carved /\ cur \in Block /\ pc = "sweep" /\ Carved' = Carved /\ rooted' = rooted
      BY <2>1, CarvedBlocks DEF SweepOne, arena, Carved
    <3>2. cur' = cur + 1
      BY <1>2, <2>1, <3>1 DEF SweepOne, Advance
    <3>3. mark' = IF mark[cur] = "clear" THEN [mark EXCEPT ![cur] = "free"] ELSE mark
      BY <2>1 DEF SweepOne, free_string_object
    <3>4. ASSUME NEW b \in Carved
          PROVE  /\ mark'[b] = "set" => b \in rooted
                 /\ mark'[b] = "clear" => b >= cur + 1
      <4>1. CASE b = cur
        BY <3>1, <3>3, <4>1 DEF MarksOrdered, Typed, HeapTyped
      <4>2. CASE b # cur
        <5>1. mark'[b] = mark[b]
          BY <3>1, <3>3, <4>2, CarvedBlocks DEF Typed, HeapTyped
        <5>2. mark[b] = "clear" => b >= cur
          BY <3>1 DEF MarksOrdered
        <5>3. mark[b] = "clear" => b >= cur + 1
          BY <3>1, <4>2, <5>2, CarvedBlocks DEF Carved
        <5>4. mark[b] = "set" => b \in rooted
          BY <3>1 DEF MarksOrdered
        <5>5. QED
          BY <5>1, <5>3, <5>4
      <4>3. QED
        BY <4>1, <4>2
    <3>5. QED
      BY <1>2, <3>1, <3>2, <3>4 DEF MarksOrdered
  <2>2. ASSUME NEW M \in SUBSET Unmarked, MarkRoots(M) PROVE MarksOrdered'
    <3>1. /\ Carved' = Carved /\ cur' = 1 /\ pc = "clear" /\ cur \notin Carved /\ rooted' = M
          /\ \A b \in Carved : mark'[b] = IF b \in M THEN "set" ELSE mark[b]
      BY <2>2, CarvedBlocks DEF MarkRoots, arena, Carved
    <3>2. carved \in Nat /\ cur \in 0 .. carved + 1 /\ cur # NULL
      BY <3>1, CarvedBlocks DEF Typed, ScanTyped
    <3>3. cur = carved + 1
      BY <3>1, <3>2 DEF Carved, NULL
    <3>4. \A b \in Carved : mark[b] # "set"
      BY <3>1, <3>2, <3>3 DEF MarksOrdered, Carved
    <3>5. \A b \in Carved : b >= 1 /\ (mark'[b] = "set" => b \in M)
      BY <3>1, <3>2, <3>4 DEF Carved
    <3>6. QED
      BY <1>2, <3>1, <3>5 DEF MarksOrdered
  <2>3. QED
    BY <1>2, <2>1, <2>2, WalkSteps
<1>3. CASE pc' \notin {"clear", "sweep"}
  BY <1>3 DEF MarksOrdered
<1>4. QED
  BY <1>1, <1>2, <1>3

(* Where the mark phase finds what the program holds, the sweep meets a mark *)
(* on it: it is not free, so it is shown or marked already, and the sweep    *)
(* changes no mark that is set.                                             *)
LEMMA NextHeld ==
  ASSUME Covers, Typed, HeldMarked, HeldStringsKept, Next
  PROVE  HeldMarked'
<1>1. CASE SweepOne
  <2>1. pc = "sweep" /\ str' = str /\ cur \in Carved /\ cur \in Block
    BY <1>1, CarvedBlocks DEF SweepOne
  <2>2. mark' = IF mark[cur] = "clear" THEN [mark EXCEPT ![cur] = "free"] ELSE mark
    BY <1>1 DEF SweepOne, free_string_object
  <2>3. ASSUME NEW c \in Cells, str[c] # NULL PROVE mark'[str[c]] = "set"
    <3>1. mark[str[c]] = "set" /\ str[c] \in Block
      BY <2>1, <2>3, CarvedBlocks DEF HeldMarked, Typed, HeapTyped, Target
    <3>2. QED
      BY <2>1, <2>2, <3>1 DEF Typed, HeapTyped
  <2>4. QED
    BY <2>1, <2>3 DEF HeldMarked
<1>2. ASSUME NEW M \in SUBSET Unmarked, MarkRoots(M) PROVE HeldMarked'
  <2>1. ASSUME NEW c \in Cells, str[c] # NULL PROVE mark'[str[c]] = "set"
    <3>1. str[c] \in Carved /\ str[c] \in Block
      BY <2>1, CarvedBlocks DEF Typed, HeapTyped, Target
    <3>2. str[c] \in InUse
      BY <3>1 DEF InUse
    <3>3. mark[str[c]] \in {"clear", "set"}
      BY <2>1, <3>1 DEF HeldStringsKept, Typed, HeapTyped, Mark
    <3>4. str[c] \in M \/ mark[str[c]] = "set"
      BY <1>2, <3>1, <3>2, <3>3 DEF MarkRoots, Unmarked
    <3>5. QED
      BY <1>2, <3>1, <3>4 DEF MarkRoots
  <2>2. QED
    BY <1>2, <2>1 DEF HeldMarked, MarkRoots
<1>3. CASE pc' # "sweep"
  BY <1>3 DEF HeldMarked
<1>4. QED
  BY <1>1, <1>2, <1>3, WalkSteps

LEMMA FailKept ==
  ASSUME Typed, HeldStringsKept, NEW c \in Cells, Fail(c)
  PROVE  HeldStringsKept'
BY DEF Fail, HeldStringsKept, Typed, HeapTyped

LEMMA BumpKept ==
  ASSUME Typed, HeldStringsKept, NEW c \in Cells, NEW s \in Seq(Byte), s # <<>>, Bump(c, s)
  PROVE  HeldStringsKept'
<1>1. CASE used + Len(s) + Overhead > ArenaBytes
  BY <1>1, FailKept DEF Bump
<1>2. CASE ~(used + Len(s) + Overhead > ArenaBytes)
  <2>1. Len(s) \in Nat /\ used \in Nat /\ Overhead \in Nat /\ ArenaBytes \in Nat
    BY SizeAssumption DEF Typed, HeapTyped
  <2>2. carved + 1 \in Block
    BY <1>2, <2>1, RoomBound
  <2>3. /\ mark' = [mark EXCEPT ![carved + 1] = "clear"]
        /\ str' = [str EXCEPT ![c] = carved + 1]
    BY <1>2 DEF Bump
  <2>4. QED
    BY <2>2, <2>3, CarvedBlocks DEF HeldStringsKept, Typed, HeapTyped, Target
<1>3. QED
  BY <1>1, <1>2

LEMMA ReuseKept ==
  ASSUME Typed, HeldStringsKept, NEW c \in Cells, NEW s, NEW b \in Carved, Reuse(c, b, s)
  PROVE  HeldStringsKept'
BY CarvedBlocks DEF Reuse, HeldStringsKept, Typed, HeapTyped, Target

LEMMA AllocKept ==
  ASSUME Typed, HeldStringsKept, NEW c \in Cells, NEW s \in Seq(Byte), Alloc(c, s)
  PROVE  HeldStringsKept'
<1>1. CASE s = <<>>
  BY <1>1, FailKept DEF Alloc, Empty
<1>2. CASE s # <<>> /\ ClassOf(Len(s)) = "large"
  BY <1>2 DEF Alloc, StartFit, HeldStringsKept
<1>3. CASE s # <<>> /\ ClassOf(Len(s)) # "large"
  <2>1. PICK k \in Class : TakeHead(c, k, s)
    BY <1>3 DEF Alloc, ClassOf, Class
  <2>2. CASE Sanitized(k, mark) = NULL
    BY <1>3, <2>1, <2>2, BumpKept DEF TakeHead
  <2>3. CASE Sanitized(k, mark) # NULL
    <3>1. Sanitized(k, mark) \in Carved
      BY <2>3, SanitizedType DEF Target
    <3>2. QED
      BY <2>1, <2>3, <3>1, ReuseKept DEF TakeHead
  <2>4. QED
    BY <2>2, <2>3
<1>4. QED
  BY <1>1, <1>2, <1>3

LEMMA AssignKept ==
  ASSUME Typed, HeldStringsKept, NEW c \in Cells, NEW b, Assign(c, b),
         b # NULL => mark[b] # "free"
  PROVE  HeldStringsKept'
BY DEF Assign, HeldStringsKept, Typed, HeapTyped

LEMMA NextKept ==
  ASSUME Typed, AllLinked, OnList, HeldStringsKept, HeldMarked, Next
  PROVE  HeldStringsKept'
<1>1. CASE FitSkip \/ EndSweep \/ StartCycle \/ MarkLost
  BY <1>1 DEF FitSkip, EndSweep, StartCycle, MarkLost, HeldStringsKept
<1>2. CASE FitTake
  <2>1. cur \in Carved /\ req.cell \in Cells
    BY <1>2, ScanOnObject, RequestText DEF FitTake
  <2>2. QED
    BY <1>2, <2>1, ReuseKept DEF FitTake
<1>3. CASE FitNone
  BY <1>3, RequestText, BumpKept DEF FitNone
<1>4. CASE ClearOne
  <2>1. /\ str' = str /\ cur \in Block
        /\ mark' = [mark EXCEPT ![cur] = IF @ = "set" THEN "clear" ELSE @]
    BY <1>4, CarvedBlocks DEF ClearOne
  <2>2. ASSUME NEW c \in Cells, str[c] # NULL PROVE mark'[str[c]] # "free"
    <3>1. str[c] \in Block /\ mark[str[c]] # "free"
      BY <2>2, CarvedBlocks DEF HeldStringsKept, Typed, HeapTyped, Target
    <3>2. QED
      BY <2>1, <3>1 DEF Typed, HeapTyped
  <2>3. QED
    BY <2>1, <2>2 DEF HeldStringsKept
<1>5. ASSUME NEW M \in SUBSET Unmarked, MarkRoots(M) PROVE HeldStringsKept'
  <2>1. ASSUME NEW c \in Cells, str[c] # NULL PROVE mark'[str[c]] # "free"
    <3>1. str[c] \in Block /\ mark[str[c]] # "free"
      BY <2>1, CarvedBlocks DEF HeldStringsKept, Typed, HeapTyped, Target
    <3>2. QED
      BY <1>5, <3>1 DEF MarkRoots
  <2>2. QED
    BY <1>5, <2>1 DEF MarkRoots, HeldStringsKept
<1>6. CASE SweepOne
  <2>1. /\ pc = "sweep" /\ str' = str /\ cur \in Block
        /\ mark' = IF mark[cur] = "clear" THEN [mark EXCEPT ![cur] = "free"] ELSE mark
    BY <1>6, CarvedBlocks DEF SweepOne, free_string_object
  <2>2. ASSUME NEW c \in Cells, str[c] # NULL PROVE mark'[str[c]] # "free"
    <3>1. str[c] \in Block /\ mark[str[c]] = "set"
      BY <2>1, <2>2, CarvedBlocks DEF HeldMarked, Typed, HeapTyped, Target
    <3>2. QED
      BY <2>1, <3>1 DEF Typed, HeapTyped
  <2>3. QED
    BY <2>1, <2>2 DEF HeldStringsKept
<1>9. ASSUME NEW c \in Cells, Drop(c) PROVE HeldStringsKept'
  BY <1>9, AssignKept DEF Drop
<1>10. ASSUME NEW c \in Cells, NEW s \in Literals, New(c, s) PROVE HeldStringsKept'
  BY <1>10, LiteralType, AllocKept DEF New
<1>11. ASSUME NEW c \in Cells, NEW d \in Cells, Copy(c, d) PROVE HeldStringsKept'
  BY <1>11, AssignKept DEF Copy, HeldStringsKept
<1>12. ASSUME NEW c \in Cells, NEW d \in Cells, NEW e \in Cells, Concat(c, d, e) PROVE HeldStringsKept'
  <2>1. Value(d) \in Seq(Byte) /\ Value(e) \in Seq(Byte)
    BY ValueType
  <2>2. Value(d) \o Value(e) \in Seq(Byte)
    BY <2>1, ConcatProperties
  <2>3. QED
    BY <1>12, <2>2, AllocKept DEF Concat
<1>13. QED
  BY <1>1, <1>2, <1>3, <1>4, <1>5, <1>6, <1>9, <1>10, <1>11, <1>12
     DEF Next, Runtime, Marker, Program


-----------------------------------------------------------------------------
(* Programs that are not Mixed: the headers. *)

LEMMA UniformSame ==
  ASSUME Uniform, UNCHANGED <<arena, text>>, pc' \in {"run", "clear", "sweep", "lost"}
  PROVE  Uniform'
BY DEF Uniform, arena, Carved

LEMMA BumpUniform ==
  ASSUME Typed, Uniform, NEW c \in Cells, NEW s \in Seq(Byte), s # <<>>, Bump(c, s), pc' = "run"
  PROVE  Uniform'
<1>1. CASE used + Len(s) + Overhead > ArenaBytes
  BY <1>1, UniformSame DEF Bump, Fail
<1>2. CASE ~(used + Len(s) + Overhead > ArenaBytes)
  <2>1. Len(s) \in Nat /\ used \in Nat /\ Overhead \in Nat /\ ArenaBytes \in Nat
    BY SizeAssumption DEF Typed, HeapTyped
  <2>2. carved + 1 \in Block /\ carved \in Nat
    BY <1>2, <2>1, RoomBound
  <2>3. /\ size' = [size EXCEPT ![carved + 1] = Len(s)]
        /\ text' = [text EXCEPT ![carved + 1] = s] /\ carved' = carved + 1
    BY <1>2 DEF Bump
  <2>4. Carved' = Carved \cup {carved + 1}
    BY <2>2, <2>3 DEF Carved
  <2>5. size'[carved + 1] = Len(s) /\ text'[carved + 1] = s
    BY <2>2, <2>3 DEF Typed, HeapTyped
  <2>6. \A b \in Carved : b # carved + 1 => size'[b] = size[b] /\ text'[b] = text[b]
    BY <2>2, <2>3, CarvedBlocks DEF Typed, HeapTyped
  <2>7. QED
    BY <2>4, <2>5, <2>6 DEF Uniform
<1>3. QED
  BY <1>1, <1>2

LEMMA ReuseUniform ==
  ASSUME Typed, Uniform, NEW c \in Cells, NEW s \in Seq(Byte), NEW b \in Carved,
         size[b] = Len(s), Reuse(c, b, s), UNCHANGED arena
  PROVE  Uniform'
<1>1. Len(s) \in Nat
  OBVIOUS
<1>2. pc' = "run" /\ text' = [text EXCEPT ![b] = s]
  BY <1>1 DEF Reuse
<1>3. \A x \in Carved : text'[x] = IF x = b THEN s ELSE text[x]
  BY <1>2, CarvedBlocks DEF Typed, HeapTyped
<1>4. QED
  BY <1>2, <1>3 DEF Uniform, arena, Carved

LEMMA AllocUniform ==
  ASSUME ~Mixed, Typed, AllLinked, Uniform, NEW c \in Cells, NEW s \in Seq(Byte), Alloc(c, s)
  PROVE  Uniform'
<1>1. CASE s = <<>>
  BY <1>1, UniformSame DEF Alloc, Empty, Fail
<1>2. CASE s # <<>> /\ ClassOf(Len(s)) = "large"
  BY <1>2 DEF Alloc, Orderly, StartFit, Uniform, arena, Carved
<1>3. CASE s # <<>> /\ ClassOf(Len(s)) # "large"
  <2>1. PICK k \in Class : TakeHead(c, k, s) /\ pc = "run" /\ k = ClassOf(Len(s)) /\ k # "large"
    BY <1>3 DEF Alloc, ClassOf, Class
  <2> DEFINE b == Sanitized(k, mark)
  <2>2. CASE b = NULL
    BY <1>3, <2>1, <2>2, BumpUniform DEF TakeHead
  <2>3. CASE b # NULL
    <3>1. b \in FreeOf(k)
      <4>1. Linked(k)
        BY <2>1 DEF AllLinked
      <4>2. QED
        BY <2>3, <4>1, SanitizedHead
    <3>2. b \in Carved /\ ClassOf(size[b]) = k
      BY <3>1 DEF FreeOf, Uniform
    <3>3. size[b] = Len(s)
      BY <2>1, <3>2 DEF Alloc, Orderly
    <3>4. Reuse(c, b, s) /\ UNCHANGED arena
      BY <2>1, <2>3 DEF TakeHead
    <3>5. QED
      BY <3>2, <3>3, <3>4, ReuseUniform
  <2>4. QED
    BY <2>2, <2>3
<1>4. QED
  BY <1>1, <1>2, <1>3

LEMMA NextUniform == ASSUME ~Mixed, Typed, AllLinked, OnList, Uniform, Next PROVE Uniform'
<1>1. CASE FitSkip
  BY <1>1 DEF FitSkip, Uniform, arena, Carved
<1>2. CASE FitTake
  <2>1. cur \in Carved /\ cur \in FreeOf("large") /\ cur \in Block
    BY <1>2, ScanOnObject DEF FitTake
  <2>2. req.cell \in Cells /\ req.text \in Seq(Byte)
    BY <1>2, RequestText DEF FitTake
  <2>3. size[cur] = Len(text[cur]) /\ ClassOf(size[cur]) = "large"
    BY <2>1 DEF Uniform, FreeOf
  <2>4. size[cur] <= Len(req.text)
    BY <1>2, <2>1, <2>3 DEF Uniform, FitTake
  <2>5. size[cur] >= Len(req.text)
    BY <1>2, <2>3 DEF FitTake, Fits
  <2>6. size[cur] = Len(req.text)
    <3>1. Len(req.text) \in Int /\ size[cur] \in Int
      BY <2>1, <2>2, SizeAssumption DEF Typed, HeapTyped
    <3>2. QED
      BY <2>4, <2>5, <3>1
  <2>7. QED
    BY <1>2, <2>1, <2>2, <2>6, ReuseUniform DEF FitTake
<1>3. CASE FitNone
  BY <1>3, RequestText, BumpUniform DEF FitNone
<1>4. CASE ClearOne
  <2>1. pc' = "clear"
    BY <1>4 DEF ClearOne, Advance, Uniform
  <2>2. QED
    BY <1>4, <2>1, UniformSame DEF ClearOne
<1>5. ASSUME NEW M \in SUBSET Unmarked, MarkRoots(M) PROVE Uniform'
  BY <1>5, UniformSame DEF MarkRoots
<1>6. CASE SweepOne
  <2>1. pc' = "sweep" /\ cur \in Carved /\ Carved' = Carved /\ size' = size
    BY <1>6 DEF SweepOne, Advance, Uniform, arena, Carved
  <2>2. CASE mark[cur] = "clear"
    <3>1. text' = [text EXCEPT ![cur] = Garbled(@)]
      BY <1>6, <2>2 DEF SweepOne, free_string_object
    <3>2. \A b \in Carved : Len(text'[b]) = Len(text[b])
      BY <2>1, <3>1, GarbledLen, CarvedBlocks DEF Typed, HeapTyped
    <3>3. QED
      BY <2>1, <3>2 DEF Uniform
  <2>3. CASE mark[cur] # "clear"
    BY <1>6, <2>1, <2>3, UniformSame DEF SweepOne
  <2>4. QED
    BY <2>2, <2>3
<1>7. CASE EndSweep
  BY <1>7, UniformSame DEF EndSweep
<1>8. CASE StartCycle
  BY <1>8, UniformSame DEF StartCycle
<1>9. ASSUME NEW c \in Cells, Drop(c) PROVE Uniform'
  BY <1>9, UniformSame DEF Drop, Assign
<1>10. ASSUME NEW c \in Cells, NEW s \in Literals, New(c, s) PROVE Uniform'
  BY <1>10, LiteralType, AllocUniform DEF New
<1>11. ASSUME NEW c \in Cells, NEW d \in Cells, Copy(c, d) PROVE Uniform'
  BY <1>11, UniformSame DEF Copy, Assign
<1>12. ASSUME NEW c \in Cells, NEW d \in Cells, NEW e \in Cells, Concat(c, d, e) PROVE Uniform'
  <2>1. Value(d) \in Seq(Byte) /\ Value(e) \in Seq(Byte)
    BY ValueType
  <2>2. Value(d) \o Value(e) \in Seq(Byte)
    BY <2>1, ConcatProperties
  <2>3. QED
    BY <1>12, <2>2, AllocUniform DEF Concat
<1>13. CASE MarkLost
  BY <1>13, UniformSame DEF MarkLost
<1>14. QED
  BY <1>1, <1>2, <1>3, <1>4, <1>5, <1>6, <1>7, <1>8, <1>9, <1>10, <1>11, <1>12, <1>13
     DEF Next, Runtime, Marker, Program

LEMMA NextAsked == ASSUME Asked, Next PROVE Asked'
<1>1. CASE FitSkip
  BY <1>1 DEF FitSkip, Asked, Value
<1>2. ASSUME NEW c \in Cells, NEW s, StartFit(c, s)
      PROVE  /\ req'.text = s /\ \A d \in Cells : Value(d)' = Value(d)
  BY <1>2 DEF StartFit, Value
<1>3. CASE pc' = "fit"
  BY <1>1, <1>2, <1>3, ScanSteps DEF Asked
<1>4. CASE pc' # "fit"
  BY <1>4 DEF Asked
<1>5. QED
  BY <1>3, <1>4

-----------------------------------------------------------------------------
(* The invariant holds in every state. *)

LEMMA InitInv == Init => IInv
<1> SUFFICES ASSUME Init PROVE IInv
  OBVIOUS
<1>1. Typed
  BY InitTyped
<1>2. AllLinked
  BY DEF Init, AllLinked, Linked, FreeOf, Carved
<1>3. OnList /\ MarksOrdered /\ Asked /\ HeldMarked /\ HeldStringsKept
  BY DEF Init, OnList, MarksOrdered, Asked, HeldMarked, HeldStringsKept
<1>4. Uniform
  BY DEF Init, Uniform, Carved
<1>5. QED
  BY <1>1, <1>2, <1>3, <1>4 DEF IInv

LEMMA StutterInv == ASSUME IInv, UNCHANGED vars PROVE IInv'
<1>1. Typed'
  BY DEF IInv, Typed, HeapTyped, ListsTyped, ScanTyped, Target, Carved, vars, arena, lists, scan
<1>2. AllLinked'
  BY FreeKept, AllKept DEF IInv, AllLinked, Carved, vars, arena, lists
<1>3. MarksOrdered' /\ Asked'
  BY DEF IInv, MarksOrdered, Asked, Value, Carved, vars, arena, lists, scan
<1>4. /\ ~Mixed => Uniform'
      /\ Covers => HeldMarked' /\ HeldStringsKept'
  BY DEF IInv, Uniform, HeldMarked, HeldStringsKept, Carved, vars, arena, lists, scan
<1>5. OnList'
  BY DEF IInv, OnList, ScanAt, vars, lists, scan
<1>6. QED
  BY <1>1, <1>2, <1>3, <1>4, <1>5 DEF IInv

LEMMA NextInv == IInv /\ [Next]_vars => IInv'
<1> SUFFICES ASSUME IInv, Next PROVE IInv'
  BY StutterInv
<1>1. Typed' /\ AllLinked' /\ OnList'
  BY NextTyped, NextLinked, NextOnList DEF IInv
<1>2. MarksOrdered' /\ Asked'
  BY NextMarks, NextAsked DEF IInv
<1>3. ~Mixed => Uniform'
  BY NextUniform DEF IInv
<1>4. Covers => HeldMarked' /\ HeldStringsKept'
  BY NextHeld, NextKept DEF IInv
<1>5. QED
  BY <1>1, <1>2, <1>3, <1>4 DEF IInv

LEMMA InvAlways == Spec => []IInv
BY InitInv, NextInv, PTL DEF Spec

(* Every variable of the string heap keeps its type, for every program: no  *)
(* link, list head or walk leaves the carved part of the arena.            *)
THEOREM TypeCorrect == Spec => []TypeOK
<1>1. IInv => TypeOK
  BY TypedIsTypeOK DEF IInv
<1>2. QED
  BY InvAlways, <1>1, PTL


(* In a program that is not Mixed, every free object is on the list of its  *)
(* class, once, and the links lead through the list to a null, whatever is  *)
(* made, dropped, marked and swept.                                        *)
THEOREM ListsIntact == ASSUME ~Mixed PROVE Spec => []FreeListsIntact
<1>1. IInv => FreeListsIntact
  <2> SUFFICES ASSUME IInv, NEW k \in Class
               PROVE  LET q == freeSeq[k] IN
                      /\ head[k] = IF q = <<>> THEN NULL ELSE q[1]
                      /\ \A i \in DOMAIN q : link[q[i]] = IF i = Len(q) THEN NULL ELSE q[i + 1]
                      /\ \A i, j \in DOMAIN q : q[i] = q[j] => i = j
                      /\ {q[i] : i \in DOMAIN q} = {b \in Carved : mark[b] = "free" /\ ClassOf(size[b]) = k}
    BY DEF FreeListsIntact
  <2>1. Linked(k) /\ DOMAIN freeSeq[k] = 1 .. Len(freeSeq[k])
    BY ListType DEF IInv, Uniform, AllLinked
  <2>2. {b \in Carved : mark[b] = "free" /\ ClassOf(size[b]) = k} = FreeOf(k)
    BY DEF IInv, Uniform, FreeOf
  <2>3. QED
    BY <2>1, <2>2 DEF Linked
<1>2. QED
  BY InvAlways, <1>1, PTL

(* In a program that is not Mixed no walk takes content for a header and no *)
(* content is copied over the next header.                                 *)
THEOREM HeadersKept == ASSUME ~Mixed PROVE Spec => []ArenaWalkable
<1>1. IInv => ArenaWalkable
  BY DEF IInv, Uniform, ArenaWalkable
<1>2. QED
  BY InvAlways, <1>1, PTL

(* If the mark phase finds every string the program holds, no cell refers    *)
(* to a freed object, whatever other objects are marked and whatever the    *)
(* sweeps free and the allocations reuse around it.                        *)
THEOREM HeldKept == ASSUME Covers PROVE Spec => []HeldStringsKept
<1>1. IInv => HeldStringsKept
  BY DEF IInv
<1>2. QED
  BY InvAlways, <1>1, PTL

(* A mark that the sweep meets was set in the same collection, in every     *)
(* program.                                                                *)
THEOREM FreshMarks == Spec => []MarksAreFresh
<1>1. IInv => MarksAreFresh
  BY DEF IInv, MarksOrdered, MarksAreFresh
<1>2. QED
  BY InvAlways, <1>1, PTL

-----------------------------------------------------------------------------
(* The action properties. *)

(* No sweep ends while an object is neither marked nor free, in every       *)
(* program: what the walk left behind cannot be allocated under it.        *)
THEOREM SweepsComplete == Spec => SweepIsComplete
<1>1. IInv /\ [Next]_vars => [pc = "sweep" /\ pc' = "run" => \A b \in Carved : mark[b] # "clear"]_vars
  <2> SUFFICES ASSUME IInv, Next, pc = "sweep", pc' = "run", NEW b \in Carved, mark[b] = "clear"
               PROVE  FALSE
    OBVIOUS
  <2>1. EndSweep
    <3>1. Runtime \/ Marker => EndSweep
      BY DEF Runtime, Marker, FitSkip, FitTake, FitNone, ClearOne, MarkRoots, MarkLost, SweepOne,
             Advance
    <3>2. ~Program
      BY DEF Program, StartCycle, Drop, Copy, Assign, New, Concat, Alloc
    <3>3. QED
      BY <3>1, <3>2 DEF Next
  <2>2. cur \notin Carved /\ cur \in 0 .. carved + 1 /\ cur # NULL /\ carved \in Nat
    BY <2>1, CarvedBlocks DEF EndSweep, IInv, Typed, ScanTyped
  <2>3. cur = carved + 1
    BY <2>2 DEF Carved, NULL
  <2>4. b >= cur
    BY DEF IInv, MarksOrdered
  <2>5. QED
    BY <2>2, <2>3, <2>4 DEF Carved
<1>2. QED
  BY InvAlways, <1>1, PTL DEF Spec, SweepIsComplete


LEMMA BumpGrows ==
  ASSUME Typed, NEW c \in Cells, NEW s \in Seq(Byte), s # <<>>, Bump(c, s), carved' # carved
  PROVE  carved' = carved + 1 /\ carved + 1 \in Block /\ size'[carved'] = Len(s)
<1>1. ~(used + Len(s) + Overhead > ArenaBytes)
  BY DEF Bump, Fail, arena
<1>2. Len(s) \in Nat /\ used \in Nat /\ Overhead \in Nat /\ ArenaBytes \in Nat
  BY SizeAssumption DEF Typed, HeapTyped
<1>3. carved + 1 \in Block
  BY <1>1, <1>2, RoomBound
<1>4. QED
  BY <1>1, <1>3 DEF Bump, Typed, HeapTyped

(* No free object of the request's class is long enough. *)
NoFit(s) == \A b \in Carved : mark[b] = "free" /\ ClassOf(size[b]) = ClassOf(Len(s))
                                 => size[b] < Len(s)

LEMMA AllocGrows ==
  ASSUME IInv, ~Mixed, NEW c \in Cells, NEW s \in Seq(Byte), Alloc(c, s), carved' # carved
  PROVE  NoFit(s) /\ size'[carved'] = Len(s)
<1>1. s # <<>> /\ ClassOf(Len(s)) # "large"
  BY DEF Alloc, Empty, Fail, StartFit, arena
<1>2. PICK k \in Class : TakeHead(c, k, s) /\ k = ClassOf(Len(s))
  BY <1>1 DEF Alloc, ClassOf, Class
<1>3. Sanitized(k, mark) = NULL /\ Bump(c, s)
  BY <1>2 DEF TakeHead, arena
<1>4. Linked(k)
  BY DEF IInv, Uniform, AllLinked
<1>5. freeSeq[k] = <<>>
  BY <1>3, <1>4, SanitizedHead DEF IInv
<1>6. 1 .. Len(freeSeq[k]) = {}
  BY <1>5
<1>7. FreeOf(k) = {}
  BY <1>4, <1>6 DEF Linked
<1>8. QED
  BY <1>1, <1>2, <1>3, <1>7, BumpGrows DEF IInv, Uniform, FreeOf, NoFit

LEMMA FitNoneGrows ==
  ASSUME IInv, ~Mixed, FitNone, carved' # carved
  PROVE  NoFit(req.text) /\ size'[carved'] = Len(req.text)
<1> DEFINE q == freeSeq["large"]
<1>1. "large" \in Class /\ Linked("large") /\ Len(q) \in Nat
  BY ListType DEF IInv, AllLinked, Class, FitNone
<1>2. PICK n \in 1 .. Len(q) + 1 : ScanAt(n)
  BY DEF IInv, OnList, FitNone
<1>3. n = Len(q) + 1
  <2>1. SUFFICES ASSUME n # Len(q) + 1 PROVE FALSE
    OBVIOUS
  <2>2. n \in 1 .. Len(q) /\ cur = q[n]
    BY <1>1, <1>2, <2>1 DEF ScanAt
  <2>3. cur \in Carved
    BY <1>1, <2>2 DEF Linked, FreeOf
  <2>4. QED
    BY <2>3, CarvedBlocks DEF FitNone, IInv
<1>4. \A i \in 1 .. Len(q) : Len(text[q[i]]) < Len(req.text)
  BY <1>1, <1>2, <1>3 DEF ScanAt
<1>5. \A b \in FreeOf("large") : Len(text[b]) < Len(req.text)
  BY <1>1, <1>4 DEF Linked
<1>6. ClassOf(Len(req.text)) = "large"
  BY DEF IInv, Typed, ScanTyped, FitNone
<1>7. NoFit(req.text)
  BY <1>5, <1>6 DEF IInv, Uniform, FreeOf, NoFit
<1>8. size'[carved'] = Len(req.text)
  BY RequestText, BumpGrows DEF FitNone, IInv
<1>9. QED
  BY <1>7, <1>8

(* In a program that is not Mixed the arena grows only when no free object  *)
(* of the class is long enough.                                            *)
THEOREM NoGrowthWithFit == ASSUME ~Mixed PROVE Spec => GrowsOnlyWithoutFit
<1>1. ASSUME IInv, Next, carved' # carved
      PROVE  \E s \in Seq(Byte) : NoFit(s) /\ size'[carved'] = Len(s)
  <2>1. CASE Runtime \/ Marker
    <3>1. FitNone
      BY <1>1, <2>1 DEF Runtime, Marker, FitSkip, FitTake, ClearOne, MarkRoots, MarkLost, SweepOne,
             EndSweep, arena
    <3>2. req.text \in Seq(Byte)
      BY <1>1, <3>1, RequestText DEF FitNone, IInv
    <3>3. QED
      BY <1>1, <3>1, <3>2, FitNoneGrows
  <2>2. CASE Program
    <3>1. ~StartCycle /\ \A c \in Cells : ~Drop(c) /\ \A d \in Cells : ~Copy(c, d)
      BY <1>1 DEF StartCycle, Drop, Copy, Assign, arena
    <3>2. \A c \in Cells, s \in Literals : New(c, s) => NoFit(s) /\ size'[carved'] = Len(s)
      BY <1>1, LiteralType, AllocGrows DEF New
    <3>3. ASSUME NEW c \in Cells, NEW d \in Cells, NEW e \in Cells, Concat(c, d, e)
          PROVE  \E s \in Seq(Byte) : NoFit(s) /\ size'[carved'] = Len(s)
      <4>1. Value(d) \in Seq(Byte) /\ Value(e) \in Seq(Byte)
        BY <1>1, ValueType DEF IInv
      <4>2. Value(d) \o Value(e) \in Seq(Byte)
        BY <4>1, ConcatProperties
      <4>3. QED
        BY <1>1, <3>3, <4>2, AllocGrows DEF Concat
    <3>4. QED
      BY <2>2, <3>1, <3>2, <3>3, LiteralType DEF Program
  <2>3. QED
    BY <1>1, <2>1, <2>2 DEF Next
<1>2. IInv /\ [Next]_vars =>
        [carved' # carved =>
           \A b \in Carved : mark[b] = "free" /\ ClassOf(size[b]) = ClassOf(size'[carved'])
                               => size[b] < size'[carved']]_vars
  BY <1>1 DEF NoFit
<1>3. QED
  BY InvAlways, <1>2, PTL DEF Spec, GrowsOnlyWithoutFit

-----------------------------------------------------------------------------
(* The string heap implements the store of strings. *)

Values == [c \in Cells |-> Value(c)]

LEMMA ValuesKept ==
  ASSUME \A c \in Cells : Value(c)' = Value(c)
  PROVE  UNCHANGED Values
BY DEF Values

LEMMA FailGets ==
  ASSUME Typed, NEW c \in Cells, Fail(c)
  PROVE  Store!Gets(c, <<>>)
<1>1. \A d \in Cells : Value(d)' = IF d = c THEN <<>> ELSE Value(d)
  BY DEF Fail, Value, Typed, HeapTyped
<1>2. QED
  BY <1>1 DEF Store!Gets

LEMMA BumpGets ==
  ASSUME Typed, NEW c \in Cells, NEW s \in Seq(Byte), s # <<>>, Bump(c, s)
  PROVE  Store!Gets(c, s) \/ Store!Gets(c, <<>>)
<1>1. CASE used + Len(s) + Overhead > ArenaBytes
  BY <1>1, FailGets DEF Bump
<1>2. CASE ~(used + Len(s) + Overhead > ArenaBytes)
  <2>1. Len(s) \in Nat /\ used \in Nat /\ Overhead \in Nat /\ ArenaBytes \in Nat
    BY SizeAssumption DEF Typed, HeapTyped
  <2>2. carved + 1 \in Block /\ carved \in Nat /\ carved + 1 # NULL /\ carved + 1 \notin Target
    BY <1>2, <2>1, RoomBound DEF NULL, Target, Carved
  <2>3. /\ text' = [text EXCEPT ![carved + 1] = s]
        /\ str' = [str EXCEPT ![c] = carved + 1]
    BY <1>2 DEF Bump
  <2>4. ASSUME NEW d \in Cells PROVE Value(d)' = IF d = c THEN s ELSE Value(d)
    <3>1. str[d] \in Target /\ (str[d] # NULL => str[d] \in Block)
      BY CarvedBlocks DEF Typed, HeapTyped, Target
    <3>2. QED
      BY <2>2, <2>3, <3>1 DEF Value, Typed, HeapTyped
  <2>5. QED
    BY <2>4 DEF Store!Gets
<1>3. QED
  BY <1>1, <1>2

LEMMA ReuseGets ==
  ASSUME Typed, HeldStringsKept, NEW c \in Cells, NEW s, NEW b \in Carved, mark[b] = "free",
         Reuse(c, b, s)
  PROVE  Store!Gets(c, s) \/ UNCHANGED Values
<1>1. CASE Len(s) > size[b]
  BY <1>1, ValuesKept DEF Reuse, Value
<1>2. CASE ~(Len(s) > size[b])
  <2>1. text' = [text EXCEPT ![b] = s] /\ str' = [str EXCEPT ![c] = b]
    BY <1>2 DEF Reuse
  <2>2. b \in Block /\ b # NULL /\ \A d \in Cells : str[d] # b
    BY CarvedBlocks DEF HeldStringsKept
  <2>3. ASSUME NEW d \in Cells PROVE Value(d)' = IF d = c THEN s ELSE Value(d)
    <3>1. str[d] # NULL => str[d] \in Block
      BY CarvedBlocks DEF Typed, HeapTyped, Target
    <3>2. QED
      BY <2>1, <2>2, <3>1 DEF Value, Typed, HeapTyped
  <2>4. QED
    BY <2>3 DEF Store!Gets
<1>3. QED
  BY <1>1, <1>2

LEMMA AllocGets ==
  ASSUME Typed, HeldStringsKept, NEW c \in Cells, NEW s \in Seq(Byte), Alloc(c, s)
  PROVE  Store!Gets(c, s) \/ Store!Gets(c, <<>>) \/ UNCHANGED Values
<1>1. CASE s = <<>>
  BY <1>1, FailGets DEF Alloc, Empty
<1>2. CASE s # <<>> /\ ClassOf(Len(s)) = "large"
  BY <1>2, ValuesKept DEF Alloc, StartFit, Value
<1>3. CASE s # <<>> /\ ClassOf(Len(s)) # "large"
  <2>1. PICK k \in Class : TakeHead(c, k, s)
    BY <1>3 DEF Alloc, ClassOf, Class
  <2>2. CASE Sanitized(k, mark) = NULL
    BY <1>3, <2>1, <2>2, BumpGets DEF TakeHead
  <2>3. CASE Sanitized(k, mark) # NULL
    <3>1. Sanitized(k, mark) \in Carved /\ mark[Sanitized(k, mark)] = "free"
      BY <2>3 DEF Sanitized
    <3>2. QED
      BY <2>1, <2>3, <3>1, ReuseGets DEF TakeHead
  <2>4. QED
    BY <2>2, <2>3
<1>4. QED
  BY <1>1, <1>2, <1>3

LEMMA AssignGets ==
  ASSUME Typed, NEW c \in Cells, NEW b \in Target, Assign(c, b)
  PROVE  Store!Gets(c, IF b = NULL THEN <<>> ELSE text[b])
<1>1. \A d \in Cells : Value(d)' = IF d = c THEN (IF b = NULL THEN <<>> ELSE text[b]) ELSE Value(d)
  BY DEF Assign, Value, Typed, HeapTyped
<1>2. QED
  BY <1>1 DEF Store!Gets

(* What the scan ends with is an answer to what was asked. *)
LEMMA FitAnswers ==
  ASSUME IInv, pc = "fit",
         Store!Gets(req.cell, req.text) \/ Store!Gets(req.cell, <<>>)
  PROVE  Store!Next
<1>1. req.cell \in Cells
  BY RequestText DEF IInv
<1>2. CASE req.text \in Literals
  <2>1. Store!Make(req.cell, req.text)
    BY DEF Store!Make
  <2>2. QED
    BY <1>1, <1>2, <2>1 DEF Store!Next
<1>3. ASSUME NEW d \in Cells, NEW e \in Cells, req.text = Value(d) \o Value(e)
      PROVE  Store!Next
  <2>1. Store!Concat(req.cell, d, e)
    BY <1>3 DEF Store!Concat
  <2>2. QED
    BY <1>1, <2>1 DEF Store!Next
<1>4. QED
  BY <1>2, <1>3 DEF IInv, Asked

LEMMA StepIsStoreStep ==
  ASSUME IInv, Covers, Next
  PROVE  Store!Next \/ UNCHANGED Values
<1>1. Typed /\ HeldStringsKept /\ HeldMarked
  BY DEF IInv
<1>2. CASE FitSkip \/ StartCycle \/ EndSweep \/ ClearOne \/ MarkLost
  BY <1>2, ValuesKept DEF FitSkip, StartCycle, EndSweep, ClearOne, MarkLost, Value
<1>3. CASE FitTake
  <2>1. cur \in Carved /\ mark[cur] = "free" /\ req.cell \in Cells
    BY <1>3, ScanOnObject, RequestText DEF FitTake, IInv
  <2>2. Store!Gets(req.cell, req.text) \/ UNCHANGED Values
    BY <1>1, <1>3, <2>1, ReuseGets DEF FitTake
  <2>3. QED
    BY <1>3, <2>2, FitAnswers DEF FitTake
<1>4. CASE FitNone
  <2>1. Store!Gets(req.cell, req.text) \/ Store!Gets(req.cell, <<>>)
    BY <1>1, <1>4, RequestText, BumpGets DEF FitNone
  <2>2. QED
    BY <1>4, <2>1, FitAnswers DEF FitNone
<1>5. ASSUME NEW M \in SUBSET Unmarked, MarkRoots(M) PROVE UNCHANGED Values
  BY <1>5, ValuesKept DEF MarkRoots, Value
<1>6. CASE SweepOne
  <2>1. /\ pc = "sweep" /\ str' = str /\ cur \in Block
        /\ text' = IF mark[cur] = "clear" THEN [text EXCEPT ![cur] = Garbled(@)] ELSE text
    BY <1>6, CarvedBlocks, <1>1 DEF SweepOne, free_string_object
  <2>2. ASSUME NEW c \in Cells, str[c] # NULL PROVE text'[str[c]] = text[str[c]]
    <3>1. str[c] \in Block /\ mark[str[c]] = "set"
      BY <1>1, <2>1, <2>2, CarvedBlocks DEF HeldMarked, Typed, HeapTyped, Target
    <3>2. QED
      BY <1>1, <2>1, <3>1 DEF Typed, HeapTyped
  <2>3. QED
    BY <2>1, <2>2, ValuesKept DEF Value
<1>7. ASSUME NEW c \in Cells, Drop(c) PROVE Store!Next
  <2>1. Store!Drop(c)
    BY <1>1, <1>7, AssignGets DEF Drop, Target, Store!Drop
  <2>2. QED
    BY <2>1 DEF Store!Next
<1>8. ASSUME NEW c \in Cells, NEW s \in Literals, New(c, s) PROVE Store!Next \/ UNCHANGED Values
  <2>1. Store!Make(c, s) \/ UNCHANGED Values
    BY <1>1, <1>8, LiteralType, AllocGets DEF New, Store!Make
  <2>2. QED
    BY <2>1 DEF Store!Next
<1>9. ASSUME NEW c \in Cells, NEW d \in Cells, Copy(c, d) PROVE Store!Next
  <2>1. str[d] \in Target /\ Value(d) = IF str[d] = NULL THEN <<>> ELSE text[str[d]]
    BY <1>1 DEF Typed, HeapTyped, Value
  <2>2. Store!Copy(c, d)
    BY <1>1, <1>9, <2>1, AssignGets DEF Copy, Store!Copy
  <2>3. QED
    BY <2>2 DEF Store!Next
<1>10. ASSUME NEW c \in Cells, NEW d \in Cells, NEW e \in Cells, Concat(c, d, e)
       PROVE  Store!Next \/ UNCHANGED Values
  <2>1. Value(d) \in Seq(Byte) /\ Value(e) \in Seq(Byte)
    BY <1>1, ValueType
  <2>2. Value(d) \o Value(e) \in Seq(Byte)
    BY <2>1, ConcatProperties
  <2>3. Store!Concat(c, d, e) \/ UNCHANGED Values
    BY <1>1, <1>10, <2>2, AllocGets DEF Concat, Store!Concat
  <2>4. QED
    BY <2>3 DEF Store!Next
<1>11. QED
  BY <1>2, <1>3, <1>4, <1>5, <1>6, <1>7, <1>8, <1>9, <1>10 DEF Next, Runtime, Marker, Program

(* If the mark phase finds every string the program holds, the heap         *)
(* implements strings that never change: an allocation, a first-fit scan    *)
(* and a collection that frees everything around the strings in use are     *)
(* invisible but for the string asked for, which is the one asked for or    *)
(* the empty one.  Up to the step that breaks a header, this holds of       *)
(* Mixed programs too.                                                     *)
THEOREM StoreImplemented == ASSUME Covers PROVE Spec => ImplementsStrings
<1>1. Init => Store!Init
  BY DEF Init, Store!Init, Value
<1>2. IInv /\ [Next]_vars => [Store!Next]_Values
  <2> SUFFICES ASSUME IInv, [Next]_vars PROVE [Store!Next]_Values
    OBVIOUS
  <2>1. CASE Next
    BY <2>1, StepIsStoreStep
  <2>2. CASE UNCHANGED vars
    BY <2>2, ValuesKept DEF vars, Value
  <2>3. QED
    BY <2>1, <2>2
<1>3. IInv /\ [Next]_vars => [Store!Next]_[c \in Cells |-> Value(c)]
  BY <1>2 DEF Values
<1>4. QED
  BY InvAlways, <1>1, <1>3, PTL DEF Spec, ImplementsStrings, Store!Spec

=============================================================================
