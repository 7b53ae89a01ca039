--------------------------- MODULE TableHeapProofs ---------------------------
(***************************************************************************)
(* Proofs about the table heap, for every arena size, ring size and        *)
(* program.                                                                *)
(***************************************************************************)
EXTENDS TableHeap, SequenceTheorems, TLAPS

-----------------------------------------------------------------------------
(* Type correctness. *)

LEMMA IncType == ASSUME NEW x \in Counter PROVE Inc(x) \in Counter
BY QueueAssumption, SMT DEF Inc, Counter

LEMMA NextSlotType == ASSUME NEW i \in Slot PROVE NextSlot(i) \in Slot
BY QueueAssumption DEF NextSlot, Slot

(* An arena that has room for one more object has carved less than Capacity. *)
LEMMA RoomBound ==
  ASSUME carved \in 0 .. Capacity, HasRoom
  PROVE  carved + 1 \in Block
<1>1. TableSize * (carved + 1) < (Capacity + 1) * TableSize
  BY LayoutAssumption DEF HasRoom
<1>2. CASE carved = Capacity
  <2>1. TableSize * (carved + 1) = (Capacity + 1) * TableSize
    BY <1>2, LayoutAssumption
  <2>2. QED
    BY <1>1, <2>1, LayoutAssumption
<1>3. CASE carved # Capacity
  BY <1>3, LayoutAssumption DEF Block
<1>4. QED
  BY <1>2, <1>3

LEMMA InitType == Init => TypeOK
BY QueueAssumption, LayoutAssumption, ProgramAssumption
   DEF Init, TypeOK, Word, Ref, Slot, Counter

LEMMA TakeFreeType ==
  ASSUME TypeOK, NEW c \in Cells, TakeFree(c)
  PROVE  /\ head' \in Word /\ word' \in [Block -> Word] /\ marked' \subseteq Block
         /\ cell' \in [Cells -> Ref] /\ field' \in [Block -> Ref]
         /\ freeSeq' \in Seq(Block) /\ carved' \in 0 .. Capacity
BY DEF TypeOK, TakeFree, Fill, Word, Ref

LEMMA CarveType ==
  ASSUME TypeOK, NEW c \in Cells, Carve(c)
  PROVE  /\ head' \in Word /\ word' \in [Block -> Word] /\ marked' \subseteq Block
         /\ cell' \in [Cells -> Ref] /\ field' \in [Block -> Ref]
         /\ freeSeq' \in Seq(Block) /\ carved' \in 0 .. Capacity
<1>1. carved + 1 \in Block
  BY RoomBound DEF TypeOK, Carve
<1>2. QED
  BY <1>1, LayoutAssumption DEF TypeOK, Carve, Fill, Word, Ref, Block

LEMMA SweepOneType ==
  ASSUME TypeOK, SweepOne
  PROVE  TypeOK'
<1>1. buf[qhead] \in Ref /\ NextSlot(qhead) \in Slot
  BY NextSlotType DEF TypeOK
<1>2. buf' \in [Slot -> Ref] /\ qhead' \in Slot
  BY <1>1 DEF TypeOK, SweepOne, Ref
<1>3. CASE buf[qhead] = NULL
  <2>1. buf[qhead] \notin Block /\ buf[qhead] \notin marked
    BY <1>3 DEF TypeOK, Block, NULL
  <2>2. QED
    BY <1>2, <2>1 DEF TypeOK, SweepOne, program
<1>4. CASE buf[qhead] # NULL /\ buf[qhead] \in marked
  BY <1>1, <1>2, <1>4 DEF TypeOK, SweepOne, program, ClearMark, Word, Ref
<1>5. CASE buf[qhead] # NULL /\ buf[qhead] \notin marked
  <2>1. buf[qhead] \in Block
    BY <1>1, <1>5 DEF Ref
  <2>2. free_table_object(buf[qhead])
    BY <1>5 DEF SweepOne
  <2>3. freeSeq' \in Seq(Block)
    BY <2>1, <2>2 DEF free_table_object, TypeOK
  <2>4. QED
    BY <1>2, <2>1, <2>2, <2>3 DEF TypeOK, SweepOne, program, free_table_object, Word, Ref
<1>6. QED
  BY <1>3, <1>4, <1>5

LEMMA NextType == TypeOK /\ [Next]_vars => TypeOK'
<1> SUFFICES ASSUME TypeOK, [Next]_vars PROVE TypeOK'
  OBVIOUS
<1>1. ASSUME NEW c \in Cells, NewFromFree(c) PROVE TypeOK'
  BY <1>1, TakeFreeType DEF TypeOK, NewFromFree, ring
<1>2. ASSUME NEW c \in Cells, NewFromArena(c) PROVE TypeOK'
  <2>1. count' \in [soft : Counter, force : Counter, cycle : Counter, fail : Counter,
                    drop : Counter]
    BY <1>2, IncType DEF TypeOK, NewFromArena
  <2>2. CASE HasRoom
    BY <1>2, <2>1, <2>2, CarveType DEF TypeOK, NewFromArena, ring
  <2>3. CASE ~HasRoom
    BY <1>2, <2>1, <2>3 DEF TypeOK, NewFromArena, ring, arena, program
  <2>4. QED
    BY <2>2, <2>3
<1>3. ASSUME NEW c \in Cells, StartCycle(c) PROVE TypeOK'
  <2>1. count' \in [soft : Counter, force : Counter, cycle : Counter, fail : Counter,
                    drop : Counter]
    BY <1>3, IncType DEF TypeOK, StartCycle
  <2>2. QED
    BY <1>3, <2>1, ProgramAssumption DEF TypeOK, StartCycle, Unlinked, ring, program, Word
<1>4. CASE SweepOne
  BY <1>4, SweepOneType
<1>5. CASE EndSweep
  BY <1>5 DEF TypeOK, EndSweep, arena, ring, program
<1>6. CASE Retry
  <2>1. dest \in Cells
    BY <1>6 DEF TypeOK, Retry
  <2>2. CASE TakeFree(dest) /\ UNCHANGED count
    BY <1>6, <2>1, <2>2, TakeFreeType DEF TypeOK, Retry, ring
  <2>3. CASE Carve(dest) /\ UNCHANGED count
    BY <1>6, <2>1, <2>3, CarveType DEF TypeOK, Retry, ring
  <2>4. CASE /\ count' = [count EXCEPT !.fail = Inc(@)]
             /\ UNCHANGED <<arena, program>>
    BY <1>6, <2>4, IncType DEF TypeOK, Retry, ring, arena, program
  <2>5. QED
    BY <1>6, <2>2, <2>3, <2>4 DEF Retry
<1>7. ASSUME NEW c \in Cells, Pop(c) PROVE TypeOK'
  <2>1. cell[c] \in Ref /\ cell' \in [Cells -> Ref]
    BY <1>7 DEF TypeOK, Pop, Without, Ref
  <2>2. NextSlot(qtail) \in Slot
    BY NextSlotType DEF TypeOK
  <2>3. QED
    BY <1>7, <2>1, <2>2, IncType DEF TypeOK, Pop, queue_table_reclaim_candidate, arena, ring
<1>8. ASSUME NEW c \in Cells, Drop(c) PROVE TypeOK'
  BY <1>8 DEF TypeOK, Drop, Without, arena, ring, Ref
<1>9. ASSUME NEW c \in Cells, NEW d \in Cells, Copy(c, d) PROVE TypeOK'
  BY <1>9 DEF TypeOK, Copy, arena, ring
<1>10. ASSUME NEW c \in Cells, NEW d \in Cells, SetTable(c, d) PROVE TypeOK'
  BY <1>10 DEF TypeOK, SetTable, ring, Ref, Word
<1>11. ASSUME NEW c \in Cells, NEW d \in Cells, GetTable(c, d) PROVE TypeOK'
  BY <1>11 DEF TypeOK, GetTable, arena, ring, Ref
<1>12. ASSUME NEW M \in Markings, EndMark(M) PROVE TypeOK'
  <2>1. M \subseteq Block
    BY LayoutAssumption DEF TypeOK, Block, Markings
  <2>2. QED
    BY <1>12, <2>1 DEF TypeOK, EndMark, ring, program
<1>13. CASE MarkWild
  BY <1>13 DEF TypeOK, MarkWild, arena, ring, program
<1>14. CASE UNCHANGED vars
  BY <1>14 DEF TypeOK, vars, arena, ring, program
<1>15. QED
  BY <1>1, <1>2, <1>3, <1>4, <1>5, <1>6, <1>7, <1>8, <1>9, <1>10, <1>11, <1>12, <1>13, <1>14
     DEF Next, Sweeper, Marker, Program

(* Every variable of the heap keeps its type: in particular no link, ring   *)
(* index or arena pointer leaves its range, for every program.              *)
THEOREM TypeCorrect == Spec => []TypeOK
BY InitType, NextType, PTL DEF Spec

-----------------------------------------------------------------------------
(* What the program can reach, as a least fixed point. *)

LEMMA ReachClosed ==
  ASSUME NEW cl \in [Cells -> Ref], NEW fd \in [Block -> Ref]
  PROVE  ReachOf(cl, fd) \subseteq Block /\ Closed(ReachOf(cl, fd), cl, fd)
<1>1. \A c \in Cells : cl[c] # NULL => cl[c] \in Block
  BY DEF Ref
<1>2. \A b \in Block : fd[b] # NULL => fd[b] \in Block
  BY DEF Ref
<1>3. QED
  BY <1>1, <1>2 DEF ReachOf, Closed

LEMMA ReachLeast ==
  ASSUME NEW cl, NEW fd, NEW R \in SUBSET Block, Closed(R, cl, fd)
  PROVE  ReachOf(cl, fd) \subseteq R
BY DEF ReachOf

(* A new object adds only itself to what can be reached. *)
LEMMA FillReach ==
  ASSUME TypeOK, NEW c \in Cells, NEW b \in Block, Fill(c, b)
  PROVE  Reach' \subseteq Reach \cup {b}
<1>1. Reach \subseteq Block /\ Closed(Reach, cell, field)
  BY ReachClosed DEF TypeOK, Reach
<1>2. Closed(Reach \cup {b}, cell', field')
  BY <1>1 DEF TypeOK, Fill, Closed
<1>3. QED
  BY <1>1, <1>2, ReachLeast DEF Reach

(* No other step of the program makes an object reachable again. *)
LEMMA ProgramReach ==
  ASSUME TypeOK, NEW c \in Cells, NEW d \in Cells,
         Pop(c) \/ Drop(c) \/ Copy(c, d) \/ SetTable(c, d) \/ GetTable(c, d)
  PROVE  Reach' \subseteq Reach
<1>1. Reach \subseteq Block /\ Closed(Reach, cell, field)
  BY ReachClosed DEF TypeOK, Reach
<1>2. CASE Pop(c) \/ Drop(c)
  <2>1. Closed(Reach, cell', field')
    BY <1>1, <1>2 DEF TypeOK, Pop, Drop, Without, Closed
  <2>2. QED
    BY <1>1, <2>1, ReachLeast DEF Reach
<1>3. CASE Copy(c, d)
  <2>1. Closed(Reach, cell', field')
    BY <1>1, <1>3 DEF TypeOK, Copy, Closed
  <2>2. QED
    BY <1>1, <2>1, ReachLeast DEF Reach
<1>4. CASE SetTable(c, d)
  <2>1. Closed(Reach, cell', field')
    BY <1>1, <1>4 DEF TypeOK, SetTable, Closed, Ref
  <2>2. QED
    BY <1>1, <2>1, ReachLeast DEF Reach
<1>5. CASE GetTable(c, d)
  <2>1. Closed(Reach, cell', field')
    BY <1>1, <1>5 DEF TypeOK, GetTable, Closed
  <2>2. QED
    BY <1>1, <2>1, ReachLeast DEF Reach
<1>6. QED
  BY <1>2, <1>3, <1>4, <1>5

-----------------------------------------------------------------------------
(* The ring: the slots from qhead up to but not including qtail. *)

InRing(h, t, i) == IF h <= t THEN h <= i /\ i < t ELSE h <= i \/ i < t

LEMMA RingPut ==
  ASSUME NEW h \in Slot, NEW t \in Slot, NextSlot(t) # h, NEW i \in Slot
  PROVE  /\ ~InRing(h, t, t)
         /\ InRing(h, NextSlot(t), i) <=> InRing(h, t, i) \/ i = t
BY QueueAssumption, SMT DEF InRing, NextSlot, Slot

LEMMA RingGet ==
  ASSUME NEW h \in Slot, NEW t \in Slot, h # t, NEW i \in Slot
  PROVE  /\ InRing(h, t, h)
         /\ InRing(NextSlot(h), t, i) <=> InRing(h, t, i) /\ i # h
BY QueueAssumption, SMT DEF InRing, NextSlot, Slot

(* Pending lists exactly the occupied slots, each once. *)
LEMMA PendingSlots ==
  ASSUME qhead \in Slot, qtail \in Slot
  PROVE  /\ Waiting \in Nat /\ DOMAIN Pending = 1 .. Waiting
         /\ \A i \in 1 .. Waiting :
              /\ Wrap(qhead + i - 1) \in Slot
              /\ InRing(qhead, qtail, Wrap(qhead + i - 1))
         /\ \A i, j \in 1 .. Waiting :
              Wrap(qhead + i - 1) = Wrap(qhead + j - 1) => i = j
         /\ \A s \in Slot : InRing(qhead, qtail, s) =>
              \E i \in 1 .. Waiting : s = Wrap(qhead + i - 1)
<1>1. Waiting \in Nat
  BY QueueAssumption DEF Waiting, Slot
<1>2. DOMAIN Pending = 1 .. Waiting
  BY DEF Pending
<1>3. \A i \in 1 .. Waiting :
         /\ Wrap(qhead + i - 1) \in Slot
         /\ InRing(qhead, qtail, Wrap(qhead + i - 1))
  BY QueueAssumption, <1>1 DEF Waiting, Wrap, Slot, InRing
<1>4. \A i, j \in 1 .. Waiting :
         Wrap(qhead + i - 1) = Wrap(qhead + j - 1) => i = j
  BY QueueAssumption, <1>1 DEF Waiting, Wrap, Slot
<1>5. ASSUME NEW s \in Slot, InRing(qhead, qtail, s)
      PROVE  \E i \in 1 .. Waiting : s = Wrap(qhead + i - 1)
  <2>1. CASE qhead <= s
    <3>1. s - qhead + 1 \in 1 .. Waiting /\ s = Wrap(qhead + (s - qhead + 1) - 1)
      BY <1>5, <2>1, QueueAssumption DEF Waiting, Wrap, Slot, InRing
    <3>2. QED
      BY <3>1
  <2>2. CASE s < qhead
    <3>1. /\ s - qhead + QueueCap + 1 \in 1 .. Waiting
          /\ s = Wrap(qhead + (s - qhead + QueueCap + 1) - 1)
      BY <1>5, <2>2, QueueAssumption DEF Waiting, Wrap, Slot, InRing
    <3>2. QED
      BY <3>1
  <2>3. QED
    BY <2>1, <2>2 DEF Slot
<1>6. QED
  BY <1>1, <1>2, <1>3, <1>4, <1>5

-----------------------------------------------------------------------------
(* Linked lists: s is the list that starts at h and follows the links w     *)
(* through distinct objects among the first k.                             *)

IsList(h, s, w, k) ==
  /\ h = IF s = <<>> THEN NULL ELSE s[1]
  /\ \A i \in 1 .. Len(s) :
       /\ s[i] \in 1 .. k
       /\ w[s[i]] = IF i = Len(s) THEN NULL ELSE s[i + 1]
  /\ \A i, j \in 1 .. Len(s) : s[i] = s[j] => i = j

LEMMA EmptyLen == ASSUME NEW S, NEW s \in Seq(S) PROVE s = <<>> <=> Len(s) = 0
<1>1. Len(<<>>) = 0 /\ (s # <<>> => Len(s) \in Nat \ {0})
  BY EmptySeq
<1>2. QED
  BY <1>1

(* Taking the first object leaves a list of the others. *)
LEMMA ListPop ==
  ASSUME NEW s \in Seq(Block), s # <<>>, NEW h, NEW k \in 0 .. Capacity,
         NEW w \in [Block -> Word], NEW w2, IsList(h, s, w, k),
         \A b \in Block \ {h} : w2[b] = w[b]
  PROVE  /\ IsList(w[h], Tail(s), w2, k)
         /\ \A n \in 1 .. Len(Tail(s)) : Tail(s)[n] # h
         /\ \A b : (\A n \in 1 .. Len(s) : s[n] # b)
                   => (\A n \in 1 .. Len(Tail(s)) : Tail(s)[n] # b)
<1> DEFINE t == Tail(s)
           m == Len(s)
<1>1. h = s[1] /\ m \in Nat \ {0} /\ Len(t) = m - 1 /\ (t = <<>> <=> m = 1)
  <2>1. m \in Nat \ {0} /\ t \in Seq(Block) /\ Len(t) = m - 1
    OBVIOUS
  <2>2. t = <<>> <=> Len(t) = 0
    BY <2>1, EmptyLen, Zenon
  <2>3. h = s[1]
    BY DEF IsList
  <2>4. Len(t) = 0 <=> m = 1
    BY <2>1
  <2>5. QED
    BY <2>1, <2>2, <2>3, <2>4
<1>2. ASSUME NEW n \in 1 .. Len(t)
      PROVE  n \in Nat /\ n + 1 \in 1 .. m /\ n + 1 # 1 /\ t[n] = s[n + 1]
  BY <1>1
<1> HIDE DEF t, m
<1>3. /\ \A i \in 1 .. m : s[i] \in 1 .. k
      /\ \A i \in 1 .. m : w[s[i]] = IF i = m THEN NULL ELSE s[i + 1]
      /\ \A i, j \in 1 .. m : s[i] = s[j] => i = j
  BY DEF IsList, m
<1>4. ASSUME NEW n \in 1 .. Len(t) PROVE t[n] \in 1 .. k /\ t[n] # h
  <2>1. 1 \in 1 .. m
    BY <1>1
  <2>2. QED
    BY <1>1, <1>2, <1>3, <2>1
<1>5. ASSUME NEW n \in 1 .. Len(t)
      PROVE  w2[t[n]] = IF n = Len(t) THEN NULL ELSE t[n + 1]
  <2>1. t[n] \in Block \ {h}
    BY <1>4, LayoutAssumption DEF Block
  <2>2. w2[t[n]] = IF n + 1 = m THEN NULL ELSE s[n + 1 + 1]
    BY <1>2, <1>3, <2>1
  <2>3. CASE n = Len(t)
    BY <1>1, <2>2, <2>3
  <2>4. CASE n # Len(t)
    <3>1. n + 1 \in 1 .. Len(t)
      BY <1>1, <1>2, <2>4
    <3>2. t[n + 1] = s[n + 1 + 1]
      BY <1>2, <3>1
    <3>3. QED
      BY <1>1, <1>2, <2>2, <2>4, <3>2
  <2>5. QED
    BY <2>3, <2>4
<1>6. w[h] = IF t = <<>> THEN NULL ELSE t[1]
  <2>1. 1 \in 1 .. m /\ w[h] = IF 1 = m THEN NULL ELSE s[2]
    BY <1>1, <1>3
  <2>2. CASE m = 1
    BY <1>1, <2>1, <2>2
  <2>3. CASE m # 1
    <3>1. 1 \in 1 .. Len(t)
      BY <1>1, <2>3
    <3>2. t[1] = s[2]
      BY <1>2, <3>1
    <3>3. QED
      BY <1>1, <2>1, <2>3, <3>2
  <2>4. QED
    BY <2>2, <2>3
<1>7. ASSUME NEW i \in 1 .. Len(t), NEW j \in 1 .. Len(t), t[i] = t[j] PROVE i = j
  <2>1. i + 1 = j + 1
    BY <1>2, <1>3, <1>7
  <2>2. QED
    BY <1>2, <2>1
<1>8. \A b : (\A n \in 1 .. m : s[n] # b) => (\A n \in 1 .. Len(t) : t[n] # b)
  BY <1>2
<1>9. \A n \in 1 .. Len(t) : t[n] # h
  BY <1>4
<1>10. IsList(w[h], t, w2, k)
  BY <1>4, <1>5, <1>6, <1>7 DEF IsList
<1>11. QED
  BY <1>8, <1>9, <1>10 DEF t, m

(* Linking an object that is not on the list in front of it. *)
LEMMA ListPush ==
  ASSUME NEW s \in Seq(Block), NEW h, NEW k \in 0 .. Capacity,
         NEW w \in [Block -> Word], IsList(h, s, w, k),
         NEW b \in 1 .. k, \A n \in 1 .. Len(s) : s[n] # b
  PROVE  /\ IsList(b, <<b>> \o s, [w EXCEPT ![b] = h], k)
         /\ \A d : d # b /\ (\A n \in 1 .. Len(s) : s[n] # d)
                   => (\A n \in 1 .. Len(<<b>> \o s) : (<<b>> \o s)[n] # d)
<1> DEFINE t == <<b>> \o s
           m == Len(s)
           w2 == [w EXCEPT ![b] = h]
<1>0. b \in Block /\ w2[b] = h /\ \A d \in Block \ {b} : w2[d] = w[d]
  BY LayoutAssumption DEF Block
<1>1. /\ b \in Block /\ m \in Nat /\ Len(t) = m + 1 /\ t[1] = b
      /\ t # <<>> /\ (s = <<>> <=> m = 0)
  BY LayoutAssumption DEF Block
<1>2. ASSUME NEW n \in 1 .. m + 1
      PROVE  n = 1 \/ (n - 1 \in 1 .. m /\ t[n] = s[n - 1])
  BY <1>1
<1> HIDE DEF t, m, w2
<1>3. /\ h = IF m = 0 THEN NULL ELSE s[1]
      /\ \A i \in 1 .. m : s[i] \in 1 .. k /\ s[i] # b
      /\ \A i \in 1 .. m : w[s[i]] = IF i = m THEN NULL ELSE s[i + 1]
      /\ \A i, j \in 1 .. m : s[i] = s[j] => i = j
  BY <1>1 DEF IsList, m
<1>4. ASSUME NEW n \in 1 .. m + 1 PROVE t[n] \in 1 .. k
  BY <1>1, <1>2, <1>3
<1>5. ASSUME NEW n \in 1 .. m + 1
      PROVE  w2[t[n]] = IF n = m + 1 THEN NULL ELSE t[n + 1]
  <2>1. n # m + 1 => n + 1 \in 1 .. m + 1 /\ n + 1 # 1 /\ t[n + 1] = s[n]
    BY <1>1, <1>2
  <2>2. CASE n = 1
    BY <1>0, <1>1, <1>3, <2>1, <2>2
  <2>3. CASE n # 1
    <3>1. n - 1 \in 1 .. m /\ t[n] = s[n - 1] /\ t[n] \in Block \ {b}
      BY <1>2, <1>3, <2>3, LayoutAssumption DEF Block
    <3>2. w2[t[n]] = IF n - 1 = m THEN NULL ELSE s[n - 1 + 1]
      BY <1>0, <1>3, <3>1
    <3>3. QED
      BY <1>1, <2>1, <3>2
  <2>4. QED
    BY <2>2, <2>3
<1>6. ASSUME NEW i \in 1 .. m + 1, NEW j \in 1 .. m + 1, t[i] = t[j] PROVE i = j
  <2>1. ASSUME NEW n \in 1 .. m + 1, n # 1 PROVE t[n] # t[1]
    <3>1. n - 1 \in 1 .. m /\ t[n] = s[n - 1]
      BY <1>2, <2>1
    <3>2. s[n - 1] # b
      BY <1>3, <3>1
    <3>3. QED
      BY <1>1, <3>1, <3>2
  <2>2. CASE i # 1 /\ j # 1
    <3>1. i - 1 = j - 1
      BY <1>2, <1>3, <1>6, <2>2
    <3>2. QED
      BY <1>1, <3>1
  <2>3. QED
    BY <1>6, <2>1, <2>2
<1>7. \A d : d # b /\ (\A n \in 1 .. m : s[n] # d) => (\A n \in 1 .. m + 1 : t[n] # d)
  BY <1>1, <1>2
<1>8. IsList(b, t, w2, k)
  BY <1>1, <1>4, <1>5, <1>6 DEF IsList
<1>9. QED
  BY <1>1, <1>7, <1>8 DEF t, m, w2

-----------------------------------------------------------------------------
(* The inductive invariant of the heap of a program whose POPs discard only *)
(* references that were the last.  The occupied slots of the ring hold      *)
(* distinct objects that are carved, not free and out of the program's      *)
(* reach: that is what keeps the sweep from freeing anything in use.        *)

SlotsOnce ==
  \A i, j \in Slot :
    InRing(qhead, qtail, i) /\ InRing(qhead, qtail, j) /\ buf[i] = buf[j] => i = j

SlotsGone ==
  \A i \in Slot : InRing(qhead, qtail, i) =>
    /\ buf[i] \in 1 .. carved
    /\ \A n \in 1 .. Len(freeSeq) : freeSeq[n] # buf[i]
    /\ buf[i] \notin Reach

ReachKept ==
  \A b \in Reach :
    /\ b \in 1 .. carved
    /\ \A n \in 1 .. Len(freeSeq) : freeSeq[n] # b

IInv == TypeOK /\ FreeListIntact /\ ReachKept /\ SlotsOnce /\ SlotsGone

LEMMA InitInv == Init => IInv
<1> SUFFICES ASSUME Init PROVE IInv
  OBVIOUS
<1>1. TypeOK
  BY InitType
<1>2. Closed({}, cell, field)
  BY DEF Init, Closed
<1>3. Reach = {}
  BY <1>2, ReachLeast DEF Reach
<1>4. FreeListIntact
  BY DEF Init, FreeListIntact
<1>5. SlotsOnce /\ SlotsGone
  BY DEF Init, SlotsOnce, SlotsGone, InRing, Slot
<1>6. QED
  BY <1>1, <1>3, <1>4, <1>5 DEF IInv, ReachKept

(* Filling the cell c with the first free object. *)
LEMMA TakeFreeInv ==
  ASSUME IInv, TypeOK', NEW c \in Cells, TakeFree(c), UNCHANGED ring
  PROVE  IInv'
<1>1. freeSeq # <<>> /\ head = freeSeq[1] /\ head \in Block /\ freeSeq \in Seq(Block)
  BY DEF IInv, FreeListIntact, TakeFree, TypeOK, Block, NULL
<1>2. freeSeq' = Tail(freeSeq) /\ head' = word[head] /\ carved' = carved
  BY <1>1 DEF TakeFree
<1>3. IsList(head', freeSeq', word', carved')
  <2>1. \A b \in Block \ {head} : word'[b] = word[b]
    BY DEF IInv, TypeOK, TakeFree, Fill
  <2>2. IsList(head, freeSeq, word, carved)
    BY DEF IInv, FreeListIntact, IsList
  <2>3. word \in [Block -> Word] /\ carved \in 0 .. Capacity
    BY DEF IInv, TypeOK
  <2>4. QED
    BY <1>1, <1>2, <2>1, <2>2, <2>3, ListPop
<1>4. /\ \A n \in 1 .. Len(freeSeq') : freeSeq'[n] # head
      /\ \A b : (\A n \in 1 .. Len(freeSeq) : freeSeq[n] # b)
                => (\A n \in 1 .. Len(freeSeq') : freeSeq'[n] # b)
  BY <1>1, <1>2, ListPop DEF IInv, FreeListIntact, IsList
<1>5. Reach' \subseteq Reach \cup {head}
  BY <1>1, FillReach DEF IInv, TakeFree
<1>6. head \in 1 .. carved /\ \E n \in 1 .. Len(freeSeq) : freeSeq[n] = head
  BY <1>1 DEF IInv, FreeListIntact
<1>7. ReachKept'
  BY <1>2, <1>4, <1>5, <1>6 DEF IInv, ReachKept
<1>8. SlotsOnce' /\ SlotsGone'
  BY <1>2, <1>4, <1>5, <1>6 DEF IInv, SlotsOnce, SlotsGone, ring
<1>9. QED
  BY <1>3, <1>7, <1>8 DEF IInv, FreeListIntact, IsList

(* Filling the cell c with an object carved from the arena. *)
LEMMA CarveInv ==
  ASSUME IInv, TypeOK', NEW c \in Cells, Carve(c), UNCHANGED ring
  PROVE  IInv'
<1>1. carved + 1 \in Block /\ carved \in Nat
  BY RoomBound DEF IInv, TypeOK, Carve
<1>2. Reach' \subseteq Reach \cup {carved + 1}
  BY <1>1, FillReach DEF IInv, Carve
<1>3. carved' = carved + 1 /\ freeSeq' = freeSeq /\ head' = head
  BY DEF Carve
<1>4. \A n \in 1 .. Len(freeSeq) : freeSeq[n] # carved + 1
  BY <1>1 DEF IInv, FreeListIntact
<1>5. ReachKept'
  BY <1>1, <1>2, <1>3, <1>4 DEF IInv, ReachKept
<1>6. SlotsOnce' /\ SlotsGone'
  BY <1>1, <1>2, <1>3 DEF IInv, SlotsOnce, SlotsGone, ring
<1>7. FreeListIntact'
  <2>1. \A n \in 1 .. Len(freeSeq) : word'[freeSeq[n]] = word[freeSeq[n]]
    BY <1>1, <1>4 DEF IInv, FreeListIntact, Carve, Fill, TypeOK, Block
  <2>2. QED
    BY <1>1, <1>3, <2>1 DEF IInv, FreeListIntact
<1>8. QED
  BY <1>5, <1>6, <1>7 DEF IInv

(* The program moves references about: what it can reach does not grow, and *)
(* no header on the free list is written.                                  *)
LEMMA DropInv ==
  ASSUME IInv, TypeOK', NEW c \in Cells, Drop(c)
  PROVE  IInv'
<1>1. Reach' \subseteq Reach
  BY ProgramReach DEF IInv
<1>2. QED
  BY <1>1 DEF IInv, Drop, arena, ring, FreeListIntact, ReachKept, SlotsOnce, SlotsGone

LEMMA MoveInv ==
  ASSUME IInv, TypeOK', NEW c \in Cells, NEW d \in Cells, Copy(c, d) \/ GetTable(c, d)
  PROVE  IInv'
<1>1. Reach' \subseteq Reach
  BY ProgramReach DEF IInv
<1>2. UNCHANGED <<arena, ring>>
  BY DEF Copy, GetTable
<1>3. QED
  BY <1>1, <1>2 DEF IInv, arena, ring, FreeListIntact, ReachKept, SlotsOnce, SlotsGone

(* The table written to is one the program reaches, so not a free one. *)
LEMMA SetTableInv ==
  ASSUME IInv, TypeOK', NEW c \in Cells, NEW d \in Cells, SetTable(c, d)
  PROVE  IInv'
<1>1. Reach' \subseteq Reach
  BY ProgramReach DEF IInv
<1>2. cell[c] \in Reach
  BY ReachClosed DEF IInv, TypeOK, SetTable, Reach, Closed
<1>3. \A n \in 1 .. Len(freeSeq) : freeSeq[n] \in Block /\ word'[freeSeq[n]] = word[freeSeq[n]]
  <2> SUFFICES ASSUME NEW n \in 1 .. Len(freeSeq)
               PROVE  freeSeq[n] \in Block /\ word'[freeSeq[n]] = word[freeSeq[n]]
    OBVIOUS
  <2>1. freeSeq[n] \in Block
    BY DEF IInv, TypeOK
  <2>2. freeSeq[n] # cell[c]
    BY <1>2 DEF IInv, ReachKept
  <2>3. word' = [word EXCEPT ![cell[c]] = WILD]
    BY DEF SetTable
  <2>4. QED
    BY <2>1, <2>2, <2>3 DEF IInv, TypeOK
<1>4. FreeListIntact'
  BY <1>3 DEF IInv, FreeListIntact, SetTable
<1>5. ReachKept' /\ SlotsOnce' /\ SlotsGone'
  BY <1>1 DEF IInv, SetTable, ring, ReachKept, SlotsOnce, SlotsGone
<1>6. QED
  BY <1>4, <1>5 DEF IInv

(* A POP that discards the last reference queues a table out of reach; that *)
(* table was in reach until now, so it is neither free nor in the ring.     *)
LEMMA PopInv ==
  ASSUME ~PopShared, IInv, TypeOK', NEW c \in Cells, Pop(c)
  PROVE  IInv'
<1>1. Reach' \subseteq Reach
  BY ProgramReach DEF IInv
<1>2. cell[c] \in Reach /\ cell[c] \notin Reach'
  <2>1. cell[c] \in Reach
    BY ReachClosed DEF IInv, TypeOK, Pop, Reach, Closed
  <2>2. Reach' = ReachOf(Without(c), field)
    BY DEF Pop, Reach
  <2>3. QED
    BY <2>1, <2>2 DEF Pop
<1>3. FreeListIntact' /\ ReachKept'
  BY <1>1 DEF IInv, Pop, arena, FreeListIntact, ReachKept
<1>4. SlotsOnce' /\ SlotsGone'
  <2>1. CASE NextSlot(qtail) = qhead
    BY <1>1, <2>1 DEF IInv, Pop, queue_table_reclaim_candidate, arena, ring,
                      SlotsOnce, SlotsGone
  <2>2. CASE NextSlot(qtail) # qhead
    <3>1. /\ qhead' = qhead /\ qtail' = NextSlot(qtail)
          /\ carved' = carved /\ freeSeq' = freeSeq
      BY <2>2 DEF Pop, queue_table_reclaim_candidate, arena
    <3>2. /\ buf'[qtail] = cell[c] /\ ~InRing(qhead, qtail, qtail)
          /\ \A i \in Slot : i # qtail => buf'[i] = buf[i]
          /\ \A i \in Slot : InRing(qhead', qtail', i) <=> InRing(qhead, qtail, i) \/ i = qtail
      BY <2>2, <3>1, RingPut DEF IInv, TypeOK, Pop, queue_table_reclaim_candidate
    <3>3. \A i \in Slot : InRing(qhead, qtail, i) => buf[i] # cell[c]
      BY <1>2 DEF IInv, SlotsGone
    <3>4. SlotsOnce'
      BY <3>1, <3>2, <3>3 DEF IInv, SlotsOnce
    <3>5. SlotsGone'
      BY <1>1, <1>2, <3>1, <3>2 DEF IInv, SlotsGone, ReachKept
    <3>6. QED
      BY <3>4, <3>5
  <2>3. QED
    BY <2>1, <2>2
<1>5. QED
  BY <1>3, <1>4 DEF IInv

(* The sweep takes the oldest candidate out of the ring; it clears the mark *)
(* of a marked one and puts any other on the free list.                     *)
LEMMA SweepOneInv ==
  ASSUME IInv, TypeOK', SweepOne
  PROVE  IInv'
<1> DEFINE b == buf[qhead]
<1>1. /\ qtail' = qtail /\ carved' = carved /\ Reach' = Reach
      /\ \A i \in Slot : i # qhead => buf'[i] = buf[i]
      /\ \A i \in Slot : InRing(qhead', qtail', i) <=> InRing(qhead, qtail, i) /\ i # qhead
  BY RingGet DEF IInv, TypeOK, SweepOne, program, Reach
<1>2. InRing(qhead, qtail, qhead)
  BY RingGet DEF IInv, TypeOK, SweepOne
<1>3. b \in 1 .. carved /\ b \notin Reach /\ \A n \in 1 .. Len(freeSeq) : freeSeq[n] # b
  BY <1>2 DEF IInv, TypeOK, SlotsGone
<1>4. \A i \in Slot : InRing(qhead, qtail, i) /\ i # qhead => buf[i] # b
  BY <1>2 DEF IInv, TypeOK, SlotsOnce
<1>5. SlotsOnce'
  BY <1>1 DEF IInv, SlotsOnce
<1>6. ClearMark(b) \/ free_table_object(b)
  BY <1>3 DEF SweepOne, NULL
<1>7. CASE ClearMark(b)
  <2>1. head' = head /\ freeSeq' = freeSeq
    BY <1>7 DEF ClearMark
  <2>2. \A n \in 1 .. Len(freeSeq) : word'[freeSeq[n]] = word[freeSeq[n]]
    BY <1>3, <1>7 DEF ClearMark, IInv, TypeOK, FreeListIntact, Block
  <2>3. QED
    BY <1>1, <1>5, <2>1, <2>2 DEF IInv, FreeListIntact, ReachKept, SlotsGone
<1>8. CASE free_table_object(b)
  <2>1. head' = b /\ freeSeq' = <<b>> \o freeSeq /\ b \in Block
    BY <1>3, <1>8 DEF free_table_object, IInv, TypeOK, Block
  <2>2. word' = [word EXCEPT ![b] = head]
    BY <1>8 DEF free_table_object
  <2>3. IsList(head, freeSeq, word, carved)
    BY DEF IInv, FreeListIntact, IsList
  <2>4. /\ freeSeq \in Seq(Block) /\ word \in [Block -> Word] /\ carved \in 0 .. Capacity
    BY DEF IInv, TypeOK
  <2>5. /\ IsList(head', freeSeq', word', carved')
        /\ \A d : d # b /\ (\A n \in 1 .. Len(freeSeq) : freeSeq[n] # d)
                  => (\A n \in 1 .. Len(freeSeq') : freeSeq'[n] # d)
    <3>1. b \in 1 .. carved /\ \A n \in 1 .. Len(freeSeq) : freeSeq[n] # b
      BY <1>3
    <3> HIDE DEF b
    <3>2. /\ IsList(b, <<b>> \o freeSeq, word', carved)
          /\ \A d : d # b /\ (\A n \in 1 .. Len(freeSeq) : freeSeq[n] # d)
                    => (\A n \in 1 .. Len(<<b>> \o freeSeq) : (<<b>> \o freeSeq)[n] # d)
      BY <2>2, <2>3, <2>4, <3>1, ListPush
    <3>3. QED
      BY <1>1, <2>1, <3>2
  <2>6. ReachKept'
    BY <1>1, <1>3, <2>5 DEF IInv, ReachKept
  <2>7. SlotsGone'
    BY <1>1, <1>4, <2>5 DEF IInv, SlotsGone
  <2>8. QED
    BY <1>5, <2>5, <2>6, <2>7 DEF IInv, FreeListIntact, IsList
<1>9. QED
  BY <1>6, <1>7, <1>8

LEMMA NextInv == ~PopShared /\ IInv /\ [Next]_vars => IInv'
<1> SUFFICES ASSUME ~PopShared, IInv, [Next]_vars PROVE IInv'
  OBVIOUS
<1>0. TypeOK'
  BY NextType DEF IInv
<1>1. ASSUME NEW c \in Cells, NewFromFree(c) PROVE IInv'
  BY <1>0, <1>1, TakeFreeInv DEF NewFromFree
<1>2. ASSUME NEW c \in Cells, NewFromArena(c) PROVE IInv'
  <2>1. CASE HasRoom
    BY <1>0, <1>2, <2>1, CarveInv DEF NewFromArena
  <2>2. CASE ~HasRoom
    BY <1>0, <1>2, <2>2 DEF NewFromArena, IInv, arena, ring, program, Reach,
       FreeListIntact, ReachKept, SlotsOnce, SlotsGone
  <2>3. QED
    BY <2>1, <2>2
<1>3. ASSUME NEW c \in Cells, StartCycle(c) PROVE IInv'
  <2>1. freeSeq = <<>>
    <3>1. freeSeq # <<>> => freeSeq[1] \in 1 .. carved /\ head = freeSeq[1]
      BY DEF IInv, TypeOK, FreeListIntact
    <3>2. QED
      BY <1>3, <3>1 DEF StartCycle, NULL, IInv, TypeOK
  <2>2. /\ freeSeq' = freeSeq /\ head' = head /\ head = NULL /\ Reach' = Reach
        /\ UNCHANGED <<carved, ring>>
    BY <1>3, <2>1 DEF StartCycle, program, Reach
  <2>3. FreeListIntact'
    BY <2>1, <2>2 DEF FreeListIntact
  <2>4. ReachKept' /\ SlotsOnce' /\ SlotsGone'
    BY <2>2 DEF IInv, ring, ReachKept, SlotsOnce, SlotsGone
  <2>5. QED
    BY <1>0, <2>3, <2>4 DEF IInv
<1>4. CASE SweepOne
  BY <1>0, <1>4, SweepOneInv
<1>5. CASE EndSweep
  BY <1>0, <1>5 DEF EndSweep, IInv, arena, ring, program, Reach,
     FreeListIntact, ReachKept, SlotsOnce, SlotsGone
<1>6. CASE Retry
  <2>1. dest \in Cells /\ UNCHANGED ring
    BY <1>6 DEF IInv, TypeOK, Retry
  <2>2. CASE TakeFree(dest)
    BY <1>0, <2>1, <2>2, TakeFreeInv
  <2>3. CASE Carve(dest)
    BY <1>0, <2>1, <2>3, CarveInv
  <2>4. CASE UNCHANGED <<arena, program>>
    BY <1>0, <2>1, <2>4 DEF IInv, arena, ring, program, Reach,
       FreeListIntact, ReachKept, SlotsOnce, SlotsGone
  <2>5. QED
    BY <1>6, <2>2, <2>3, <2>4 DEF Retry
<1>7. ASSUME NEW c \in Cells, Pop(c) PROVE IInv'
  BY <1>0, <1>7, PopInv
<1>8. ASSUME NEW c \in Cells, Drop(c) PROVE IInv'
  BY <1>0, <1>8, DropInv
<1>9. ASSUME NEW c \in Cells, NEW d \in Cells, Copy(c, d) \/ GetTable(c, d) PROVE IInv'
  BY <1>0, <1>9, MoveInv
<1>10. ASSUME NEW c \in Cells, NEW d \in Cells, SetTable(c, d) PROVE IInv'
  BY <1>0, <1>10, SetTableInv
<1>11. ASSUME NEW M \in Markings, EndMark(M) PROVE IInv'
  BY <1>0, <1>11 DEF EndMark, IInv, ring, program, Reach,
     FreeListIntact, ReachKept, SlotsOnce, SlotsGone
<1>12. CASE MarkWild
  BY <1>0, <1>12 DEF MarkWild, IInv, arena, ring, program, Reach,
     FreeListIntact, ReachKept, SlotsOnce, SlotsGone
<1>13. CASE UNCHANGED vars
  BY <1>0, <1>13 DEF vars, IInv, arena, ring, program, Reach,
     FreeListIntact, ReachKept, SlotsOnce, SlotsGone
<1>14. QED
  BY <1>1, <1>2, <1>3, <1>4, <1>5, <1>6, <1>7, <1>8, <1>9, <1>10, <1>11, <1>12, <1>13
     DEF Next, Sweeper, Marker, Program

(* The invariant in the terms of the ring's contents. *)
LEMMA InvSafe ==
  IInv => FreeListIntact /\ LiveTablesKept /\ FreedOnce /\ CandidatesGone
<1> SUFFICES ASSUME IInv
             PROVE  FreeListIntact /\ LiveTablesKept /\ FreedOnce /\ CandidatesGone
  OBVIOUS
<1>1. \A i \in DOMAIN Pending :
        /\ i \in 1 .. Waiting /\ Wrap(qhead + i - 1) \in Slot
        /\ InRing(qhead, qtail, Wrap(qhead + i - 1))
        /\ Pending[i] = buf[Wrap(qhead + i - 1)]
  BY PendingSlots DEF IInv, TypeOK, Pending
<1>2. \A i, j \in DOMAIN Pending : Pending[i] = Pending[j] => i = j
  BY <1>1, PendingSlots DEF IInv, TypeOK, SlotsOnce
<1>3. \A b \in Queued : b \in 1 .. carved /\ b \notin Free /\ b \notin Reach
  BY <1>1 DEF IInv, SlotsGone, Queued, Free
<1>4. FreeListIntact /\ LiveTablesKept
  BY DEF IInv, ReachKept, LiveTablesKept, Free
<1>5. QED
  BY <1>2, <1>3, <1>4 DEF FreedOnce, CandidatesGone

LEMMA InvAlways == ASSUME ~PopShared PROVE Spec => []IInv
<1>1. Init => IInv
  BY InitInv
<1>2. IInv /\ [Next]_vars => IInv'
  BY NextInv
<1>3. QED
  BY <1>1, <1>2, PTL DEF Spec

(* In a program whose POPs discard only last references, no table in use is *)
(* ever on the free list, whatever the marks say and however the            *)
(* collections fall: for every arena, ring and number of references.       *)
THEOREM LiveKept == ASSUME ~PopShared PROVE Spec => []LiveTablesKept
<1>1. IInv => LiveTablesKept
  BY InvSafe
<1>2. QED
  BY InvAlways, <1>1, PTL

(* In such a program the free list stays a list of distinct carved objects, *)
(* although its links share a byte with the marks.                         *)
THEOREM FreeListKept == ASSUME ~PopShared PROVE Spec => []FreeListIntact
<1>1. IInv => FreeListIntact
  BY InvSafe
<1>2. QED
  BY InvAlways, <1>1, PTL

(* In such a program no object waits in the ring twice or waits there while *)
(* it is free, and none that waits there comes back into use.              *)
THEOREM ReclaimedOnce == ASSUME ~PopShared PROVE Spec => [](FreedOnce /\ CandidatesGone)
<1>1. IInv => FreedOnce /\ CandidatesGone
  BY InvSafe
<1>2. QED
  BY InvAlways, <1>1, PTL

-----------------------------------------------------------------------------
(* The refinement: each step of the heap is a step of the store of tables   *)
(* the program expects, or changes nothing the program sees.               *)

LEMMA StoreReach == Store!Reach = Reach
BY DEF Store!Reach, Store!Closed, Reach, ReachOf, Closed

(* An object that is free, or not carved yet, is a new table of the store.  *)
LEMMA FillIsNew ==
  ASSUME NEW c \in Cells, cell[c] = NULL, NEW b \in Block \ Reach, Fill(c, b)
  PROVE  Store!New(c)
BY StoreReach DEF Fill, Store!New

LEMMA TakeFreeIsNew ==
  ASSUME IInv, NEW c \in Cells, cell[c] = NULL, TakeFree(c)
  PROVE  Store!New(c)
<1>1. freeSeq # <<>> /\ head = freeSeq[1] /\ 1 \in 1 .. Len(freeSeq)
  BY DEF IInv, TypeOK, FreeListIntact, TakeFree, Block, NULL
<1>2. head \in Block \ Reach
  BY <1>1 DEF IInv, ReachKept, TakeFree
<1>3. QED
  BY <1>2, FillIsNew DEF TakeFree

LEMMA CarveIsNew ==
  ASSUME IInv, NEW c \in Cells, cell[c] = NULL, Carve(c)
  PROVE  Store!New(c)
<1>1. carved + 1 \in Block /\ carved + 1 \notin 1 .. carved
  BY RoomBound DEF IInv, TypeOK, Carve
<1>2. carved + 1 \notin Reach
  BY <1>1 DEF IInv, ReachKept
<1>3. QED
  BY <1>1, <1>2, FillIsNew DEF Carve

(* The cell an allocation in progress will fill stays empty. *)
DestEmpty == pc # "run" => cell[dest] = NULL

LEMMA DestEmptyNext == TypeOK /\ DestEmpty /\ [Next]_vars => DestEmpty'
<1> SUFFICES ASSUME TypeOK, DestEmpty, [Next]_vars PROVE DestEmpty'
  OBVIOUS
<1>1. CASE Sweeper \/ Marker
  BY <1>1 DEF Sweeper, Marker, SweepOne, EndSweep, Retry, EndMark, MarkWild, program, DestEmpty
<1>2. CASE Program
  BY <1>2 DEF Program, NewFromFree, NewFromArena, StartCycle, Pop, Drop, Copy, SetTable,
     GetTable, program, DestEmpty
<1>3. CASE UNCHANGED vars
  BY <1>3 DEF vars, program, DestEmpty
<1>4. QED
  BY <1>1, <1>2, <1>3 DEF Next

LEMMA StepIsStoreStep ==
  ASSUME IInv, DestEmpty, Next
  PROVE  Store!Next \/ UNCHANGED program
<1>1. ASSUME NEW c \in Cells, NewFromFree(c) PROVE Store!Next
  BY <1>1, TakeFreeIsNew DEF NewFromFree, Store!Next
<1>2. ASSUME NEW c \in Cells, NewFromArena(c) PROVE Store!Next \/ UNCHANGED program
  BY <1>2, CarveIsNew DEF NewFromArena, Store!Next
<1>3. CASE SweepOne \/ EndSweep
  BY <1>3 DEF SweepOne, EndSweep
<1>4. CASE Retry
  <2>1. dest \in Cells /\ cell[dest] = NULL
    BY <1>4 DEF IInv, TypeOK, Retry, DestEmpty
  <2>2. QED
    BY <1>4, <2>1, TakeFreeIsNew, CarveIsNew DEF Retry, Store!Next
<1>5. ASSUME NEW c \in Cells, Pop(c) \/ Drop(c) PROVE Store!Next
  <2>1. Store!Forget(c)
    BY <1>5 DEF Pop, Drop, Without, Store!Forget
  <2>2. QED
    BY <2>1 DEF Store!Next
<1>6. ASSUME NEW c \in Cells, NEW d \in Cells, Copy(c, d) PROVE Store!Next
  BY <1>6 DEF Copy, Store!Copy, Store!Next
<1>7. ASSUME NEW c \in Cells, NEW d \in Cells, SetTable(c, d) PROVE Store!Next
  BY <1>7 DEF SetTable, Store!Store, Store!Next
<1>8. ASSUME NEW c \in Cells, NEW d \in Cells, GetTable(c, d) PROVE Store!Next
  BY <1>8 DEF GetTable, Store!Load, Store!Next
<1>9. ASSUME NEW c \in Cells, StartCycle(c) PROVE UNCHANGED program
  BY <1>9 DEF StartCycle
<1>10. CASE Marker
  BY <1>10 DEF Marker, EndMark, MarkWild
<1>11. QED
  BY <1>1, <1>2, <1>3, <1>4, <1>5, <1>6, <1>7, <1>8, <1>9, <1>10
     DEF Next, Sweeper, Program

(* The table heap implements the store of tables, for every program whose   *)
(* POPs discard only last references: an allocation never returns a table   *)
(* in use and a collection is invisible.                                   *)
THEOREM StoreImplemented == ASSUME ~PopShared PROVE Spec => ImplementsStore
<1>1. Init => Store!Init
  BY DEF Init, Store!Init
<1>2. Init => DestEmpty
  BY DEF Init, DestEmpty
<1>3. IInv /\ DestEmpty /\ [Next]_vars => DestEmpty'
  BY DestEmptyNext DEF IInv
<1>4. IInv /\ DestEmpty /\ [Next]_vars => [Store!Next]_<<cell, field>>
  <2> SUFFICES ASSUME IInv, DestEmpty, [Next]_vars PROVE [Store!Next]_<<cell, field>>
    OBVIOUS
  <2>1. CASE Next
    BY <2>1, StepIsStoreStep DEF program
  <2>2. CASE UNCHANGED vars
    BY <2>2 DEF vars, program
  <2>3. QED
    BY <2>1, <2>2
<1>5. QED
  BY InvAlways, <1>1, <1>2, <1>3, <1>4, PTL DEF Spec, ImplementsStore, Store!Spec

-----------------------------------------------------------------------------
(* When an allocation fails: for every program, those that discard shared   *)
(* copies included.                                                        *)

(* A full arena is below the forced threshold, so a collection is due. *)
LEMMA FullCollects ==
  ASSUME carved \in 0 .. Capacity, ~HasRoom
  PROVE  Collects /\ carved = Capacity
<1> DEFINE used == TableSize * carved
<1>1. used \in Nat /\ TableSize * (carved + 1) = used + TableSize
  BY LayoutAssumption
<1>2. FreeBytes < TableSize
  BY <1>1, LayoutAssumption DEF HasRoom, FreeBytes
<1>3. SoftLow /\ ForceLow
  <2>1. HeapBytes \div ForceDiv \in Int /\ HeapBytes \div SoftDiv \in Int
    BY LayoutAssumption, TriggerAssumption
  <2>2. FreeBytes \in Int
    BY <1>1, LayoutAssumption DEF FreeBytes
  <2>3. QED
    BY <1>2, <2>1, <2>2, LayoutAssumption, TriggerAssumption DEF SoftLow, ForceLow
<1>4. carved = Capacity
  <2>1. CASE carved + 1 <= Capacity
    <3>1. TableSize * (carved + 1) <= Capacity * TableSize
      BY <2>1, LayoutAssumption
    <3>2. QED
      BY <3>1, LayoutAssumption DEF HasRoom
  <2>2. QED
    BY <2>1, LayoutAssumption
<1>5. QED
  BY <1>3, <1>4 DEF Collects

RetryDrained == pc = "retry" => qhead = qtail

(* op_newtable (alloc_table_object) fails only after a collection that left *)
(* nothing to reuse, in an arena with all its objects carved.              *)
THEOREM FailureIsFull == Spec => []FailsOnlyWhenFull
<1>1. Init => RetryDrained
  BY DEF Init, RetryDrained
<1>2. RetryDrained /\ [Next]_vars => RetryDrained'
  <2> SUFFICES ASSUME RetryDrained, [Next]_vars PROVE RetryDrained'
    OBVIOUS
  <2>1. CASE Sweeper \/ Marker
    BY <2>1 DEF Sweeper, Marker, SweepOne, EndSweep, Retry, EndMark, MarkWild, ring, RetryDrained
  <2>2. CASE Program
    BY <2>2 DEF Program, NewFromFree, NewFromArena, StartCycle, Pop, Drop, Copy, SetTable,
       GetTable, RetryDrained
  <2>3. CASE UNCHANGED vars
    BY <2>3 DEF vars, ring, RetryDrained
  <2>4. QED
    BY <2>1, <2>2, <2>3 DEF Next
<1>3. TypeOK /\ RetryDrained => FailsOnlyWhenFull
  BY FullCollects DEF TypeOK, RetryDrained, FailsOnlyWhenFull
<1>4. QED
  BY TypeCorrect, <1>1, <1>2, <1>3, PTL DEF Spec

-----------------------------------------------------------------------------
(* The ring is a bounded queue, for every program. *)

RingLen(h, t) == IF h <= t THEN t - h ELSE t - h + QueueCap
Queue(b, h, t) == [i \in 1 .. RingLen(h, t) |-> b[Wrap(h + i - 1)]]

LEMMA QueueIs ==
  ASSUME NEW h \in Slot, NEW t \in Slot, NEW b \in [Slot -> Ref]
  PROVE  /\ RingLen(h, t) \in Nat /\ RingLen(h, t) <= QueueCap - 1
         /\ Queue(b, h, t) \in Seq(Ref) /\ Len(Queue(b, h, t)) = RingLen(h, t)
         /\ \A i \in 1 .. RingLen(h, t) : Queue(b, h, t)[i] = b[Wrap(h + i - 1)]
         /\ RingLen(h, t) = 0 <=> h = t
         /\ Wrap(h + RingLen(h, t)) = t
<1>1. /\ RingLen(h, t) \in Nat /\ RingLen(h, t) <= QueueCap - 1
      /\ RingLen(h, t) = 0 <=> h = t
      /\ Wrap(h + RingLen(h, t)) = t
  BY QueueAssumption DEF RingLen, Slot, Wrap
<1>2. \A i \in 1 .. RingLen(h, t) : Wrap(h + i - 1) \in Slot
  BY QueueAssumption DEF RingLen, Slot, Wrap
<1>3. Queue(b, h, t) \in [1 .. RingLen(h, t) -> Ref]
  BY <1>2 DEF Queue
<1>4. Queue(b, h, t) \in Seq(Ref)
  BY <1>1, <1>3, SeqDef
<1>5. Len(Queue(b, h, t)) = RingLen(h, t)
  BY <1>1, <1>3, <1>4, LenProperties
<1>6. \A i \in 1 .. RingLen(h, t) : Queue(b, h, t)[i] = b[Wrap(h + i - 1)]
  BY DEF Queue
<1>7. QED
  BY <1>1, <1>4, <1>5, <1>6

LEMMA PendingIs ==
  ASSUME TypeOK
  PROVE  /\ Waiting \in Nat /\ Waiting <= QueueCap - 1
         /\ Pending \in Seq(Ref) /\ Len(Pending) = Waiting
         /\ \A i \in 1 .. Waiting : Pending[i] = buf[Wrap(qhead + i - 1)]
         /\ Waiting = 0 <=> qhead = qtail
         /\ Wrap(qhead + Waiting) = qtail
<1>1. qhead \in Slot /\ qtail \in Slot /\ buf \in [Slot -> Ref]
  BY DEF TypeOK
<1>2. Waiting = RingLen(qhead, qtail) /\ Pending = Queue(buf, qhead, qtail)
  BY DEF Waiting, Pending, RingLen, Queue
<1>3. QED
  BY <1>1, <1>2, QueueIs

\* The same of the next state.
LEMMA NextPendingIs ==
  ASSUME TypeOK'
  PROVE  /\ Pending' \in Seq(Ref) /\ Len(Pending') = Waiting'
         /\ \A i \in 1 .. Waiting' : Pending'[i] = buf'[Wrap(qhead' + i - 1)]
<1>1. qhead' \in Slot /\ qtail' \in Slot /\ buf' \in [Slot -> Ref]
  BY DEF TypeOK
<1>2. Waiting' = RingLen(qhead', qtail') /\ Pending' = Queue(buf', qhead', qtail')
  BY DEF Waiting, Pending, RingLen, Queue, Wrap
<1>3. QED
  BY <1>1, <1>2, QueueIs

LEMMA SameRing ==
  ASSUME UNCHANGED ring
  PROVE  Pending' = Pending
BY DEF ring, Pending, Waiting, Wrap

LEMMA QueueIsFifo ==
  ASSUME TypeOK, TypeOK', NEW b \in Block, queue_table_reclaim_candidate(b)
  PROVE  Fifo!Enqueue(b) \/ Fifo!Reject
<1>1. qhead \in Slot /\ qtail \in Slot /\ buf \in [Slot -> Ref]
  BY DEF TypeOK
<1>2. CASE NextSlot(qtail) = qhead
  <2>1. Waiting = QueueCap - 1
    BY <1>1, <1>2, QueueAssumption DEF Waiting, Slot, NextSlot
  <2>2. count' = [count EXCEPT !.drop = Inc(@)] /\ UNCHANGED ring
    BY <1>2 DEF queue_table_reclaim_candidate
  <2>3. count'.drop = (count.drop + 1) % CounterMod
    BY <2>2 DEF Inc, TypeOK
  <2>4. QED
    BY <2>1, <2>2, <2>3, PendingIs, SameRing DEF Fifo!Reject
<1>3. CASE NextSlot(qtail) # qhead
  <2>1. buf' = [buf EXCEPT ![qtail] = b] /\ qtail' = NextSlot(qtail) /\ qhead' = qhead /\ count' = count
    BY <1>3 DEF queue_table_reclaim_candidate
  <2>2. Waiting < QueueCap - 1 /\ Waiting' = Waiting + 1
    BY <1>1, <1>3, <2>1, QueueAssumption DEF Waiting, Slot, NextSlot
  <2>3. /\ Waiting \in Nat /\ Pending \in Seq(Ref) /\ Len(Pending) = Waiting
        /\ \A i \in 1 .. Waiting : Pending[i] = buf[Wrap(qhead + i - 1)]
        /\ Wrap(qhead + Waiting) = qtail
    BY PendingIs
  <2>4. /\ Pending' \in Seq(Ref) /\ Len(Pending') = Waiting + 1
        /\ \A i \in 1 .. Waiting + 1 : Pending'[i] = buf'[Wrap(qhead + i - 1)]
    <3>1. /\ Pending' \in Seq(Ref) /\ Len(Pending') = Waiting'
          /\ \A i \in 1 .. Waiting' : Pending'[i] = buf'[Wrap(qhead' + i - 1)]
      BY NextPendingIs
    <3>2. QED
      BY <2>1, <2>2, <3>1
  <2>5. \A i \in 1 .. Waiting : Wrap(qhead + i - 1) \in Slot /\ Wrap(qhead + i - 1) # qtail
    BY <1>1, PendingSlots, QueueAssumption DEF InRing, Slot
  <2>6. ASSUME NEW i \in 1 .. Waiting + 1
        PROVE  Pending'[i] = Append(Pending, b)[i]
    <3>1. CASE i = Waiting + 1
      <4>1. Pending'[i] = b
        BY <1>1, <2>1, <2>3, <2>4, <3>1
      <4>2. QED
        BY <2>3, <3>1, <4>1
    <3>2. CASE i # Waiting + 1
      <4>1. i \in 1 .. Waiting
        BY <2>3, <3>2
      <4>2. Pending'[i] = buf[Wrap(qhead + i - 1)]
        BY <1>1, <2>1, <2>4, <2>5, <4>1
      <4>3. QED
        BY <2>3, <4>1, <4>2
    <3>3. QED
      BY <3>1, <3>2
  <2>7. Append(Pending, b) \in Seq(Ref) /\ Len(Append(Pending, b)) = Waiting + 1
    BY <2>3 DEF Ref
  <2>8. Pending' = Append(Pending, b)
    BY <2>3, <2>4, <2>6, <2>7, SeqEqual
  <2>9. QED
    BY <2>1, <2>2, <2>3, <2>8 DEF Fifo!Enqueue
<1>4. QED
  BY <1>2, <1>3

LEMMA SweepIsFifo ==
  ASSUME TypeOK, TypeOK', SweepOne
  PROVE  Fifo!Dequeue
<1>1. qhead \in Slot /\ qtail \in Slot /\ buf \in [Slot -> Ref] /\ qhead # qtail
  BY DEF TypeOK, SweepOne
<1>2. buf' = [buf EXCEPT ![qhead] = NULL] /\ qtail' = qtail /\ qhead' = NextSlot(qhead) /\ count' = count
  BY DEF SweepOne
<1>3. /\ Waiting \in Nat /\ Pending \in Seq(Ref) /\ Len(Pending) = Waiting /\ Waiting # 0
      /\ \A i \in 1 .. Waiting : Pending[i] = buf[Wrap(qhead + i - 1)]
  BY <1>1, PendingIs
<1>4. Waiting' = Waiting - 1
  BY <1>1, <1>2, QueueAssumption DEF Waiting, Slot, NextSlot
<1>5. /\ Pending' \in Seq(Ref) /\ Len(Pending') = Waiting - 1
      /\ \A i \in 1 .. Waiting - 1 : Pending'[i] = buf'[Wrap(NextSlot(qhead) + i - 1)]
  <2>1. /\ Pending' \in Seq(Ref) /\ Len(Pending') = Waiting'
        /\ \A i \in 1 .. Waiting' : Pending'[i] = buf'[Wrap(qhead' + i - 1)]
    BY NextPendingIs
  <2>2. QED
    BY <1>2, <1>4, <2>1
<1>6. ASSUME NEW i \in 1 .. Waiting - 1
      PROVE  Pending'[i] = Tail(Pending)[i]
  <2>1. Wrap(NextSlot(qhead) + i - 1) = Wrap(qhead + (i + 1) - 1)
    BY <1>1, <1>3, QueueAssumption, PendingIs DEF Slot, NextSlot, Wrap
  <2>2. i + 1 \in 1 .. Waiting /\ 1 \in 1 .. Waiting /\ i + 1 # 1
    BY <1>3
  <2>3. Wrap(qhead + (i + 1) - 1) # Wrap(qhead + 1 - 1) /\ Wrap(qhead + (i + 1) - 1) \in Slot
    BY <1>1, <2>2, PendingSlots
  <2>4. Wrap(qhead + 1 - 1) = qhead
    BY <1>1, QueueAssumption DEF Slot, Wrap
  <2>5. Pending'[i] = buf[Wrap(qhead + (i + 1) - 1)]
    BY <1>1, <1>2, <1>5, <2>1, <2>3, <2>4
  <2>6. Pending'[i] = Pending[i + 1]
    BY <1>3, <2>2, <2>5
  <2>7. QED
    BY <1>3, <2>6
<1>7. Tail(Pending) \in Seq(Ref) /\ Len(Tail(Pending)) = Waiting - 1 /\ Pending # <<>>
  BY <1>3, EmptyLen
<1>8. Pending' = Tail(Pending)
  BY <1>3, <1>5, <1>6, <1>7, SeqEqual
<1>9. QED
  BY <1>2, <1>7, <1>8 DEF Fifo!Dequeue

(* Candidates leave the ring in the order they came, and one that finds it  *)
(* full is counted (queue_table_reclaim_candidate, gc_run_sweep_cycle).     *)
THEOREM RingImplemented == Spec => RingIsFifo
<1>1. Init => Fifo!Init
  <2> SUFFICES ASSUME Init PROVE Fifo!Init
    OBVIOUS
  <2>1. TypeOK /\ qhead = qtail /\ count.drop = 0
    BY InitType DEF Init
  <2>2. Pending = <<>>
    BY <2>1, PendingIs, EmptyLen
  <2>3. QED
    BY <2>1, <2>2 DEF Fifo!Init
<1>2. TypeOK /\ [Next]_vars => TypeOK'
  BY NextType
<1>3. TypeOK /\ TypeOK' /\ [Next]_vars => [Fifo!Next]_<<Pending, count.drop>>
  <2> SUFFICES ASSUME TypeOK, TypeOK', [Next]_vars
               PROVE  Fifo!Next \/ (Pending' = Pending /\ count'.drop = count.drop)
    OBVIOUS
  <2>1. CASE SweepOne
    BY <2>1, SweepIsFifo DEF Fifo!Next
  <2>2. ASSUME NEW c \in Cells, Pop(c) PROVE Fifo!Next
    <3>1. cell[c] \in Block /\ queue_table_reclaim_candidate(cell[c])
      BY <2>2 DEF Pop, TypeOK, Ref
    <3>2. QED
      BY <3>1, QueueIsFifo DEF Fifo!Next
  <2> DEFINE Same == UNCHANGED ring /\ count'.drop = count.drop
  <2>3. EndSweep \/ Retry => Same
    BY DEF EndSweep, Retry, TypeOK
  <2>4. ASSUME NEW c \in Cells, NewFromFree(c) \/ NewFromArena(c) \/ Drop(c)
        PROVE  Same
    BY <2>4 DEF NewFromFree, NewFromArena, Drop, TypeOK
  <2>5. ASSUME NEW c \in Cells, StartCycle(c) PROVE Same
    BY <2>5 DEF StartCycle, TypeOK
  <2>6. ASSUME NEW c \in Cells, NEW d \in Cells, Copy(c, d) \/ SetTable(c, d) \/ GetTable(c, d)
        PROVE  Same
    BY <2>6 DEF Copy, SetTable, GetTable
  <2>7. UNCHANGED vars => Same
    BY DEF vars, ring
  <2>8. Marker => Same
    BY DEF Marker, EndMark, MarkWild
  <2>9. Same => Pending' = Pending /\ count'.drop = count.drop
    BY SameRing
  <2> HIDE DEF Same
  <2>10. QED
    BY <2>1, <2>2, <2>3, <2>4, <2>5, <2>6, <2>7, <2>8, <2>9 DEF Next, Sweeper, Program
<1>4. QED
  BY InitType, <1>1, <1>2, <1>3, PTL DEF Spec, RingIsFifo, Fifo!Spec

=============================================================================
