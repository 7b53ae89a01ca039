------------------------------ MODULE TableHeap ------------------------------
(***************************************************************************)
(* The table heap of the Z80 runtime that zeallua emits: the bump-allocated *)
(* arena of fixed-size table objects, the free list threaded through their *)
(* headers, the ring of tables waiting to be reclaimed, and the mark/sweep *)
(* cycle an allocation may start (codegen_emit_ops.c, emit_table_ops).     *)
(*                                                                         *)
(* The n-th object of the arena is the number n; NULL is address 0.        *)
(* The VM is one thread: while a collection runs the program is stopped in *)
(* op_newtable.  The sweep loop is one step per iteration.                 *)
(*                                                                         *)
(* An operator named after another with a suffix (NextSlot_late) is that   *)
(* operator with a plausible fault: no specification uses it, it is there  *)
(* to see that a property fails when the code has the fault.               *)
(***************************************************************************)
EXTENDS Integers, Sequences

CONSTANTS
  TableSize,    \* bytes of a table object (TABLE_SIZE, 52)
  HeapBytes,    \* bytes of the arena (TABLE_HEAP_BYTES, 14336)
  Capacity,     \* objects the arena has room for (275)
  SoftDiv,      \* a collection is considered below HeapBytes \div SoftDiv (4)
  ForceDiv,     \* and forced below HeapBytes \div ForceDiv (8)
  QueueCap,     \* slots of the reclaim ring (TABLE_RECLAIM_QUEUE_CAP, 64)
  CounterMod,   \* modulus of the diagnostic counters (65536)
  Cells,        \* where the program keeps values: stack slots, globals, captures
  PopShared     \* may OP_POP discard a copy of a table that is still in use?

Block == 1 .. Capacity
NULL  == 0
WILD  == -1             \* a 16-bit value that is no object's address
Ref   == Block \cup {NULL}
Word  == Ref \cup {WILD}
Slot  == 0 .. QueueCap - 1
Counter == 0 .. CounterMod - 1

ASSUME LayoutAssumption ==
  /\ TableSize \in Nat \ {0} /\ HeapBytes \in Nat /\ Capacity \in Nat \ {0}
  /\ Capacity * TableSize <= HeapBytes
  /\ HeapBytes < (Capacity + 1) * TableSize

ASSUME TriggerAssumption ==
  /\ SoftDiv \in Nat \ {0} /\ ForceDiv \in Nat \ {0} /\ SoftDiv <= ForceDiv
  /\ TableSize <= HeapBytes \div ForceDiv
  /\ HeapBytes \div ForceDiv <= HeapBytes \div SoftDiv

ASSUME QueueAssumption == QueueCap \in Nat \ {0, 1} /\ CounterMod \in Nat \ {0}

ASSUME ProgramAssumption == PopShared \in BOOLEAN /\ NULL \notin Cells

VARIABLES
  carved,     \* heap_ptr: how many objects have been carved from the arena
  head,       \* free_table_list
  word,       \* [b] header bytes 0..1 of b read as a little-endian pointer
  marked,     \* objects whose header byte 1 (gc_mark) is not zero
  buf,        \* pending_table_reclaim_buf
  qhead,      \* pending_table_reclaim_head
  qtail,      \* pending_table_reclaim_tail
  cell,       \* [c] the table a program cell refers to, or NULL
  field,      \* [b] the table an entry of b refers to, or NULL
  pc,         \* where op_newtable is: "run" when it is not in progress,
              \* "wild" once the mark phase has written outside the headers
  dest,       \* the cell that op_newtable in progress will fill
  count,      \* the diagnostic counters
  freeSeq     \* history: the objects on the free list, from the head on

program == <<cell, field>>
ring    == <<buf, qhead, qtail>>
arena   == <<carved, head, word, marked, freeSeq>>
vars    == <<arena, ring, program, pc, dest, count>>

-----------------------------------------------------------------------------
(* What the program can still get at: the least set that holds every cell's *)
(* table and, with a table, the table its entry refers to.                 *)

Closed(R, cl, fd) ==
  /\ \A c \in Cells : cl[c] # NULL => cl[c] \in R
  /\ \A b \in R : fd[b] # NULL => fd[b] \in R

ReachOf(cl, fd) == {b \in Block : \A R \in SUBSET Block : Closed(R, cl, fd) => b \in R}
Reach == ReachOf(cell, field)

Inc(x) == (x + 1) % CounterMod
FreeBytes == HeapBytes - TableSize * carved

(* Startup clears everything from bss_start on, and the image file ends     *)
(* there, so a byte the generator emits as 1 is 0 when the program starts.  *)
BssByte(emitted) == 0
gc_sweep_enabled == BssByte(1)

-----------------------------------------------------------------------------
(* The reclaim ring. *)

NextSlot_late(i) == IF i = QueueCap THEN 0 ELSE i + 1
NextSlot(i) == IF i + 1 = QueueCap THEN 0 ELSE i + 1

queue_table_reclaim_candidate_unchecked(b) ==
  /\ buf' = [buf EXCEPT ![qtail] = b]
  /\ qtail' = NextSlot(qtail)
  /\ UNCHANGED <<qhead, count>>

queue_table_reclaim_candidate(b) ==
  IF NextSlot(qtail) = qhead
    THEN /\ count' = [count EXCEPT !.drop = Inc(@)]
         /\ UNCHANGED ring
    ELSE /\ buf' = [buf EXCEPT ![qtail] = b]
         /\ qtail' = NextSlot(qtail)
         /\ UNCHANGED <<qhead, count>>

(* The candidates in the ring, in the order they were queued. *)
Wrap(i) == IF i >= QueueCap THEN i - QueueCap ELSE i
Waiting == IF qhead <= qtail THEN qtail - qhead ELSE qtail - qhead + QueueCap
Pending == [i \in 1 .. Waiting |-> buf[Wrap(qhead + i - 1)]]

-----------------------------------------------------------------------------
(* The free list.  A link overwrites header bytes 0..1, the mark included.  *)

free_table_object_swapped(b) ==
  /\ head' = b
  /\ word' = [word EXCEPT ![b] = head']
  /\ marked' = marked \cup {b}
  /\ freeSeq' = <<b>> \o freeSeq

free_table_object(b) ==
  /\ word' = [word EXCEPT ![b] = head]
  /\ marked' = IF head = NULL THEN marked \ {b} ELSE marked \cup {b}
  /\ head' = b
  /\ freeSeq' = <<b>> \o freeSeq

(* table_is_marked_clear zeroes byte 1: if it held the high half of a link, *)
(* what is left of the link points into page zero.                          *)
ClearMark(b) ==
  /\ marked' = marked \ {b}
  /\ word' = [word EXCEPT ![b] = IF @ \in Block THEN WILD ELSE @]
  /\ UNCHANGED <<head, freeSeq>>

Fill_stale(c, b) ==
  /\ cell' = [cell EXCEPT ![c] = b]
  /\ word' = [word EXCEPT ![b] = NULL]
  /\ marked' = marked \ {b}
  /\ UNCHANGED field

(* op_newtable clears all bytes of the object it was given. *)
Fill(c, b) ==
  /\ cell' = [cell EXCEPT ![c] = b]
  /\ field' = [field EXCEPT ![b] = NULL]
  /\ word' = [word EXCEPT ![b] = NULL]
  /\ marked' = marked \ {b}

TakeFree_linked(c) ==
  /\ head \in Block
  /\ freeSeq' = IF freeSeq = <<>> THEN <<>> ELSE Tail(freeSeq)
  /\ Fill(c, head)
  /\ UNCHANGED <<carved, head>>

TakeFree(c) ==
  /\ head \in Block
  /\ head' = word[head]
  /\ freeSeq' = IF freeSeq = <<>> THEN <<>> ELSE Tail(freeSeq)
  /\ Fill(c, head)
  /\ UNCHANGED carved

HasRoom == TableSize * (carved + 1) <= HeapBytes

Carve(c) ==
  /\ HasRoom
  /\ carved' = carved + 1
  /\ Fill(c, carved + 1)
  /\ UNCHANGED <<head, freeSeq>>

-----------------------------------------------------------------------------
Init ==
  /\ carved = 0 /\ head = NULL /\ freeSeq = <<>>
  /\ word = [b \in Block |-> NULL] /\ marked = {}
  /\ buf = [i \in Slot |-> NULL] /\ qhead = 0 /\ qtail = 0
  /\ cell = [c \in Cells |-> NULL] /\ field = [b \in Block |-> NULL]
  /\ pc = "run" /\ dest = NULL
  /\ count = [soft |-> 0, force |-> 0, cycle |-> 0, fail |-> 0, drop |-> 0]

(* maybe_gc_tables_on_alloc: how little room is left, and does that start a *)
(* collection?                                                             *)
SoftLow  == FreeBytes < HeapBytes \div SoftDiv
ForceLow == FreeBytes < HeapBytes \div ForceDiv
Collects_pending == SoftLow /\ qhead # qtail /\ ForceLow

Collects == SoftLow /\ (ForceLow \/ (qhead # qtail /\ gc_sweep_enabled # 0))

(* op_newtable with an object on the free list. *)
NewFromFree(c) ==
  /\ pc = "run" /\ cell[c] = NULL
  /\ TakeFree(c)
  /\ UNCHANGED <<ring, pc, dest, count>>

(* op_newtable with an empty free list, when no collection is due. *)
NewFromArena(c) ==
  /\ pc = "run" /\ cell[c] = NULL /\ head = NULL /\ ~Collects
  /\ IF HasRoom THEN Carve(c) ELSE UNCHANGED <<arena, program>>
  /\ count' = [count EXCEPT !.soft = IF SoftLow THEN Inc(@) ELSE @,
                            !.fail = IF HasRoom THEN @ ELSE Inc(@)]
  /\ UNCHANGED <<ring, pc, dest>>

(* clear_table_marks zeroes byte 1 of every carved header. *)
Unlinked == [b \in Block |-> IF word[b] \in Block THEN WILD ELSE word[b]]

(* op_newtable with an empty free list, when a collection is due:           *)
(* gc_run_sweep_cycle up to its call of mark_table_roots.                   *)
StartCycle(c) ==
  /\ pc = "run" /\ cell[c] = NULL /\ head = NULL /\ Collects
  /\ marked' = {}
  /\ word' = Unlinked
  /\ freeSeq' = <<>>
  /\ count' = [count EXCEPT !.soft = Inc(@), !.cycle = Inc(@),
                            !.force = IF ForceLow THEN Inc(@) ELSE @]
  /\ pc' = "mark" /\ dest' = c
  /\ UNCHANGED <<carved, head, ring, program>>

(* mark_table_roots reads misplaced cells (module RootScan): it may mark    *)
(* any set of objects, ...                                                 *)
Markings == SUBSET (1 .. carved)

EndMark(M) ==
  /\ pc = "mark"
  /\ marked' = M
  /\ pc' = "sweep"
  /\ UNCHANGED <<carved, head, word, freeSeq, ring, program, dest, count>>

(* ... it may write a mark where no table header is, and then nothing is    *)
(* promised any more, or it may never end: the scan of the frame stops when *)
(* its pointer meets what mark_table_cell left in DE.  So no fairness       *)
(* condition makes the phase end.                                          *)
MarkWild ==
  /\ pc = "mark"
  /\ pc' = "wild"
  /\ UNCHANGED <<arena, ring, program, dest, count>>

SweepOne_stuck ==
  /\ pc = "sweep" /\ qhead # qtail
  /\ IF buf[qhead] \in marked
       THEN UNCHANGED <<head, word, marked, freeSeq, ring>>
       ELSE /\ free_table_object(buf[qhead])
            /\ qhead' = NextSlot(qhead)
            /\ UNCHANGED <<buf, qtail>>
  /\ UNCHANGED <<carved, program, pc, dest, count>>

SweepOne_kept ==
  /\ pc = "sweep" /\ qhead # qtail
  /\ IF buf[qhead] \in marked
       THEN ClearMark(buf[qhead]) /\ qhead' = NextSlot(qhead)
       ELSE free_table_object(buf[qhead]) /\ UNCHANGED qhead
  /\ UNCHANGED <<carved, buf, qtail, program, pc, dest, count>>

(* One iteration of gc_run_sweep_cycle's loop over the ring.  The code      *)
(* leaves the slot as it was; nothing reads it before it is written again.  *)
SweepOne ==
  /\ pc = "sweep" /\ qhead # qtail
  /\ \/ buf[qhead] = NULL /\ UNCHANGED <<head, word, marked, freeSeq>>
     \/ buf[qhead] \in marked /\ ClearMark(buf[qhead])
     \/ buf[qhead] \in Block \ marked /\ free_table_object(buf[qhead])
  /\ qhead' = NextSlot(qhead)
  /\ buf' = [buf EXCEPT ![qhead] = NULL]
  /\ UNCHANGED <<carved, qtail, program, pc, dest, count>>

EndSweep ==
  /\ pc = "sweep" /\ qhead = qtail
  /\ pc' = "retry"
  /\ UNCHANGED <<arena, ring, program, dest, count>>

(* The rest of alloc_table_object once the collection has returned. *)
Retry ==
  /\ pc = "retry"
  /\ pc' = "run" /\ dest' = NULL
  /\ \/ TakeFree(dest) /\ UNCHANGED count
     \/ head = NULL /\ Carve(dest) /\ UNCHANGED count
     \/ /\ head = NULL /\ ~HasRoom
        /\ count' = [count EXCEPT !.fail = Inc(@)]
        /\ UNCHANGED <<arena, program>>
  /\ UNCHANGED ring

-----------------------------------------------------------------------------
(* The program between two allocations. *)

Without(c) == [cell EXCEPT ![c] = NULL]

(* op_pop of a table: a block-scoped local leaves its block, or an          *)
(* expression statement's value is discarded.                              *)
Pop(c) ==
  /\ pc = "run" /\ cell[c] # NULL
  /\ PopShared \/ cell[c] \notin ReachOf(Without(c), field)
  /\ cell' = Without(c)
  /\ queue_table_reclaim_candidate(cell[c])
  /\ UNCHANGED <<arena, field, pc, dest>>

(* A reference goes without op_pop seeing it: op_return drops the frame,    *)
(* op_setglobal or op_setlocal overwrites it.                               *)
Drop(c) ==
  /\ pc = "run" /\ cell[c] # NULL
  /\ cell' = Without(c)
  /\ UNCHANGED <<arena, ring, field, pc, dest, count>>

(* A reference is copied: op_dup, op_getlocal, op_getglobal, op_setglobal... *)
Copy(c, d) ==
  /\ pc = "run" /\ cell[c] # NULL /\ cell[d] = NULL
  /\ cell' = [cell EXCEPT ![d] = cell[c]]
  /\ UNCHANGED <<arena, ring, field, pc, dest, count>>

(* op_settable with a table or nil as the value.  The entry count it leaves *)
(* in header byte 0 would be read as a page-zero link.                      *)
SetTable(c, d) ==
  /\ pc = "run" /\ cell[c] # NULL
  /\ field' = [field EXCEPT ![cell[c]] = cell[d]]
  /\ word' = [word EXCEPT ![cell[c]] = WILD]
  /\ UNCHANGED <<carved, head, marked, freeSeq, ring, cell, pc, dest, count>>

(* op_gettable that finds a table. *)
GetTable(c, d) ==
  /\ pc = "run" /\ cell[c] # NULL /\ cell[d] = NULL /\ field[cell[c]] # NULL
  /\ cell' = [cell EXCEPT ![d] = field[cell[c]]]
  /\ UNCHANGED <<arena, ring, field, pc, dest, count>>

Sweeper ==
  \/ SweepOne
  \/ EndSweep
  \/ Retry

Marker ==
  \/ \E M \in Markings : EndMark(M)
  \/ MarkWild

Program ==
  \/ \E c \in Cells :
       \/ NewFromFree(c)
       \/ NewFromArena(c)
       \/ StartCycle(c)
       \/ Pop(c)
       \/ Drop(c)
  \/ \E c, d \in Cells :
       \/ Copy(c, d)
       \/ SetTable(c, d)
       \/ GetTable(c, d)

Next == Sweeper \/ Marker \/ Program

Spec == Init /\ [][Next]_vars

(* The VM never stops in the middle of an instruction: once the marking is  *)
(* over, the sweep goes on.                                                *)
FairSpec == Spec /\ WF_vars(Sweeper)
-----------------------------------------------------------------------------
(* Properties. *)

Free == {freeSeq[i] : i \in 1 .. Len(freeSeq)}
Queued == {Pending[i] : i \in DOMAIN Pending}

TypeOK ==
  /\ carved \in 0 .. Capacity
  /\ head \in Word /\ word \in [Block -> Word] /\ marked \subseteq Block
  /\ buf \in [Slot -> Ref] /\ qhead \in Slot /\ qtail \in Slot
  /\ cell \in [Cells -> Ref] /\ field \in [Block -> Ref]
  /\ (pc = "run") = (dest = NULL)
  /\ pc \in {"run", "mark", "sweep", "retry", "wild"} /\ dest \in Cells \cup {NULL}
  /\ count \in [soft : Counter, force : Counter, cycle : Counter, fail : Counter,
                drop : Counter]
  /\ freeSeq \in Seq(Block)

(* The free list is a list: it starts at free_table_list, follows the links *)
(* in the headers through distinct carved objects and ends in a zero link.  *)
(* (free_table_object, alloc_table_object_from_free and the mark byte that  *)
(* shares a link's high half.)                                             *)
FreeListIntact ==
  /\ head = IF freeSeq = <<>> THEN NULL ELSE freeSeq[1]
  /\ \A i \in 1 .. Len(freeSeq) :
       /\ freeSeq[i] \in 1 .. carved
       /\ word[freeSeq[i]] = IF i = Len(freeSeq) THEN NULL ELSE freeSeq[i + 1]
  /\ \A i, j \in 1 .. Len(freeSeq) : freeSeq[i] = freeSeq[j] => i = j

(* A table the program can still reach is neither free nor reclaimed by the *)
(* sweep (gc_run_sweep_cycle frees every candidate it finds unmarked).      *)
LiveTablesKept == \A b \in Reach : b \in 1 .. carved /\ b \notin Free

(* No table waits twice in the ring, or waits there and is free already:    *)
(* op_pop and the sweep never free an object twice.                        *)
FreedOnce ==
  /\ \A i, j \in DOMAIN Pending : Pending[i] = Pending[j] => i = j
  /\ Queued \cap Free = {}

(* A table that waits in the ring is one the program can no longer reach:   *)
(* op_pop queues it "not modified until a future mark phase proves it       *)
(* unreachable", and nothing the program does until then brings it back.   *)
CandidatesGone == Queued \subseteq (1 .. carved) \ Reach

(* op_newtable fails only when nothing is free and nothing can be carved.   *)
(* Then a collection is due before it fails, and after the collection the   *)
(* ring is empty and the arena full (maybe_gc_tables_on_alloc's thresholds  *)
(* are above the size of one table).                                       *)
FailsOnlyWhenFull ==
  head = NULL /\ ~HasRoom =>
    /\ pc = "run" => Collects
    /\ pc = "retry" => qhead = qtail /\ carved = Capacity

(* queue_table_reclaim_candidate and the sweep loop are a bounded FIFO.     *)
Fifo == INSTANCE BoundedQueue
          WITH Values <- Block, Cap <- QueueCap - 1, q <- Pending, drops <- count.drop
RingIsFifo == Fifo!Spec

(* The heap is the store of tables the program expects: op_newtable never   *)
(* hands out a table the program can reach, and a collection changes        *)
(* nothing the program sees.                                               *)
Store == INSTANCE TableStore WITH Tables <- Block
ImplementsStore == Store!Spec

(* Once the marking has ended, op_newtable returns: the sweep empties the   *)
(* ring and stays in no iteration.                                         *)
SweepReturns == pc \in {"sweep", "retry"} ~> pc = "run"
=============================================================================
