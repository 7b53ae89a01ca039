----------------------------- MODULE TableStore -----------------------------
(***************************************************************************)
(* What the program expects of the table heap: a new table is one that     *)
(* nothing it can reach refers to, and no table it can reach changes       *)
(* unless the program changes it.  Collections are invisible here.         *)
(***************************************************************************)
EXTENDS Naturals

CONSTANTS
  Tables,   \* the table objects there may be
  Cells,    \* where the program keeps references
  NULL      \* no reference

VARIABLES
  cell,     \* [c] the table cell c refers to, or NULL
  field     \* [t] the table an entry of t refers to, or NULL

Closed(R) ==
  /\ \A c \in Cells : cell[c] # NULL => cell[c] \in R
  /\ \A t \in R : field[t] # NULL => field[t] \in R

Reach == {t \in Tables : \A R \in SUBSET Tables : Closed(R) => t \in R}

Init ==
  /\ cell = [c \in Cells |-> NULL]
  /\ field = [t \in Tables |-> NULL]

New(c) ==
  /\ cell[c] = NULL
  /\ \E t \in Tables \ Reach :
       /\ cell' = [cell EXCEPT ![c] = t]
       /\ field' = [field EXCEPT ![t] = NULL]

Forget(c) ==
  /\ cell[c] # NULL
  /\ cell' = [cell EXCEPT ![c] = NULL]
  /\ UNCHANGED field

Copy(c, d) ==
  /\ cell[c] # NULL /\ cell[d] = NULL
  /\ cell' = [cell EXCEPT ![d] = cell[c]]
  /\ UNCHANGED field

Store(c, d) ==
  /\ cell[c] # NULL
  /\ field' = [field EXCEPT ![cell[c]] = cell[d]]
  /\ UNCHANGED cell

Load(c, d) ==
  /\ cell[c] # NULL /\ cell[d] = NULL
  /\ cell' = [cell EXCEPT ![d] = field[cell[c]]]
  /\ UNCHANGED field

Next ==
  \/ \E c \in Cells : New(c) \/ Forget(c)
  \/ \E c, d \in Cells : Copy(c, d) \/ Store(c, d) \/ Load(c, d)

Spec == Init /\ [][Next]_<<cell, field>>
=============================================================================
