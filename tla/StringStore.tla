----------------------------- MODULE StringStore -----------------------------
(***************************************************************************)
(* What the program expects of the string heap: a string never changes     *)
(* once it is made, whatever is made, dropped or collected after it.  When *)
(* there is no room the result is the empty string, not an error.          *)
(***************************************************************************)
EXTENDS Sequences

CONSTANTS
  Cells,      \* where the program keeps strings
  Literals    \* the texts the program makes without operands (input, file reads, numbers)

VARIABLE
  value       \* [c] the string cell c holds; <<>> for an empty one or none

Init == value = [c \in Cells |-> <<>>]

Gets(c, s) == value' = [value EXCEPT ![c] = s]

Make(c, s)    == Gets(c, s) \/ Gets(c, <<>>)
Concat(c, d, e) == Gets(c, value[d] \o value[e]) \/ Gets(c, <<>>)
Copy(c, d)    == Gets(c, value[d])
Drop(c)       == Gets(c, <<>>)

Next ==
  \/ \E c \in Cells : Drop(c) \/ \E s \in Literals : Make(c, s)
  \/ \E c, d \in Cells : Copy(c, d) \/ \E e \in Cells : Concat(c, d, e)

Spec == Init /\ [][Next]_value
=============================================================================
