----------------------------- MODULE MCRootScan -----------------------------
EXTENDS RootScan, TLC

(* Two digits to a word: 100 addresses.  As in the code 65536, 100 leaves   *)
(* the remainder 1 when divided by 3, so a walk in steps of three meets     *)
(* every address.  No pointer to a record or a cell has a digit 0.          *)

(* A function with two captured locals of its own, at 47, and one without,  *)
(* at 17; each has one of main's two captured locals as its upvalue.        *)
MCRecords == 47 :> [upvalues |-> <<41>>, cells |-> 2] @@
             17 :> [upvalues |-> <<44>>, cells |-> 0]

Main    == [base |-> 0, env |-> 41, closure |-> 0]
First   == [base |-> 0, env |-> 56, closure |-> 47]
Second  == [base |-> 1, env |-> 0, closure |-> 17]
Refused == [base |-> 1, env |-> 0, closure |-> 47]

(* Main; a call; a call within it of the other function; a recursive call   *)
(* whose environment was refused.                                          *)
MCCalls ==
  {<<Main>>, <<Main, First>>, <<Main, First, Second>>, <<Main, First, Refused>>}
=============================================================================
