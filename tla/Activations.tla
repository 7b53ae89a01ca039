---------------------------- MODULE Activations ----------------------------
(***************************************************************************)
(* What a program expects of calls and closures: every activation of a     *)
(* function has values of its own and variables of its own in cells that   *)
(* nobody had before, a closure keeps the cells it was made with, and a    *)
(* return leaves the caller's activation as it was, with the result on top. *)
(* There are no addresses, no stacks of words and no saved registers here. *)
(***************************************************************************)
EXTENDS Naturals, Sequences

CONSTANTS
  Function,   \* the functions besides the main program
  Main,       \* the main program
  Params,     \* [f] how many parameters f has
  EnvCells,   \* [f] how many variables of f are captured
  Captures,   \* [f] for each upvalue of f, whose variable and which
  Encl,       \* [f] the function whose body makes closures of f
  Points,     \* the points of a function's code
  Plain,      \* the values that are no functions
  Nil,        \* the value of a fresh cell, one of Plain
  CellIds,    \* cells
  NoCell      \* no cell

VARIABLES
  acts,       \* the activations, the running one last
  cells,      \* the value of each cell that has been handed out
  lost        \* "no", or why the machine no longer runs the program

Top == acts[Len(acts)]
Closure(f, ups) == <<"closure", f, ups>>
WithOps(s) == acts' = [acts EXCEPT ![Len(acts)].ops = s]

\* The cells of a new activation of f: fresh ones, or none when memory is out.
Fresh(f) ==
  {e \in [1 .. EnvCells[f] -> CellIds \ DOMAIN cells] :
     \A i, j \in DOMAIN e : i # j => e[i] # e[j]}
Missing(f) == [i \in 1 .. EnvCells[f] |-> NoCell]

Start(f, args, e, ups) ==
  [fn |-> f, at |-> 0, ops |-> args, env |-> e, ups |-> ups]

Init ==
  /\ lost = "no"
  /\ \E e \in [1 .. EnvCells[Main] -> CellIds] :
       /\ \A i, j \in DOMAIN e : i # j => e[i] # e[j]
       /\ cells = [c \in {e[i] : i \in DOMAIN e} |-> Nil]
       /\ acts = <<Start(Main, <<>>, e, <<>>)>>

Jump == \E p \in Points :
  /\ acts' = [acts EXCEPT ![Len(acts)].at = p]
  /\ UNCHANGED cells

Load == \E v \in Plain : WithOps(Append(Top.ops, v)) /\ UNCHANGED cells

Pop == Top.ops # <<>> /\ WithOps(SubSeq(Top.ops, 1, Len(Top.ops) - 1)) /\ UNCHANGED cells

GetLocal == \E i \in DOMAIN Top.ops :
  WithOps(Append(Top.ops, Top.ops[i])) /\ UNCHANGED cells

SetLocal == \E i \in DOMAIN Top.ops :
  LET n == Len(Top.ops) IN
  /\ i < n
  /\ WithOps(SubSeq([Top.ops EXCEPT ![i] = Top.ops[n]], 1, n - 1))
  /\ UNCHANGED cells

Get(c) == c \in DOMAIN cells /\ WithOps(Append(Top.ops, cells[c])) /\ UNCHANGED cells

Set(c) ==
  /\ c \in DOMAIN cells /\ Top.ops # <<>>
  /\ cells' = [cells EXCEPT ![c] = Top.ops[Len(Top.ops)]]
  /\ WithOps(SubSeq(Top.ops, 1, Len(Top.ops) - 1))

Make == \E f \in Function :
  /\ Encl[f] = Top.fn
  /\ LET ups == [k \in DOMAIN Captures[f] |->
                   IF Captures[f][k].parent THEN Top.ups[Captures[f][k].index + 1]
                                            ELSE Top.env[Captures[f][k].index + 1]]
     IN WithOps(Append(Top.ops, Closure(f, ups)))
  /\ UNCHANGED cells

Call == \E f \in Function :
  LET at == Len(Top.ops) - Params[f]
  IN /\ at >= 1
     /\ Top.ops[at][1] = "closure" /\ Top.ops[at][2] = f
     /\ \E e \in Fresh(f) \cup {Missing(f)} :
          /\ acts' = Append([acts EXCEPT ![Len(acts)].ops = SubSeq(@, 1, at - 1)],
                            Start(f, SubSeq(Top.ops, at, Len(Top.ops)), e, Top.ops[at][3]))
          /\ cells' = [c \in DOMAIN cells \cup ({e[i] : i \in DOMAIN e} \ {NoCell}) |->
                         IF c \in DOMAIN cells THEN cells[c] ELSE Nil]

Return ==
  LET caller == Len(acts) - 1
  IN /\ caller >= 1 /\ Top.ops # <<>>
     /\ acts' = [SubSeq(acts, 1, caller) EXCEPT
                   ![caller].ops = Append(@, Top.ops[Len(Top.ops)])]
     /\ UNCHANGED cells

Lose == lost' # "no" /\ acts' = <<>> /\ cells' = <<>>

Step ==
  \/ Jump \/ Load \/ Pop \/ GetLocal \/ SetLocal \/ Make \/ Call \/ Return
  \/ \E i \in DOMAIN Top.env : Get(Top.env[i]) \/ Set(Top.env[i])
  \/ \E i \in DOMAIN Top.ups : Get(Top.ups[i]) \/ Set(Top.ups[i])

Next ==
  /\ lost = "no"
  /\ \/ Step /\ UNCHANGED lost
     \/ Lose

Spec == Init /\ [][Next]_<<acts, cells, lost>>
=============================================================================
