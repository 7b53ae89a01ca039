----------------------------- MODULE CallFrames -----------------------------
(***************************************************************************)
(* Calls, returns and closures of the emitted Z80 virtual machine          *)
(* (codegen_emit_ops.c, emit_stack_and_closure_ops; codegen.c,             *)
(* emit_scope_ops): the value stack, the call stack of saved words, the    *)
(* registers kept in memory and the arena of closures and environments.    *)
(*                                                                         *)
(* Memory is counted in units: a value, a saved word, a function header, a *)
(* cell and a pointer to a cell take one unit each.  Both stacks grow      *)
(* downwards in the machine and to the right here, so fp_ptr is the number *)
(* of units below the frame.  The record of function f is at address f,    *)
(* the arena follows, address 0 is the null pointer.                       *)
(*                                                                         *)
(* The program is any that the compiler could have written: it touches the *)
(* values of its own frame only (compile_block pops what it has pushed)    *)
(* and names the cells that the analysis pass gave it.  "lost" is set      *)
(* where the machine goes on with memory that is not what it is taken for; *)
(* nothing of the program is followed from there.                          *)
(*                                                                         *)
(* A name with a suffix (pop_saved_env_kept, ...) is the named operator with a *)
(* plausible fault; no specification uses it.                               *)
(***************************************************************************)
EXTENDS Integers, Sequences

CONSTANTS
  NF,           \* number of functions; the main program is number 0
  Params,       \* [f] param_count
  EnvCells,     \* [f] env_local_count, for the main program too
  Captures,     \* [f] the upvalue descriptors: [parent |-> BOOLEAN, index |-> Nat]
  Encl,         \* [f] the function whose body contains f
  NPoints,      \* points of a function's code that jumps lead to
  Numbers,      \* the numbers a program loads
  VStackUnits,  \* room of the value stack (VSTACK_BYTES)
  CallWords,    \* room of the call stack (CALL_STACK_BYTES)
  ArenaUnits,   \* room of the arena (CLOSURE_HEAP_BYTES)
  MaxFails      \* bound on the calls made after an allocation has failed

Main     == 0
Function == 1 .. NF
Code     == {Main} \cup Function
Base     == NF + 1                       \* closure_space
End      == Base + ArenaUnits            \* closure_end
Arena    == Base .. End - 1
NULL     == 0

ASSUME SizeAssumption ==
  /\ NF \in Nat /\ NPoints \in Nat \ {0} /\ MaxFails \in Nat
  /\ VStackUnits \in Nat /\ CallWords \in Nat /\ ArenaUnits \in Nat
  /\ Numbers \subseteq Nat

ASSUME ProgramAssumption ==
  /\ Params \in [Function -> Nat]
  /\ EnvCells \in [Code -> 0 .. Base] /\ EnvCells[Main] <= ArenaUnits
  /\ Encl \in [Function -> Code]
  /\ Captures \in [Function -> Seq([parent : BOOLEAN, index : Nat])]
  /\ \A f \in Function : \A k \in DOMAIN Captures[f] :
       LET d == Captures[f][k] IN
       IF d.parent THEN Encl[f] # Main /\ d.index + 1 \in DOMAIN Captures[Encl[f]]
                   ELSE d.index \in 0 .. EnvCells[Encl[f]] - 1

VARIABLES
  vstack,       \* the value stack; vsp_ptr is Len(vstack)
  callstack,    \* the call stack; csp_ptr is Len(callstack)
  pc,           \* pc_ptr
  fp,           \* fp_ptr
  cp,           \* cp_ptr
  env,          \* current_env_ptr
  closure,      \* current_closure_ptr
  closure_ptr,  \* the first free address of the arena
  arena,        \* what is at each address of the arena
  fails,        \* alloc_closure_fail_count
  lost          \* "no", or why the machine runs something else

regs == <<pc, fp, cp, env, closure>>
heap == <<closure_ptr, arena, fails>>
vars == <<vstack, callstack, regs, heap, lost>>

---------------------------------------------------------------------------
(* Words of memory *)

Nil       == <<"nil", 0>>
Num(n)    == <<"num", n>>
Plain     == {Nil} \cup {Num(n) : n \in Numbers}
Fun(a)    == <<"fun", a>>      \* a function value: the address of its record
Header(f) == <<"head", f>>     \* a closure's copy of the record of f
Pointer(a) == <<"cell", a>>    \* a closure's pointer to a cell

\* Code addresses: the points of f's code, and whose code an address is in.
At(f, p)  == f * (NPoints + 1) + p
Runs(a)   == a \div (NPoints + 1)

\* The function that a record, static or copied into the arena, describes.
Record(a) == IF a \in Arena THEN arena[a][2] ELSE a

Height == Len(vstack) - fp
Own(f) == IF f = Main THEN 0 ELSE Params[f] + 1    \* initial_local_count
Local(i) == fp + i + 1                             \* where local i lies

get_captured_cell_ptr(i) == env + i
get_upvalue_cell_ptr(i)  == arena[closure + 1 + i][2]

\* alloc_runtime_space: is there room for n units?
HasRoom_less(n) == closure_ptr + n < End
HasRoom_before(n) == closure_ptr < End
HasRoom(n) == closure_ptr + n <= End

Lose(why) == lost' = why /\ UNCHANGED <<vstack, callstack, regs, heap>>

\* vstack_push does not look where the stack ends.
vstack_push(s, v) ==
  \/ Len(s) < VStackUnits /\ vstack' = Append(s, v) /\ UNCHANGED lost
  \/ Len(s) >= VStackUnits /\ lost' = "limit" /\ UNCHANGED vstack

Popped == SubSeq(vstack, 1, Len(vstack) - 1)
Last(s) == s[Len(s)]
---------------------------------------------------------------------------
(* The five words of a call, pushed in this order and popped in reverse. *)

Saved == <<pc, fp, cp, env, closure>>

pop_saved_env_kept ==
  LET s == SubSeq(callstack, Len(callstack) - 4, Len(callstack)) IN
  /\ pc' = s[1] /\ fp' = s[2] /\ cp' = s[3] /\ env' = env /\ closure' = s[5]
  /\ callstack' = SubSeq(callstack, 1, Len(callstack) - 5)

pop_saved ==
  LET s == SubSeq(callstack, Len(callstack) - 4, Len(callstack)) IN
  /\ pc' = s[1] /\ fp' = s[2] /\ cp' = s[3] /\ env' = s[4] /\ closure' = s[5]
  /\ callstack' = SubSeq(callstack, 1, Len(callstack) - 5)

---------------------------------------------------------------------------
(* codegen.c, emit_entry_and_dispatch *)
Init ==
  /\ vstack = <<>> /\ callstack = <<>>
  /\ pc = At(Main, 0) /\ fp = 0 /\ cp = Main
  /\ closure_ptr = Base + EnvCells[Main]
  /\ env = IF EnvCells[Main] = 0 THEN NULL ELSE Base
  /\ closure = NULL
  /\ arena = [a \in Arena |-> Nil]
  /\ fails = 0 /\ lost = "no"

(* op_jump, op_jump_false: the operand is relative and stays in the function. *)
Jump ==
  /\ \E p \in 0 .. NPoints : pc' = At(Runs(pc), p)
  /\ UNCHANGED <<vstack, callstack, fp, cp, env, closure, heap, lost>>

(* op_loadnil, op_loadconst *)
Load(v) == vstack_push(vstack, v) /\ UNCHANGED <<callstack, regs, heap>>

Pop ==
  /\ Height > Own(Runs(pc))
  /\ vstack' = Popped
  /\ UNCHANGED <<callstack, regs, heap, lost>>

GetLocal(i) ==
  /\ i < Height
  /\ vstack_push(vstack, vstack[Local(i)])
  /\ UNCHANGED <<callstack, regs, heap>>

SetLocal(i) ==
  /\ Height > Own(Runs(pc)) /\ i < Height - 1
  /\ vstack' = [Popped EXCEPT ![Local(i)] = Last(vstack)]
  /\ UNCHANGED <<callstack, regs, heap, lost>>

(* A cell is read and written through its address, whatever that is. *)
ReadCell(a) ==
  \/ a \in Arena /\ vstack_push(vstack, arena[a]) /\ UNCHANGED <<callstack, regs, heap>>
  \/ a \notin Arena /\ Lose("null")

WriteCell(a) ==
  /\ Height > Own(Runs(pc))
  /\ \/ /\ a \in Arena
        /\ vstack' = Popped
        /\ arena' = [arena EXCEPT ![a] = Last(vstack)]
        /\ UNCHANGED <<callstack, regs, closure_ptr, fails, lost>>
     \/ a \notin Arena /\ Lose("null")

GetCaptured(i) == i < EnvCells[Runs(pc)] /\ ReadCell(get_captured_cell_ptr(i))
SetCaptured(i) == i < EnvCells[Runs(pc)] /\ WriteCell(get_captured_cell_ptr(i))

Upvalues == IF Runs(pc) = Main THEN {} ELSE {k - 1 : k \in DOMAIN Captures[Runs(pc)]}
GetUpval(i) == i \in Upvalues /\ ReadCell(get_upvalue_cell_ptr(i))
SetUpval(i) == i \in Upvalues /\ WriteCell(get_upvalue_cell_ptr(i))

---------------------------------------------------------------------------
(* op_closure, instantiate_closure *)

\* What the copy loop stores for the descriptors of f.
Cells(f) ==
  [k \in DOMAIN Captures[f] |->
     LET d == Captures[f][k] IN
     Pointer(IF d.parent THEN get_upvalue_cell_ptr(d.index)
                         ELSE get_captured_cell_ptr(d.index))]

StaticClosure(f) ==
  /\ Encl[f] = Runs(pc) /\ Captures[f] = <<>>
  /\ vstack_push(vstack, Fun(f))
  /\ UNCHANGED <<callstack, regs, heap>>

NewClosure(f) ==
  LET n == Len(Captures[f]) + 1
  IN /\ Encl[f] = Runs(pc) /\ n > 1 /\ fails < MaxFails
     /\ \/ /\ HasRoom(n)
           /\ arena' = [a \in Arena |->
                          IF a = closure_ptr THEN Header(f)
                          ELSE IF a \in closure_ptr + 1 .. closure_ptr + n - 1
                                 THEN Cells(f)[a - closure_ptr]
                                 ELSE arena[a]]
           /\ closure_ptr' = closure_ptr + n
           /\ vstack_push(vstack, Fun(closure_ptr))
           /\ UNCHANGED <<callstack, regs, fails>>
        \/ /\ ~HasRoom(n)              \* the record is copied to address 0
           /\ fails' = fails + 1 /\ lost' = "null"
           /\ UNCHANGED <<vstack, callstack, regs, closure_ptr, arena>>

---------------------------------------------------------------------------
(* op_call with n arguments.  The callee lies below them. *)
Callee(n) == vstack[Len(vstack) - n]

NewEnv_uncounted(n) ==
  \/ n = 0 /\ env' = NULL /\ UNCHANGED heap
  \/ /\ n > 0 /\ HasRoom(n)
     /\ env' = closure_ptr /\ closure_ptr' = closure_ptr + n
     /\ UNCHANGED <<arena, fails>>
  \/ n > 0 /\ ~HasRoom(n) /\ env' = NULL /\ UNCHANGED heap

\* The environment: nothing to allocate, allocated, or refused.
NewEnv(n) ==
  \/ n = 0 /\ env' = NULL /\ UNCHANGED heap
  \/ /\ n > 0 /\ HasRoom(n)
     /\ env' = closure_ptr /\ closure_ptr' = closure_ptr + n
     /\ UNCHANGED <<arena, fails>>
  \/ /\ n > 0 /\ ~HasRoom(n)
     /\ env' = NULL /\ fails' = fails + 1
     /\ UNCHANGED <<closure_ptr, arena>>

\* Nothing in the record tells a function's parameters, and no type is tested.
Suits(n) ==
  /\ Callee(n)[1] = "fun"
  /\ Params[Record(Callee(n)[2])] = n

Frame_args(n) == Len(vstack) - n
Frame(n) == Len(vstack) - n - 1

Call(n) ==
  /\ Height >= Own(Runs(pc)) + n + 1 /\ fails < MaxFails
  /\ Suits(n)
  /\ Len(callstack) + 5 <= CallWords
  /\ LET a == Callee(n)[2]
         f == Record(a)
     IN /\ callstack' = callstack \o Saved
        /\ fp' = Frame(n)
        /\ closure' = a /\ pc' = At(f, 0) /\ cp' = f
        /\ NewEnv(EnvCells[f])
        /\ UNCHANGED <<vstack, lost>>

\* cstack_push_hl does not look where the stack ends.
CallTooDeep(n) ==
  /\ Height >= Own(Runs(pc)) + n + 1 /\ Suits(n)
  /\ Len(callstack) + 5 > CallWords
  /\ Lose("limit")

\* A call of something else, or with other than the declared arguments: the
\* machine runs what it takes for a record, or a frame with shifted slots.
CallWrongly(n) ==
  /\ Height >= Own(Runs(pc)) + n + 1 /\ ~Suits(n)
  /\ Lose("program")

(* op_return: the result takes the place of the function and its arguments. *)
Kept == SubSeq(vstack, 1, fp)

Return ==
  /\ callstack # <<>> /\ Height > Own(Runs(pc))
  /\ vstack' = Append(Kept, Last(vstack))
  /\ pop_saved
  /\ UNCHANGED <<heap, lost>>

\* A return of the main program takes five words from beyond the call stack.
ReturnFromMain == callstack = <<>> /\ vstack # <<>> /\ Lose("program")

---------------------------------------------------------------------------
Next ==
  /\ lost = "no"
  /\ \/ Jump \/ Pop \/ Return \/ ReturnFromMain
     \/ \E v \in Plain : Load(v)
     \/ \E i \in 0 .. VStackUnits :
          \/ GetLocal(i) \/ SetLocal(i)
          \/ GetCaptured(i) \/ SetCaptured(i)
          \/ GetUpval(i) \/ SetUpval(i)
          \/ Call(i) \/ CallTooDeep(i) \/ CallWrongly(i)
     \/ \E f \in Function : StaticClosure(f) \/ NewClosure(f)

Spec == Init /\ [][Next]_vars

---------------------------------------------------------------------------
(* Properties *)

Value == Plain \cup {Fun(a) : a \in 1 .. End - 1}
Word == Value \cup {Header(f) : f \in Function} \cup {Pointer(a) : a \in 0 .. End - 1}

\* The frames, oldest first: what each one's registers are, from the words
\* saved by the call that left it, or from the registers themselves.
Depth == Len(callstack) \div 5
Reg(i, k) == IF i <= Depth THEN callstack[5 * (i - 1) + k] ELSE Saved[k]
Frames == 1 .. Depth + 1
Limit(i) == IF i <= Depth THEN Reg(i + 1, 2) ELSE Len(vstack)

\* Types: the stacks hold words of their kinds within their room, and the
\* registers hold addresses (all of the emitted data area).
TypeOK ==
  /\ vstack \in Seq(Value) /\ Len(vstack) <= VStackUnits
  /\ callstack \in Seq(Nat) /\ Len(callstack) <= CallWords
  /\ pc \in {At(f, p) : f \in Code, p \in 0 .. NPoints}
  /\ fp \in 0 .. VStackUnits /\ cp \in Code
  /\ env \in {NULL} \cup Arena /\ closure \in {NULL} \cup 1 .. End - 1
  /\ closure_ptr \in Base .. End /\ arena \in [Arena -> Word]
  /\ fails \in 0 .. MaxFails
  /\ lost \in {"no", "limit", "null", "program"}

\* The frames lie one above the other, each with at least its function and
\* parameters, and each takes its constants from the pool of the function
\* whose code it runs (op_call, op_return).
FramesNest ==
  /\ Len(callstack) = 5 * Depth /\ Reg(1, 2) = 0
  /\ \A i \in Frames :
       /\ Runs(Reg(i, 1)) = Reg(i, 3)
       /\ Reg(i, 2) + Own(Reg(i, 3)) <= Limit(i)

\* An activation without the environment that its function needs exists only
\* after an allocation has been refused and counted (op_call, alloc_runtime_space).
NullIsCounted ==
  \A i \in Frames : Reg(i, 4) = NULL /\ EnvCells[Reg(i, 3)] > 0 => fails > 0

\* The arena refuses only what it has no room for, and the machine loses a
\* well-formed program only at a limit: a stack that is full, or a null pointer
\* for something that was refused (alloc_runtime_space, vstack_push,
\* cstack_push_hl).
LimitsOnly ==
  [][ /\ fails' # fails =>
           \/ callstack' # callstack /\ closure_ptr + EnvCells[Runs(pc')] > End
           \/ \E f \in Function : closure_ptr + Len(Captures[f]) + 1 > End /\ Encl[f] = Runs(pc)
      /\ lost' = "limit" /\ lost # lost' =>
           Len(vstack) = VStackUnits \/ Len(callstack) > CallWords - 5
      /\ lost' = "null" => fails' > 0 ]_vars

---------------------------------------------------------------------------
(* What the program sees: the frames as activations (module Activations). *)

CellOf(a) == IF a \in Arena THEN a ELSE NULL
Upvals(a) ==
  IF a \in Arena THEN [k \in DOMAIN Captures[Record(a)] |-> CellOf(arena[a + k][2])]
                 ELSE <<>>
Seen(v) == IF v[1] = "fun" THEN <<"closure", Record(v[2]), Upvals(v[2])>> ELSE v

Activation(i) ==
  LET f == Runs(Reg(i, 1)) IN
  [fn  |-> f,
   at  |-> Reg(i, 1) % (NPoints + 1),
   ops |-> [k \in 1 .. Limit(i) - Reg(i, 2) |-> Seen(vstack[Reg(i, 2) + k])],
   env |-> [k \in 1 .. EnvCells[f] |-> CellOf(Reg(i, 4) + k - 1)],
   ups |-> Upvals(Reg(i, 5))]

CellsInUse == {a \in Base .. closure_ptr - 1 : arena[a][1] \in {"nil", "num", "fun"}}

Promised == INSTANCE Activations WITH
  Points <- 0 .. NPoints, CellIds <- Arena, NoCell <- NULL,
  acts   <- IF lost = "no" THEN [i \in Frames |-> Activation(i)] ELSE <<>>,
  cells  <- IF lost = "no" THEN [a \in CellsInUse |-> Seen(arena[a])] ELSE <<>>

\* Calls, returns and closures behave as activations with variables of their
\* own: a return leaves the caller as it was, an upvalue is the cell of the
\* call in which the closure was made, and no call gets a cell of another one.
ImplementsActivations == Promised!Spec
=============================================================================
