------------------------------ MODULE RootScan ------------------------------
(***************************************************************************)
(* The root scanners of a collection (codegen_emit_ops.c, mark_table_roots):*)
(* the globals, the value stack, the current frame, the captured cells of  *)
(* the running function and those of its callers are walked, and each cell *)
(* is given to mark_table_cell, one step for each.                         *)
(*                                                                         *)
(* The scanners work on bytes, so memory is a function from addresses to   *)
(* bytes.  A word is two bytes of Radix values each, and all addresses are *)
(* words.  The machine's own variables (vsp_ptr, the counters, ...) are    *)
(* kept beside the memory, where no stray mark reaches them.  All memory   *)
(* that no part of the program's data occupies holds one byte.             *)
(***************************************************************************)
EXTENDS Integers, Sequences
LOCAL INSTANCE SequencesExt

CONSTANTS
  Radix,          \* values of a byte (256)
  GlobalVars,     \* global_vars
  GlobalSlots,    \* their number (256)
  VStackEnd,      \* vstack_end: the value stack grows down from here
  CallStackEnd,   \* callstack_end: so does the call stack
  Tables,         \* addresses of the table objects
  Strings,        \* addresses of the string objects
  Records,        \* [address of a function's record |-> its cells, see below]
  MainCells,      \* captured locals of main (env_local_count)
  Numbers,        \* the numbers of the program
  CodeAt,         \* a word for pointers into the code and the constants
  Fillers,        \* what the rest of the memory may hold
  MaxStack,       \* values on the value stack
  Calls,          \* the chains of activations looked at, see below
  GlobalTypes,    \* the types of the values looked at in globals
  CapturedTypes   \* and in captured cells

Byte == 0 .. Radix - 1
Addr == 0 .. Radix * Radix - 1
Lo(w) == w % Radix
Hi(w) == w \div Radix
Plus(a, n) == (a + n) % (Radix * Radix)

TYPE_NIL == 0
TYPE_NUMBER == 2
TYPE_STRING == 3
TYPE_TABLE == 4
TYPE_FUNCTION == 5
Value ==
  {[type |-> TYPE_NIL, word |-> 0]} \cup [type : {TYPE_NUMBER}, word : Numbers]
    \cup [type : {TYPE_STRING}, word : Strings] \cup [type : {TYPE_TABLE}, word : Tables]
    \cup [type : {TYPE_FUNCTION}, word : DOMAIN Records]

Of(types) == {v \in Value : v.type \in types}

(* Records[c].upvalues are the cells that the function at c refers to, and  *)
(* .cells is how many cells the environment of a call has.  Calls are       *)
(* sequences of activations [base, env, closure]: main's first, which has no *)
(* closure; base is the number of values that lie below the frame.          *)

VARIABLES
  mem,        \* the memory
  vm,         \* fp_ptr, vsp_ptr, csp_ptr
  closure,    \* current_closure_ptr
  env,        \* current_env_ptr
  temp,       \* cstack_scan_closure_temp, cstack_scan_env_temp, cstack_frame_temp
  count,      \* gc_mark_table_count, gc_mark_string_count
  hl, de, b,  \* registers
  inCaller,   \* is the scan of a closure or environment that of a caller?
  pc,         \* which scan is at work, or "done"
  acts,       \* history: the activations when the scan began
  held,       \* history: the mark bytes of what the root cells refer to
  seen        \* history: the addresses given to mark_table_cell

registers == <<hl, de, b>>
machine   == <<vm, acts, held>>
vars      == <<mem, closure, env, temp, count, registers, inCaller, pc, machine, seen>>

-----------------------------------------------------------------------------
(* How the machine lays out what the scanners read. *)

Put(a, bytes) == [x \in a .. a + Len(bytes) - 1 |-> bytes[x - a + 1]]
Little(w)     == <<Lo(w), Hi(w)>>

(* vstack_push, op_setlocal, op_setcaptured and op_setupval; op_setglobal. *)
StackCell(v)  == <<Hi(v.word), Lo(v.word), v.type>>
GlobalCell(v) == <<v.type, Lo(v.word), Hi(v.word)>>

GlobalAt(i) == GlobalVars + 3 * (i - 1)
StackAt(i)  == VStackEnd - 3 * i
FrameOf(a)  == VStackEnd - 3 * a.base

(* Five words pushed by op_call, the closure last. *)
Saved(a) ==
  Little(a.closure) \o Little(a.env) \o Little(CodeAt) \o Little(FrameOf(a)) \o Little(CodeAt)

(* A function's record: code, constants, the counts, the upvalues' cells.  *)
RecordBytes(r) ==
  Little(CodeAt) \o Little(CodeAt) \o <<Len(r.upvalues), r.cells>>
    \o FlattenSeq([i \in DOMAIN r.upvalues |-> Little(r.upvalues[i])])

CellsOf(a) ==
  LET n == IF a.closure = 0 THEN MainCells ELSE Records[a.closure].cells
  IN IF a.env = 0 THEN {} ELSE {a.env + 3 * i : i \in 0 .. n - 1}
UpvaluesOf(a) == IF a.closure = 0 THEN {} ELSE Range(Records[a.closure].upvalues)

Captured(chain) == UNION {CellsOf(chain[i]) \cup UpvaluesOf(chain[i]) : i \in DOMAIN chain}

(* A table with no entries, and a string of one character. *)
TableBytes  == <<0, 0, 8 % Radix, 0>>
StringBytes == <<0, 1, 0, 7 % Radix, 0>>

Pieces(chain, globals, stack, captured) ==
  {Put(GlobalAt(i), GlobalCell(globals[i])) : i \in DOMAIN globals}
    \cup {Put(StackAt(i), StackCell(stack[i])) : i \in DOMAIN stack}
    \cup {Put(x, StackCell(captured[x])) : x \in DOMAIN captured}
    \cup {Put(CallStackEnd - 10 * i, Saved(chain[i])) : i \in 1 .. Len(chain) - 1}
    \cup {Put(c, RecordBytes(Records[c])) : c \in DOMAIN Records}
    \cup {Put(t, TableBytes) : t \in Tables} \cup {Put(s, StringBytes) : s \in Strings}

Image(pieces, filler) ==
  [x \in Addr |->
    LET here == {p \in pieces : x \in DOMAIN p}
    IN IF here = {} THEN filler ELSE (CHOOSE p \in here : TRUE)[x]]

(* The function that was called lies just below its frame's beginning.     *)
CallsFit(chain, stack) ==
  \A i \in 2 .. Len(chain) :
    /\ chain[i].base < Len(stack)
    /\ stack[chain[i].base + 1] = [type |-> TYPE_FUNCTION, word |-> chain[i].closure]

(* Byte 1 of a table's header, byte 0 of a string's.                        *)
MarkByte(v)   == IF v.type = TYPE_TABLE THEN v.word + 1 ELSE v.word
MarksFor(f) == {MarkByte(f[x]) : x \in {y \in DOMAIN f : f[y].type \in {TYPE_STRING, TYPE_TABLE}}}

Start(chain, globals, stack, captured, filler) ==
  /\ CallsFit(chain, stack)
  /\ mem = Image(Pieces(chain, globals, stack, captured), filler)
  /\ vm = [fp  |-> FrameOf(chain[Len(chain)]), vsp |-> StackAt(Len(stack)),
           csp |-> CallStackEnd - 10 * (Len(chain) - 1)]
  /\ closure = chain[Len(chain)].closure /\ env = chain[Len(chain)].env
  /\ temp = [closure |-> 0, env |-> 0, frame |-> 0]
  /\ count = [table |-> 0, string |-> 0]
  /\ hl = GlobalVars /\ de = 0 /\ b = GlobalSlots
  /\ inCaller = FALSE /\ pc = "globals"
  /\ acts = chain /\ seen = {}
  /\ held = MarksFor(globals) \cup MarksFor(stack) \cup MarksFor(captured)

Init ==
  \E chain \in Calls, globals \in [1 .. GlobalSlots -> Of(GlobalTypes)], filler \in Fillers,
     n \in 0 .. MaxStack :
    \E stack \in [1 .. n -> Value], captured \in [Captured(chain) -> Of(CapturedTypes)] :
      Start(chain, globals, stack, captured, filler)

-----------------------------------------------------------------------------
(* mark_table_cell reads every cell as [lo][hi][type].                      *)

Word(a)    == mem[a] + Radix * mem[Plus(a, 1)]
TypeAt(a)  == mem[Plus(a, 2)]
Refers(a)  == TypeAt(a) \in {TYPE_STRING, TYPE_TABLE}

(* The byte that mark_table_reachable or mark_string_reachable looks at.    *)
MarkAt(a)  == IF TypeAt(a) = TYPE_TABLE THEN Plus(Word(a), 1) ELSE Word(a)
IsTable(a) == TypeAt(a) = TYPE_TABLE
Marks(a)   == Refers(a) /\ Word(a) # 0 /\ mem[MarkAt(a)] = 0
Counter(a) == IF IsTable(a) THEN count.table + 1 ELSE count.string + 1

(* What it leaves in DE and in HL.                                          *)
LeftDE(a) == IF Refers(a) THEN Plus(a, 2) ELSE Word(a)
LeftHL(a) ==
  IF ~Refers(a) THEN Plus(a, 2)
  ELSE IF Word(a) = 0 THEN 0
  ELSE IF Marks(a) THEN Counter(a)
  ELSE MarkAt(a)

mark_table_cell(a) ==
  /\ mem' = IF Marks(a) THEN [mem EXCEPT ![MarkAt(a)] = 1] ELSE mem
  /\ count' = [table  |-> IF Marks(a) /\ IsTable(a) THEN Counter(a) ELSE count.table,
               string |-> IF Marks(a) /\ ~IsTable(a) THEN Counter(a) ELSE count.string]
  /\ de' = LeftDE(a)
  /\ seen' = seen \cup {a}

Unscanned == UNCHANGED <<mem, count, seen>>

-----------------------------------------------------------------------------
(* mark_table_roots_globals *)

ScanGlobal ==
  /\ pc = "globals" /\ b # 0
  /\ mark_table_cell(hl)
  /\ hl' = Plus(hl, 3) /\ b' = b - 1
  /\ UNCHANGED <<closure, env, temp, inCaller, pc, machine>>

EndGlobals ==
  /\ pc = "globals" /\ b = 0
  /\ pc' = "vstack" /\ hl' = vm.vsp
  /\ Unscanned /\ UNCHANGED <<closure, env, temp, de, b, inCaller, machine>>

(* mark_table_roots_vstack loads its end again for each cell. *)

StackScanned == hl = VStackEnd

ScanStack ==
  /\ pc = "vstack" /\ ~StackScanned
  /\ mark_table_cell(hl)
  /\ hl' = Plus(hl, 3)
  /\ UNCHANGED <<closure, env, temp, b, inCaller, pc, machine>>

EndStack ==
  /\ pc = "vstack" /\ StackScanned
  /\ pc' = "frame" /\ hl' = vm.fp /\ de' = vm.vsp
  /\ Unscanned /\ UNCHANGED <<closure, env, temp, b, inCaller, machine>>

(* mark_table_roots_frame begins at the end of the frame and goes up, and   *)
(* compares with what mark_table_cell has left in DE.                       *)

ScanFrame ==
  /\ pc = "frame" /\ hl # de
  /\ mark_table_cell(hl)
  /\ hl' = Plus(hl, 3)
  /\ UNCHANGED <<closure, env, temp, b, inCaller, pc, machine>>

(* mark_table_roots_current_env: nothing without an environment or without  *)
(* a closure, which holds the number of cells.                              *)
EnterEnv ==
  /\ pc' = "env" /\ hl' = env /\ de' = env
  /\ b' = IF env = 0 \/ closure = 0 THEN 0 ELSE mem[Plus(closure, 5)]

EndFrame ==
  /\ pc = "frame" /\ hl = de
  /\ EnterEnv
  /\ Unscanned /\ UNCHANGED <<closure, env, temp, inCaller, machine>>

(* Nothing saves HL around mark_table_cell. *)
ScanEnv ==
  /\ pc = "env" /\ b # 0
  /\ mark_table_cell(hl)
  /\ hl' = Plus(LeftHL(hl), 3) /\ b' = b - 1
  /\ UNCHANGED <<closure, env, temp, inCaller, pc, machine>>

(* mark_table_roots_current_closure *)
EnterClosure(c) ==
  /\ pc' = "closure" /\ hl' = Plus(c, 6)
  /\ b' = IF c = 0 THEN 0 ELSE mem[Plus(c, 4)]

EndEnv ==
  /\ pc = "env" /\ b = 0 /\ ~inCaller
  /\ EnterClosure(closure)
  /\ Unscanned /\ UNCHANGED <<closure, env, temp, de, inCaller, machine>>

ScanUpvalue ==
  /\ pc = "closure" /\ b # 0
  /\ mark_table_cell(Word(hl))
  /\ hl' = Plus(hl, 2) /\ b' = b - 1
  /\ UNCHANGED <<closure, env, temp, inCaller, pc, machine>>

(* mark_table_roots_cstack puts each caller's closure and environment in    *)
(* the place of the running function's and calls the same two scans.        *)
EndClosure ==
  /\ pc = "closure" /\ b = 0 /\ ~inCaller
  /\ temp' = [temp EXCEPT !.closure = closure, !.env = env]
  /\ pc' = "cstack" /\ hl' = vm.csp /\ de' = CallStackEnd
  /\ Unscanned /\ UNCHANGED <<closure, env, b, inCaller, machine>>

NextFrame ==
  /\ pc = "cstack" /\ hl # de
  /\ closure' = Word(hl) /\ env' = Word(Plus(hl, 2))
  /\ temp' = [temp EXCEPT !.frame = Plus(hl, 10)]
  /\ inCaller' = TRUE
  /\ EnterClosure(Word(hl))
  /\ Unscanned /\ UNCHANGED <<de, machine>>

EndCallerClosure ==
  /\ pc = "closure" /\ b = 0 /\ inCaller
  /\ EnterEnv
  /\ Unscanned /\ UNCHANGED <<closure, env, temp, inCaller, machine>>

EndCallerEnv ==
  /\ pc = "env" /\ b = 0 /\ inCaller
  /\ inCaller' = FALSE
  /\ pc' = "cstack" /\ hl' = temp.frame /\ de' = CallStackEnd
  /\ Unscanned /\ UNCHANGED <<closure, env, temp, b, machine>>

EndCalls ==
  /\ pc = "cstack" /\ hl = de
  /\ closure' = temp.closure /\ env' = temp.env
  /\ pc' = "done"
  /\ Unscanned /\ UNCHANGED <<temp, registers, inCaller, machine>>

Next ==
  \/ ScanGlobal \/ EndGlobals
  \/ ScanStack \/ EndStack
  \/ ScanFrame \/ EndFrame
  \/ ScanEnv \/ EndEnv \/ EndCallerEnv
  \/ ScanUpvalue \/ EndClosure \/ EndCallerClosure
  \/ NextFrame \/ EndCalls

(* The program is stopped while its roots are scanned. *)
FairSpec == Init /\ [][Next]_vars /\ WF_vars(Next)

-----------------------------------------------------------------------------
(* Properties. *)

TypeOK ==
  /\ mem \in [Addr -> Byte]
  /\ vm \in [fp : Addr, vsp : Addr, csp : Addr]
  /\ closure \in Addr /\ env \in Addr /\ temp \in [closure : Addr, env : Addr, frame : Addr]
  /\ count \in [table : Addr, string : Addr]
  /\ hl \in Addr /\ de \in Addr /\ b \in Nat
  /\ inCaller \in BOOLEAN
  /\ pc \in {"globals", "vstack", "frame", "env", "closure", "cstack", "done"}
  /\ acts \in Calls /\ held \subseteq Strings \cup {t + 1 : t \in Tables} /\ seen \subseteq Addr

(* Every global and every value on the stack has been given to             *)
(* mark_table_cell when the scan of the frame begins, whatever that call    *)
(* did to the registers and to the memory ("root scan covers globals, value *)
(* stack", todo.md:154; mark_table_roots_globals, mark_table_roots_vstack). *)
SlotsVisited ==
  pc \notin {"globals", "vstack"} =>
    /\ \A i \in 1 .. GlobalSlots : GlobalAt(i) \in seen
    /\ \A i \in 1 .. MaxStack : StackAt(i) >= vm.vsp => StackAt(i) \in seen

(* The cells that the upvalues of the running function and of its callers   *)
(* lead to are visited too, even after the scan of the frame has gone       *)
(* through memory, as long as no pointer to them has a zero byte that a     *)
(* stray mark could change (mark_table_roots_cstack).                      *)
UpvaluesVisited ==
  pc = "done" => \A i \in DOMAIN acts : UpvaluesOf(acts[i]) \subseteq seen

(* The program goes on with the closure and the environment that it had     *)
(* (mark_table_roots_cstack borrows the two registers for each caller).     *)
RegistersRestored ==
  pc = "done" => closure = acts[Len(acts)].closure /\ env = acts[Len(acts)].env

(* Each of the scans but that of the frame comes to its end.                *)
ScansEnd ==
  \A scan \in {"globals", "vstack", "env", "closure", "cstack"} : pc = scan ~> pc # scan

(* The scan of the frame comes to its end as well ("Step 4: lightweight     *)
(* non-moving mark/sweep GC. (complete: root scan covers ... frame locals", *)
(* todo.md:154).  It does not hold: the loop ends when it meets a value     *)
(* that memory happens to hold (mark_table_roots_frame).                    *)
FrameScanEnds == pc = "frame" ~> pc # "frame"

(* When the scan is over, every table and string is marked that a global, a *)
(* value on the stack or a captured cell refers to ("root scan covers       *)
(* globals, value stack, frame locals, current_env", todo.md:154).  It does *)
(* not hold: mark_table_cell takes the bytes of a cell in another order     *)
(* than the one they were stored in.                                       *)
RootsMarked == pc = "done" => \A x \in held : mem[x] # 0

(* A mark is written into the header of a table or a string and nowhere     *)
(* else ("Mark byte is stored in table header byte 1",                      *)
(* codegen_emit_ops.c:1774).  It does not hold, for the same reason.        *)
MarksInHeaders ==
  [][\A x \in Addr : mem'[x] # mem[x] => x \in Strings \cup {t + 1 : t \in Tables}]_vars
=============================================================================
