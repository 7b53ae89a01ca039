--------------------------- MODULE StatementCode ---------------------------
(***************************************************************************)
(* The code that the compiler emits for statements and expressions         *)
(* (compiler.c, the second pass: compile_block, compile_expr,              *)
(* compile_builtin_call, compile_stmt) and the virtual machine that runs it *)
(* (codegen_emit_ops.c, codegen_emit_runtime.c).                           *)
(*                                                                         *)
(* The first half writes a program, any that the grammar allows: todo is    *)
(* what the recursive functions of the compiler still have to do, and each *)
(* token of the program emits its code the moment it is met.  The second   *)
(* half runs the code; what a value is beyond its truth is left open.      *)
(*                                                                         *)
(* Left to other modules: which access a name becomes and the copies that  *)
(* captured locals make of themselves (ScopeSlots; they leave the stack as *)
(* it is), calls and frames (CallFrames; here a call is one step).  A local *)
(* statement of several names is one for each name.  break and do blocks    *)
(* emit nothing at all and are left out.                                   *)
(*                                                                         *)
(* A name with a suffix (compile_block_kept, ...) is the named operator     *)
(* with a plausible fault; no specification uses it.                       *)
(***************************************************************************)
EXTENDS Integers, Sequences, FiniteSets

CONSTANTS
  Statements,     \* the kinds of statement the programs have
  Expressions,    \* the kinds of expression; "method" is a method call
  InitialLocals,  \* numbers of locals at the start: 0 in the main program, __func and the
                  \* parameters in a function
  ForInEnds,      \* do the programs run a for-in loop to its end?
  MaxTokens,      \* bound: tokens of a program
  MAX_CODE_SIZE   \* room for code

Token == {"value", "method", "and", "and2", "and)", "or", "or2", "or)", "bin", "bin)", "call", "call)", "print",
          "print)", "table", "field", "index", "put", "table)", "local", "declare", "local)", "eval",
          "eval)", "assign", "comma", "one", "two", "store", "entry", "set", "assign)", "if", "then", "elseif",
          "else", "endif", "while", "do", "endwhile", "repeat", "until", "endrepeat", "for", "test",
          "endfor", "forin", "item", "endforin", "return", "return)", "end"}
Symbol == Token \cup {"Expr", "Block", "More", "Clauses", "Fields", "Target"}
Op     == {"LOAD", "LOADNIL", "LOADCONST", "DUP", "POP", "ROT3", "JUMP", "JUMPIFFALSE", "BINOP", "CALL",
           "PRINT", "NEWTABLE", "GETTABLE", "SETTABLE", "SETGLOBAL", "GETLOCAL", "SETLOCAL", "COMPARE",
           "ADD", "RETURN", "HALT"}

ASSUME BoundAssumption ==
  /\ Statements \subseteq {"local", "eval", "assign", "if", "while", "repeat", "for", "forin", "return"}
  /\ Expressions \subseteq {"value", "method", "and", "or", "bin", "call", "print", "table"}
  /\ "value" \in Expressions
  /\ InitialLocals \subseteq Nat /\ ForInEnds \in BOOLEAN
  /\ MaxTokens \in Nat /\ MAX_CODE_SIZE \in Nat

VARIABLES
  phase,    \* "write", "failed" (has_error), "run", "stopped"
  prog,     \* the tokens so far
  todo,     \* what is left to be compiled, the next first
  marks,    \* the variables of the active calls of compile_expr and compile_stmt
  bases,    \* starting_local_count of the active calls of compile_block
  active,   \* active_local_count
  code,     \* the bytes of the function
  edges,    \* history: where statements begin and blocks end, with active_local_count there
  ip,       \* pc_ptr
  stack,    \* the value stack from the frame on
  last      \* history: the last token that acted, see Structured

vars == <<phase, prog, todo, marks, bases, active, code, edges, ip, stack, last>>
machine == <<ip, stack, last>>

-----------------------------------------------------------------------------
(* Code.  A byte is an opcode or part of an operand; the first byte of a    *)
(* jump's operand carries the offset.  For the properties an opcode keeps   *)
(* the token it was emitted for and the number of locals it must leave.     *)

Byte(op, n, t, l) == [op |-> op, n |-> n, tok |-> t, locals |-> l]
Opcode(op)      == <<Byte(op, 0, Len(prog'), active')>>
Operand(n)      == <<Byte("operand", n, 0, 0)>>
WithByte(op, n) == Opcode(op) \o Operand(n)
Pops(n)         == [i \in 1 .. n |-> Opcode("POP")[1]]
Nils(n)         == [i \in 1 .. n |-> Opcode("LOADNIL")[1]]

\* A jump whose operand is at position p leads to position q (patch_relative_jump).
Offset(p, q) == q - p - 2
Jump(op, n)  == Opcode(op) \o Operand(n) \o Operand(0)
Hole(op)     == Jump(op, 0)
Patched(c, p, q)  == [c EXCEPT ![p + 1].n = Offset(p, q)]
PatchedAll_first(c, ps) ==
  IF ps = {} THEN c ELSE Patched(c, CHOOSE p \in ps : \A q \in ps : q <= p, Len(c))
PatchedAll(c, ps) == [i \in DOMAIN c |-> IF i - 1 \in ps THEN [c[i] EXCEPT !.n = Offset(i - 1, Len(c))]
                                                         ELSE c[i]]

\* emit_byte: what has no room is left out, and the compilation has failed.
EmitsFor(c, p) ==
  IF Len(c) <= MAX_CODE_SIZE
    THEN code' = c /\ phase' = p
    ELSE code' = SubSeq(c, 1, MAX_CODE_SIZE) /\ phase' = "failed"
Emits(c) == EmitsFor(c, "write")

-----------------------------------------------------------------------------
(* The recursive functions: what a token leaves to be done. *)

Rest(t) ==
  CASE t = "and"    -> <<"Expr", "and2">>
    [] t = "and2"   -> <<"Expr", "and)">>
    [] t = "or"     -> <<"Expr", "or2">>
    [] t = "or2"    -> <<"Expr", "or)">>
    [] t = "bin"    -> <<"Expr", "Expr", "bin)">>
    [] t = "call"   -> <<"Expr", "Expr", "call)">>
    [] t = "print"  -> <<"Expr", "print)">>
    [] t = "table"  -> <<"Fields">>
    [] t = "field"  -> <<"Expr", "put", "Fields">>
    [] t = "index"  -> <<"Expr", "Expr", "put", "Fields">>
    [] t = "local"  -> <<"Expr", "local)">>
    [] t = "eval"   -> <<"Expr", "eval)">>
    [] t = "assign" -> <<"value", "More">>
    [] t = "comma"  -> <<"value", "More">>
    [] t = "one"    -> <<"Target", "assign)">>
    [] t = "two"    -> <<"Target", "Target", "assign)">>
    [] t = "entry"  -> <<"value", "value", "set">>
    [] t = "if"     -> <<"Expr", "then">>
    [] t = "then"   -> <<"Block", "Clauses">>
    [] t = "elseif" -> <<"Expr", "then">>
    [] t = "else"   -> <<"Block", "endif">>
    [] t = "while"  -> <<"Expr", "do">>
    [] t = "do"     -> <<"Block", "endwhile">>
    [] t = "repeat" -> <<"Block", "until">>
    [] t = "until"  -> <<"Expr", "endrepeat">>
    [] t = "for"    -> <<"Expr", "declare", "Expr", "declare", "Expr", "test">>
    [] t = "test"   -> <<"Block", "endfor">>
    [] t = "forin"  -> <<"Expr", "item">>
    [] t = "item"   -> <<"Block", "endforin">>
    [] t = "return" -> <<"Expr", "return)">>
    [] OTHER        -> <<>>

IsMain == bases[Len(bases)] = 0

\* A return in the main program is left out: op_return would then take the words of no call.
Choices(s) ==
  CASE s = "Expr"    -> Expressions
    [] s = "value"   -> {"value", "method"} \cap Expressions
    [] s = "Block"   -> {t \in Statements : t = "return" => ~IsMain}
    [] s = "More"    -> {"comma", "one", "two"}
    [] s = "Target"  -> {"store", "entry"}
    [] s = "Clauses" -> {"elseif", "else", "endif"}
    [] s = "Fields"  -> {"field", "index", "table)"}
    [] OTHER         -> {s}

Opens(t) == t \in {"then", "else", "do", "repeat", "test", "item"}
Needed(s) == Cardinality({i \in DOMAIN s : s[i] # "Block"})

(* The compiler comes to token t, which leaves n locals active. *)
Meet(t, n) ==
  /\ phase = "write" /\ todo # <<>>
  /\ t \in Choices(Head(todo))
  /\ active' = n
  /\ prog' = Append(prog, t)
  /\ todo' = Rest(t) \o (IF Head(todo) = "Block" THEN todo ELSE Tail(todo))
  /\ Len(prog') + Needed(todo') <= MaxTokens
  /\ bases' = IF Opens(t) THEN <<n>> \o bases ELSE bases
  /\ edges' = IF Head(todo) = "Block"
                THEN edges \cup {[at |-> Len(code), locals |-> active]} ELSE edges
  /\ UNCHANGED machine

\* start: where a loop begins; exit: the operand of the jump out; ends: the operands of the jumps
\* to the end of an if; count: expressions of an assignment, or locals before a for loop.
Mark == [start |-> 0, exit |-> 0, ends |-> {}, count |-> 0]
TopMark == Head(marks)
Enter(m) == marks' = <<m>> \o marks
Update(m) == marks' = <<m>> \o Tail(marks)
Leave == marks' = Tail(marks)

-----------------------------------------------------------------------------
(* Expressions: each leaves one value on the stack, but a method call. *)

Simple_bare(t) ==
  CASE t = "value"   -> WithByte("LOAD", 0)
    [] t = "bin)"    -> Opcode("BINOP")
    [] t = "call)"   -> WithByte("CALL", 1)
    [] t = "print)"  -> WithByte("PRINT", 1)
    [] t = "table"   -> Opcode("NEWTABLE")
    [] t = "field"   -> Opcode("DUP") \o WithByte("LOADCONST", 0)
    [] t = "index"   -> Opcode("DUP")
    [] t = "put"     -> Opcode("SETTABLE")
    [] OTHER         -> <<>>

Simple(t) ==
  CASE t = "value"   -> WithByte("LOAD", 0)
    [] t = "bin)"    -> Opcode("BINOP")
    [] t = "call)"   -> WithByte("CALL", 1)
    [] t = "print)"  -> WithByte("PRINT", 1) \o Opcode("LOADNIL")
    [] t = "table"   -> Opcode("NEWTABLE")
    [] t = "field"   -> Opcode("DUP") \o WithByte("LOADCONST", 0)
    [] t = "index"   -> Opcode("DUP")
    [] t = "put"     -> Opcode("SETTABLE")
    [] OTHER         -> <<>>

\* The parser accepts o:m(...), but compile_expr has no case for it: nothing is emitted for
\* the object, the arguments or the call, and the statement around it goes on as ever.
compile_expr == \E t \in {"value", "method", "bin", "bin)", "call", "call)", "print", "print)", "table",
                          "field", "index", "put", "table)"} :
  /\ Meet(t, active)
  /\ Emits(code \o Simple(t))
  /\ UNCHANGED marks

BINOP_AND ==
  \/ Meet("and", active) /\ Emits(code) /\ Enter(Mark)
  \/ /\ Meet("and2", active)
     /\ LET c == code \o Opcode("DUP") \o Hole("JUMPIFFALSE")
        IN Emits(c \o Opcode("POP")) /\ Update([TopMark EXCEPT !.exit = Len(c) - 2])
  \/ /\ Meet("and)", active)
     /\ Emits(Patched(code, TopMark.exit, Len(code)))
     /\ Leave

BINOP_OR ==
  \/ Meet("or", active) /\ Emits(code) /\ Enter(Mark)
  \/ /\ Meet("or2", active)
     /\ LET c == code \o Opcode("DUP") \o Hole("JUMPIFFALSE")
            d == c \o Hole("JUMP")
        IN /\ Emits(Patched(d, Len(c) - 2, Len(d)) \o Opcode("POP"))
           /\ Update([TopMark EXCEPT !.exit = Len(d) - 2])
  \/ /\ Meet("or)", active)
     /\ Emits(Patched(code, TopMark.exit, Len(code)))
     /\ Leave

-----------------------------------------------------------------------------
(* Statements. *)

compile_block_kept ==
  /\ phase = "write" /\ todo # <<>> /\ Head(todo) = "Block"
  /\ todo' = Tail(todo)
  /\ bases' = Tail(bases) /\ active' = Head(bases)
  /\ edges' = edges \cup {[at |-> Len(code), locals |-> active]}
  /\ prog' = prog
  /\ Emits(code)
  /\ UNCHANGED <<marks, machine>>

\* The end of a block drops its locals.
compile_block ==
  /\ phase = "write" /\ todo # <<>> /\ Head(todo) = "Block"
  /\ todo' = Tail(todo)
  /\ bases' = Tail(bases) /\ active' = Head(bases)
  /\ edges' = edges \cup {[at |-> Len(code), locals |-> active]}
  /\ prog' = prog
  /\ Emits(code \o Pops(active - Head(bases)))
  /\ UNCHANGED <<marks, machine>>

STMT_CALL ==
  \/ Meet("eval", active) /\ Emits(code) /\ UNCHANGED marks
  \/ Meet("eval)", active) /\ Emits(code \o Opcode("POP")) /\ UNCHANGED marks

\* The value stays where it is and becomes the local; so do the three of a for loop.
STMT_LOCAL ==
  \/ Meet("local", active) /\ Emits(code) /\ UNCHANGED marks
  \/ \E t \in {"local)", "declare"} :
       Meet(t, active + 1) /\ Emits(code) /\ UNCHANGED marks

STMT_ASSIGN ==
  \/ Meet("assign", active) /\ Emits(code) /\ Enter([Mark EXCEPT !.count = 1])
  \/ Meet("comma", active) /\ Emits(code) /\ Update([TopMark EXCEPT !.count = @ + 1])
  \/ \E t \in {"one", "two"} :
       LET targets == IF t = "one" THEN 1 ELSE 2 IN
       /\ Meet(t, active)
       /\ Emits(code \o Pops(TopMark.count - targets) \o Nils(targets - TopMark.count))
       /\ Leave
  \/ Meet("store", active) /\ Emits(code \o WithByte("SETGLOBAL", 0)) /\ UNCHANGED marks
  \/ Meet("entry", active) /\ Emits(code) /\ UNCHANGED marks
  \/ Meet("set", active) /\ Emits(code \o Opcode("ROT3") \o Opcode("SETTABLE")) /\ UNCHANGED marks
  \/ Meet("assign)", active) /\ Emits(code) /\ UNCHANGED marks

STMT_IF ==
  \/ Meet("if", active) /\ Emits(code) /\ Enter(Mark)
  \/ /\ Meet("then", active)
     /\ Emits(code \o Hole("JUMPIFFALSE"))
     /\ Update([TopMark EXCEPT !.exit = Len(code) + 1])
  \/ \E t \in {"elseif", "else"} :
       /\ Meet(t, active)
       /\ LET c == code \o Hole("JUMP") IN Emits(Patched(c, TopMark.exit, Len(c)))
       /\ Update([TopMark EXCEPT !.exit = 0, !.ends = @ \cup {Len(code) + 1}])
  \/ /\ Meet("endif", active)
     /\ Emits(PatchedAll(code, TopMark.ends \cup ({TopMark.exit} \ {0})))
     /\ Leave

STMT_WHILE ==
  \/ Meet("while", active) /\ Emits(code) /\ Enter([Mark EXCEPT !.start = Len(code)])
  \/ /\ Meet("do", active)
     /\ Emits(code \o Hole("JUMPIFFALSE"))
     /\ Update([TopMark EXCEPT !.exit = Len(code) + 1])
  \/ /\ Meet("endwhile", active)
     /\ LET c == code \o Jump("JUMP", Offset(Len(code) + 1, TopMark.start))
        IN Emits(Patched(c, TopMark.exit, Len(c)))
     /\ Leave

STMT_REPEAT ==
  \/ Meet("repeat", active) /\ Emits(code) /\ Enter([Mark EXCEPT !.start = Len(code)])
  \/ Meet("until", active) /\ Emits(code) /\ UNCHANGED marks
  \/ /\ Meet("endrepeat", active)
     /\ Emits(code \o Jump("JUMPIFFALSE", Offset(Len(code) + 1, TopMark.start)))
     /\ Leave

\* The locals of a for loop, by their distance from the first: variable, limit, step;
\* table, index, value.
STMT_FOR_NUM ==
  \/ Meet("for", active) /\ Emits(code) /\ Enter([Mark EXCEPT !.count = active])
  \/ /\ Meet("test", active + 1)
     /\ LET v == TopMark.count
            c == code \o WithByte("GETLOCAL", v) \o WithByte("GETLOCAL", v + 1)
                   \o Opcode("COMPARE") \o Hole("JUMPIFFALSE")
        IN Emits(c) /\ Update([TopMark EXCEPT !.start = Len(code), !.exit = Len(c) - 2])
  \/ /\ Meet("endfor", TopMark.count)
     /\ LET v == TopMark.count
            c == code \o WithByte("GETLOCAL", v) \o WithByte("GETLOCAL", v + 2)
                   \o Opcode("ADD") \o WithByte("SETLOCAL", v)
            d == c \o Jump("JUMP", Offset(Len(c) + 1, TopMark.start))
        IN Emits(Patched(d, TopMark.exit, Len(d)) \o Pops(3))
     /\ Leave

STMT_FOR_IN ==
  \/ Meet("forin", active) /\ Emits(code) /\ Enter([Mark EXCEPT !.count = active])
  \/ /\ Meet("item", active + 3)
     /\ LET v == TopMark.count
            c == code \o WithByte("LOADCONST", 0) \o Opcode("LOADNIL")
            d == c \o WithByte("GETLOCAL", v) \o WithByte("GETLOCAL", v + 1) \o Opcode("GETTABLE")
                   \o Opcode("DUP") \o Hole("JUMPIFFALSE")
        IN /\ Emits(d \o WithByte("SETLOCAL", v + 2))
           /\ Update([TopMark EXCEPT !.start = Len(c), !.exit = Len(d) - 2])
  \/ /\ Meet("endforin", TopMark.count)
     /\ LET v == TopMark.count
            c == code \o WithByte("GETLOCAL", v + 1) \o WithByte("LOADCONST", 0)
                   \o Opcode("ADD") \o WithByte("SETLOCAL", v + 1)
            d == c \o Jump("JUMP", Offset(Len(c) + 1, TopMark.start))
        IN Emits(Patched(d, TopMark.exit, Len(d)) \o Pops(3))
     /\ Leave

STMT_RETURN ==
  /\ \/ Meet("return", active) /\ Emits(code)
     \/ Meet("return)", active) /\ Emits(code \o WithByte("RETURN", 1))
  /\ UNCHANGED marks

compiler_compile_open ==
  /\ Meet("end", active)
  /\ EmitsFor(code \o (IF active = 0 THEN Opcode("HALT") ELSE Opcode("LOADNIL")), "run")
  /\ UNCHANGED marks

\* The end of the main program, or of a function's body.
compiler_compile ==
  /\ Meet("end", active)
  /\ EmitsFor(code \o (IF active = 0 THEN Opcode("HALT")
                       ELSE Opcode("LOADNIL") \o WithByte("RETURN", 0)), "run")
  /\ UNCHANGED marks

Compile ==
  \/ compile_expr \/ BINOP_AND \/ BINOP_OR \/ compile_block \/ STMT_CALL \/ STMT_LOCAL \/ STMT_ASSIGN
  \/ STMT_IF \/ STMT_WHILE \/ STMT_REPEAT \/ STMT_FOR_NUM \/ STMT_FOR_IN \/ STMT_RETURN
  \/ compiler_compile

-----------------------------------------------------------------------------
(* The machine.  A value is its truth and the token that made it. *)

Value(truth, of) == [truth |-> truth, of |-> of]
Here     == code[ip + 1]
Word     == code[ip + 2].n
Top(i)   == stack[Len(stack) - i]            \* Top(0) is the last value pushed
Drop(n)  == SubSeq(stack, 1, Len(stack) - n)

\* Fetch an opcode that takes n values.
At(op, n) ==
  /\ phase = "run" /\ ip < Len(code) /\ Here.op = op /\ Len(stack) >= n
  /\ UNCHANGED <<prog, todo, marks, bases, active, code, edges>>

Goto(p) == ip' = p /\ phase' = phase
Acts(v, uses) == last' = [tok |-> Here.tok, val |-> v, uses |-> uses]

op_load == At("LOAD", 0) /\ \E v \in BOOLEAN :
  stack' = Append(stack, Value(v, Here.tok)) /\ Acts(v, <<>>) /\ Goto(ip + 2)

op_loadnil == At("LOADNIL", 0) /\ stack' = Append(stack, Value(FALSE, 0)) /\ Goto(ip + 1) /\ UNCHANGED last

op_loadconst == At("LOADCONST", 0) /\ stack' = Append(stack, Value(TRUE, 0)) /\ Goto(ip + 2) /\ UNCHANGED last

op_dup == At("DUP", 1) /\ stack' = Append(stack, Top(0)) /\ Goto(ip + 1) /\ UNCHANGED last

op_pop == At("POP", 1) /\ stack' = Drop(1) /\ Goto(ip + 1) /\ UNCHANGED last

op_rot3 == At("ROT3", 3) /\ stack' = Drop(3) \o <<Top(1), Top(0), Top(2)>> /\ Goto(ip + 1) /\ UNCHANGED last

\* Arithmetic, comparison, concatenation and the access to an entry: two values become one.
op_binary == At("BINOP", 2) /\ \E v \in BOOLEAN :
  stack' = Append(Drop(2), Value(v, Here.tok)) /\ Acts(v, <<>>) /\ Goto(ip + 1)

\* A call takes the function and its arguments and leaves one value.
op_call == At("CALL", Word + 1) /\ \E v \in BOOLEAN :
  stack' = Append(Drop(Word + 1), Value(v, Here.tok)) /\ Acts(v, <<>>) /\ Goto(ip + 2)

op_print == At("PRINT", Word) /\ stack' = Drop(Word) /\ Acts(FALSE, <<>>) /\ Goto(ip + 2)

op_newtable == At("NEWTABLE", 0) /\ stack' = Append(stack, Value(TRUE, Here.tok)) /\ Acts(TRUE, <<>>) /\ Goto(ip + 1)

op_gettable == At("GETTABLE", 2) /\ \E v \in BOOLEAN :
  stack' = Append(Drop(2), Value(v, Here.tok)) /\ Acts(v, <<>>) /\ Goto(ip + 1)

op_settable == At("SETTABLE", 3)
  /\ Acts(TRUE, IF prog[Here.tok] = "put" THEN <<Top(2).of>> ELSE <<Top(2).of, Top(0).of>>)
  /\ stack' = Drop(3) /\ Goto(ip + 1)

op_setglobal == At("SETGLOBAL", 1) /\ stack' = Drop(1) /\ Acts(TRUE, <<Top(0).of>>) /\ Goto(ip + 2)

op_getlocal == At("GETLOCAL", 0) /\ Word < Len(stack)
  /\ stack' = Append(stack, stack[Word + 1]) /\ Goto(ip + 2) /\ UNCHANGED last

op_setlocal == At("SETLOCAL", 1) /\ Word + 1 < Len(stack)
  /\ stack' = [Drop(1) EXCEPT ![Word + 1] = Top(0)] /\ Goto(ip + 2) /\ UNCHANGED last

op_compare == At("COMPARE", 2) /\ \E v \in BOOLEAN :
  stack' = Append(Drop(2), Value(v, Here.tok)) /\ Acts(v, <<>>) /\ Goto(ip + 1)

op_add == At("ADD", 2) /\ stack' = Append(Drop(2), Value(TRUE, Here.tok)) /\ Acts(TRUE, <<>>) /\ Goto(ip + 1)

op_jump == At("JUMP", 0) /\ Goto(ip + 3 + Word) /\ UNCHANGED <<stack, last>>

op_jump_false ==
  /\ At("JUMPIFFALSE", 1)
  /\ (~Top(0).truth /\ prog[Here.tok] = "item") => ForInEnds
  /\ Goto(IF Top(0).truth THEN ip + 3 ELSE ip + 3 + Word)
  /\ stack' = Drop(1) /\ UNCHANGED last

op_stop == (At("RETURN", 1) \/ At("HALT", 0))
  /\ Acts(TRUE, <<>>) /\ phase' = "stopped" /\ UNCHANGED <<ip, stack>>

Run == op_load \/ op_loadnil \/ op_loadconst \/ op_dup \/ op_pop \/ op_rot3 \/ op_binary \/ op_call
  \/ op_print \/ op_newtable \/ op_gettable \/ op_settable \/ op_setglobal \/ op_getlocal \/ op_setlocal
  \/ op_compare \/ op_add \/ op_jump \/ op_jump_false \/ op_stop

-----------------------------------------------------------------------------
Init ==
  /\ phase = "write" /\ prog = <<>> /\ todo = <<"Block", "end">> /\ marks = <<>>
  /\ code = <<>> /\ edges = {} /\ ip = 0
  /\ \E n \in InitialLocals : bases = <<n>> /\ active = n /\ stack = [i \in 1 .. n |-> Value(TRUE, 0)]
  /\ last = [tok |-> 0, val |-> TRUE, uses |-> <<>>]

Next == Compile \/ Run

Spec == Init /\ [][Next]_vars

-----------------------------------------------------------------------------
(* Properties. *)

(* Types; the machine is always at an opcode of the finished code, never in  *)
(* an operand or past the end.                                             *)
TypeOK ==
  /\ phase \in {"write", "failed", "run", "stopped"}
  /\ prog \in Seq(Token) /\ todo \in Seq(Symbol)
  /\ marks \in Seq([start : Nat, exit : Nat, ends : SUBSET Nat, count : Nat])
  /\ bases \in Seq(Nat) /\ active \in Nat
  /\ code \in Seq([op : Op \cup {"operand"}, n : Int, tok : Nat, locals : Nat])
  /\ edges \subseteq [at : Nat, locals : Nat]
  /\ ip \in Nat
  /\ stack \in Seq([truth : BOOLEAN, of : Nat])
  /\ last \in [tok : Nat, val : BOOLEAN, uses : Seq(Nat)]
  /\ phase = "run" => ip < Len(code) /\ Here.op # "operand"

(* Where a statement begins and where a block ends the stack holds exactly   *)
(* the locals the compiler counts, by whatever way control has come there:  *)
(* local i is in slot i, which is what GETLOCAL i and SETLOCAL i rely on.   *)
(* It holds of programs that have no method call and run no for-in loop to   *)
(* its end.                                                                *)
LocalsInPlace ==
  phase = "run" => \A e \in edges : e.at = ip => Len(stack) = e.locals

(* No instruction takes a local of a block that is still open for an        *)
(* operand: between two statements only temporaries are consumed.  It holds *)
(* of programs without method calls.                                       *)
Takes(op) ==
  CASE op \in {"DUP", "POP", "PRINT", "SETGLOBAL", "SETLOCAL", "JUMPIFFALSE", "RETURN"} -> 1
    [] op \in {"BINOP", "CALL", "GETTABLE", "COMPARE", "ADD"} -> 2
    [] op \in {"ROT3", "SETTABLE"} -> 3
    [] OTHER -> 0
LocalsKept ==
  phase = "run" /\ Takes(Here.op) > 0 => Len(stack) - Takes(Here.op) >= Here.locals

(* Control goes where the structure of the program says, and assignments    *)
(* and constructors store the values it says: the code implements the      *)
(* program.                                                                *)
S == INSTANCE Structured
ImplementsStructured == S!Spec
=============================================================================
