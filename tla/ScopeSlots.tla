----------------------------- MODULE ScopeSlots -----------------------------
(***************************************************************************)
(* How the compiler gives storage to local variables (compiler.c).  A      *)
(* first pass (analyze_...) walks a function's body, names the slots of its  *)
(* locals and finds out which of them closures capture; a second pass      *)
(* (compile_...) walks it again and emits the accesses, resolving each name  *)
(* in the table of names that the first pass has left.  A function inside  *)
(* is analysed with every function around it, and then once more before    *)
(* its own second pass.                                                    *)
(*                                                                         *)
(* A program is a sequence of tokens that open, close, declare and use;    *)
(* the analysis of the main chunk makes it up as it goes.  A storage is    *)
(* <<function depth, "slot" or "cell", index>>.                            *)
(*                                                                         *)
(* An operator named after another with a suffix is that operator with a   *)
(* plausible fault; no specification uses it.                              *)
(***************************************************************************)
EXTENDS Integers, Sequences, FiniteSets

CONSTANTS
  Names,       \* the variable names
  MaxTokens,   \* bound: tokens of a program, the closing ones included
  MaxDepth,    \* bound: functions around a token, the main chunk included
  Renames,     \* may a slot hold locals of different names one after another?
  HeaderUses   \* may a statement that declares a name read an outer one of that name?

MaxSlots == 3 * MaxTokens + 2
SlotNo   == 0 .. MaxSlots
NONE     == "none"         \* no name, no operand
HIDDEN   == "hidden"       \* __func, __for_limit, __for_step
NOENV    == 255            \* local_env_slot of a slot without a cell
MAIN     == [op |-> "main", name |-> NONE, other |-> NONE, read |-> NONE]

ASSUME BoundAssumption ==
  /\ MaxTokens \in Nat \ {0} /\ MaxDepth \in Nat \ {0}
  /\ Renames \in BOOLEAN /\ HeaderUses \in BOOLEAN
  /\ NONE \notin Names /\ HIDDEN \notin Names

(* function(p) or function(), local function f(), function f(), a name read *)
(* or assigned, local a[, b] = ... (b's value reads a name), for a = 1, x,  *)
(* the start of a block, the end of any of these.                          *)
Token == [op    : {"lambda", "localfunc", "funcdef", "use", "local", "for", "block", "end"},
          name  : Names \cup {NONE},
          other : Names \cup {NONE},
          read  : Names \cup {NONE}]

VARIABLES
  prog,     \* the program: what the main chunk's analysis has seen of it
  ip,       \* the token the current pass is at
  scopes,   \* the functions being compiled, main first: BytecodeFunction and ScopeContext
  access,   \* history: where the last emitted access goes, and where it should
  active    \* history: [i] active locals when the analysis met token i

vars == <<prog, ip, scopes, access, active>>

-----------------------------------------------------------------------------
(* Stacks of functions. *)

Top(sc)          == sc[Len(sc)]
WithTop(sc, f)   == [sc EXCEPT ![Len(sc)] = f]
Below(sc)        == SubSeq(sc, 1, Len(sc) - 1)
Largest(S)       == CHOOSE i \in S : \A j \in S : j <= i
Last(S)          == IF S = {} THEN -1 ELSE Largest(S)

NewScope(t, start, nested) ==
  [opener   |-> t, start |-> start,
   nested   |-> nested,         \* analysed on behalf of a function around it
   pass     |-> "analyze",
   names    |-> [i \in SlotNo |-> NONE],
   active   |-> 0,              \* active_local_count
   initial  |-> 0,              \* initial_local_count
   captured |-> {},             \* slots with local_is_captured
   env      |-> [i \in SlotNo |-> NOENV],
   ups      |-> <<>>,           \* upvalues
   blocks   |-> <<>>,           \* active_local_count when each open block began
   visible  |-> <<>>]           \* history: the declarations in scope, by storage

-----------------------------------------------------------------------------
(* Resolution. *)

resolve_local_scope_outermost(f, n) ==
  LET S == {i \in 0 .. f.active - 1 : f.names[i] = n}
  IN IF S = {} THEN -1 ELSE CHOOSE i \in S : \A j \in S : i <= j

resolve_local_scope(f, n) == Last({i \in 0 .. f.active - 1 : f.names[i] = n})

(* The innermost function around the top one where n is an active local. *)
OwnerOf(sc, n) == Last({d \in 1 .. Len(sc) - 1 : resolve_local_scope(sc[d], n) # -1})
IsLocal(sc, n) == resolve_local_scope(Top(sc), n) # -1
IsUpvalue(sc, n) == ~IsLocal(sc, n) /\ OwnerOf(sc, n) # -1

Position(u, x) == (CHOOSE i \in DOMAIN u : u[i] = x) - 1
add_upvalue(u, x) == IF \E i \in DOMAIN u : u[i] = x THEN u ELSE Append(u, x)

(* The upvalue through which the function at depth d reaches n. *)
Descriptors(sc, n) ==
  LET o == OwnerOf(sc, n)
      i == resolve_local_scope(sc[o], n)
      desc[d \in o + 1 .. Len(sc)] ==
        IF d = o + 1
          THEN [from_local |-> TRUE, index |-> IF sc[o].env[i] = NOENV THEN i ELSE sc[o].env[i]]
          ELSE [from_local |-> FALSE, index |-> Position(add_upvalue(sc[d - 1].ups, desc[d - 1]), desc[d - 1])]
  IN desc

(* A use of n, in either pass: a name found in a function around this one   *)
(* becomes a captured local there and an upvalue of every function between. *)
Resolve(sc, n) ==
  IF ~IsUpvalue(sc, n) THEN sc
  ELSE LET o == OwnerOf(sc, n)
           i == resolve_local_scope(sc[o], n)
           desc == Descriptors(sc, n)
       IN [d \in DOMAIN sc |->
             IF d = o THEN [sc[d] EXCEPT !.captured = @ \cup {i}]
             ELSE IF d > o THEN [sc[d] EXCEPT !.ups = add_upvalue(@, desc[d])]
             ELSE sc[d]]

Own(sc, i) ==
  IF i \in Top(sc).captured THEN <<Len(sc), "cell", Top(sc).env[i]>> ELSE <<Len(sc), "slot", i>>

(* Where the emitted access goes: GETLOCAL, GETCAPTURED, GETUPVAL (followed *)
(* as instantiate_closure does) or GETGLOBAL.                              *)
Emitted(sc, n) ==
  IF IsLocal(sc, n) THEN Own(sc, resolve_local_scope(Top(sc), n))
  ELSE IF ~IsUpvalue(sc, n) THEN <<0, "global", n>>
  ELSE LET cell[d \in 0 .. Len(sc)] ==
             IF d = 0 THEN <<>>
             ELSE [i \in DOMAIN sc[d].ups |->
                     LET u == sc[d].ups[i]
                     IN IF u.from_local THEN <<d - 1, "cell", u.index>> ELSE cell[d - 1][u.index + 1]]
       IN cell[Len(sc)][Position(Top(sc).ups, Descriptors(sc, n)[Len(sc)]) + 1]

(* Where it should go: the innermost declaration of n in scope. *)
Lexical(sc, n) ==
  LET Here(d) == {i \in DOMAIN sc[d].visible : sc[d].visible[i].name = n}
      D == {d \in DOMAIN sc : Here(d) # {}}
  IN IF D = {} THEN <<0, "global", n>>
     ELSE LET d == Largest(D) IN sc[d].visible[Largest(Here(d))].store

-----------------------------------------------------------------------------
(* Declarations. *)

(* First pass: scope_add_local. *)
scope_add_local(sc, n) ==
  WithTop(sc, [Top(sc) EXCEPT !.names[Top(sc).active] = n, !.active = @ + 1])

(* Second pass: the value on the stack becomes the local, and is copied to  *)
(* its cell if it has one.  The name is not entered again.                 *)
Declare(sc, n) ==
  LET i == Top(sc).active IN
  WithTop(sc, [Top(sc) EXCEPT
    !.active = i + 1,
    !.visible = Append(@, [name |-> n, slot |-> i, store |-> Own(sc, i)])])

(* The declarations that came before those of the slots from base on. *)
Before(vs, base) == SubSeq(vs, 1, Cardinality({i \in DOMAIN vs : vs[i].slot < base}))

Leave_one(f, base) ==
  [f EXCEPT !.active = IF f.pass = "compile" /\ @ > base THEN @ - 1 ELSE @,
            !.visible = Before(@, base)]

Leave_three(f, base) ==
  [f EXCEPT !.active = @ - 3,
            !.visible = Before(@, base)]

(* The end of a block in either pass. *)
Leave(f, base) ==
  [f EXCEPT !.active = base,
            !.visible = Before(@, base)]

(* The end of a function's analysis: the captured slots get their cells. *)
WithCells_first(f) ==
  [f EXCEPT !.env = [i \in SlotNo |-> IF i \in f.captured THEN 0 ELSE NOENV]]

WithCells_params(f) ==
  [f EXCEPT !.env = [i \in SlotNo |->
     IF i \in f.captured /\ i < f.initial THEN Cardinality({j \in f.captured : j < i})
     ELSE NOENV]]

WithCells(f) ==
  [f EXCEPT !.env = [i \in SlotNo |->
     IF i \in f.captured THEN Cardinality({j \in f.captured : j < i})
     ELSE NOENV]]

(* analyze_function_body: the function's own name, then its parameter. *)
Enter(sc, t, nested) ==
  LET own  == IF t.op = "lambda" THEN HIDDEN ELSE t.name
      self == scope_add_local(Append(sc, NewScope(t, ip + 1, nested)), own)
      all  == IF t.op = "lambda" /\ t.name # NONE THEN scope_add_local(self, t.name) ELSE self
  IN WithTop(all, [Top(all) EXCEPT !.initial = Top(all).active])

(* The second pass starts with the initial locals, those captured copied to *)
(* their cells (emit_capture_prologue).                                    *)
StartSecondPass(sc) ==
  LET f == WithCells(Top(sc))
      s == WithTop(sc, [f EXCEPT !.pass = "compile", !.active = f.initial])
  IN WithTop(s, [Top(s) EXCEPT
       !.visible = [i \in 1 .. f.initial |-> [name |-> f.names[i - 1], slot |-> i - 1, store |-> Own(s, i - 1)]]])

-----------------------------------------------------------------------------
Init ==
  /\ prog = <<>> /\ ip = 1
  /\ scopes = <<NewScope(MAIN, 1, FALSE)>>
  /\ access = [goes |-> NONE, should |-> NONE]
  /\ active = [i \in 1 .. MaxTokens |-> 0]

Writing   == scopes[1].pass = "analyze"
Analyzing == Top(scopes).pass = "analyze"

(* The token at ip: while the main chunk is being analysed any that keeps   *)
(* the program within the bounds.                                          *)
OpenIn(sc) ==
  Len(sc) - 1 + Cardinality(UNION {{d} \X DOMAIN sc[d].blocks : d \in DOMAIN sc})

At(t) ==
  IF ip <= Len(prog) THEN prog[ip] = t /\ UNCHANGED prog
  ELSE Writing /\ Len(prog) < MaxTokens /\ prog' = Append(prog, t)

(* A program that is not Renames never gives a slot a second name. *)
Kept == Renames \/ \A d \in DOMAIN scopes \cap DOMAIN scopes', i \in SlotNo :
                     scopes[d].names[i] \in {NONE, scopes'[d].names[i]}

(* Every construct that is open can still be closed within the bound. *)
Moved == /\ ip' = ip + 1
         /\ ip > Len(prog) => Len(prog') + OpenIn(scopes') <= MaxTokens
         /\ active' = IF Analyzing THEN [active EXCEPT ![ip] = Top(scopes).active] ELSE active

Accessing(sc, n) ==
  access' = IF Analyzing THEN access ELSE [goes |-> Emitted(Resolve(sc, n), n), should |-> Lexical(scopes, n)]

UseVar(t) ==
  /\ t.op = "use" /\ At(t)
  /\ scopes' = Resolve(scopes, t.name)
  /\ Accessing(scopes, t.name)
  /\ Moved

(* The first pass looks at all values before it adds the first name; the    *)
(* second pass has declared t.name when it comes to the value of t.other.   *)
LocalOne(t) ==
  /\ t.op = "local" /\ t.other = NONE /\ At(t)
  /\ scopes' = IF Analyzing THEN scope_add_local(scopes, t.name) ELSE Declare(scopes, t.name)
  /\ Kept /\ Moved /\ UNCHANGED access

LocalTwo(t) ==
  /\ t.op = "local" /\ t.other # NONE /\ At(t)
  /\ HeaderUses \/ t.read # t.name
  /\ IF Analyzing
       THEN /\ scopes' = scope_add_local(scope_add_local(Resolve(scopes, t.read), t.name), t.other)
            /\ UNCHANGED access
       ELSE /\ scopes' = Declare(Resolve(Declare(scopes, t.name), t.read), t.other)
            /\ Accessing(Declare(scopes, t.name), t.read)
  /\ Kept /\ Moved

(* for t.name = 1, t.read do, or with a constant: three slots, the variable *)
(* first.                                                                  *)
BeginFor(t) ==
  /\ t.op = "for" /\ At(t)
  /\ HeaderUses \/ t.read # t.name
  /\ LET Begun(sc) == WithTop(sc, [Top(sc) EXCEPT !.blocks = Append(@, Top(scopes).active)])
         Read(sc) == IF t.read = NONE THEN sc ELSE Resolve(sc, t.read)
     IN scopes' = Begun(IF Analyzing
          THEN scope_add_local(scope_add_local(scope_add_local(Read(scopes), t.name), HIDDEN), HIDDEN)
          ELSE Declare(Declare(Read(Declare(scopes, t.name)), HIDDEN), HIDDEN))
  /\ IF Analyzing \/ t.read = NONE THEN UNCHANGED access ELSE Accessing(Declare(scopes, t.name), t.read)
  /\ Kept /\ Moved

BeginBlock(t) ==
  /\ t.op = "block" /\ At(t)
  /\ scopes' = WithTop(scopes, [Top(scopes) EXCEPT !.blocks = Append(@, Top(scopes).active)])
  /\ Moved /\ UNCHANGED access

BeginFunction(t) ==
  /\ t.op \in {"lambda", "localfunc", "funcdef"} /\ At(t)
  /\ Len(scopes) < MaxDepth
  /\ scopes' = Enter(scopes, t, Analyzing)
  /\ Moved /\ UNCHANGED access

EndBlock(t) ==
  /\ t.op = "end" /\ Top(scopes).blocks # <<>> /\ At(t)
  /\ LET f == Top(scopes)
         n == Len(f.blocks)
     IN scopes' = WithTop(scopes, [Leave(f, f.blocks[n]) EXCEPT !.blocks = SubSeq(@, 1, n - 1)])
  /\ Moved /\ UNCHANGED access

(* The end of the body of a function that is nested in the one analysed. *)
EndNested(t) ==
  /\ t.op = "end" /\ Len(scopes) > 1 /\ Top(scopes).blocks = <<>> /\ Top(scopes).nested /\ At(t)
  /\ LET o == Top(scopes).opener
         sc == Below(scopes)
     IN scopes' = CASE o.op = "localfunc" -> scope_add_local(sc, o.name)
                    [] o.op = "funcdef"   -> Resolve(sc, o.name)
                    [] OTHER              -> sc
  /\ Kept /\ Moved /\ UNCHANGED access

(* The end of a body's own analysis: the second pass starts at its top. *)
EndAnalysis(t) ==
  /\ t.op = "end" /\ Len(scopes) > 1 /\ Top(scopes).blocks = <<>>
  /\ Analyzing /\ ~Top(scopes).nested /\ At(t)
  /\ scopes' = StartSecondPass(scopes)
  /\ ip' = Top(scopes).start
  /\ active' = [active EXCEPT ![ip] = Top(scopes).active]
  /\ UNCHANGED access

(* The end of a body's second pass: the function value is on the stack of   *)
(* the function around it, which stores it.                                *)
EndFunction(t) ==
  /\ t.op = "end" /\ Len(scopes) > 1 /\ Top(scopes).blocks = <<>> /\ ~Analyzing /\ At(t)
  /\ LET o == Top(scopes).opener
         sc == Below(scopes)
     IN /\ scopes' = CASE o.op = "localfunc" -> Declare(sc, o.name)
                       [] o.op = "funcdef"   -> Resolve(sc, o.name)
                       [] OTHER              -> sc
        /\ access' = IF o.op = "funcdef"
                       THEN [goes |-> Emitted(Resolve(sc, o.name), o.name), should |-> Lexical(sc, o.name)]
                       ELSE access
  /\ Moved

(* The main chunk's analysis is over: compile_block of the whole program. *)
EndOfProgram ==
  /\ Writing /\ OpenIn(scopes) = 0 /\ ip > Len(prog) /\ prog # <<>>
  /\ scopes' = StartSecondPass(scopes)
  /\ ip' = 1
  /\ UNCHANGED <<prog, access, active>>

End(t) == EndBlock(t) \/ EndNested(t) \/ EndAnalysis(t) \/ EndFunction(t)

Tok(op, n, m, r) == [op |-> op, name |-> n, other |-> m, read |-> r]

Next ==
  \/ \E n \in Names :
       \/ UseVar(Tok("use", n, NONE, NONE))
       \/ LocalOne(Tok("local", n, NONE, NONE))
       \/ \E op \in {"lambda", "localfunc", "funcdef"} : BeginFunction(Tok(op, n, NONE, NONE))
       \/ \E r \in Names \cup {NONE} : BeginFor(Tok("for", n, NONE, r))
       \/ \E m \in Names \ {n}, r \in Names : LocalTwo(Tok("local", n, m, r))
  \/ BeginFunction(Tok("lambda", NONE, NONE, NONE))
  \/ BeginBlock(Tok("block", NONE, NONE, NONE))
  \/ End(Tok("end", NONE, NONE, NONE))
  \/ EndOfProgram

Spec == Init /\ [][Next]_vars

-----------------------------------------------------------------------------
TypeOK ==
  /\ prog \in Seq(Token) /\ Len(prog) <= MaxTokens
  /\ ip \in 1 .. Len(prog) + 1
  /\ Len(scopes) \in 1 .. MaxDepth
  /\ \A d \in DOMAIN scopes :
       /\ scopes[d].active \in SlotNo /\ scopes[d].captured \subseteq SlotNo
       /\ scopes[d].names \in [SlotNo -> Names \cup {NONE, HIDDEN}]
       /\ scopes[d].env \in [SlotNo -> 0 .. NOENV]
       /\ \A i \in DOMAIN scopes[d].ups : scopes[d].ups[i] \in [from_local : BOOLEAN, index : 0 .. NOENV]

(* Every access goes to the storage of the innermost declaration in scope,  *)
(* or to the global if there is none (emit_load_variable, analyze_expr).      *)
LexicalAccess == access.goes = access.should

(* Both passes have the same number of active locals at every token, so     *)
(* they mean the same slot by the same index (analyze_stmt, compile_stmt).  *)
SlotsAgree ==
  ~Analyzing /\ ip <= Len(prog) => Top(scopes).active = active[ip]

(* Two declarations in scope never share a slot or a cell: no assignment to *)
(* one changes the other (scope_add_local, analyze_function_body).         *)
StorageDistinct ==
  \A d, e \in DOMAIN scopes : \A i \in DOMAIN scopes[d].visible, j \in DOMAIN scopes[e].visible :
    scopes[d].visible[i].store = scopes[e].visible[j].store => d = e /\ i = j

(* The second pass finds no capture that the first has missed: each slot it *)
(* treats as captured has a cell (resolve_upvalue_scope).                  *)
CapturesFound ==
  \A d \in DOMAIN scopes : scopes[d].pass = "compile" =>
    \A i \in scopes[d].captured : scopes[d].env[i] # NOENV
=============================================================================
