--------------------------- MODULE ScopeSlotsProofs ---------------------------
(***************************************************************************)
(* Proofs about the two passes of the compiler over names, for every set of *)
(* names, every length of programs and every depth of functions.           *)
(***************************************************************************)
EXTENDS ScopeSlots, SequenceTheorems, FiniteSetTheorems, WellFoundedInduction, TLAPS

-----------------------------------------------------------------------------
(* What a program says of its scopes, without passes: a layout is the       *)
(* functions around a token, each with the locals in scope and where its    *)
(* open blocks began.                                                      *)

Openers == {"lambda", "localfunc", "funcdef"}

\* The locals that a function starts with: its own name, its parameter.
Initial(t) ==
  IF t.op = "main" THEN <<>>
  ELSE IF t.op # "lambda" THEN <<t.name>>
  ELSE IF t.name = NONE THEN <<HIDDEN>> ELSE <<HIDDEN, t.name>>

Frame(t, i) == [opener |-> t, start |-> i, locals |-> Initial(t), blocks |-> <<>>]

Framed(f, ls, bs) == [opener |-> f.opener, start |-> f.start, locals |-> ls, blocks |-> bs]

Declared(t) ==
  IF t.op = "local" THEN IF t.other = NONE THEN <<t.name>> ELSE <<t.name, t.other>>
  ELSE IF t.op = "for" THEN <<t.name, HIDDEN, HIDDEN>> ELSE <<>>

Opened(f, t) == IF t.op \in {"for", "block"} THEN Append(f.blocks, Len(f.locals)) ELSE f.blocks

Grown(f, t) == Framed(f, f.locals \o Declared(t), Opened(f, t))

Cut(f) == Framed(f, SubSeq(f.locals, 1, f.blocks[Len(f.blocks)]), SubSeq(f.blocks, 1, Len(f.blocks) - 1))

\* What the function f leaves in the function around it.
Stored(f, o) ==
  IF o.op = "localfunc" THEN Framed(f, Append(f.locals, o.name), f.blocks) ELSE f

\* The layout after the token t at i.
After(m, t, i) ==
  IF t.op \in Openers THEN Append(m, Frame(t, i + 1))
  ELSE IF t.op # "end" THEN WithTop(m, Grown(Top(m), t))
  ELSE IF Top(m).blocks # <<>> THEN WithTop(m, Cut(Top(m)))
  ELSE WithTop(Below(m), Stored(Top(Below(m)), Top(m).opener))

\* The layouts before each token of p, and at its end.
Layouts(p) ==
  LET lay[i \in 1 .. Len(p) + 1] ==
        IF i = 1 THEN <<Frame(MAIN, 1)>> ELSE After(lay[i - 1], p[i - 1], i - 1)
  IN lay

SlotIn(f, n) == Last({i \in 0 .. Len(f.locals) - 1 : f.locals[i + 1] = n})

Around(m, n) == Last({d \in 1 .. Len(m) - 1 : SlotIn(m[d], n) # -1})

\* The local that the use of n in the layout m makes a captured one.
Captures(m, n) ==
  IF SlotIn(Top(m), n) # -1 \/ Around(m, n) = -1 THEN {}
  ELSE {<<Around(m, n), SlotIn(m[Around(m, n)], n)>>}

CapturesAt(m, t) ==
  IF t.op = "use" THEN Captures(m, t.name)
  ELSE IF t.op = "local" /\ t.other # NONE THEN Captures(m, t.read)
  ELSE IF t.op = "for" /\ t.read # NONE THEN Captures(m, t.read)
  ELSE IF t.op = "end" /\ Top(m).blocks = <<>> /\ Top(m).opener.op = "funcdef"
    THEN Captures(Below(m), Top(m).opener.name)
  ELSE {}

-----------------------------------------------------------------------------
(* The invariant. *)

Lay == Layouts(prog)

\* A token as Next writes it.
Proper(t) ==
  /\ t \in Token
  /\ t.op \in {"use", "local", "for", "localfunc", "funcdef"} => t.name \in Names
  /\ t.op = "local" /\ t.other # NONE => t.read \in Names

FrameType ==
  [opener : Token \cup {MAIN}, start : Nat, locals : Seq(Names \cup {HIDDEN}), blocks : Seq(Nat)]

\* Blocks began among the locals there are, one inside another.
FrameOK(f) ==
  \A j \in DOMAIN f.blocks :
    /\ f.blocks[j] <= Len(f.locals)
    /\ \A k \in DOMAIN f.blocks : j <= k => f.blocks[j] <= f.blocks[k]

\* The layout m before the token i.
LayoutOK(m, i) ==
  /\ m \in Seq(FrameType) /\ Len(m) >= 1
  /\ \A d \in 1 .. Len(m) :
       /\ m[d].start \in 1 .. i
       /\ m[d].opener # MAIN => m[d].opener.op \in Openers /\ Proper(m[d].opener)
       /\ d = 1 <=> m[d].opener = MAIN
       /\ Len(m[d].locals) <= 3 * i - 1
       /\ FrameOK(m[d])

UpType == [from_local : BOOLEAN, index : Nat]
SeenType == [name : Names \cup {NONE, HIDDEN}, slot : Nat, store : Nat \X {"slot", "cell"} \X Int]
ScopeType ==
  [opener : Token \cup {MAIN}, start : Nat, nested : BOOLEAN, pass : {"analyze", "compile"},
   names : [SlotNo -> Names \cup {NONE, HIDDEN}], active : SlotNo, initial : SlotNo,
   captured : SUBSET SlotNo, env : [SlotNo -> Nat], ups : Seq(UpType), blocks : Seq(Nat),
   visible : Seq(SeenType)]

Types ==
  /\ prog \in Seq(Token) /\ Len(prog) <= MaxTokens /\ \A i \in 1 .. Len(prog) : Proper(prog[i])
  /\ ip \in 1 .. Len(prog) + 1
  /\ scopes \in Seq(ScopeType) /\ Len(scopes) \in 1 .. MaxDepth
  /\ active \in [1 .. MaxTokens -> Nat]

\* The scopes are the layout at ip, whichever passes they are in.
Matches ==
  /\ Len(scopes) = Len(Lay[ip])
  /\ \A d \in 1 .. Len(scopes) :
       /\ scopes[d].opener = Lay[ip][d].opener /\ scopes[d].start = Lay[ip][d].start
       /\ scopes[d].active = Len(Lay[ip][d].locals) /\ scopes[d].blocks = Lay[ip][d].blocks
       /\ scopes[d].initial = Len(Initial(scopes[d].opener))

\* Each function began where the functions around it are now.
Places ==
  \A d \in 1 .. Len(scopes) :
    Lay[scopes[d].start] = Append(SubSeq(Lay[ip], 1, d - 1), Frame(scopes[d].opener, scopes[d].start))

\* What is inside a function that is being analysed is so on its behalf.
Passes ==
  /\ ~scopes[1].nested /\ scopes[1].start = 1
  /\ \A d \in 2 .. Len(scopes) : scopes[d].nested => scopes[d - 1].pass = "analyze"
  /\ \A d, e \in 1 .. Len(scopes) : d < e /\ scopes[d].pass = "analyze" =>
       scopes[e].nested /\ scopes[e].pass = "analyze"
  /\ Writing => ip = Len(prog) + 1

\* What the analysis has noted is what the program says.
Noted == \A i \in 1 .. Len(prog) : active[i] = Len(Top(Lay[i]).locals)

Laid == \A i \in 1 .. Len(prog) + 1 : LayoutOK(Lay[i], i)

Shape == Types /\ Laid /\ Matches /\ Places /\ Passes /\ Noted

\* From its start to s the body of the function at depth d has the names and
\* captures that its analysis found, as far as it has come.
Spans(d, s) ==
  LET f == scopes[d] IN
  /\ IF f.pass = "analyze" THEN s = ip
     ELSE /\ Len(Lay[s]) = d /\ Lay[s][d].blocks = <<>>
          /\ IF d = 1 THEN s = Len(prog) + 1 ELSE s <= Len(prog) /\ prog[s].op = "end"
  /\ \A i \in f.start .. s :
       d <= Len(Lay[i]) /\ \A j \in 1 .. Len(Lay[i][d].locals) : f.names[j - 1] = Lay[i][d].locals[j]
  /\ \A i \in f.start .. s - 1 : \A c \in CapturesAt(Lay[i], prog[i]) : c[1] = d => c[2] \in f.captured

Analysed == \A d \in 1 .. Len(scopes) : \E s \in ip .. Len(prog) + 1 : Spans(d, s)

OwnCell(d, f, i) == IF i \in f.captured THEN <<d, "cell", f.env[i]>> ELSE <<d, "slot", i>>

\* The function f at depth d has cells for its captured slots, and in scope
\* the declarations of its active locals, each in its slot or cell.
Stores(d, f) ==
  IF f.pass = "analyze" THEN f.visible = <<>> /\ \A i \in SlotNo : f.env[i] = NOENV
  ELSE /\ \A i \in SlotNo : f.env[i] = IF i \in f.captured THEN Cardinality({j \in f.captured : j < i}) ELSE NOENV
       /\ Len(f.visible) = f.active
       /\ \A j \in 1 .. f.active :
            f.visible[j] = [name |-> f.names[j - 1], slot |-> j - 1, store |-> OwnCell(d, f, j - 1)]

Storage(sc) == \A d \in 1 .. Len(sc) : Stores(d, sc[d])

\* The upvalue u of the function at depth d leads to a slot or a cell of the
\* function around it, or to one of the upvalues ups of that function.
Leads(u, d, ups) == d > 1 /\ IF u.from_local THEN u.index \in SlotNo ELSE u.index < Len(ups)

\* No function has the same upvalue twice.
Linked(sc) ==
  \A d \in 1 .. Len(sc) :
    /\ \A i \in SlotNo : sc[d].env[i] \in SlotNo \cup {NOENV}
    /\ \A i, j \in DOMAIN sc[d].ups : sc[d].ups[i] = sc[d].ups[j] => i = j
    /\ \A i \in DOMAIN sc[d].ups : Leads(sc[d].ups[i], d, sc[d - 1].ups)

-----------------------------------------------------------------------------
(* Recursion. *)

LEMMA LeastElement ==
  ASSUME NEW S \in SUBSET Nat, S # {}
  PROVE  \E x \in S : \A y \in S : x <= y
<1> DEFINE R == {ss \in Nat \X Nat : ss[1] < ss[2]}
<1>1. IsWellFoundedOn(R, Nat)
  BY NatLessThanWellFounded, Zenon DEF OpToRel
<1>2. PICK x \in S : \A y \in S : ~(<<y, x>> \in R)
  BY <1>1, WFMin
<1>3. ASSUME NEW y \in S PROVE x <= y
  <2>1. x \in Nat /\ y \in Nat /\ <<y, x>> \in Nat \X Nat
    OBVIOUS
  <2>2. ~(y < x)
    BY <1>2, <2>1
  <2>3. QED
    BY <2>1, <2>2
<1>4. QED
  BY <1>3

(* A property of the first number of an interval that each number passes on *)
(* to the next holds in all of it; W is the set of those that have it.     *)
LEMMA Throughout ==
  ASSUME NEW a \in Nat, NEW b \in Nat, NEW W, a \in W,
         \A n \in a .. b - 1 : n \in W => n + 1 \in W
  PROVE  \A n \in a .. b : n \in W
<1> SUFFICES ASSUME NEW k \in a .. b, k \notin W PROVE FALSE
  OBVIOUS
<1> DEFINE V == {n \in a .. b : n \notin W}
<1>1. V \in SUBSET Nat /\ V # {}
  OBVIOUS
<1>2. PICK n \in V : \A j \in V : n <= j
  BY <1>1, LeastElement
<1>3. n \in a .. b /\ n # a
  BY <1>2
<1>4. n - 1 \in a .. b - 1 /\ n - 1 \notin V /\ n - 1 + 1 = n
  BY <1>2, <1>3
<1>5. n - 1 \in W
  BY <1>4
<1>6. QED
  BY <1>2, <1>4, <1>5

\* The beginning of the layouts of p, up to n.
LaidOut(f, p, n) ==
  f = [i \in 1 .. n |-> IF i = 1 THEN <<Frame(MAIN, 1)>> ELSE After(f[i - 1], p[i - 1], i - 1)]

LEMMA LayoutsExist ==
  ASSUME NEW p, NEW b \in Nat, b >= 1
  PROVE  \E f : LaidOut(f, p, b)
<1> DEFINE W == {n \in Nat : \E f : LaidOut(f, p, n)}
<1>1. 1 \in W
  <2> DEFINE f == [i \in 1 .. 1 |-> <<Frame(MAIN, 1)>>]
  <2>1. \A i \in 1 .. 1 : i = 1
    OBVIOUS
  <2>2. LaidOut(f, p, 1)
    BY <2>1 DEF LaidOut
  <2>3. QED
    BY <2>2
<1>2. ASSUME NEW n \in 1 .. b - 1, n \in W PROVE n + 1 \in W
  <2>1. PICK f : LaidOut(f, p, n)
    BY <1>2
  <2> DEFINE v == After(f[n], p[n], n)
             e == [i \in 1 .. n + 1 |-> IF i = n + 1 THEN v ELSE f[i]]
  <2>2. ASSUME NEW i \in 1 .. n + 1
        PROVE  e[i] = IF i = 1 THEN <<Frame(MAIN, 1)>> ELSE After(e[i - 1], p[i - 1], i - 1)
    <3>1. CASE i = n + 1
      <4>1. i # 1 /\ i - 1 = n /\ i - 1 \in 1 .. n + 1 /\ i - 1 # n + 1
        BY <3>1
      <4>2. e[i] = v /\ e[i - 1] = f[n]
        BY <3>1, <4>1
      <4>3. QED
        BY <4>1, <4>2
    <3>2. CASE i # n + 1
      <4>1. i \in 1 .. n /\ e[i] = f[i]
        BY <3>2
      <4>2. f[i] = IF i = 1 THEN <<Frame(MAIN, 1)>> ELSE After(f[i - 1], p[i - 1], i - 1)
        <5> HIDE DEF e
        <5>1. QED
          BY <2>1, <4>1 DEF LaidOut
      <4>3. CASE i = 1
        BY <4>1, <4>2, <4>3
      <4>4. CASE i # 1
        <5>1. i - 1 \in 1 .. n + 1 /\ i - 1 # n + 1
          BY <4>1, <4>4
        <5>2. e[i - 1] = f[i - 1]
          BY <5>1
        <5>3. QED
          BY <4>1, <4>2, <4>4, <5>2
      <4>5. QED
        BY <4>3, <4>4
    <3>3. QED
      BY <3>1, <3>2
  <2>3. e = [i \in 1 .. n + 1 |-> e[i]]
    OBVIOUS
  <2> HIDE DEF e
  <2>4. LaidOut(e, p, n + 1)
    BY <2>2, <2>3 DEF LaidOut
  <2>5. n + 1 \in Nat
    OBVIOUS
  <2>6. QED
    BY <2>4, <2>5
<1> HIDE DEF W
<1>3. \A n \in 1 .. b : n \in W
  BY <1>1, <1>2, Throughout
<1>4. b \in W
  BY <1>3
<1>5. QED
  BY <1>4 DEF W

LEMMA LayoutsAre ==
  ASSUME NEW p \in Seq(Token)
  PROVE  /\ DOMAIN Layouts(p) = 1 .. Len(p) + 1
         /\ Layouts(p)[1] = <<Frame(MAIN, 1)>>
         /\ \A i \in 1 .. Len(p) : Layouts(p)[i + 1] = After(Layouts(p)[i], p[i], i)
<1>1. Len(p) \in Nat /\ Len(p) + 1 \in Nat /\ Len(p) + 1 >= 1
  BY LenProperties
<1>2. \E f : LaidOut(f, p, Len(p) + 1)
  BY <1>1, LayoutsExist
<1>3. LaidOut(Layouts(p), p, Len(p) + 1)
  BY <1>2, Zenon DEF Layouts, LaidOut
<1>4. PICK f : f = Layouts(p)
  OBVIOUS
<1>5. /\ DOMAIN f = 1 .. Len(p) + 1
      /\ \A i \in 1 .. Len(p) + 1 : f[i] = IF i = 1 THEN <<Frame(MAIN, 1)>> ELSE After(f[i - 1], p[i - 1], i - 1)
  BY <1>3, <1>4 DEF LaidOut
<1>6. ASSUME NEW i \in 1 .. Len(p) PROVE f[i + 1] = After(f[i], p[i], i)
  <2>1. i + 1 \in 1 .. Len(p) + 1 /\ i + 1 # 1 /\ i + 1 - 1 = i
    BY <1>1
  <2>2. QED
    BY <1>5, <2>1
<1>7. 1 \in 1 .. Len(p) + 1
  BY <1>1
<1>8. QED
  BY <1>4, <1>5, <1>6, <1>7

(* A program that goes on has the layouts it had. *)
LEMMA LayoutsGrow ==
  ASSUME NEW p \in Seq(Token), NEW t \in Token
  PROVE  /\ \A i \in 1 .. Len(p) + 1 : Layouts(Append(p, t))[i] = Layouts(p)[i]
         /\ Layouts(Append(p, t))[Len(p) + 2] = After(Layouts(p)[Len(p) + 1], t, Len(p) + 1)
<1>1. PICK q : q = Append(p, t)
  OBVIOUS
<1>2. q \in Seq(Token) /\ Len(q) = Len(p) + 1 /\ q[Len(p) + 1] = t /\ \A i \in 1 .. Len(p) : q[i] = p[i]
  BY <1>1, AppendProperties
<1>3. Len(p) \in Nat
  BY LenProperties
<1>4. PICK f, e : f = Layouts(p) /\ e = Layouts(q)
  OBVIOUS
<1>5. f[1] = <<Frame(MAIN, 1)>> /\ \A i \in 1 .. Len(p) : f[i + 1] = After(f[i], p[i], i)
  BY <1>4, LayoutsAre
<1>6. e[1] = <<Frame(MAIN, 1)>> /\ \A i \in 1 .. Len(p) + 1 : e[i + 1] = After(e[i], q[i], i)
  BY <1>2, <1>4, LayoutsAre
<1> DEFINE W == {i \in 1 .. Len(p) + 1 : e[i] = f[i]}
<1>7. 1 \in W
  BY <1>3, <1>5, <1>6
<1>8. ASSUME NEW n \in 1 .. Len(p) + 1 - 1, n \in W PROVE n + 1 \in W
  <2>1. n \in 1 .. Len(p) /\ n + 1 \in 1 .. Len(p) + 1 /\ n \in 1 .. Len(p) + 1
    BY <1>3
  <2>2. e[n + 1] = After(f[n], p[n], n)
    BY <1>2, <1>6, <1>8, <2>1
  <2>3. QED
    BY <1>5, <2>1, <2>2
<1>9. \A n \in 1 .. Len(p) + 1 : n \in W
  <2> HIDE DEF W
  <2>1. Len(p) + 1 \in Nat /\ 1 \in Nat
    BY <1>3
  <2>2. QED
    BY <1>7, <1>8, <2>1, Throughout
<1>10. e[Len(p) + 2] = After(f[Len(p) + 1], t, Len(p) + 1)
  <2>1. Len(p) + 1 \in 1 .. Len(p) + 1 /\ Len(p) + 1 + 1 = Len(p) + 2
    BY <1>3
  <2>2. QED
    BY <1>2, <1>6, <1>9, <2>1
<1>11. QED
  BY <1>1, <1>4, <1>9, <1>10

-----------------------------------------------------------------------------
(* Stacks of functions and of frames. *)

LEMMA IntervalSeq ==
  ASSUME NEW n \in Nat, NEW S, NEW r \in [1 .. n -> S]
  PROVE  r \in Seq(S) /\ Len(r) = n
<1>1. r \in Seq(S)
  BY SeqDef
<1>2. Len(r) \in Nat /\ 1 .. Len(r) = 1 .. n
  BY <1>1, LenProperties
<1>3. Len(r) <= n
  <2>1. Len(r) >= 1 => Len(r) \in 1 .. Len(r)
    BY <1>2
  <2>2. Len(r) >= 1 => Len(r) \in 1 .. n
    BY <1>2, <2>1
  <2>3. QED
    BY <1>2, <2>2
<1>4. n <= Len(r)
  <2>1. n >= 1 => n \in 1 .. n
    OBVIOUS
  <2>2. n >= 1 => n \in 1 .. Len(r)
    BY <1>2, <2>1
  <2>3. QED
    BY <1>2, <2>2
<1>5. QED
  BY <1>1, <1>2, <1>3, <1>4

LEMMA TopIs ==
  ASSUME NEW S, NEW m \in Seq(S), Len(m) >= 1
  PROVE  Len(m) \in 1 .. Len(m) /\ Top(m) \in S /\ Top(m) = m[Len(m)] /\ Len(m) \in Nat
BY LenProperties, ElementOfSeq DEF Top

LEMMA WithTopIs ==
  ASSUME NEW S, NEW m \in Seq(S), Len(m) >= 1, NEW f \in S
  PROVE  /\ WithTop(m, f) \in Seq(S) /\ Len(WithTop(m, f)) = Len(m)
         /\ WithTop(m, f)[Len(m)] = f /\ Top(WithTop(m, f)) = f
         /\ \A d \in 1 .. Len(m) : WithTop(m, f)[d] = IF d = Len(m) THEN f ELSE m[d]
<1>1. Len(m) \in 1 .. Len(m) /\ DOMAIN m = 1 .. Len(m)
  BY LenProperties
<1>2. WithTop(m, f) \in Seq(S) /\ Len(WithTop(m, f)) = Len(m)
  BY <1>1, ExceptSeq DEF WithTop
<1>3. \A d \in 1 .. Len(m) : WithTop(m, f)[d] = IF d = Len(m) THEN f ELSE m[d]
  BY <1>1 DEF WithTop
<1>4. QED
  BY <1>1, <1>2, <1>3 DEF Top

LEMMA BelowIs ==
  ASSUME NEW S, NEW m \in Seq(S), Len(m) >= 1
  PROVE  /\ Below(m) \in Seq(S) /\ Len(Below(m)) = Len(m) - 1
         /\ \A d \in 1 .. Len(m) - 1 : Below(m)[d] = m[d]
<1>1. Len(m) \in Nat /\ \A i \in 1 .. Len(m) - 1 : m[i] \in S
  BY LenProperties, ElementOfSeq
<1>2. PICK b : b = Len(m) - 1
  OBVIOUS
<1>3. b \in Int /\ 1 \in Int /\ \A i \in 1 .. b : m[i] \in S
  BY <1>1, <1>2
<1>4. /\ SubSeq(m, 1, b) \in Seq(S)
      /\ Len(SubSeq(m, 1, b)) = IF 1 <= b THEN b - 1 + 1 ELSE 0
      /\ \A i \in 1 .. b - 1 + 1 : SubSeq(m, 1, b)[i] = m[1 + i - 1]
  BY <1>3, SubSeqProperties
<1>5. \A i \in 1 .. b : i \in 1 .. b - 1 + 1 /\ 1 + i - 1 = i
  BY <1>3
<1>6. QED
  BY <1>1, <1>2, <1>4, <1>5 DEF Below

LEMMA FrontIs ==
  ASSUME NEW S, NEW m \in Seq(S), NEW k \in 0 .. Len(m)
  PROVE  /\ SubSeq(m, 1, k) \in Seq(S) /\ Len(SubSeq(m, 1, k)) = k
         /\ \A d \in 1 .. k : SubSeq(m, 1, k)[d] = m[d]
<1>1. Len(m) \in Nat /\ \A i \in 1 .. k : m[i] \in S
  BY LenProperties, ElementOfSeq
<1>2. k \in Int /\ 1 \in Int
  BY <1>1
<1>3. /\ SubSeq(m, 1, k) \in Seq(S)
      /\ Len(SubSeq(m, 1, k)) = IF 1 <= k THEN k - 1 + 1 ELSE 0
      /\ \A i \in 1 .. k - 1 + 1 : SubSeq(m, 1, k)[i] = m[1 + i - 1]
  BY <1>1, <1>2, SubSeqProperties
<1>4. \A i \in 1 .. k : i \in 1 .. k - 1 + 1 /\ 1 + i - 1 = i
  BY <1>2
<1>5. QED
  BY <1>1, <1>3, <1>4

LEMMA SameFront ==
  ASSUME NEW S, NEW m \in Seq(S), NEW n \in Seq(S), NEW k \in Nat, k <= Len(m), k <= Len(n),
         \A d \in 1 .. k : m[d] = n[d]
  PROVE  SubSeq(m, 1, k) = SubSeq(n, 1, k)
<1>1. k \in 0 .. Len(m) /\ k \in 0 .. Len(n)
  BY LenProperties
<1>2. SubSeq(m, 1, k) \in Seq(S) /\ SubSeq(n, 1, k) \in Seq(S)
  BY <1>1, FrontIs
<1>3. Len(SubSeq(m, 1, k)) = k /\ Len(SubSeq(n, 1, k)) = k
  BY <1>1, FrontIs
<1>4. \A d \in 1 .. k : SubSeq(m, 1, k)[d] = SubSeq(n, 1, k)[d]
  BY <1>1, FrontIs
<1>5. QED
  BY <1>2, <1>3, <1>4, SeqEqual

-----------------------------------------------------------------------------
(* Layouts. *)

LEMMA InitialIs ==
  ASSUME NEW t, t = MAIN \/ (t.op \in Openers /\ Proper(t))
  PROVE  Initial(t) \in Seq(Names \cup {HIDDEN}) /\ Len(Initial(t)) <= 2 /\ Len(Initial(t)) \in Nat
<1>1. CASE t = MAIN
  BY <1>1 DEF Initial, MAIN
<1>2. CASE t.op \in Openers /\ Proper(t)
  <2>1. t.op # "main" /\ t.name \in Names \cup {NONE} /\ (t.op # "lambda" => t.name \in Names)
    BY <1>2 DEF Openers, Proper, Token
  <2>2. CASE t.op # "lambda"
    BY <2>1, <2>2 DEF Initial
  <2>3. CASE t.op = "lambda" /\ t.name = NONE
    BY <2>1, <2>3 DEF Initial
  <2>4. CASE t.op = "lambda" /\ t.name # NONE
    BY <2>1, <2>4 DEF Initial
  <2>5. QED
    BY <2>2, <2>3, <2>4
<1>3. QED
  BY <1>1, <1>2

LEMMA DeclaredIs ==
  ASSUME NEW t, Proper(t)
  PROVE  Declared(t) \in Seq(Names \cup {HIDDEN}) /\ Len(Declared(t)) <= 3 /\ Len(Declared(t)) \in Nat
<1>1. t.other \in Names \cup {NONE} /\ (t.op \in {"local", "for"} => t.name \in Names)
  BY DEF Proper, Token
<1>2. CASE t.op = "local" /\ t.other = NONE
  BY <1>1, <1>2 DEF Declared
<1>3. CASE t.op = "local" /\ t.other # NONE
  BY <1>1, <1>3 DEF Declared
<1>4. CASE t.op = "for"
  BY <1>1, <1>4 DEF Declared
<1>5. CASE t.op \notin {"local", "for"}
  BY <1>1, <1>5 DEF Declared
<1>6. QED
  BY <1>2, <1>3, <1>4, <1>5

LEMMA FrameIs ==
  ASSUME NEW t, t = MAIN \/ (t.op \in Openers /\ Proper(t)), NEW i \in Nat
  PROVE  /\ Frame(t, i) \in FrameType /\ FrameOK(Frame(t, i))
         /\ Frame(t, i).opener = t /\ Frame(t, i).start = i /\ Frame(t, i).blocks = <<>>
         /\ Frame(t, i).locals = Initial(t) /\ Len(Frame(t, i).locals) <= 2
<1>1. t \in Token \cup {MAIN}
  BY DEF Proper
<1>2. <<>> \in Seq(Nat)
  BY EmptySeq
<1>3. QED
  BY <1>1, <1>2, InitialIs DEF Frame, FrameType, FrameOK

LEMMA FramedIs ==
  ASSUME NEW f, NEW ls, NEW bs
  PROVE  /\ Framed(f, ls, bs).opener = f.opener /\ Framed(f, ls, bs).start = f.start
         /\ Framed(f, ls, bs).locals = ls /\ Framed(f, ls, bs).blocks = bs
         /\ f \in FrameType /\ ls \in Seq(Names \cup {HIDDEN}) /\ bs \in Seq(Nat) => Framed(f, ls, bs) \in FrameType
BY DEF Framed, FrameType

LEMMA OpenedIs ==
  ASSUME NEW f \in FrameType, FrameOK(f), NEW t
  PROVE  /\ Opened(f, t) \in Seq(Nat)
         /\ \A j \in DOMAIN Opened(f, t) :
              /\ Opened(f, t)[j] <= Len(f.locals)
              /\ \A k \in DOMAIN Opened(f, t) : j <= k => Opened(f, t)[j] <= Opened(f, t)[k]
<1>1. f.locals \in Seq(Names \cup {HIDDEN}) /\ Len(f.locals) \in Nat /\ f.blocks \in Seq(Nat)
  BY LenProperties DEF FrameType
<1>2. CASE t.op \in {"for", "block"}
  <2>1. PICK bs : bs = Append(f.blocks, Len(f.locals))
    OBVIOUS
  <2>2. bs \in Seq(Nat) /\ Len(bs) = Len(f.blocks) + 1 /\ (\A i \in 1 .. Len(f.blocks) : bs[i] = f.blocks[i])
        /\ bs[Len(f.blocks) + 1] = Len(f.locals)
    BY <1>1, <2>1, AppendProperties
  <2>3. Len(f.blocks) \in Nat /\ DOMAIN f.blocks = 1 .. Len(f.blocks) /\ DOMAIN bs = 1 .. Len(f.blocks) + 1
    BY <1>1, <2>2, LenProperties
  <2>4. \A j \in 1 .. Len(f.blocks) : f.blocks[j] <= Len(f.locals) /\ f.blocks[j] \in Nat
        /\ \A k \in 1 .. Len(f.blocks) : j <= k => f.blocks[j] <= f.blocks[k]
    BY <1>1, <2>3, ElementOfSeq DEF FrameOK
  <2>5. ASSUME NEW j \in 1 .. Len(f.blocks) + 1
        PROVE  bs[j] <= Len(f.locals) /\ \A k \in 1 .. Len(f.blocks) + 1 : j <= k => bs[j] <= bs[k]
    <3>1. CASE j = Len(f.blocks) + 1
      <4>1. \A k \in 1 .. Len(f.blocks) + 1 : j <= k => k = j
        BY <2>3, <3>1
      <4>2. QED
        BY <1>1, <2>2, <3>1, <4>1
    <3>2. CASE j # Len(f.blocks) + 1
      <4>1. j \in 1 .. Len(f.blocks)
        BY <2>3, <3>2
      <4>2. \A k \in 1 .. Len(f.blocks) + 1 : k \in 1 .. Len(f.blocks) \/ k = Len(f.blocks) + 1
        BY <2>3
      <4>3. QED
        BY <2>2, <2>4, <4>1, <4>2
    <3>3. QED
      BY <3>1, <3>2
  <2>6. QED
    BY <1>2, <2>1, <2>2, <2>3, <2>5 DEF Opened
<1>3. CASE t.op \notin {"for", "block"}
  BY <1>1, <1>3 DEF Opened, FrameOK
<1>4. QED
  BY <1>2, <1>3

LEMMA GrownIs ==
  ASSUME NEW f \in FrameType, FrameOK(f), NEW t, Proper(t)
  PROVE  /\ Grown(f, t) \in FrameType /\ FrameOK(Grown(f, t))
         /\ Grown(f, t).opener = f.opener /\ Grown(f, t).start = f.start
         /\ Grown(f, t).blocks = Opened(f, t)
         /\ Len(Grown(f, t).locals) = Len(f.locals) + Len(Declared(t))
         /\ \A j \in 1 .. Len(f.locals) : Grown(f, t).locals[j] = f.locals[j]
         /\ \A j \in 1 .. Len(Declared(t)) : Grown(f, t).locals[Len(f.locals) + j] = Declared(t)[j]
<1>1. f.locals \in Seq(Names \cup {HIDDEN}) /\ Len(f.locals) \in Nat
  BY LenProperties DEF FrameType
<1>2. Declared(t) \in Seq(Names \cup {HIDDEN}) /\ Len(Declared(t)) \in Nat
  BY DeclaredIs
<1>3. PICK ls : ls = f.locals \o Declared(t)
  OBVIOUS
<1>4. /\ ls \in Seq(Names \cup {HIDDEN}) /\ Len(ls) = Len(f.locals) + Len(Declared(t))
      /\ \A i \in 1 .. Len(ls) : ls[i] = IF i <= Len(f.locals) THEN f.locals[i] ELSE Declared(t)[i - Len(f.locals)]
  BY <1>1, <1>2, <1>3, ConcatProperties
<1>5. PICK bs : bs = Opened(f, t)
  OBVIOUS
<1>6. bs \in Seq(Nat) /\ \A j \in DOMAIN bs : bs[j] <= Len(f.locals) /\ bs[j] \in Nat /\ \A k \in DOMAIN bs : j <= k => bs[j] <= bs[k]
  BY <1>5, OpenedIs, LenProperties, ElementOfSeq
<1>7. \A j \in DOMAIN bs : bs[j] <= Len(ls)
  BY <1>1, <1>2, <1>4, <1>6
<1>8. Grown(f, t) = Framed(f, ls, bs)
  BY <1>3, <1>5 DEF Grown
<1>9. FrameOK(Framed(f, ls, bs))
  BY <1>6, <1>7, FramedIs DEF FrameOK
<1>10. \A j \in 1 .. Len(f.locals) : ls[j] = f.locals[j]
  BY <1>1, <1>2, <1>4
<1>11. \A j \in 1 .. Len(Declared(t)) : ls[Len(f.locals) + j] = Declared(t)[j]
  <2> TAKE j \in 1 .. Len(Declared(t))
  <2>1. PICK k : k = Len(f.locals) + j
    OBVIOUS
  <2>2. k \in 1 .. Len(ls) /\ ~(k <= Len(f.locals)) /\ k - Len(f.locals) = j
    BY <1>1, <1>2, <1>4, <2>1
  <2>3. ls[k] = Declared(t)[k - Len(f.locals)]
    BY <1>4, <2>2
  <2>4. QED
    BY <2>1, <2>2, <2>3
<1>12. QED
  BY <1>4, <1>5, <1>6, <1>8, <1>9, <1>10, <1>11, FramedIs

LEMMA CutIs ==
  ASSUME NEW f \in FrameType, FrameOK(f), f.blocks # <<>>
  PROVE  /\ Len(f.blocks) \in DOMAIN f.blocks /\ f.blocks[Len(f.blocks)] \in 0 .. Len(f.locals)
         /\ Cut(f) \in FrameType /\ FrameOK(Cut(f))
         /\ Cut(f).opener = f.opener /\ Cut(f).start = f.start
         /\ Cut(f).blocks = SubSeq(f.blocks, 1, Len(f.blocks) - 1)
         /\ Len(Cut(f).locals) = f.blocks[Len(f.blocks)]
         /\ \A j \in 1 .. Len(Cut(f).locals) : Cut(f).locals[j] = f.locals[j]
<1>1. f.locals \in Seq(Names \cup {HIDDEN}) /\ Len(f.locals) \in Nat /\ f.blocks \in Seq(Nat)
  BY LenProperties DEF FrameType
<1>2. PICK n : n = Len(f.blocks)
  OBVIOUS
<1>3. n \in Nat /\ n >= 1 /\ DOMAIN f.blocks = 1 .. n /\ n \in 1 .. n
  BY <1>1, <1>2, LenProperties, EmptySeq
<1>4. PICK b : b = f.blocks[n]
  OBVIOUS
<1>5. b \in 0 .. Len(f.locals)
  BY <1>1, <1>2, <1>3, <1>4, ElementOfSeq DEF FrameOK
<1>6. PICK ls : ls = SubSeq(f.locals, 1, b)
  OBVIOUS
<1>7. ls \in Seq(Names \cup {HIDDEN}) /\ Len(ls) = b /\ \A j \in 1 .. b : ls[j] = f.locals[j]
  BY <1>1, <1>5, <1>6, FrontIs
<1>8. PICK bs : bs = SubSeq(f.blocks, 1, n - 1)
  OBVIOUS
<1>9. n - 1 \in 0 .. Len(f.blocks)
  BY <1>2, <1>3
<1>10. bs \in Seq(Nat) /\ Len(bs) = n - 1 /\ \A j \in 1 .. n - 1 : bs[j] = f.blocks[j]
  BY <1>1, <1>8, <1>9, FrontIs
<1>11. DOMAIN bs = 1 .. n - 1 /\ \A j \in 1 .. n - 1 : j \in 1 .. n /\ j <= n
  BY <1>3, <1>10, LenProperties
<1>12. \A j \in DOMAIN bs : bs[j] <= b /\ \A k \in DOMAIN bs : j <= k => bs[j] <= bs[k]
  <2>1. \A j, k \in 1 .. n : j <= k => f.blocks[j] <= f.blocks[k]
    BY <1>3 DEF FrameOK
  <2>2. ASSUME NEW j \in 1 .. n - 1
        PROVE  bs[j] <= b /\ \A k \in 1 .. n - 1 : j <= k => bs[j] <= bs[k]
    <3>1. j \in 1 .. n /\ j <= n /\ bs[j] = f.blocks[j]
      BY <1>10, <1>11
    <3>2. bs[j] <= b
      BY <1>3, <1>4, <2>1, <3>1
    <3>3. \A k \in 1 .. n - 1 : j <= k => bs[j] <= bs[k]
      BY <1>10, <1>11, <2>1, <3>1
    <3>4. QED
      BY <3>2, <3>3
  <2>3. QED
    BY <1>11, <2>2
<1>13. Cut(f) = Framed(f, ls, bs)
  BY <1>2, <1>4, <1>6, <1>8 DEF Cut
<1>14. FrameOK(Framed(f, ls, bs))
  BY <1>7, <1>12, FramedIs DEF FrameOK
<1>15. Cut(f) \in FrameType /\ Cut(f).locals = ls /\ Cut(f).blocks = bs /\ Cut(f).opener = f.opener /\ Cut(f).start = f.start
  BY <1>7, <1>10, <1>13, FramedIs
<1>16. FrameOK(Cut(f))
  BY <1>13, <1>14
<1>17. Len(Cut(f).locals) = f.blocks[Len(f.blocks)] /\ \A j \in 1 .. Len(Cut(f).locals) : Cut(f).locals[j] = f.locals[j]
  BY <1>2, <1>4, <1>7, <1>15
<1>18. QED
  BY <1>2, <1>3, <1>4, <1>5, <1>8, <1>15, <1>16, <1>17

LEMMA StoredIs ==
  ASSUME NEW f \in FrameType, FrameOK(f), NEW o, o = MAIN \/ (o.op \in Openers /\ Proper(o))
  PROVE  /\ Stored(f, o) \in FrameType /\ FrameOK(Stored(f, o))
         /\ Stored(f, o).opener = f.opener /\ Stored(f, o).start = f.start
         /\ Stored(f, o).blocks = f.blocks
         /\ Len(Stored(f, o).locals) = Len(f.locals) + (IF o.op = "localfunc" THEN 1 ELSE 0)
         /\ \A j \in 1 .. Len(f.locals) : Stored(f, o).locals[j] = f.locals[j]
         /\ o.op = "localfunc" => Stored(f, o).locals[Len(f.locals) + 1] = o.name
<1>1. f.locals \in Seq(Names \cup {HIDDEN}) /\ Len(f.locals) \in Nat /\ f.blocks \in Seq(Nat)
  BY LenProperties DEF FrameType
<1>2. CASE o.op = "localfunc"
  <2>1. o.name \in Names \cup {HIDDEN}
    BY <1>2 DEF Proper, MAIN
  <2>2. PICK ls : ls = Append(f.locals, o.name)
    OBVIOUS
  <2>3. ls \in Seq(Names \cup {HIDDEN}) /\ Len(ls) = Len(f.locals) + 1 /\ (\A j \in 1 .. Len(f.locals) : ls[j] = f.locals[j])
        /\ ls[Len(f.locals) + 1] = o.name
    BY <1>1, <2>1, <2>2, AppendProperties
  <2>4. Stored(f, o) = Framed(f, ls, f.blocks)
    BY <1>2, <2>2 DEF Stored
  <2>5. \A j \in DOMAIN f.blocks : f.blocks[j] <= Len(ls)
    BY <1>1, <2>3, ElementOfSeq, LenProperties DEF FrameOK
  <2>6. FrameOK(Framed(f, ls, f.blocks))
    BY <2>5, FramedIs DEF FrameOK
  <2>7. QED
    BY <1>1, <1>2, <2>3, <2>4, <2>6, FramedIs
<1>3. CASE o.op # "localfunc"
  BY <1>1, <1>3 DEF Stored
<1>4. QED
  BY <1>2, <1>3

LEMMA FrameTyped ==
  ASSUME NEW f \in FrameType
  PROVE  /\ f.opener \in Token \cup {MAIN} /\ f.start \in Nat
         /\ f.locals \in Seq(Names \cup {HIDDEN}) /\ Len(f.locals) \in Nat /\ f.blocks \in Seq(Nat)
BY LenProperties DEF FrameType

\* What a layout says of one of its frames.
Placed(f, d, i) ==
  /\ f.start \in 1 .. i
  /\ f.opener # MAIN => f.opener.op \in Openers /\ Proper(f.opener)
  /\ d = 1 <=> f.opener = MAIN
  /\ Len(f.locals) <= 3 * i - 1
  /\ FrameOK(f)

LEMMA LayoutPlaces ==
  ASSUME NEW m, NEW i
  PROVE  LayoutOK(m, i) <=> m \in Seq(FrameType) /\ Len(m) >= 1 /\ \A d \in 1 .. Len(m) : Placed(m[d], d, i)
BY DEF LayoutOK, Placed

LEMMA PlacedLater ==
  ASSUME NEW f \in FrameType, NEW d, NEW i \in Nat, Placed(f, d, i)
  PROVE  Placed(f, d, i + 1)
BY FrameTyped DEF Placed

LEMMA MainLayout == LayoutOK(<<Frame(MAIN, 1)>>, 1)
<1>1. Frame(MAIN, 1) \in FrameType /\ Placed(Frame(MAIN, 1), 1, 1)
  BY FrameIs, FrameTyped DEF Placed
<1>2. PICK f : f = Frame(MAIN, 1)
  OBVIOUS
<1>3. PICK m : m = <<f>>
  OBVIOUS
<1>4. m \in Seq(FrameType) /\ Len(m) = 1 /\ m[1] = f
  BY <1>1, <1>2, <1>3
<1>5. \A d \in 1 .. Len(m) : Placed(m[d], d, 1)
  BY <1>1, <1>2, <1>4
<1>6. LayoutOK(m, 1)
  BY <1>4, <1>5, LayoutPlaces
<1>7. QED
  BY <1>2, <1>3, <1>6

(* A token that opens a function. *)
LEMMA AfterOpener ==
  ASSUME NEW m, NEW i \in Nat, i >= 1, LayoutOK(m, i), NEW t, Proper(t), t.op \in Openers
  PROVE  /\ After(m, t, i) = Append(m, Frame(t, i + 1))
         /\ LayoutOK(After(m, t, i), i + 1)
         /\ Len(After(m, t, i)) = Len(m) + 1
         /\ After(m, t, i)[Len(m) + 1] = Frame(t, i + 1)
         /\ \A d \in 1 .. Len(m) : After(m, t, i)[d] = m[d]
<1>1. m \in Seq(FrameType) /\ Len(m) >= 1 /\ Len(m) \in Nat /\ \A d \in 1 .. Len(m) : Placed(m[d], d, i) /\ m[d] \in FrameType
  BY LayoutPlaces, LenProperties, ElementOfSeq
<1>2. PICK f : f = Frame(t, i + 1)
  OBVIOUS
<1>3. t # MAIN /\ t.op # "main"
  BY DEF Openers, MAIN
<1>4. f \in FrameType /\ f.opener = t /\ f.start = i + 1 /\ Len(f.locals) <= 2 /\ FrameOK(f)
  BY <1>2, FrameIs
<1>5. Placed(f, Len(m) + 1, i + 1)
  BY <1>1, <1>3, <1>4, FrameTyped DEF Placed
<1>6. PICK a : a = Append(m, f)
  OBVIOUS
<1>7. a \in Seq(FrameType) /\ Len(a) = Len(m) + 1 /\ (\A d \in 1 .. Len(m) : a[d] = m[d]) /\ a[Len(m) + 1] = f
  BY <1>1, <1>4, <1>6, AppendProperties
<1>8. ASSUME NEW d \in 1 .. Len(a) PROVE Placed(a[d], d, i + 1)
  <2>1. d \in 1 .. Len(m) \/ d = Len(m) + 1
    BY <1>1, <1>7
  <2>2. QED
    BY <1>1, <1>5, <1>7, <2>1, PlacedLater
<1>9. LayoutOK(a, i + 1)
  BY <1>1, <1>7, <1>8, LayoutPlaces
<1>10. After(m, t, i) = a
  BY <1>2, <1>6 DEF After
<1>11. QED
  BY <1>2, <1>6, <1>7, <1>9, <1>10

LEMMA TopReplaced ==
  ASSUME NEW m, NEW i \in Nat, LayoutOK(m, i), NEW f \in FrameType, Placed(f, Len(m), i + 1)
  PROVE  LayoutOK(WithTop(m, f), i + 1) /\ Len(WithTop(m, f)) = Len(m)
         /\ \A d \in 1 .. Len(m) : WithTop(m, f)[d] = IF d = Len(m) THEN f ELSE m[d]
<1>1. m \in Seq(FrameType) /\ Len(m) >= 1 /\ Len(m) \in Nat /\ \A d \in 1 .. Len(m) : Placed(m[d], d, i) /\ m[d] \in FrameType
  BY LayoutPlaces, LenProperties, ElementOfSeq
<1>2. PICK a : a = WithTop(m, f)
  OBVIOUS
<1>3. a \in Seq(FrameType) /\ Len(a) = Len(m) /\ \A d \in 1 .. Len(m) : a[d] = IF d = Len(m) THEN f ELSE m[d]
  <2>1. /\ WithTop(m, f) \in Seq(FrameType) /\ Len(WithTop(m, f)) = Len(m)
        /\ \A d \in 1 .. Len(m) : WithTop(m, f)[d] = IF d = Len(m) THEN f ELSE m[d]
    BY <1>1, WithTopIs
  <2>2. QED
    BY <1>2, <2>1
<1>4. \A d \in 1 .. Len(a) : Placed(a[d], d, i + 1)
  BY <1>1, <1>3, PlacedLater
<1>5. QED
  BY <1>1, <1>2, <1>3, <1>4, LayoutPlaces

(* A token that stays in the function: its declarations and its block. *)
LEMMA AfterGrowth ==
  ASSUME NEW m, NEW i \in Nat, i >= 1, LayoutOK(m, i), NEW t, Proper(t), t.op \in {"use", "local", "for", "block"}
  PROVE  /\ LayoutOK(After(m, t, i), i + 1)
         /\ Len(After(m, t, i)) = Len(m)
         /\ \A d \in 1 .. Len(m) : After(m, t, i)[d] = IF d = Len(m) THEN Grown(m[Len(m)], t) ELSE m[d]
<1>1. m \in Seq(FrameType) /\ Len(m) >= 1 /\ Len(m) \in 1 .. Len(m) /\ Top(m) = m[Len(m)] /\ Top(m) \in FrameType /\ Placed(Top(m), Len(m), i)
  BY LayoutPlaces, TopIs
<1>2. PICK f, g : f = Top(m) /\ g = Grown(f, t)
  OBVIOUS
<1>3. g \in FrameType /\ FrameOK(g) /\ g.opener = f.opener /\ g.start = f.start /\ Len(g.locals) = Len(f.locals) + Len(Declared(t))
  BY <1>1, <1>2, GrownIs DEF Placed
<1>4. Len(Declared(t)) \in Nat /\ Len(Declared(t)) <= 3 /\ Len(f.locals) \in Nat
  BY <1>1, <1>2, DeclaredIs, FrameTyped
<1>5. Len(g.locals) <= 3 * (i + 1) - 1 /\ f.start \in 1 .. i + 1
  BY <1>1, <1>2, <1>3, <1>4 DEF Placed
<1>6. Placed(g, Len(m), i + 1)
  BY <1>1, <1>2, <1>3, <1>5 DEF Placed
<1>7. After(m, t, i) = WithTop(m, g)
  BY <1>2 DEF After, Openers
<1>8. QED
  BY <1>1, <1>2, <1>3, <1>6, <1>7, TopReplaced

(* The end of a block. *)
LEMMA AfterBlock ==
  ASSUME NEW m, NEW i \in Nat, i >= 1, LayoutOK(m, i), NEW t, t.op = "end", m[Len(m)].blocks # <<>>
  PROVE  /\ LayoutOK(After(m, t, i), i + 1)
         /\ Len(After(m, t, i)) = Len(m)
         /\ \A d \in 1 .. Len(m) : After(m, t, i)[d] = IF d = Len(m) THEN Cut(m[Len(m)]) ELSE m[d]
<1>1. m \in Seq(FrameType) /\ Len(m) >= 1 /\ Len(m) \in 1 .. Len(m) /\ Top(m) = m[Len(m)] /\ Top(m) \in FrameType /\ Placed(Top(m), Len(m), i)
  BY LayoutPlaces, TopIs
<1>2. PICK f, g : f = Top(m) /\ g = Cut(f)
  OBVIOUS
<1>3. g \in FrameType /\ FrameOK(g) /\ g.opener = f.opener /\ g.start = f.start /\ Len(g.locals) \in 0 .. Len(f.locals)
  BY <1>1, <1>2, CutIs DEF Placed
<1>4. Len(f.locals) \in Nat
  BY <1>1, <1>2, FrameTyped
<1>5. Len(g.locals) <= 3 * (i + 1) - 1 /\ f.start \in 1 .. i + 1
  BY <1>1, <1>2, <1>3, <1>4 DEF Placed
<1>6. Placed(g, Len(m), i + 1)
  BY <1>1, <1>2, <1>3, <1>5 DEF Placed
<1>7. After(m, t, i) = WithTop(m, g)
  BY <1>1, <1>2 DEF After, Openers
<1>8. QED
  BY <1>1, <1>2, <1>3, <1>6, <1>7, TopReplaced

(* The end of a function. *)
LEMMA AfterFunction ==
  ASSUME NEW m, NEW i \in Nat, i >= 1, LayoutOK(m, i), NEW t, t.op = "end", m[Len(m)].blocks = <<>>, Len(m) > 1
  PROVE  /\ LayoutOK(After(m, t, i), i + 1)
         /\ Len(After(m, t, i)) = Len(m) - 1
         /\ \A d \in 1 .. Len(m) - 1 :
              After(m, t, i)[d] = IF d = Len(m) - 1 THEN Stored(m[Len(m) - 1], m[Len(m)].opener) ELSE m[d]
<1>1. m \in Seq(FrameType) /\ Len(m) >= 1 /\ Len(m) \in 1 .. Len(m) /\ Top(m) = m[Len(m)] /\ Top(m) \in FrameType /\ Placed(Top(m), Len(m), i)
      /\ \A d \in 1 .. Len(m) : Placed(m[d], d, i)
  BY LayoutPlaces, TopIs
<1>2. PICK b : b = Below(m)
  OBVIOUS
<1>3. Len(m) \in Nat /\ b \in Seq(FrameType) /\ Len(b) = Len(m) - 1 /\ Len(b) >= 1 /\ \A d \in 1 .. Len(m) - 1 : b[d] = m[d]
  BY <1>1, <1>2, BelowIs, LenProperties
<1>4. LayoutOK(b, i)
  <2>1. \A d \in 1 .. Len(b) : d \in 1 .. Len(m) /\ d \in 1 .. Len(m) - 1
    BY <1>3
  <2>2. QED
    BY <1>1, <1>3, <2>1, LayoutPlaces
<1>5. PICK f, o : f = Top(b) /\ o = Top(m).opener
  OBVIOUS
<1>6. f \in FrameType /\ f = m[Len(m) - 1] /\ Placed(f, Len(b), i)
  BY <1>3, <1>4, <1>5, TopIs, LayoutPlaces
<1>7. o.op \in Openers /\ Proper(o)
  BY <1>1, <1>5 DEF Placed
<1>8. PICK g : g = Stored(f, o)
  OBVIOUS
<1>9. g \in FrameType /\ FrameOK(g) /\ g.opener = f.opener /\ g.start = f.start /\ Len(g.locals) <= Len(f.locals) + 1 /\ Len(g.locals) \in Nat
  <2>1. /\ g \in FrameType /\ FrameOK(g) /\ g.opener = f.opener /\ g.start = f.start
        /\ Len(g.locals) = Len(f.locals) + (IF o.op = "localfunc" THEN 1 ELSE 0)
    BY <1>6, <1>7, <1>8, StoredIs DEF Placed
  <2>2. Len(g.locals) \in Nat /\ Len(f.locals) \in Nat
    BY <1>6, <2>1, FrameTyped
  <2>3. Len(g.locals) <= Len(f.locals) + 1
    <3>1. CASE o.op = "localfunc"
      BY <2>1, <2>2, <3>1
    <3>2. CASE o.op # "localfunc"
      BY <2>1, <2>2, <3>2
    <3>3. QED
      BY <3>1, <3>2
  <2>4. QED
    BY <2>1, <2>2, <2>3
<1>10. Len(f.locals) \in Nat
  BY <1>6, FrameTyped
<1>11. Len(g.locals) <= 3 * (i + 1) - 1 /\ f.start \in 1 .. i + 1
  BY <1>6, <1>9, <1>10 DEF Placed
<1>12. Placed(g, Len(b), i + 1)
  BY <1>6, <1>9, <1>11 DEF Placed
<1>13. After(m, t, i) = WithTop(b, g)
  BY <1>1, <1>2, <1>5, <1>8 DEF After, Openers
<1>14. /\ LayoutOK(WithTop(b, g), i + 1) /\ Len(WithTop(b, g)) = Len(b)
       /\ \A d \in 1 .. Len(b) : WithTop(b, g)[d] = IF d = Len(b) THEN g ELSE b[d]
  BY <1>4, <1>9, <1>12, TopReplaced
<1>15. QED
  BY <1>1, <1>3, <1>5, <1>6, <1>8, <1>13, <1>14

-----------------------------------------------------------------------------
(* Resolution. *)

\* f is the function that is g at a and gets every later value up to b from
\* the one before by h.
Steps(f, a, b, g, h) == f = [n \in a .. b |-> IF n = a THEN g ELSE h[<<n, f[n - 1]>>]]

(* A recursion along an interval defines a function. *)
LEMMA IntervalRecursion ==
  ASSUME NEW a \in Nat, NEW b \in Nat, a <= b, NEW T, NEW g, NEW h, g \in T[a],
         \A n \in a + 1 .. b : \A s \in T[n - 1] : h[<<n, s>>] \in T[n]
  PROVE  \E f : Steps(f, a, b, g, h) /\ \A n \in a .. b : f[n] \in T[n]
<1> DEFINE Good(f, n) == \A k \in a .. n : f[k] \in T[k] /\ f[k] = IF k = a THEN g ELSE h[<<k, f[k - 1]>>]
           W == {n \in a .. b : \E f : Good(f, n)}
<1>1. a \in W
  <2> DEFINE f == [k \in a .. a |-> g]
  <2>1. \A k \in a .. a : k = a /\ f[k] = g
    OBVIOUS
  <2> HIDE DEF f
  <2>2. Good(f, a)
    BY <2>1
  <2>3. a \in a .. b
    OBVIOUS
  <2>4. QED
    BY <2>2, <2>3
<1>2. ASSUME NEW n \in a .. b - 1, n \in W PROVE n + 1 \in W
  <2>1. PICK f : Good(f, n)
    BY <1>2
  <2> DEFINE v == h[<<n + 1, f[n]>>]
             e == [k \in a .. n + 1 |-> IF k = n + 1 THEN v ELSE f[k]]
  <2>2. n \in a .. n /\ n + 1 \in a + 1 .. b /\ n + 1 - 1 = n /\ n \in Nat
    OBVIOUS
  <2>3. v \in T[n + 1]
    <3>1. f[n] \in T[n + 1 - 1]
      BY <2>1, <2>2
    <3>2. QED
      BY <2>2, <3>1
  <2>4. ASSUME NEW k \in a .. n + 1
        PROVE  e[k] \in T[k] /\ e[k] = IF k = a THEN g ELSE h[<<k, e[k - 1]>>]
    <3>1. CASE k = n + 1
      <4>1. e[k] = v /\ e[n] = f[n] /\ k # a /\ k - 1 = n
        BY <2>2, <3>1
      <4>2. QED
        BY <2>3, <3>1, <4>1
    <3>2. CASE k # n + 1
      <4>1. k \in a .. n /\ e[k] = f[k]
        BY <3>2
      <4>2. k # a => k - 1 \in a .. n + 1 /\ k - 1 # n + 1
        BY <4>1
      <4>3. k # a => e[k - 1] = f[k - 1]
        BY <4>2
      <4>4. f[k] \in T[k] /\ f[k] = IF k = a THEN g ELSE h[<<k, f[k - 1]>>]
        BY <2>1, <4>1
      <4>5. QED
        BY <4>1, <4>3, <4>4
    <3>3. QED
      BY <3>1, <3>2
  <2> HIDE DEF e
  <2>5. Good(e, n + 1)
    BY <2>4
  <2>6. QED
    BY <2>2, <2>5
<1>3. b \in W
  <2> HIDE DEF W
  <2>1. \A n \in a .. b : n \in W
    BY <1>1, <1>2, Throughout
  <2>2. QED
    BY <2>1
<1>4. PICK f : Good(f, b)
  BY <1>3
<1> DEFINE e == [n \in a .. b |-> f[n]]
<1>5. \A n \in a .. b : e[n] = f[n] /\ (n # a => n - 1 \in a .. b)
  OBVIOUS
<1>6. \A n \in a .. b : e[n] \in T[n] /\ e[n] = IF n = a THEN g ELSE h[<<n, e[n - 1]>>]
  BY <1>4, <1>5
<1>7. e = [n \in a .. b |-> e[n]]
  OBVIOUS
<1> HIDE DEF e
<1>8. e = [n \in a .. b |-> IF n = a THEN g ELSE h[<<n, e[n - 1]>>]]
  BY <1>6, <1>7
<1>9. QED
  BY <1>6, <1>8 DEF Steps

LEMMA LastIs ==
  ASSUME NEW k \in Nat, NEW U, U \subseteq 0 .. k
  PROVE  /\ U = {} => Last(U) = -1
         /\ U # {} => Last(U) \in U /\ Last(U) \in 0 .. k /\ \A j \in U : j <= Last(U)
<1>1. CASE U = {}
  BY <1>1 DEF Last
<1>2. CASE U # {}
  <2> DEFINE V == {k - j : j \in U}
  <2>1. V \in SUBSET Nat /\ V # {}
    <3>1. PICK j \in U : TRUE
      BY <1>2
    <3>2. k - j \in V
      OBVIOUS
    <3>3. \A i \in U : k - i \in Nat
      OBVIOUS
    <3>4. QED
      BY <3>2, <3>3
  <2>2. PICK x \in V : \A y \in V : x <= y
    BY <2>1, LeastElement
  <2>3. PICK i \in U : x = k - i
    OBVIOUS
  <2>4. \A j \in U : k - j \in V /\ j \in Int
    OBVIOUS
  <2>5. \A j \in U : j <= i
    BY <2>2, <2>3, <2>4
  <2>6. \E z \in U : \A j \in U : j <= z
    BY <2>5
  <2>7. Largest(U) \in U /\ \A j \in U : j <= Largest(U)
    BY <2>6 DEF Largest
  <2>8. QED
    BY <1>2, <2>7 DEF Last
<1>3. QED
  BY <1>1, <1>2

LEMMA ScopeTyped ==
  ASSUME NEW f \in ScopeType
  PROVE  /\ f.opener \in Token \cup {MAIN} /\ f.start \in Nat /\ f.nested \in BOOLEAN
         /\ f.pass \in {"analyze", "compile"}
         /\ f.names \in [SlotNo -> Names \cup {NONE, HIDDEN}]
         /\ f.active \in SlotNo /\ f.initial \in SlotNo
         /\ f.captured \in SUBSET SlotNo /\ f.env \in [SlotNo -> Nat] /\ f.ups \in Seq(UpType)
         /\ f.blocks \in Seq(Nat) /\ f.visible \in Seq(SeenType)
BY DEF ScopeType

LEMMA SlotsAre == SlotNo \subseteq Nat /\ MaxSlots \in Nat /\ MaxSlots >= 5 /\ \A i : i \in SlotNo <=> i \in Nat /\ i <= MaxSlots
BY BoundAssumption DEF SlotNo, MaxSlots

LEMMA SlotFound ==
  ASSUME NEW f \in ScopeType, NEW n, NEW r, r = resolve_local_scope(f, n)
  PROVE  /\ r = -1 \/ r \in 0 .. f.active - 1
         /\ r = -1 => \A i \in 0 .. f.active - 1 : f.names[i] # n
         /\ r # -1 => /\ r \in SlotNo /\ f.names[r] = n
                      /\ \A i \in 0 .. f.active - 1 : f.names[i] = n => i <= r
<1> DEFINE U == {i \in 0 .. f.active - 1 : f.names[i] = n}
<1>1. f.active \in Nat /\ f.active <= MaxSlots /\ MaxSlots \in Nat
  BY ScopeTyped, SlotsAre
<1>2. U \subseteq 0 .. f.active
  BY <1>1
<1>3. r = Last(U)
  BY DEF resolve_local_scope
<1>4. U = {} => r = -1
  BY <1>1, <1>2, <1>3, LastIs
<1>5. U # {} => r \in U /\ \A j \in U : j <= r
  BY <1>1, <1>2, <1>3, LastIs
<1>6. U # {} => r \in SlotNo /\ r # -1
  BY <1>1, <1>5, SlotsAre
<1>7. QED
  BY <1>1, <1>4, <1>5, <1>6

LEMMA OwnerFound ==
  ASSUME NEW sc \in Seq(ScopeType), Len(sc) >= 1, NEW n, NEW o, o = OwnerOf(sc, n)
  PROVE  /\ o = -1 \/ o \in 1 .. Len(sc) - 1
         /\ o = -1 => \A d \in 1 .. Len(sc) - 1 : resolve_local_scope(sc[d], n) = -1
         /\ o # -1 => /\ resolve_local_scope(sc[o], n) # -1
                      /\ \A d \in o + 1 .. Len(sc) - 1 : resolve_local_scope(sc[d], n) = -1
<1> DEFINE U == {d \in 1 .. Len(sc) - 1 : resolve_local_scope(sc[d], n) # -1}
<1>1. Len(sc) \in Nat
  BY LenProperties
<1>2. U \subseteq 0 .. Len(sc)
  BY <1>1
<1>3. o = Last(U)
  BY DEF OwnerOf
<1>4. U = {} => o = -1
  BY <1>1, <1>2, <1>3, LastIs
<1>5. U # {} => o \in U /\ o \in 0 .. Len(sc) /\ \A j \in U : j <= o
  BY <1>1, <1>2, <1>3, LastIs
<1>6. \A d \in 1 .. Len(sc) - 1 : d \notin U => resolve_local_scope(sc[d], n) = -1
  OBVIOUS
<1>7. ASSUME U # {} PROVE \A d \in o + 1 .. Len(sc) - 1 : d \in 1 .. Len(sc) - 1 /\ d \notin U
  BY <1>1, <1>5, <1>7
<1>8. CASE U = {}
  BY <1>4, <1>6, <1>8
<1>9. CASE U # {}
  <2>1. o \in 1 .. Len(sc) - 1 /\ resolve_local_scope(sc[o], n) # -1 /\ o # -1
    BY <1>1, <1>5, <1>9
  <2>2. \A d \in o + 1 .. Len(sc) - 1 : resolve_local_scope(sc[d], n) = -1
    BY <1>6, <1>7, <1>9
  <2>3. QED
    BY <2>1, <2>2
<1>10. QED
  BY <1>8, <1>9

LEMMA PositionIs ==
  ASSUME NEW u \in Seq(UpType), NEW x, \E i \in DOMAIN u : u[i] = x
  PROVE  /\ Position(u, x) \in Nat /\ Position(u, x) + 1 \in DOMAIN u /\ Position(u, x) < Len(u)
         /\ u[Position(u, x) + 1] = x
<1> DEFINE i == CHOOSE j \in DOMAIN u : u[j] = x
<1>1. i \in DOMAIN u /\ u[i] = x
  OBVIOUS
<1>2. DOMAIN u = 1 .. Len(u) /\ Len(u) \in Nat
  BY LenProperties
<1>3. Position(u, x) = i - 1
  BY DEF Position
<1> HIDE DEF i
<1>4. QED
  BY <1>1, <1>2, <1>3

\* w is u with the upvalue x in it.
Added(w, u, x) ==
  /\ w \in Seq(UpType) /\ Len(u) <= Len(w)
  /\ \E i \in DOMAIN w : w[i] = x
  /\ \A i \in 1 .. Len(u) : w[i] = u[i]
  /\ \A i \in DOMAIN w : i \in 1 .. Len(u) \/ w[i] = x
  /\ (\A i, j \in DOMAIN u : u[i] = u[j] => i = j) => \A i, j \in DOMAIN w : w[i] = w[j] => i = j

LEMMA UpvalueAdded ==
  ASSUME NEW u \in Seq(UpType), NEW x \in UpType, NEW w, w = add_upvalue(u, x)
  PROVE  Added(w, u, x)
<1>1. DOMAIN u = 1 .. Len(u) /\ Len(u) \in Nat
  BY LenProperties
<1>2. CASE \E i \in DOMAIN u : u[i] = x
  BY <1>1, <1>2 DEF add_upvalue, Added
<1>3. CASE ~\E i \in DOMAIN u : u[i] = x
  <2>1. PICK a : a = Append(u, x)
    OBVIOUS
  <2>2. w = a
    BY <1>3, <2>1 DEF add_upvalue
  <2>3. a \in Seq(UpType) /\ Len(a) = Len(u) + 1 /\ (\A i \in 1 .. Len(u) : a[i] = u[i]) /\ a[Len(u) + 1] = x
    BY <2>1, AppendProperties
  <2>4. DOMAIN a = 1 .. Len(u) + 1
    BY <2>3, LenProperties
  <2>5. \A i \in 1 .. Len(u) + 1 : i \in 1 .. Len(u) \/ i = Len(u) + 1
    BY <1>1
  <2>6. \A i \in 1 .. Len(u) : a[i] # x
    BY <1>1, <1>3, <2>3
  <2>7. Len(u) + 1 \in DOMAIN a /\ Len(u) <= Len(a)
    BY <1>1, <2>3, <2>4
  <2>8. (\A i, j \in DOMAIN u : u[i] = u[j] => i = j) => \A i, j \in DOMAIN a : a[i] = a[j] => i = j
    <3> SUFFICES ASSUME \A i, j \in DOMAIN u : u[i] = u[j] => i = j, NEW i \in DOMAIN a, NEW j \in DOMAIN a, a[i] = a[j]
                 PROVE  i = j
      OBVIOUS
    <3>1. CASE i = Len(u) + 1
      BY <2>3, <2>4, <2>5, <2>6, <3>1
    <3>2. CASE i # Len(u) + 1
      BY <1>1, <2>3, <2>4, <2>5, <2>6, <3>2
    <3>3. QED
      BY <3>1, <3>2
  <2>9. QED
    BY <2>2, <2>3, <2>4, <2>5, <2>7, <2>8 DEF Added
<1>4. QED
  BY <1>2, <1>3

LEMMA DescriptorsAre ==
  ASSUME NEW sc \in Seq(ScopeType), Len(sc) >= 1, NEW n, OwnerOf(sc, n) # -1,
         NEW o, o = OwnerOf(sc, n), NEW i, i = resolve_local_scope(sc[o], n)
  PROVE  /\ o \in 1 .. Len(sc) - 1 /\ i \in SlotNo
         /\ \A d \in o + 1 .. Len(sc) :
              /\ Descriptors(sc, n)[d] \in UpType
              /\ Descriptors(sc, n)[d] =
                   IF d = o + 1
                     THEN [from_local |-> TRUE, index |-> IF sc[o].env[i] = NOENV THEN i ELSE sc[o].env[i]]
                     ELSE [from_local |-> FALSE,
                           index |-> Position(add_upvalue(sc[d - 1].ups, Descriptors(sc, n)[d - 1]), Descriptors(sc, n)[d - 1])]
<1>1. o \in 1 .. Len(sc) - 1 /\ i # -1 /\ Len(sc) \in Nat
  BY OwnerFound, LenProperties
<1>2. sc[o] \in ScopeType /\ o \in Nat /\ \A d \in o + 1 .. Len(sc) : d - 1 \in 1 .. Len(sc) /\ sc[d - 1] \in ScopeType
  BY <1>1, ElementOfSeq
<1>3. i \in SlotNo /\ sc[o].env[i] \in Nat /\ i \in Nat
  BY <1>1, <1>2, SlotFound, ScopeTyped, SlotsAre
<1> DEFINE g == [from_local |-> TRUE, index |-> IF sc[o].env[i] = NOENV THEN i ELSE sc[o].env[i]]
           h == [x \in (o + 1 .. Len(sc)) \X UpType |->
                   [from_local |-> FALSE, index |-> Position(add_upvalue(sc[x[1] - 1].ups, x[2]), x[2])]]
           T == [d \in o + 1 .. Len(sc) |-> UpType]
<1>4. g \in UpType
  BY <1>3 DEF UpType
<1>5. ASSUME NEW d \in o + 1 .. Len(sc), NEW x \in UpType
      PROVE  /\ h[<<d, x>>] = [from_local |-> FALSE, index |-> Position(add_upvalue(sc[d - 1].ups, x), x)]
             /\ h[<<d, x>>] \in UpType
  <2>1. sc[d - 1].ups \in Seq(UpType)
    BY <1>2, ScopeTyped
  <2>2. PICK u : u = add_upvalue(sc[d - 1].ups, x)
    OBVIOUS
  <2>2a. Added(u, sc[d - 1].ups, x)
    BY <2>1, <2>2, UpvalueAdded
  <2>3. u \in Seq(UpType) /\ \E k \in DOMAIN u : u[k] = x
    BY <2>2a DEF Added
  <2>4. Position(u, x) \in Nat
    BY <2>3, PositionIs
  <2>5. PICK v : v = [from_local |-> FALSE, index |-> Position(u, x)]
    OBVIOUS
  <2>6. v \in UpType
    BY <2>4, <2>5 DEF UpType
  <2>7. h[<<d, x>>] = v
    BY <2>2, <2>5
  <2>8. QED
    BY <2>2, <2>5, <2>6, <2>7
<1> HIDE DEF g, h
<1>6. \E f : Steps(f, o + 1, Len(sc), g, h) /\ \A d \in o + 1 .. Len(sc) : f[d] \in T[d]
  <2>1. o + 1 \in Nat /\ Len(sc) \in Nat /\ o + 1 <= Len(sc)
    BY <1>1, <1>2
  <2>2. g \in T[o + 1]
    BY <1>4, <2>1
  <2>3. ASSUME NEW d \in o + 1 + 1 .. Len(sc) PROVE \A x \in T[d - 1] : h[<<d, x>>] \in T[d]
    <3>1. d \in o + 1 .. Len(sc) /\ d - 1 \in o + 1 .. Len(sc)
      BY <1>2
    <3>2. T[d] = UpType /\ T[d - 1] = UpType
      BY <3>1
    <3>3. QED
      BY <1>5, <3>1, <3>2
  <2> HIDE DEF T
  <2>4. PICK a : a = o + 1
    OBVIOUS
  <2>5. a \in Nat /\ a <= Len(sc) /\ g \in T[a]
    BY <2>1, <2>2, <2>4
  <2>6. \A d \in a + 1 .. Len(sc) : \A x \in T[d - 1] : h[<<d, x>>] \in T[d]
    BY <2>3, <2>4
  <2>7. \E f : Steps(f, a, Len(sc), g, h) /\ \A d \in a .. Len(sc) : f[d] \in T[d]
    BY <2>1, <2>5, <2>6, IntervalRecursion
  <2>8. QED
    BY <2>4, <2>7
<1>7. PICK f : /\ f = [d \in o + 1 .. Len(sc) |-> IF d = o + 1 THEN g ELSE h[<<d, f[d - 1]>>]]
               /\ \A d \in o + 1 .. Len(sc) : f[d] \in UpType
  BY <1>6 DEF Steps
<1>8. \A d \in o + 1 .. Len(sc) :
        (IF d = o + 1 THEN g ELSE h[<<d, f[d - 1]>>]) =
        (IF d = o + 1
           THEN [from_local |-> TRUE, index |-> IF sc[o].env[i] = NOENV THEN i ELSE sc[o].env[i]]
           ELSE [from_local |-> FALSE, index |-> Position(add_upvalue(sc[d - 1].ups, f[d - 1]), f[d - 1])])
  <2> TAKE d \in o + 1 .. Len(sc)
  <2>1. CASE d = o + 1
    BY <2>1 DEF g
  <2>2. CASE d # o + 1
    <3>1. d - 1 \in o + 1 .. Len(sc)
      BY <1>2, <2>2
    <3>2. f[d - 1] \in UpType
      BY <1>7, <3>1
    <3>3. QED
      BY <1>5, <2>2, <3>2
  <2>3. QED
    BY <2>1, <2>2
<1>9. f = [d \in o + 1 .. Len(sc) |->
             IF d = o + 1
               THEN [from_local |-> TRUE, index |-> IF sc[o].env[i] = NOENV THEN i ELSE sc[o].env[i]]
               ELSE [from_local |-> FALSE, index |-> Position(add_upvalue(sc[d - 1].ups, f[d - 1]), f[d - 1])]]
  BY <1>7, <1>8
<1> DEFINE Is(e) == e = [d \in o + 1 .. Len(sc) |->
             IF d = o + 1
               THEN [from_local |-> TRUE, index |-> IF sc[o].env[i] = NOENV THEN i ELSE sc[o].env[i]]
               ELSE [from_local |-> FALSE, index |-> Position(add_upvalue(sc[d - 1].ups, e[d - 1]), e[d - 1])]]
<1>10. PICK e : e = Descriptors(sc, n)
  OBVIOUS
<1>11. e = CHOOSE x : Is(x)
  BY <1>10, Zenon DEF Descriptors
<1>12. Is(e)
  BY <1>9, <1>11, Zenon
<1>13. ASSUME NEW d \in o + 1 .. Len(sc)
       PROVE  e[d] = IF d = o + 1 THEN g ELSE [from_local |-> FALSE, index |-> Position(add_upvalue(sc[d - 1].ups, e[d - 1]), e[d - 1])]
  BY <1>12 DEF g
<1> DEFINE W == {d \in o + 1 .. Len(sc) : e[d] \in UpType}
<1>14. \A d \in o + 1 .. Len(sc) : d \in W
  <2>1. o + 1 \in W
    <3>1. o + 1 \in o + 1 .. Len(sc)
      BY <1>1, <1>2
    <3>2. e[o + 1] = g
      BY <1>13, <3>1
    <3>3. QED
      BY <1>4, <3>1, <3>2
  <2>2. ASSUME NEW d \in o + 1 .. Len(sc) - 1, d \in W PROVE d + 1 \in W
    <3>1. d + 1 \in o + 1 .. Len(sc) /\ d + 1 # o + 1 /\ d + 1 - 1 = d
      BY <1>1
    <3>2. e[d + 1] = [from_local |-> FALSE, index |-> Position(add_upvalue(sc[d + 1 - 1].ups, e[d + 1 - 1]), e[d + 1 - 1])]
      BY <1>13, <3>1
    <3>3. e[d + 1] = h[<<d + 1, e[d]>>]
      BY <1>5, <2>2, <3>1, <3>2
    <3>4. QED
      BY <1>5, <2>2, <3>1, <3>3
  <2> HIDE DEF W
  <2>3. o + 1 \in Nat /\ Len(sc) \in Nat
    BY <1>1, <1>2
  <2>4. QED
    BY <2>1, <2>2, <2>3, Throughout
<1>15. QED
  BY <1>1, <1>3, <1>10, <1>13, <1>14 DEF g

\* Alike but for what resolving a name changes.
Alike(f, g) ==
  /\ f.opener = g.opener /\ f.start = g.start /\ f.nested = g.nested /\ f.pass = g.pass
  /\ f.names = g.names /\ f.active = g.active /\ f.initial = g.initial /\ f.env = g.env
  /\ f.blocks = g.blocks /\ f.visible = g.visible

\* r is sc after a use of n.
Resolves(r, sc, n) ==
  /\ r \in Seq(ScopeType) /\ Len(r) = Len(sc)
  /\ \A d \in 1 .. Len(sc) :
       /\ r[d] \in ScopeType /\ Alike(r[d], sc[d])
       /\ r[d].captured =
            IF IsUpvalue(sc, n) /\ d = OwnerOf(sc, n)
              THEN sc[d].captured \cup {resolve_local_scope(sc[d], n)} ELSE sc[d].captured
       /\ r[d].ups =
            IF IsUpvalue(sc, n) /\ d > OwnerOf(sc, n)
              THEN add_upvalue(sc[d].ups, Descriptors(sc, n)[d]) ELSE sc[d].ups

LEMMA ResolveIs ==
  ASSUME NEW sc \in Seq(ScopeType), Len(sc) >= 1, NEW n
  PROVE  Resolves(Resolve(sc, n), sc, n)
<1>1. DOMAIN sc = 1 .. Len(sc) /\ Len(sc) \in Nat /\ \A d \in 1 .. Len(sc) : sc[d] \in ScopeType
  BY LenProperties, ElementOfSeq
<1>2. CASE ~IsUpvalue(sc, n)
  BY <1>1, <1>2 DEF Resolve, Resolves, Alike
<1>3. CASE IsUpvalue(sc, n)
  <2>1. PICK o : o = OwnerOf(sc, n)
    OBVIOUS
  <2>2. PICK i : i = resolve_local_scope(sc[o], n)
    OBVIOUS
  <2>3. PICK e : e = Descriptors(sc, n)
    OBVIOUS
  <2>4. o # -1
    BY <1>3, <2>1 DEF IsUpvalue
  <2>5. o \in 1 .. Len(sc) - 1 /\ i \in SlotNo /\ \A d \in o + 1 .. Len(sc) : e[d] \in UpType
    BY <2>1, <2>2, <2>3, <2>4, DescriptorsAre
  <2>6. PICK r : r = Resolve(sc, n)
    OBVIOUS
  <2>7. r = [d \in 1 .. Len(sc) |->
               IF d = o THEN [sc[d] EXCEPT !.captured = @ \cup {i}]
               ELSE IF d > o THEN [sc[d] EXCEPT !.ups = add_upvalue(@, e[d])]
               ELSE sc[d]]
    BY <1>1, <1>3, <2>1, <2>2, <2>3, <2>6 DEF Resolve
  <2>8. ASSUME NEW d \in 1 .. Len(sc)
        PROVE  /\ r[d] \in ScopeType /\ Alike(r[d], sc[d])
               /\ r[d].captured = IF d = o THEN sc[d].captured \cup {resolve_local_scope(sc[d], n)} ELSE sc[d].captured
               /\ r[d].ups = IF d > o THEN add_upvalue(sc[d].ups, e[d]) ELSE sc[d].ups
    <3>1. sc[d] \in ScopeType
      BY <1>1
    <3>2. CASE d = o
      <4>1. r[d] = [sc[d] EXCEPT !.captured = @ \cup {i}]
        BY <2>7, <3>2
      <4>2. ~(d > o)
        BY <2>5, <3>2
      <4>3. r[d].captured = sc[d].captured \cup {i} /\ r[d].ups = sc[d].ups /\ Alike(r[d], sc[d])
        BY <3>1, <4>1 DEF ScopeType, Alike
      <4>4. sc[d].captured \cup {i} \in SUBSET SlotNo
        BY <2>5, <3>1, ScopeTyped
      <4>5. r[d] \in ScopeType
        BY <3>1, <4>1, <4>4 DEF ScopeType
      <4>6. QED
        BY <2>2, <3>2, <4>2, <4>3, <4>5
    <3>3. CASE d # o /\ d > o
      <4>1. r[d] = [sc[d] EXCEPT !.ups = add_upvalue(@, e[d])]
        BY <2>7, <3>3
      <4>2. d \in o + 1 .. Len(sc)
        BY <2>5, <3>3
      <4>3. e[d] \in UpType /\ sc[d].ups \in Seq(UpType)
        BY <2>5, <3>1, <4>2, ScopeTyped
      <4>3a. Added(add_upvalue(sc[d].ups, e[d]), sc[d].ups, e[d])
        BY <4>3, UpvalueAdded
      <4>4. add_upvalue(sc[d].ups, e[d]) \in Seq(UpType)
        BY <4>3a DEF Added
      <4>5. QED
        BY <3>1, <3>3, <4>1, <4>4 DEF ScopeType, Alike
    <3>4. CASE d # o /\ ~(d > o)
      BY <2>7, <3>1, <3>4 DEF Alike
    <3>5. QED
      BY <3>2, <3>3, <3>4
  <2>9. r \in Seq(ScopeType) /\ Len(r) = Len(sc)
    <3>1. r = [d \in 1 .. Len(sc) |-> r[d]]
      BY <2>7
    <3>2. r \in [1 .. Len(sc) -> ScopeType]
      BY <2>8, <3>1
    <3>3. QED
      BY <1>1, <3>2, IntervalSeq
  <2>10. QED
    BY <1>3, <2>1, <2>3, <2>6, <2>8, <2>9 DEF Resolves
<1>4. QED
  BY <1>2, <1>3

-----------------------------------------------------------------------------
(* Declarations. *)

\* Alike but for what a declaration changes.
Kin(f, g) ==
  /\ f.opener = g.opener /\ f.start = g.start /\ f.nested = g.nested /\ f.pass = g.pass
  /\ f.initial = g.initial /\ f.captured = g.captured /\ f.env = g.env /\ f.ups = g.ups
  /\ f.blocks = g.blocks

\* r is the stack sc with g on top in place of what was.
Replaces(r, sc, g) ==
  /\ r \in Seq(ScopeType) /\ Len(r) = Len(sc) /\ r[Len(sc)] = g
  /\ \A d \in 1 .. Len(sc) : d # Len(sc) => r[d] = sc[d]

LEMMA ReplaceTop ==
  ASSUME NEW sc \in Seq(ScopeType), Len(sc) >= 1, NEW g \in ScopeType
  PROVE  Replaces(WithTop(sc, g), sc, g)
<1>1. Len(sc) \in 1 .. Len(sc) /\ DOMAIN sc = 1 .. Len(sc)
  BY LenProperties
<1>2. WithTop(sc, g) \in Seq(ScopeType) /\ Len(WithTop(sc, g)) = Len(sc)
  BY <1>1, ExceptSeq DEF WithTop
<1>3. WithTop(sc, g)[Len(sc)] = g /\ \A d \in 1 .. Len(sc) : d # Len(sc) => WithTop(sc, g)[d] = sc[d]
  BY <1>1 DEF WithTop
<1>4. QED
  BY <1>2, <1>3 DEF Replaces

\* r is sc after the analysis has declared n in its top.
Adds(r, sc, n) ==
  /\ r \in Seq(ScopeType) /\ Len(r) = Len(sc) /\ r[Len(sc)] \in ScopeType
  /\ \A d \in 1 .. Len(sc) : d # Len(sc) => r[d] = sc[d]
  /\ Kin(r[Len(sc)], sc[Len(sc)])
  /\ r[Len(sc)].active = sc[Len(sc)].active + 1
  /\ r[Len(sc)].names = [sc[Len(sc)].names EXCEPT ![sc[Len(sc)].active] = n]
  /\ r[Len(sc)].visible = sc[Len(sc)].visible

LEMMA AddLocalIs ==
  ASSUME NEW sc \in Seq(ScopeType), Len(sc) >= 1, NEW n \in Names \cup {HIDDEN},
         sc[Len(sc)].active < MaxSlots
  PROVE  Adds(scope_add_local(sc, n), sc, n)
<1>0. PICK r : r = scope_add_local(sc, n)
  OBVIOUS
<1>1. PICK f : f = Top(sc)
  OBVIOUS
<1>2. f \in ScopeType /\ f = sc[Len(sc)]
  BY <1>1, TopIs
<1>3. f.active \in Nat /\ f.active + 1 \in SlotNo /\ f.names \in [SlotNo -> Names \cup {NONE, HIDDEN}]
  <2>1. f.active \in SlotNo /\ f.names \in [SlotNo -> Names \cup {NONE, HIDDEN}]
    BY <1>2, ScopeTyped
  <2>2. f.active < MaxSlots
    BY <1>2
  <2>3. f.active \in Nat /\ f.active + 1 \in SlotNo
    BY <2>1, <2>2, SlotsAre
  <2>4. QED
    BY <2>1, <2>3
<1>4. PICK g : g = [f EXCEPT !.names[f.active] = n, !.active = @ + 1]
  OBVIOUS
<1>5. /\ Kin(g, f) /\ g.active = f.active + 1 /\ g.names = [f.names EXCEPT ![f.active] = n]
      /\ g.visible = f.visible
  BY <1>2, <1>4 DEF ScopeType, Kin
<1>6. [f.names EXCEPT ![f.active] = n] \in [SlotNo -> Names \cup {NONE, HIDDEN}]
  BY <1>3
<1>7. g \in ScopeType
  BY <1>2, <1>3, <1>4, <1>6 DEF ScopeType
<1>8. r = WithTop(sc, g)
  BY <1>0, <1>1, <1>4 DEF scope_add_local
<1>9. Len(sc) \in 1 .. Len(sc)
  BY TopIs
<1>10. Replaces(r, sc, g)
  BY <1>7, <1>8, ReplaceTop
<1>11. QED
  BY <1>0, <1>2, <1>5, <1>7, <1>9, <1>10 DEF Replaces, Adds

\* r is sc after the second pass has declared n in its top.
Declares(r, sc, n) ==
  /\ r \in Seq(ScopeType) /\ Len(r) = Len(sc) /\ r[Len(sc)] \in ScopeType
  /\ \A d \in 1 .. Len(sc) : d # Len(sc) => r[d] = sc[d]
  /\ Kin(r[Len(sc)], sc[Len(sc)])
  /\ r[Len(sc)].active = sc[Len(sc)].active + 1
  /\ r[Len(sc)].names = sc[Len(sc)].names
  /\ r[Len(sc)].visible =
       Append(sc[Len(sc)].visible,
              [name |-> n, slot |-> sc[Len(sc)].active,
               store |-> OwnCell(Len(sc), sc[Len(sc)], sc[Len(sc)].active)])

LEMMA DeclareIs ==
  ASSUME NEW sc \in Seq(ScopeType), Len(sc) >= 1, NEW n \in Names \cup {HIDDEN},
         sc[Len(sc)].active < MaxSlots
  PROVE  Declares(Declare(sc, n), sc, n)
<1>0. PICK r : r = Declare(sc, n)
  OBVIOUS
<1>1. PICK f : f = Top(sc)
  OBVIOUS
<1>2. f \in ScopeType /\ f = sc[Len(sc)] /\ Len(sc) \in Nat
  BY <1>1, TopIs
<1>3. f.active \in Nat /\ f.active + 1 \in SlotNo /\ f.active \in SlotNo /\ f.env \in [SlotNo -> Nat] /\ f.visible \in Seq(SeenType)
  <2>1. f.active \in SlotNo /\ f.env \in [SlotNo -> Nat] /\ f.visible \in Seq(SeenType)
    BY <1>2, ScopeTyped
  <2>2. f.active < MaxSlots
    BY <1>2
  <2>3. f.active \in Nat /\ f.active + 1 \in SlotNo
    BY <2>1, <2>2, SlotsAre
  <2>4. QED
    BY <2>1, <2>3
<1>4. PICK v : v = [name |-> n, slot |-> f.active, store |-> OwnCell(Len(sc), f, f.active)]
  OBVIOUS
<1>5. v \in SeenType
  <2>1. f.env[f.active] \in Int
    BY <1>3
  <2>2. PICK s : s = OwnCell(Len(sc), f, f.active)
    OBVIOUS
  <2>3. s \in Nat \X {"slot", "cell"} \X Int
    BY <1>2, <1>3, <2>1, <2>2 DEF OwnCell
  <2>4. QED
    BY <1>3, <1>4, <2>2, <2>3 DEF SeenType
<1>6. PICK vs : vs = Append(f.visible, v)
  OBVIOUS
<1>7. vs \in Seq(SeenType)
  BY <1>3, <1>5, <1>6, AppendProperties
<1>8. PICK g : g = [f EXCEPT !.active = f.active + 1, !.visible = vs]
  OBVIOUS
<1>9. /\ Kin(g, f) /\ g.active = f.active + 1 /\ g.names = f.names /\ g.visible = vs
  BY <1>2, <1>8 DEF ScopeType, Kin
<1>10. g \in ScopeType
  BY <1>2, <1>3, <1>7, <1>8 DEF ScopeType
<1>11. OwnCell(Len(sc), f, f.active) = Own(sc, f.active)
  BY <1>1 DEF Own, OwnCell
<1>12. [f EXCEPT !.active = f.active + 1, !.visible = Append(@, [name |-> n, slot |-> f.active, store |-> Own(sc, f.active)])] = g
  BY <1>2, <1>4, <1>6, <1>8, <1>11 DEF ScopeType
<1>13. r = WithTop(sc, g)
  BY <1>0, <1>1, <1>12, Zenon DEF Declare
<1>14. Len(sc) \in 1 .. Len(sc)
  BY TopIs
<1>15. Replaces(r, sc, g)
  BY <1>10, <1>13, ReplaceTop
<1>16. QED
  BY <1>0, <1>2, <1>4, <1>6, <1>9, <1>10, <1>14, <1>15 DEF Replaces, Declares

LEMMA CountBelow ==
  ASSUME NEW U \in SUBSET SlotNo, NEW i \in Nat
  PROVE  /\ IsFiniteSet({j \in U : j < i}) /\ Cardinality({j \in U : j < i}) \in Nat
         /\ Cardinality({j \in U : j < i}) <= i
<1>1. \A j \in U : j \in Nat
  BY SlotsAre
<1>2. IsFiniteSet(0 .. i - 1) /\ Cardinality(0 .. i - 1) = i
  BY FS_Interval
<1>3. {j \in U : j < i} \subseteq 0 .. i - 1
  BY <1>1
<1>4. QED
  BY <1>2, <1>3, FS_Subset, FS_CardinalityType

LEMMA CellsAre ==
  ASSUME NEW f \in ScopeType
  PROVE  /\ WithCells(f) \in ScopeType
         /\ WithCells(f) = [f EXCEPT !.env = WithCells(f).env]
         /\ \A i \in SlotNo : WithCells(f).env[i] = IF i \in f.captured THEN Cardinality({j \in f.captured : j < i}) ELSE NOENV
<1>1. PICK e : e = [i \in SlotNo |-> IF i \in f.captured THEN Cardinality({j \in f.captured : j < i}) ELSE NOENV]
  OBVIOUS
<1>2. \A i \in SlotNo : Cardinality({j \in f.captured : j < i}) \in Nat
  BY ScopeTyped, CountBelow, SlotsAre
<1>3. e \in [SlotNo -> Nat]
  BY <1>1, <1>2 DEF NOENV
<1>4. WithCells(f) = [f EXCEPT !.env = e]
  BY <1>1 DEF WithCells
<1>5. WithCells(f).env = e
  BY <1>4 DEF ScopeType
<1>6. [f EXCEPT !.env = e] \in ScopeType
  BY <1>3 DEF ScopeType
<1>7. QED
  BY <1>1, <1>4, <1>5, <1>6

LEMMA BeforeIs ==
  ASSUME NEW vs \in Seq(SeenType), NEW base \in Nat
  PROVE  /\ Before(vs, base) \in Seq(SeenType)
         /\ vs = <<>> => Before(vs, base) = <<>>
         /\ base <= Len(vs) /\ (\A i \in 1 .. Len(vs) : vs[i].slot = i - 1) => Before(vs, base) = SubSeq(vs, 1, base)
<1>1. PICK U : U = {i \in DOMAIN vs : vs[i].slot < base}
  OBVIOUS
<1>2. Len(vs) \in Nat /\ DOMAIN vs = 1 .. Len(vs)
  BY LenProperties
<1>3. IsFiniteSet(1 .. Len(vs)) /\ Cardinality(1 .. Len(vs)) = Len(vs)
  BY <1>2, FS_Interval
<1>4. Cardinality(U) \in Nat /\ Cardinality(U) <= Len(vs)
  BY <1>1, <1>2, <1>3, FS_Subset, FS_CardinalityType
<1>5. Before(vs, base) = SubSeq(vs, 1, Cardinality(U))
  BY <1>1 DEF Before
<1>6. Before(vs, base) \in Seq(SeenType) /\ Len(Before(vs, base)) = Cardinality(U)
  BY <1>2, <1>4, <1>5, FrontIs
<1>7. ASSUME vs = <<>> PROVE Before(vs, base) = <<>>
  <2>1. Cardinality(U) = 0
    BY <1>4, <1>7
  <2>2. QED
    BY <1>5, <2>1, SubSeqEmpty
<1>8. ASSUME base <= Len(vs), \A i \in 1 .. Len(vs) : vs[i].slot = i - 1
      PROVE  Before(vs, base) = SubSeq(vs, 1, base)
  <2>1. U = 1 .. base
    BY <1>1, <1>2, <1>8
  <2>2. Cardinality(1 .. base) = base
    BY FS_Interval
  <2>3. QED
    BY <1>5, <2>1, <2>2
<1>9. QED
  BY <1>6, <1>7, <1>8

\* The body of f up to base is what remains of it.
Leaves(g, f, base) ==
  /\ g \in ScopeType /\ Kin(g, f) /\ g.names = f.names
  /\ g.active = base /\ g.visible = Before(f.visible, base)

LEMMA LeaveIs ==
  ASSUME NEW f \in ScopeType, NEW base \in SlotNo
  PROVE  Leaves(Leave(f, base), f, base)
<1>1. f.visible \in Seq(SeenType) /\ base \in Nat
  BY ScopeTyped, SlotsAre
<1>2. PICK vs : vs = Before(f.visible, base)
  OBVIOUS
<1>3. vs \in Seq(SeenType)
  BY <1>1, <1>2, BeforeIs
<1>4. Leave(f, base) = [f EXCEPT !.active = base, !.visible = vs]
  BY <1>2 DEF Leave, ScopeType
<1>5. [f EXCEPT !.active = base, !.visible = vs] \in ScopeType
  BY <1>3 DEF ScopeType
<1>6. QED
  BY <1>2, <1>4, <1>5 DEF Leaves, Kin, ScopeType

LEMMA NewScopeIs ==
  ASSUME NEW t \in Token \cup {MAIN}, NEW i \in Nat, NEW b \in BOOLEAN
  PROVE  NewScope(t, i, b) \in ScopeType
<1>1. [j \in SlotNo |-> NONE] \in [SlotNo -> Names \cup {NONE, HIDDEN}] /\ [j \in SlotNo |-> NOENV] \in [SlotNo -> Nat]
  BY DEF NOENV
<1>2. 0 \in SlotNo
  BY SlotsAre
<1>3. <<>> \in Seq(UpType) /\ <<>> \in Seq(Nat) /\ <<>> \in Seq(SeenType)
  BY EmptySeq
<1>4. QED
  BY <1>1, <1>2, <1>3 DEF NewScope, ScopeType

\* r is sc with the function that t opens on top, in its analysis.
Enters(r, sc, t, b) ==
  /\ r \in Seq(ScopeType) /\ Len(r) = Len(sc) + 1 /\ r[Len(sc) + 1] \in ScopeType
  /\ \A d \in 1 .. Len(sc) : r[d] = sc[d]
  /\ LET f == r[Len(sc) + 1] IN
     /\ f.opener = t /\ f.start = ip + 1 /\ f.nested = b /\ f.pass = "analyze"
     /\ f.active = Len(Initial(t)) /\ f.initial = Len(Initial(t))
     /\ \A j \in 1 .. Len(Initial(t)) : f.names[j - 1] = Initial(t)[j]
     /\ f.captured = {} /\ (\A j \in SlotNo : f.env[j] = NOENV)
     /\ f.ups = <<>> /\ f.blocks = <<>> /\ f.visible = <<>>

LEMMA EnterIs ==
  ASSUME NEW sc \in Seq(ScopeType), NEW t, Proper(t), t.op \in Openers, NEW b \in BOOLEAN, ip \in Nat
  PROVE  Enters(Enter(sc, t, b), sc, t, b)
<1>1. t \in Token /\ t.op # "main" /\ t.name \in Names \cup {NONE} /\ (t.op # "lambda" => t.name \in Names)
  BY DEF Openers, Proper, Token
<1>2. PICK f : f = NewScope(t, ip + 1, b)
  OBVIOUS
<1>3. f \in ScopeType
  BY <1>1, <1>2, NewScopeIs
<1>4. /\ f.opener = t /\ f.start = ip + 1 /\ f.nested = b /\ f.pass = "analyze" /\ f.active = 0 /\ f.initial = 0
      /\ f.captured = {} /\ (\A j \in SlotNo : f.env[j] = NOENV) /\ f.ups = <<>> /\ f.blocks = <<>> /\ f.visible = <<>>
  BY <1>2 DEF NewScope
<1>5. PICK s : s = Append(sc, f)
  OBVIOUS
<1>6. Len(sc) \in Nat /\ s \in Seq(ScopeType) /\ Len(s) = Len(sc) + 1 /\ (\A d \in 1 .. Len(sc) : s[d] = sc[d]) /\ s[Len(sc) + 1] = f
  BY <1>3, <1>5, AppendProperties, LenProperties
<1>7. PICK own : own = IF t.op = "lambda" THEN HIDDEN ELSE t.name
  OBVIOUS
<1>8. own \in Names \cup {HIDDEN}
  BY <1>1, <1>7
<1>9. PICK k : k = Len(sc) + 1
  OBVIOUS
<1>10. k \in Nat /\ k >= 1 /\ Len(s) = k /\ s[k] = f /\ 0 \in SlotNo /\ 1 \in SlotNo /\ 1 < MaxSlots /\ 0 < MaxSlots
  BY <1>6, <1>9, SlotsAre
<1>11. PICK self : self = scope_add_local(s, own)
  OBVIOUS
<1>12. Adds(self, s, own)
  BY <1>4, <1>6, <1>8, <1>10, <1>11, AddLocalIs
<1>13. self \in Seq(ScopeType) /\ Len(self) = k /\ self[k] \in ScopeType /\ Kin(self[k], f) /\ self[k].active = 1
       /\ self[k].names = [f.names EXCEPT ![0] = own] /\ self[k].visible = <<>> /\ \A d \in 1 .. Len(sc) : self[d] = sc[d]
  <2>1. \A d \in 1 .. Len(sc) : d \in 1 .. k /\ d # k
    BY <1>6, <1>9
  <2>2. QED
    BY <1>4, <1>6, <1>10, <1>12, <2>1 DEF Adds
<1>14. f.names \in [SlotNo -> Names \cup {NONE, HIDDEN}]
  BY <1>3, ScopeTyped
<1>15. self[k].names[0] = own /\ self[k].names \in [SlotNo -> Names \cup {NONE, HIDDEN}]
  BY <1>8, <1>10, <1>13, <1>14
<1>16. PICK all : all = IF t.op = "lambda" /\ t.name # NONE THEN scope_add_local(self, t.name) ELSE self
  OBVIOUS
<1>17. /\ all \in Seq(ScopeType) /\ Len(all) = k /\ all[k] \in ScopeType /\ Kin(all[k], f)
       /\ all[k].active = Len(Initial(t)) /\ all[k].visible = <<>> /\ (\A d \in 1 .. Len(sc) : all[d] = sc[d])
       /\ \A j \in 1 .. Len(Initial(t)) : all[k].names[j - 1] = Initial(t)[j]
  <2>1. CASE t.op = "lambda" /\ t.name # NONE
    <3>1. all = scope_add_local(self, t.name) /\ t.name \in Names /\ own = HIDDEN
      BY <1>1, <1>7, <1>16, <2>1
    <3>2. Adds(all, self, t.name)
      BY <1>10, <1>13, <3>1, AddLocalIs
    <3>3. Initial(t) = <<own, t.name>>
      BY <1>1, <2>1, <3>1 DEF Initial
    <3>4. all[k].names = [self[k].names EXCEPT ![1] = t.name]
      BY <1>13, <3>2 DEF Adds
    <3>5. all[k].names[0] = own /\ all[k].names[1] = t.name
      BY <1>10, <1>15, <3>4
    <3>6. Len(Initial(t)) = 2 /\ Initial(t)[1] = own /\ Initial(t)[2] = t.name
      BY <3>3
    <3>7. \A j \in 1 .. 2 : (j = 1 /\ j - 1 = 0) \/ (j = 2 /\ j - 1 = 1)
      OBVIOUS
    <3>8. \A j \in 1 .. Len(Initial(t)) : all[k].names[j - 1] = Initial(t)[j]
      BY <3>5, <3>6, <3>7
    <3>9. /\ all \in Seq(ScopeType) /\ Len(all) = k /\ all[k] \in ScopeType /\ Kin(all[k], self[k])
          /\ all[k].active = 2 /\ all[k].visible = <<>>
      BY <1>10, <1>13, <3>2 DEF Adds
    <3>10. \A d \in 1 .. Len(sc) : all[d] = sc[d]
      <4>1. \A d \in 1 .. Len(sc) : d \in 1 .. k /\ d # k
        BY <1>6, <1>9
      <4>2. QED
        BY <1>13, <3>2, <4>1 DEF Adds
    <3>11. Kin(all[k], f)
      BY <1>13, <3>9 DEF Kin
    <3>12. QED
      BY <3>6, <3>8, <3>9, <3>10, <3>11
  <2>2. CASE ~(t.op = "lambda" /\ t.name # NONE)
    <3>1. all = self /\ Initial(t) = <<own>>
      BY <1>1, <1>7, <1>16, <2>2 DEF Initial
    <3>2. Len(Initial(t)) = 1 /\ Initial(t)[1] = own /\ \A j \in 1 .. 1 : j = 1 /\ j - 1 = 0
      BY <3>1
    <3>3. QED
      BY <1>13, <1>15, <3>1, <3>2
  <2>3. QED
    BY <2>1, <2>2
<1>18. PICK h : h = all[k]
  OBVIOUS
<1>19. Top(all) = h /\ h \in ScopeType
  BY <1>17, <1>18 DEF Top
<1>20. PICK g : g = [h EXCEPT !.initial = h.active]
  OBVIOUS
<1>21. g \in ScopeType
  BY <1>19, <1>20, ScopeTyped DEF ScopeType
<1>22. /\ g.opener = h.opener /\ g.start = h.start /\ g.nested = h.nested /\ g.pass = h.pass /\ g.initial = h.active
       /\ g.captured = h.captured /\ g.env = h.env /\ g.ups = h.ups /\ g.blocks = h.blocks /\ g.names = h.names
       /\ g.active = h.active /\ g.visible = h.visible
  BY <1>19, <1>20 DEF ScopeType
<1>23. PICK r : r = Enter(sc, t, b)
  OBVIOUS
<1>24. r = WithTop(all, g)
  BY <1>2, <1>5, <1>7, <1>11, <1>16, <1>19, <1>20, <1>23, Zenon DEF Enter
<1>25. Replaces(r, all, g)
  BY <1>10, <1>17, <1>21, <1>24, ReplaceTop
<1>26. r \in Seq(ScopeType) /\ Len(r) = k /\ r[k] = g /\ \A d \in 1 .. Len(sc) : r[d] = sc[d]
  <2>1. \A d \in 1 .. Len(sc) : d \in 1 .. k /\ d # k
    BY <1>6, <1>9
  <2>2. QED
    BY <1>17, <1>25, <2>1 DEF Replaces
<1>27. /\ g.opener = t /\ g.start = ip + 1 /\ g.nested = b /\ g.pass = "analyze"
       /\ g.captured = {} /\ (\A j \in SlotNo : g.env[j] = NOENV) /\ g.ups = <<>> /\ g.blocks = <<>>
  BY <1>4, <1>17, <1>18, <1>22 DEF Kin
<1>28. g.active = Len(Initial(t)) /\ g.initial = Len(Initial(t)) /\ g.visible = <<>>
       /\ \A j \in 1 .. Len(Initial(t)) : g.names[j - 1] = Initial(t)[j]
  BY <1>17, <1>18, <1>22
<1>29. QED
  BY <1>9, <1>21, <1>23, <1>26, <1>27, <1>28 DEF Enters

\* r is sc with the second pass of its top begun.
Starts(r, sc) ==
  /\ r \in Seq(ScopeType) /\ Len(r) = Len(sc) /\ r[Len(sc)] \in ScopeType
  /\ \A d \in 1 .. Len(sc) : d # Len(sc) => r[d] = sc[d]
  /\ LET f == sc[Len(sc)]
         g == r[Len(sc)]
     IN /\ g.opener = f.opener /\ g.start = f.start /\ g.nested = f.nested /\ g.pass = "compile"
        /\ g.names = f.names /\ g.active = f.initial /\ g.initial = f.initial
        /\ g.captured = f.captured /\ g.env = WithCells(f).env /\ g.ups = f.ups /\ g.blocks = f.blocks
        /\ Len(g.visible) = f.initial
        /\ \A j \in 1 .. f.initial :
             g.visible[j] = [name |-> f.names[j - 1], slot |-> j - 1, store |-> OwnCell(Len(sc), g, j - 1)]

LEMMA StartIs ==
  ASSUME NEW sc \in Seq(ScopeType), Len(sc) >= 1
  PROVE  Starts(StartSecondPass(sc), sc)
<1>1. PICK k : k = Len(sc)
  OBVIOUS
<1>2. PICK q : q = sc[k]
  OBVIOUS
<1>3. k \in Nat /\ k \in 1 .. k /\ q \in ScopeType /\ Top(sc) = q
  BY <1>1, <1>2, TopIs
<1>4. PICK f : f = WithCells(Top(sc))
  OBVIOUS
<1>5. f \in ScopeType /\ f = [q EXCEPT !.env = WithCells(q).env]
  BY <1>3, <1>4, CellsAre
<1>6. f.names = q.names /\ f.initial = q.initial /\ f.captured = q.captured /\ f.env = WithCells(q).env
  BY <1>3, <1>5 DEF ScopeType
<1>7. f.initial \in SlotNo /\ f.names \in [SlotNo -> Names \cup {NONE, HIDDEN}] /\ f.env \in [SlotNo -> Nat]
  BY <1>5, ScopeTyped
<1>8. PICK h : h = [f EXCEPT !.pass = "compile", !.active = f.initial]
  OBVIOUS
<1>9. h \in ScopeType
  BY <1>5, <1>7, <1>8 DEF ScopeType
<1>10. h.captured = f.captured /\ h.env = f.env /\ h.names = f.names /\ h.initial = f.initial /\ h.active = f.initial /\ h.pass = "compile"
  BY <1>5, <1>8 DEF ScopeType
<1>11. PICK s : s = WithTop(sc, h)
  OBVIOUS
<1>12. Replaces(s, sc, h)
  BY <1>9, <1>11, ReplaceTop
<1>13. s \in Seq(ScopeType) /\ Len(s) = k /\ Top(s) = h
  BY <1>1, <1>12 DEF Replaces, Top
<1>14. \A i : Own(s, i) = OwnCell(k, h, i)
  BY <1>13 DEF Own, OwnCell
<1>15. PICK vs : vs = [i \in 1 .. f.initial |-> [name |-> f.names[i - 1], slot |-> i - 1, store |-> Own(s, i - 1)]]
  OBVIOUS
<1>16. f.initial \in Nat /\ \A i \in 1 .. f.initial : i - 1 \in SlotNo /\ i - 1 \in Nat
  BY <1>7, SlotsAre
<1>17. ASSUME NEW i \in 1 .. f.initial PROVE vs[i] \in SeenType
  <2>1. i - 1 \in SlotNo /\ i - 1 \in Nat /\ f.env[i - 1] \in Int /\ f.names[i - 1] \in Names \cup {NONE, HIDDEN}
    BY <1>7, <1>16
  <2>2. PICK o : o = OwnCell(k, h, i - 1)
    OBVIOUS
  <2>3. o \in Nat \X {"slot", "cell"} \X Int
    BY <1>3, <1>10, <2>1, <2>2 DEF OwnCell
  <2>4. vs[i] = [name |-> f.names[i - 1], slot |-> i - 1, store |-> o]
    BY <1>14, <1>15, <2>2
  <2>5. QED
    BY <2>1, <2>3, <2>4 DEF SeenType
<1>18. vs \in [1 .. f.initial -> SeenType]
  <2>1. vs = [i \in 1 .. f.initial |-> vs[i]]
    BY <1>15
  <2>2. QED
    BY <1>17, <2>1
<1>19. vs \in Seq(SeenType) /\ Len(vs) = f.initial
  BY <1>16, <1>18, IntervalSeq
<1>20. PICK g : g = [h EXCEPT !.visible = vs]
  OBVIOUS
<1>21. g \in ScopeType
  BY <1>9, <1>19, <1>20 DEF ScopeType
<1>22. /\ g.opener = q.opener /\ g.start = q.start /\ g.nested = q.nested /\ g.pass = "compile"
       /\ g.names = q.names /\ g.active = q.initial /\ g.initial = q.initial
       /\ g.captured = q.captured /\ g.env = WithCells(q).env /\ g.ups = q.ups /\ g.blocks = q.blocks
       /\ g.visible = vs
  <2>1. /\ f.opener = q.opener /\ f.start = q.start /\ f.nested = q.nested /\ f.ups = q.ups /\ f.blocks = q.blocks
    BY <1>3, <1>5 DEF ScopeType
  <2>2. /\ h.opener = f.opener /\ h.start = f.start /\ h.nested = f.nested /\ h.ups = f.ups /\ h.blocks = f.blocks
    BY <1>5, <1>8 DEF ScopeType
  <2>3. /\ g.opener = h.opener /\ g.start = h.start /\ g.nested = h.nested /\ g.ups = h.ups /\ g.blocks = h.blocks
        /\ g.pass = h.pass /\ g.names = h.names /\ g.active = h.active /\ g.initial = h.initial /\ g.captured = h.captured
        /\ g.env = h.env /\ g.visible = vs
    BY <1>9, <1>20 DEF ScopeType
  <2>4. QED
    BY <1>6, <1>10, <2>1, <2>2, <2>3
<1>23. \A i : OwnCell(k, h, i) = OwnCell(k, g, i)
  BY <1>6, <1>10, <1>22 DEF OwnCell
<1>24. PICK r : r = StartSecondPass(sc)
  OBVIOUS
<1>25. r = WithTop(s, g)
  BY <1>4, <1>8, <1>11, <1>13, <1>15, <1>20, <1>24, Zenon DEF StartSecondPass
<1>26. Replaces(r, s, g)
  BY <1>3, <1>13, <1>21, <1>25, ReplaceTop
<1>27. r \in Seq(ScopeType) /\ Len(r) = k /\ r[k] = g /\ \A d \in 1 .. k : d # k => r[d] = sc[d]
  BY <1>1, <1>12, <1>13, <1>26 DEF Replaces
<1>28. \A j \in 1 .. q.initial : vs[j] = [name |-> q.names[j - 1], slot |-> j - 1, store |-> OwnCell(k, g, j - 1)]
  BY <1>6, <1>14, <1>15, <1>23
<1>29. Len(vs) = q.initial
  BY <1>6, <1>19
<1>30. QED
  BY <1>1, <1>2, <1>21, <1>22, <1>24, <1>27, <1>28, <1>29 DEF Starts

-----------------------------------------------------------------------------
(* What is open. *)

LEMMA OpenInIs ==
  ASSUME NEW sc \in Seq(ScopeType), Len(sc) >= 1
  PROVE  /\ OpenIn(sc) \in Nat
         /\ OpenIn(sc) = 0 => Len(sc) = 1 /\ sc[1].blocks = <<>>
<1> DEFINE U == UNION {{d} \X DOMAIN sc[d].blocks : d \in DOMAIN sc}
<1>1. Len(sc) \in Nat /\ DOMAIN sc = 1 .. Len(sc)
  BY LenProperties
<1>2. ASSUME NEW d \in 1 .. Len(sc)
      PROVE  sc[d].blocks \in Seq(Nat) /\ DOMAIN sc[d].blocks = 1 .. Len(sc[d].blocks) /\ Len(sc[d].blocks) \in Nat
             /\ IsFiniteSet({d} \X DOMAIN sc[d].blocks)
  <2>1. sc[d].blocks \in Seq(Nat)
    BY ElementOfSeq, ScopeTyped
  <2>2. DOMAIN sc[d].blocks = 1 .. Len(sc[d].blocks) /\ Len(sc[d].blocks) \in Nat
    BY <2>1, LenProperties
  <2>3. IsFiniteSet(DOMAIN sc[d].blocks) /\ IsFiniteSet({d})
    <3>1. PICK n : n = Len(sc[d].blocks)
      OBVIOUS
    <3>2. n \in Nat
      BY <2>2, <3>1
    <3>3. IsFiniteSet(1 .. n)
      BY <3>2, FS_Interval
    <3>4. IsFiniteSet({d})
      BY FS_Singleton
    <3>5. QED
      BY <2>2, <3>1, <3>3, <3>4
  <2>4. IsFiniteSet({d} \X DOMAIN sc[d].blocks)
    BY <2>3, FS_Product
  <2>5. QED
    BY <2>1, <2>2, <2>4
<1>3. IsFiniteSet(U)
  <2>1. PICK V : V = {{d} \X DOMAIN sc[d].blocks : d \in DOMAIN sc}
    OBVIOUS
  <2>2. IsFiniteSet(1 .. Len(sc))
    BY <1>1, FS_Interval
  <2>3. IsFiniteSet(V)
    <3> DEFINE F == [d \in 1 .. Len(sc) |-> {d} \X DOMAIN sc[d].blocks]
    <3>1. V = {F[d] : d \in 1 .. Len(sc)}
      BY <1>1, <2>1
    <3>2. F \in Surjection(1 .. Len(sc), V)
      BY <3>1 DEF Surjection
    <3>3. QED
      BY <2>2, <3>2, FS_Surjection
  <2>4. \A x \in V : IsFiniteSet(x)
    BY <1>1, <1>2, <2>1
  <2>5. QED
    BY <2>1, <2>3, <2>4, FS_UNION
<1>4. Cardinality(U) \in Nat /\ (Cardinality(U) = 0 => U = {})
  BY <1>3, FS_CardinalityType, FS_EmptySet
<1>5. OpenIn(sc) = Len(sc) - 1 + Cardinality(U)
  BY Zenon DEF OpenIn
<1>6. ASSUME U = {} PROVE sc[1].blocks = <<>>
  <2>1. 1 \in 1 .. Len(sc)
    BY <1>1
  <2>2. SUFFICES ASSUME sc[1].blocks # <<>> PROVE FALSE
    OBVIOUS
  <2>3. 1 \in DOMAIN sc[1].blocks
    <3>1. PICK b : b = sc[1].blocks
      OBVIOUS
    <3>2. b \in Seq(Nat) /\ b # <<>> /\ DOMAIN b = 1 .. Len(b)
      BY <1>2, <2>1, <2>2, <3>1
    <3>3. Len(b) \in Nat \ {0}
      BY <3>2, EmptySeq
    <3>4. QED
      BY <3>1, <3>2, <3>3
  <2>4. <<1, 1>> \in {1} \X DOMAIN sc[1].blocks
    BY <2>3
  <2>5. <<1, 1>> \in U
    BY <1>1, <2>1, <2>4
  <2>6. QED
    BY <1>6, <2>5
<1>7. PICK c : c = Cardinality(U)
  OBVIOUS
<1>8. c \in Nat /\ OpenIn(sc) = Len(sc) - 1 + c /\ (c = 0 => sc[1].blocks = <<>>)
  BY <1>4, <1>5, <1>6, <1>7
<1>9. QED
  BY <1>1, <1>8

-----------------------------------------------------------------------------
(* Steps. *)

\* The token t is the one at ip, and what is known of the program stays so.
Reads(t, p) ==
  /\ p \in Seq(Token) /\ Len(p) \in Nat /\ ip \in 1 .. Len(p) /\ ip \in Nat /\ p[ip] = t
  /\ Len(prog) <= Len(p) /\ Len(p) <= MaxTokens /\ (\A i \in 1 .. Len(p) : Proper(p[i]))
  /\ ip <= Len(prog) => p = prog
  /\ ip > Len(prog) => Writing /\ ip = Len(prog) + 1 /\ Len(p) = Len(prog) + 1
  /\ \A i \in 1 .. Len(prog) : p[i] = prog[i]
  /\ \A i \in 1 .. Len(prog) + 1 : Layouts(p)[i] = Lay[i]
  /\ Layouts(p)[ip + 1] = After(Lay[ip], t, ip)

LEMMA TokenRead ==
  ASSUME Types, NEW t, Proper(t), At(t)
  PROVE  Reads(t, prog')
<1>1. PICK p : p = prog'
  OBVIOUS
<1>2. prog \in Seq(Token) /\ Len(prog) \in Nat /\ ip \in 1 .. Len(prog) + 1 /\ Len(prog) <= MaxTokens /\ MaxTokens \in Nat
      /\ \A i \in 1 .. Len(prog) : Proper(prog[i])
  BY BoundAssumption, LenProperties DEF Types
<1>3. CASE ip <= Len(prog)
  <2>1. p = prog /\ p[ip] = t /\ ip \in 1 .. Len(prog)
    BY <1>1, <1>2, <1>3 DEF At
  <2>2. Layouts(p)[ip + 1] = After(Layouts(p)[ip], t, ip)
    BY <1>2, <2>1, LayoutsAre
  <2>3. QED
    BY <1>1, <1>2, <1>3, <2>1, <2>2 DEF Reads, Lay
<1>4. CASE ~(ip <= Len(prog))
  <2>1. p = Append(prog, t) /\ Writing /\ Len(prog) < MaxTokens /\ ip = Len(prog) + 1
    BY <1>1, <1>2, <1>4 DEF At
  <2>2. t \in Token
    BY DEF Proper
  <2>3. p \in Seq(Token) /\ Len(p) = Len(prog) + 1 /\ (\A i \in 1 .. Len(prog) : p[i] = prog[i]) /\ p[Len(prog) + 1] = t
    BY <1>2, <2>1, <2>2, AppendProperties
  <2>4. /\ \A i \in 1 .. Len(prog) + 1 : Layouts(p)[i] = Lay[i]
        /\ Layouts(p)[Len(prog) + 2] = After(Lay[Len(prog) + 1], t, Len(prog) + 1)
    BY <1>2, <2>1, <2>2, LayoutsGrow DEF Lay
  <2>5. \A i \in 1 .. Len(p) : i \in 1 .. Len(prog) \/ i = Len(prog) + 1
    BY <1>2, <2>3
  <2>6. \A i \in 1 .. Len(p) : Proper(p[i])
    BY <1>2, <2>3, <2>5
  <2>7. Len(prog) + 2 = ip + 1 /\ ip \in 1 .. Len(p) /\ Len(p) \in Nat /\ Len(p) <= MaxTokens
    BY <1>2, <2>1, <2>3
  <2>8. QED
    BY <1>1, <1>2, <1>4, <2>1, <2>3, <2>4, <2>6, <2>7 DEF Reads
<1>5. QED
  BY <1>3, <1>4

\* What no step of a scope's life changes.
Skeleton(f, g) ==
  /\ f.opener = g.opener /\ f.start = g.start /\ f.nested = g.nested /\ f.initial = g.initial

\* r is sc with the top one as the layout m has it.
Stays(r, sc, m) ==
  /\ r \in Seq(ScopeType) /\ Len(r) = Len(sc) /\ Len(m) = Len(sc)
  /\ \A d \in 1 .. Len(sc) : Skeleton(r[d], sc[d]) /\ r[d].pass = sc[d].pass
  /\ \A d \in 1 .. Len(sc) : d # Len(sc) => r[d].active = sc[d].active /\ r[d].blocks = sc[d].blocks
  /\ r[Len(sc)].active = Len(m[Len(sc)].locals) /\ r[Len(sc)].blocks = m[Len(sc)].blocks

\* The scopes are typed, and they are the layout m.
Fits(sc, m) ==
  /\ sc \in Seq(ScopeType) /\ Len(sc) \in 1 .. MaxDepth /\ Len(sc) = Len(m) /\ Len(sc) \in Nat
  /\ \A d \in 1 .. Len(sc) :
       /\ sc[d] \in ScopeType
       /\ sc[d].opener = m[d].opener /\ sc[d].start = m[d].start
       /\ sc[d].active = Len(m[d].locals) /\ sc[d].blocks = m[d].blocks
       /\ sc[d].initial = Len(Initial(sc[d].opener))

LEMMA ShapeFits ==
  ASSUME Types, Laid, Matches
  PROVE  Fits(scopes, Lay[ip]) /\ LayoutOK(Lay[ip], ip) /\ ip \in Nat /\ ip >= 1 /\ Len(scopes) >= 1
<1>1. ip \in 1 .. Len(prog) + 1 /\ Len(prog) \in Nat
  BY LenProperties DEF Types
<1>2. scopes \in Seq(ScopeType) /\ Len(scopes) \in 1 .. MaxDepth /\ Len(scopes) \in Nat
  BY LenProperties DEF Types
<1>3. \A d \in 1 .. Len(scopes) : scopes[d] \in ScopeType
  BY <1>2, ElementOfSeq
<1>4. QED
  BY <1>1, <1>2, <1>3 DEF Laid, Matches, Fits

(* The locals fit into the slots. *)
LEMMA Room ==
  ASSUME Types, Laid, Matches, NEW t, Proper(t), Reads(t, prog'), t.op \in {"use", "local", "for", "block"}
  PROVE  scopes[Len(scopes)].active + Len(Declared(t)) <= MaxSlots
<1>1. PICK m, k : m = Lay[ip] /\ k = Len(scopes)
  OBVIOUS
<1>2. Fits(scopes, m) /\ LayoutOK(m, ip) /\ ip \in Nat /\ ip >= 1 /\ k >= 1
  BY <1>1, ShapeFits
<1>3. k = Len(m) /\ k \in 1 .. k /\ scopes[k].active = Len(m[k].locals) /\ m \in Seq(FrameType) /\ m[k] \in FrameType
  BY <1>1, <1>2, LayoutPlaces, ElementOfSeq DEF Fits
<1>4. PICK a : a = After(m, t, ip)
  OBVIOUS
<1>5. LayoutOK(a, ip + 1) /\ Len(a) = k /\ a[k] = Grown(m[k], t)
  BY <1>2, <1>3, <1>4, AfterGrowth
<1>6. Placed(m[k], k, ip)
  BY <1>2, <1>3, LayoutPlaces
<1>7. Len(a[k].locals) = Len(m[k].locals) + Len(Declared(t))
  BY <1>3, <1>5, <1>6, GrownIs DEF Placed
<1>8. Len(a[k].locals) <= 3 * (ip + 1) - 1
  BY <1>3, <1>5 DEF LayoutOK
<1>9. ip <= MaxTokens /\ MaxTokens \in Nat
  BY BoundAssumption DEF Reads
<1>10. 3 * (ip + 1) - 1 <= MaxSlots /\ MaxSlots \in Nat
  BY <1>2, <1>9 DEF MaxSlots
<1>11. PICK x, y : x = Len(m[k].locals) /\ y = Len(Declared(t))
  OBVIOUS
<1>12. x \in Nat /\ y \in Nat
  BY <1>3, <1>11, DeclaredIs, FrameTyped
<1>13. x + y <= 3 * (ip + 1) - 1
  BY <1>7, <1>8, <1>11
<1>14. x + y <= MaxSlots
  BY <1>2, <1>10, <1>12, <1>13
<1>15. QED
  BY <1>1, <1>3, <1>11, <1>14

\* r is sc with the declarations of t in its top, and its block begun.
Grows(r, sc, t) ==
  /\ r \in Seq(ScopeType) /\ Len(r) = Len(sc)
  /\ \A d \in 1 .. Len(sc) : Skeleton(r[d], sc[d]) /\ r[d].pass = sc[d].pass
  /\ \A d \in 1 .. Len(sc) : d # Len(sc) => r[d].active = sc[d].active /\ r[d].blocks = sc[d].blocks
  /\ r[Len(sc)].active = sc[Len(sc)].active + Len(Declared(t))
  /\ r[Len(sc)].blocks =
       IF t.op \in {"for", "block"} THEN Append(sc[Len(sc)].blocks, sc[Len(sc)].active) ELSE sc[Len(sc)].blocks

LEMMA GrowsStays ==
  ASSUME NEW sc, NEW m, NEW i \in Nat, i >= 1, Fits(sc, m), LayoutOK(m, i),
         NEW t, Proper(t), t.op \in {"use", "local", "for", "block"}, NEW r, Grows(r, sc, t)
  PROVE  Stays(r, sc, After(m, t, i))
<1>1. PICK k : k = Len(sc)
  OBVIOUS
<1>2. k \in 1 .. k /\ k = Len(m) /\ m[k] \in FrameType /\ Placed(m[k], k, i) /\ sc[k].active = Len(m[k].locals) /\ sc[k].blocks = m[k].blocks
  BY <1>1, LayoutPlaces, ElementOfSeq DEF Fits
<1>3. PICK a : a = After(m, t, i)
  OBVIOUS
<1>4. Len(a) = k /\ a[k] = Grown(m[k], t)
  BY <1>2, <1>3, AfterGrowth
<1>5. Len(a[k].locals) = Len(m[k].locals) + Len(Declared(t)) /\ a[k].blocks = Opened(m[k], t)
  <2>1. FrameOK(m[k])
    BY <1>2 DEF Placed
  <2>2. Len(Grown(m[k], t).locals) = Len(m[k].locals) + Len(Declared(t)) /\ Grown(m[k], t).blocks = Opened(m[k], t)
    BY <1>2, <2>1, GrownIs
  <2>3. QED
    BY <1>4, <2>2
<1>6. r[k].active = Len(a[k].locals)
  BY <1>1, <1>2, <1>5 DEF Grows
<1>7. r[k].blocks = a[k].blocks
  BY <1>1, <1>2, <1>5 DEF Grows, Opened
<1>8. QED
  BY <1>1, <1>3, <1>4, <1>6, <1>7 DEF Grows, Stays

\* r and a are the scopes and the layout after t, sc and m those before it.
Goes(r, sc, a, m, t) ==
  /\ Fits(r, a) /\ Len(r) <= Len(sc) + 1 /\ LayoutOK(a, ip + 1)
  /\ \A d \in 1 .. Len(r) : d <= Len(sc) => Skeleton(r[d], sc[d]) /\ r[d].pass = sc[d].pass
  /\ \A d \in 1 .. Len(r) - 1 : a[d] = m[d]
  /\ Len(r) = Len(sc) + 1 =>
       LET f == r[Len(r)] IN
       /\ f.opener = t /\ f.start = ip + 1 /\ (f.nested <=> Analyzing) /\ f.pass = "analyze"
       /\ a[Len(r)] = Frame(t, ip + 1)

LEMMA TypesForward ==
  ASSUME Types, NEW t, Reads(t, prog'), Goes(scopes', scopes, After(Lay[ip], t, ip), Lay[ip], t), Moved
  PROVE  Types'
<1>1. active \in [1 .. MaxTokens -> Nat] /\ scopes \in Seq(ScopeType) /\ Len(scopes) >= 1 /\ MaxTokens \in Nat
  BY BoundAssumption, LenProperties DEF Types
<1>2. Top(scopes).active \in Nat
  BY <1>1, TopIs, ScopeTyped, SlotsAre
<1>3. ip \in 1 .. MaxTokens
  BY <1>1 DEF Reads
<1>4. active' \in [1 .. MaxTokens -> Nat]
  BY <1>1, <1>2, <1>3 DEF Moved
<1>5. ip' = ip + 1 /\ ip + 1 \in 1 .. Len(prog') + 1
  BY DEF Reads, Moved
<1>6. prog' \in Seq(Token) /\ Len(prog') <= MaxTokens /\ \A i \in 1 .. Len(prog') : Proper(prog'[i])
  BY DEF Reads
<1>7. scopes' \in Seq(ScopeType) /\ Len(scopes') \in 1 .. MaxDepth
  BY DEF Goes, Fits
<1>8. QED
  BY <1>4, <1>5, <1>6, <1>7 DEF Types

LEMMA LaidForward ==
  ASSUME Laid, Types, NEW t, Reads(t, prog'), LayoutOK(After(Lay[ip], t, ip), ip + 1)
  PROVE  Laid'
<1>1. Len(prog) \in Nat
  BY LenProperties DEF Types
<1>2. PICK p : p = prog'
  OBVIOUS
<1>3. ASSUME NEW i \in 1 .. Len(p) + 1 PROVE LayoutOK(Layouts(p)[i], i)
  <2>1. CASE i \in 1 .. Len(prog) + 1
    BY <1>2, <2>1 DEF Laid, Reads
  <2>2. CASE i \notin 1 .. Len(prog) + 1
    <3>1. i = ip + 1
      BY <1>1, <1>2, <2>2 DEF Reads
    <3>2. QED
      BY <1>2, <3>1 DEF Reads
  <2>3. QED
    BY <2>1, <2>2
<1>4. QED
  BY <1>2, <1>3 DEF Laid, Lay

LEMMA MatchesForward ==
  ASSUME NEW t, Reads(t, prog'), Goes(scopes', scopes, After(Lay[ip], t, ip), Lay[ip], t), Moved
  PROVE  Matches'
<1>1. Lay'[ip'] = After(Lay[ip], t, ip)
  BY DEF Reads, Moved, Lay
<1>2. QED
  BY <1>1 DEF Goes, Fits, Matches

LEMMA PlacesForward ==
  ASSUME Types, Laid, Matches, Places, NEW t, Reads(t, prog'),
         Goes(scopes', scopes, After(Lay[ip], t, ip), Lay[ip], t), Moved
  PROVE  Places'
<1>1. PICK r, a, m : r = scopes' /\ a = After(Lay[ip], t, ip) /\ m = Lay[ip]
  OBVIOUS
<1>2. Lay'[ip'] = a /\ Layouts(prog')[ip + 1] = a
  BY <1>1 DEF Reads, Moved, Lay
<1>3. Fits(scopes, m) /\ LayoutOK(m, ip) /\ ip \in Nat
  BY <1>1, ShapeFits
<1>4. m \in Seq(FrameType) /\ Len(m) \in Nat /\ Len(m) = Len(scopes)
  BY <1>3, LenProperties DEF LayoutOK, Fits
<1>5. a \in Seq(FrameType) /\ Len(a) \in Nat /\ Len(a) = Len(r) /\ Len(r) >= 1 /\ Len(r) <= Len(scopes) + 1
  BY <1>1, LenProperties DEF Goes, Fits, LayoutOK
<1>6. ASSUME NEW d \in 1 .. Len(r)
      PROVE  Layouts(prog')[r[d].start] = Append(SubSeq(a, 1, d - 1), Frame(r[d].opener, r[d].start))
  <2>1. CASE d <= Len(scopes)
    <3>1. d \in 1 .. Len(scopes) /\ r[d].start = scopes[d].start /\ r[d].opener = scopes[d].opener
      BY <1>1, <1>4, <2>1 DEF Goes, Skeleton
    <3>2. scopes[d].start \in 1 .. ip
      BY <1>3, <1>4, <3>1 DEF Fits, LayoutOK
    <3>3. Layouts(prog')[scopes[d].start] = Lay[scopes[d].start]
      <4>1. scopes[d].start \in 1 .. Len(prog) + 1
        BY <3>2, LenProperties DEF Types
      <4>2. QED
        BY <4>1 DEF Reads
    <3>4. Lay[scopes[d].start] = Append(SubSeq(m, 1, d - 1), Frame(scopes[d].opener, scopes[d].start))
      BY <1>1, <3>1 DEF Places
    <3>5. SubSeq(m, 1, d - 1) = SubSeq(a, 1, d - 1)
      <4>1. PICK k : k = d - 1
        OBVIOUS
      <4>2. k \in Nat /\ k <= Len(m) /\ k <= Len(a) /\ \A j \in 1 .. k : j \in 1 .. Len(r) - 1
        BY <1>4, <1>5, <3>1, <4>1
      <4>3. \A j \in 1 .. k : m[j] = a[j]
        BY <1>1, <4>2 DEF Goes
      <4>4. QED
        BY <1>4, <1>5, <4>1, <4>2, <4>3, SameFront
    <3>6. QED
      BY <3>1, <3>3, <3>4, <3>5
  <2>2. CASE ~(d <= Len(scopes))
    <3>1. d = Len(scopes) + 1 /\ Len(r) = Len(scopes) + 1
      BY <1>4, <1>5, <2>2
    <3>2. r[d].opener = t /\ r[d].start = ip + 1 /\ a[d] = Frame(t, ip + 1)
      BY <1>1, <3>1 DEF Goes
    <3>3. PICK k, f : k = Len(scopes) /\ f = Frame(t, ip + 1)
      OBVIOUS
    <3>4. k \in 0 .. Len(a) /\ d - 1 = k /\ f \in FrameType
      <4>1. d \in 1 .. Len(a) /\ a[d] \in FrameType
        BY <1>5, ElementOfSeq
      <4>2. QED
        BY <1>4, <1>5, <3>1, <3>2, <3>3, <4>1
    <3>5. PICK s : s = SubSeq(a, 1, k)
      OBVIOUS
    <3>6. s \in Seq(FrameType) /\ Len(s) = k /\ \A j \in 1 .. k : s[j] = a[j]
      BY <1>5, <3>4, <3>5, FrontIs
    <3>7. PICK b : b = Append(s, f)
      OBVIOUS
    <3>8. b \in Seq(FrameType) /\ Len(b) = k + 1 /\ (\A j \in 1 .. k : b[j] = a[j]) /\ b[k + 1] = f
      BY <3>4, <3>6, <3>7, AppendProperties
    <3>9. \A j \in 1 .. Len(b) : b[j] = a[j]
      <4>1. \A j \in 1 .. k + 1 : j \in 1 .. k \/ j = k + 1
        BY <1>4, <3>3
      <4>2. a[k + 1] = f
        BY <3>1, <3>2, <3>3
      <4>3. QED
        BY <3>8, <4>1, <4>2
    <3>10. Len(b) = Len(a)
      BY <1>5, <3>1, <3>3, <3>8
    <3>11. b = a
      BY <1>5, <3>8, <3>9, <3>10, SeqEqual
    <3>12. QED
      BY <1>2, <3>2, <3>3, <3>4, <3>5, <3>7, <3>11
  <2>3. QED
    BY <2>1, <2>2
<1>7. QED
  BY <1>1, <1>2, <1>6 DEF Places, Lay

LEMMA AllAnalyzing ==
  ASSUME Types, Passes
  PROVE  Writing => Analyzing
<1>1. scopes \in Seq(ScopeType) /\ Len(scopes) >= 1 /\ Len(scopes) \in Nat
  BY LenProperties DEF Types
<1>2. Len(scopes) \in 1 .. Len(scopes) /\ 1 \in 1 .. Len(scopes) /\ Top(scopes) = scopes[Len(scopes)]
  BY <1>1 DEF Top
<1>3. QED
  BY <1>1, <1>2 DEF Passes, Writing, Analyzing

LEMMA PassesForward ==
  ASSUME Types, Passes, NEW t, Reads(t, prog'), Goes(scopes', scopes, After(Lay[ip], t, ip), Lay[ip], t), Moved
  PROVE  Passes'
<1>1. PICK r, k : r = scopes' /\ k = Len(scopes)
  OBVIOUS
<1>2. k \in Nat /\ k >= 1 /\ Top(scopes) = scopes[k] /\ Len(r) \in Nat /\ Len(r) >= 1 /\ Len(r) <= k + 1 /\ Len(prog) \in Nat
  BY <1>1, LenProperties DEF Types, Goes, Fits, Top
<1>3. \A d \in 1 .. Len(r) : d <= k =>
        r[d].nested = scopes[d].nested /\ r[d].pass = scopes[d].pass /\ r[d].start = scopes[d].start
  BY <1>1 DEF Goes, Skeleton
<1>4. Len(r) = k + 1 => (r[k + 1].nested <=> scopes[k].pass = "analyze") /\ r[k + 1].pass = "analyze"
  BY <1>1, <1>2 DEF Goes, Analyzing
<1>5. ~r[1].nested /\ r[1].pass = scopes[1].pass /\ r[1].start = 1
  BY <1>1, <1>2, <1>3 DEF Passes
<1>6. ASSUME NEW d \in 2 .. Len(r), r[d].nested PROVE r[d - 1].pass = "analyze"
  <2>1. CASE d <= k
    BY <1>1, <1>2, <1>3, <1>6, <2>1 DEF Passes
  <2>2. CASE ~(d <= k)
    <3>1. d = k + 1 /\ d - 1 = k /\ Len(r) = k + 1 /\ k \in 1 .. Len(r)
      BY <1>2, <2>2
    <3>2. QED
      BY <1>2, <1>3, <1>4, <1>6, <3>1
  <2>3. QED
    BY <2>1, <2>2
<1>7. ASSUME NEW d \in 1 .. Len(r), NEW e \in 1 .. Len(r), d < e, r[d].pass = "analyze"
      PROVE  r[e].nested /\ r[e].pass = "analyze"
  <2>1. d \in 1 .. k /\ scopes[d].pass = "analyze"
    BY <1>2, <1>3, <1>7
  <2>2. CASE e <= k
    <3>1. e \in 1 .. k
      BY <1>2, <2>2
    <3>2. scopes[e].nested /\ scopes[e].pass = "analyze"
      BY <1>1, <1>7, <2>1, <3>1 DEF Passes
    <3>3. QED
      BY <1>3, <2>2, <3>2
  <2>3. CASE ~(e <= k)
    <3>1. e = k + 1 /\ Len(r) = k + 1 /\ k \in 1 .. k
      BY <1>2, <2>3
    <3>2. scopes[k].pass = "analyze"
      BY <1>1, <1>2, <2>1, <3>1 DEF Passes
    <3>3. QED
      BY <1>4, <3>1, <3>2
  <2>4. QED
    BY <2>2, <2>3
<1>8. r[1].pass = "analyze" => ip + 1 = Len(prog') + 1
  BY <1>2, <1>5 DEF Passes, Writing, Reads
<1>9. QED
  BY <1>1, <1>5, <1>6, <1>7, <1>8 DEF Passes, Writing, Moved

LEMMA NotedForward ==
  ASSUME Types, Laid, Matches, Passes, Noted, NEW t, Reads(t, prog'), ip \in Nat,
         active' = IF Analyzing THEN [active EXCEPT ![ip] = Top(scopes).active] ELSE active
  PROVE  Noted'
<1>1. Len(prog) \in Nat /\ ip \in 1 .. MaxTokens /\ active \in [1 .. MaxTokens -> Nat] /\ MaxTokens \in Nat
  BY BoundAssumption, LenProperties DEF Types, Reads
<1>2. Len(scopes) \in 1 .. Len(scopes) /\ Top(scopes).active = Len(Top(Lay[ip]).locals)
  BY LenProperties DEF Types, Top, Matches
<1>3. ASSUME NEW i \in 1 .. Len(prog') PROVE active'[i] = Len(Top(Layouts(prog')[i]).locals)
  <2>1. Layouts(prog')[i] = Lay[i] /\ i \in 1 .. MaxTokens /\ (i # ip => i \in 1 .. Len(prog))
    BY <1>1 DEF Reads
  <2>2. CASE i = ip /\ Analyzing
    BY <1>1, <1>2, <2>1, <2>2
  <2>3. CASE i = ip /\ ~Analyzing
    <3>1. i \in 1 .. Len(prog)
      BY <1>1, <2>3, AllAnalyzing DEF Reads
    <3>2. QED
      BY <2>1, <2>3, <3>1 DEF Noted
  <2>4. CASE i # ip
    <3>1. active'[i] = active[i]
      BY <1>1, <2>1, <2>4
    <3>2. QED
      BY <2>1, <2>4, <3>1 DEF Noted
  <2>5. QED
    BY <2>2, <2>3, <2>4
<1>4. QED
  BY <1>3 DEF Noted, Lay

(* A step that goes on to the next token. *)
LEMMA Forward ==
  ASSUME Shape, NEW t, Reads(t, prog'), Goes(scopes', scopes, After(Lay[ip], t, ip), Lay[ip], t), Moved
  PROVE  Shape'
<1>1. Types /\ Laid /\ Matches /\ Places /\ Passes /\ Noted
  BY DEF Shape
<1>2. LayoutOK(After(Lay[ip], t, ip), ip + 1)
  BY DEF Goes
<1>3. ip \in Nat /\ active' = IF Analyzing THEN [active EXCEPT ![ip] = Top(scopes).active] ELSE active
  BY DEF Reads, Moved
<1>4. QED
  BY <1>1, <1>2, <1>3, TypesForward, LaidForward, MatchesForward, PlacesForward, PassesForward, NotedForward DEF Shape

\* r is sc with n more locals in its top.
Extended(r, sc, n) ==
  /\ r \in Seq(ScopeType) /\ Len(r) = Len(sc)
  /\ \A d \in 1 .. Len(sc) : Skeleton(r[d], sc[d]) /\ r[d].pass = sc[d].pass /\ r[d].blocks = sc[d].blocks
  /\ \A d \in 1 .. Len(sc) : d # Len(sc) => r[d].active = sc[d].active
  /\ r[Len(sc)].active = sc[Len(sc)].active + n

LEMMA ExtendedByNone ==
  ASSUME NEW sc \in Seq(ScopeType), Len(sc) >= 1, NEW n, NEW r, Resolves(r, sc, n)
  PROVE  Extended(r, sc, 0)
<1>1. Len(sc) \in 1 .. Len(sc) /\ sc[Len(sc)] \in ScopeType
  BY LenProperties, ElementOfSeq
<1>2. sc[Len(sc)].active \in Nat
  BY <1>1, ScopeTyped, SlotsAre
<1>3. \A d \in 1 .. Len(sc) : Alike(r[d], sc[d])
  BY DEF Resolves
<1>4. r \in Seq(ScopeType) /\ Len(r) = Len(sc)
  BY DEF Resolves
<1>5. QED
  BY <1>1, <1>2, <1>3, <1>4 DEF Alike, Extended, Skeleton

LEMMA ExtendedByOne ==
  ASSUME NEW sc \in Seq(ScopeType), Len(sc) >= 1, NEW n, NEW r, Adds(r, sc, n) \/ Declares(r, sc, n)
  PROVE  Extended(r, sc, 1)
BY DEF Adds, Declares, Kin, Extended, Skeleton

LEMMA ExtendedTwice ==
  ASSUME NEW sc \in Seq(ScopeType), Len(sc) >= 1, NEW r, NEW s, NEW a \in Nat, NEW b \in Nat,
         Extended(r, sc, a), Extended(s, r, b)
  PROVE  Extended(s, sc, a + b)
<1>1. PICK k : k = Len(sc)
  OBVIOUS
<1>2. k \in 1 .. k /\ sc[k] \in ScopeType
  BY <1>1, LenProperties, ElementOfSeq
<1>3. sc[k].active \in Nat
  BY <1>2, ScopeTyped, SlotsAre
<1>4. r[k].active = sc[k].active + a /\ s[k].active = r[k].active + b
  BY <1>1 DEF Extended
<1>5. s[k].active = sc[k].active + (a + b)
  BY <1>3, <1>4
<1>6. QED
  BY <1>1, <1>5 DEF Extended, Skeleton

LEMMA LocalIs ==
  ASSUME NEW sc \in Seq(ScopeType), Len(sc) >= 1, NEW n \in Names \cup {HIDDEN}, sc[Len(sc)].active < MaxSlots
  PROVE  Extended(scope_add_local(sc, n), sc, 1) /\ Extended(Declare(sc, n), sc, 1)
BY AddLocalIs, DeclareIs, ExtendedByOne

LEMMA ResolvedIs ==
  ASSUME NEW sc \in Seq(ScopeType), Len(sc) >= 1, NEW n
  PROVE  Extended(Resolve(sc, n), sc, 0)
BY ResolveIs, ExtendedByNone

\* A block begins at base in the top of sc.
Begins(r, sc, base) ==
  r = WithTop(sc, [Top(sc) EXCEPT !.blocks = Append(@, base)])

Begun(r, sc, base) ==
  /\ r \in Seq(ScopeType) /\ Len(r) = Len(sc)
  /\ \A d \in 1 .. Len(sc) : Skeleton(r[d], sc[d]) /\ r[d].pass = sc[d].pass /\ r[d].active = sc[d].active
  /\ \A d \in 1 .. Len(sc) : d # Len(sc) => r[d] = sc[d]
  /\ r[Len(sc)].blocks = Append(sc[Len(sc)].blocks, base)
  /\ Kin([r[Len(sc)] EXCEPT !.blocks = sc[Len(sc)].blocks], sc[Len(sc)])
  /\ r[Len(sc)].names = sc[Len(sc)].names /\ r[Len(sc)].visible = sc[Len(sc)].visible

LEMMA BeginsIs ==
  ASSUME NEW sc \in Seq(ScopeType), Len(sc) >= 1, NEW base \in Nat, NEW r, Begins(r, sc, base)
  PROVE  Begun(r, sc, base)
<1>1. PICK f, bs : f = Top(sc) /\ bs = Append(f.blocks, base)
  OBVIOUS
<1>2. f \in ScopeType /\ f = sc[Len(sc)] /\ Len(sc) \in 1 .. Len(sc)
  BY <1>1, TopIs
<1>3. f.blocks \in Seq(Nat)
  BY <1>2, ScopeTyped
<1>4. bs \in Seq(Nat)
  BY <1>1, <1>3, AppendProperties
<1>5. PICK g : g = [f EXCEPT !.blocks = bs]
  OBVIOUS
<1>6. g \in ScopeType
  BY <1>2, <1>4, <1>5 DEF ScopeType
<1>7. /\ Skeleton(g, f) /\ g.pass = f.pass /\ g.active = f.active /\ g.blocks = bs /\ g.names = f.names /\ g.visible = f.visible
      /\ Kin([g EXCEPT !.blocks = f.blocks], f)
  BY <1>2, <1>5 DEF ScopeType, Skeleton, Kin
<1>8. r = WithTop(sc, g)
  BY <1>1, <1>5 DEF Begins
<1>9. Replaces(r, sc, g)
  BY <1>6, <1>8, ReplaceTop
<1>10. \A d \in 1 .. Len(sc) : r[d] = IF d = Len(sc) THEN g ELSE sc[d]
  BY <1>9 DEF Replaces
<1>11. QED
  BY <1>1, <1>2, <1>7, <1>9, <1>10 DEF Replaces, Skeleton, Begun

(* What is declared and begun is what t says. *)
LEMMA GrowsBy ==
  ASSUME NEW sc \in Seq(ScopeType), Len(sc) >= 1, NEW t, NEW r, t.op \in {"use", "local"},
         Extended(r, sc, Len(Declared(t)))
  PROVE  Grows(r, sc, t)
<1>1. Len(sc) \in 1 .. Len(sc)
  BY LenProperties
<1>2. t.op \notin {"for", "block"}
  OBVIOUS
<1>3. QED
  BY <1>1, <1>2 DEF Extended, Grows

LEMMA GrowsByBlock ==
  ASSUME NEW sc \in Seq(ScopeType), Len(sc) >= 1, NEW t, NEW r, NEW s, t.op \in {"for", "block"},
         Extended(r, sc, Len(Declared(t))), Begins(s, r, sc[Len(sc)].active)
  PROVE  Grows(s, sc, t)
<1>1. Len(sc) \in 1 .. Len(sc) /\ sc[Len(sc)] \in ScopeType
  BY LenProperties, ElementOfSeq
<1>2. PICK k, base : k = Len(sc) /\ base = sc[k].active
  OBVIOUS
<1>3. base \in Nat /\ k \in 1 .. k
  BY <1>1, <1>2, ScopeTyped, SlotsAre
<1>4. r \in Seq(ScopeType) /\ Len(r) = k /\ Len(r) >= 1
  BY <1>2 DEF Extended
<1>5. /\ s \in Seq(ScopeType) /\ Len(s) = k
      /\ \A d \in 1 .. k : Skeleton(s[d], r[d]) /\ s[d].pass = r[d].pass /\ s[d].active = r[d].active
      /\ \A d \in 1 .. k : d # k => s[d] = r[d]
      /\ s[k].blocks = Append(r[k].blocks, base)
  <2>1. Begins(s, r, base)
    BY <1>2
  <2>2. Begun(s, r, base)
    BY <1>3, <1>4, <2>1, BeginsIs
  <2>3. QED
    BY <1>4, <2>2 DEF Begun
<1>6. s[k].active = sc[k].active + Len(Declared(t)) /\ r[k].blocks = sc[k].blocks
  BY <1>2, <1>3, <1>5 DEF Extended
<1>7. \A d \in 1 .. k : Skeleton(s[d], sc[d]) /\ s[d].pass = sc[d].pass
  BY <1>2, <1>5 DEF Extended, Skeleton
<1>8. \A d \in 1 .. k : d # k => s[d].active = sc[d].active /\ s[d].blocks = sc[d].blocks
  BY <1>2, <1>5 DEF Extended
<1>9. QED
  BY <1>2, <1>5, <1>6, <1>7, <1>8 DEF Grows

\* The layout a is m with another frame g of the same function on top.
SameFunctions(a, m, g) ==
  /\ Len(a) = Len(m) /\ \A d \in 1 .. Len(m) : a[d] = IF d = Len(m) THEN g ELSE m[d]
  /\ g.opener = m[Len(m)].opener /\ g.start = m[Len(m)].start

LEMMA StaysGoes ==
  ASSUME NEW sc, NEW m, Fits(sc, m), NEW r, NEW a, LayoutOK(a, ip + 1), Stays(r, sc, a),
         NEW g, SameFunctions(a, m, g), NEW t
  PROVE  Goes(r, sc, a, m, t)
<1>1. PICK k : k = Len(sc)
  OBVIOUS
<1>2. k \in Nat /\ Len(r) = k /\ Len(a) = k /\ Len(m) = k /\ r \in Seq(ScopeType) /\ k \in 1 .. MaxDepth
  BY <1>1 DEF Fits, Stays
<1>3. \A d \in 1 .. k : r[d] \in ScopeType
  BY <1>2, ElementOfSeq
<1>4. \A d \in 1 .. k : d # k => a[d] = m[d]
  BY <1>2 DEF SameFunctions
<1>5. \A d \in 1 .. k : a[d].opener = m[d].opener /\ a[d].start = m[d].start
  BY <1>2 DEF SameFunctions
<1>6. ASSUME NEW d \in 1 .. k
      PROVE  /\ r[d].opener = a[d].opener /\ r[d].start = a[d].start /\ r[d].initial = Len(Initial(r[d].opener))
             /\ r[d].active = Len(a[d].locals) /\ r[d].blocks = a[d].blocks
  <2>1. Skeleton(r[d], sc[d]) /\ sc[d].opener = m[d].opener /\ sc[d].start = m[d].start /\ sc[d].initial = Len(Initial(sc[d].opener))
    BY <1>1 DEF Stays, Fits
  <2>2. CASE d = k
    BY <1>1, <1>5, <2>1, <2>2 DEF Stays, Skeleton
  <2>3. CASE d # k
    <3>1. r[d].active = sc[d].active /\ r[d].blocks = sc[d].blocks /\ sc[d].active = Len(m[d].locals) /\ sc[d].blocks = m[d].blocks
      BY <1>1, <2>3 DEF Stays, Fits
    <3>2. QED
      BY <1>4, <1>5, <2>1, <2>3, <3>1 DEF Skeleton
  <2>4. QED
    BY <2>2, <2>3
<1>7. Fits(r, a)
  BY <1>2, <1>3, <1>6 DEF Fits
<1>8. \A d \in 1 .. Len(r) : Skeleton(r[d], sc[d]) /\ r[d].pass = sc[d].pass
  BY <1>1, <1>2 DEF Stays
<1>9. \A d \in 1 .. Len(r) - 1 : a[d] = m[d]
  BY <1>2, <1>4
<1>10. Len(r) # Len(sc) + 1 /\ Len(r) <= Len(sc) + 1
  BY <1>1, <1>2
<1>11. QED
  BY <1>7, <1>8, <1>9, <1>10 DEF Goes

LEMMA GrowthForward ==
  ASSUME Shape, NEW t, Proper(t), Reads(t, prog'), t.op \in {"use", "local", "for", "block"},
         Grows(scopes', scopes, t), Moved
  PROVE  Shape'
<1>1. PICK m, a, g : m = Lay[ip] /\ a = After(m, t, ip) /\ g = Grown(m[Len(m)], t)
  OBVIOUS
<1>2. Types /\ Laid /\ Matches
  BY DEF Shape
<1>3. Fits(scopes, m) /\ LayoutOK(m, ip) /\ ip \in Nat /\ ip >= 1
  BY <1>1, <1>2, ShapeFits
<1>4. LayoutOK(a, ip + 1) /\ Len(a) = Len(m) /\ \A d \in 1 .. Len(m) : a[d] = IF d = Len(m) THEN g ELSE m[d]
  BY <1>1, <1>3, AfterGrowth
<1>5. Stays(scopes', scopes, a)
  BY <1>1, <1>3, GrowsStays
<1>6. g.opener = m[Len(m)].opener /\ g.start = m[Len(m)].start
  BY <1>1, FramedIs DEF Grown
<1>7. SameFunctions(a, m, g)
  BY <1>4, <1>6 DEF SameFunctions
<1>8. Goes(scopes', scopes, a, m, t)
  BY <1>3, <1>4, <1>5, <1>7, StaysGoes
<1>9. QED
  BY <1>1, <1>8, Forward

LEMMA TokensAre ==
  ASSUME NEW n \in Names, NEW m \in Names \cup {NONE}, NEW r \in Names \cup {NONE}
  PROVE  /\ Proper(Tok("use", n, NONE, NONE)) /\ Proper(Tok("local", n, NONE, NONE))
         /\ Proper(Tok("for", n, NONE, r)) /\ Proper(Tok("lambda", m, NONE, NONE))
         /\ Proper(Tok("localfunc", n, NONE, NONE)) /\ Proper(Tok("funcdef", n, NONE, NONE))
         /\ Proper(Tok("block", NONE, NONE, NONE)) /\ Proper(Tok("end", NONE, NONE, NONE))
         /\ r # NONE => Proper(Tok("local", n, m, r))
BY BoundAssumption DEF Proper, Token, Tok

LEMMA ScopesAre ==
  ASSUME Types
  PROVE  /\ scopes \in Seq(ScopeType) /\ Len(scopes) >= 1 /\ Len(scopes) \in Nat
         /\ Top(scopes) = scopes[Len(scopes)] /\ Top(scopes) \in ScopeType /\ Top(scopes).active \in Nat
         /\ Len(scopes) \in 1 .. Len(scopes)
<1>1. scopes \in Seq(ScopeType) /\ Len(scopes) >= 1 /\ Len(scopes) \in Nat
  BY LenProperties DEF Types
<1>2. QED
  BY <1>1, TopIs, ScopeTyped, SlotsAre

LEMMA ShapeUseVar ==
  ASSUME Shape, NEW n \in Names, UseVar(Tok("use", n, NONE, NONE))
  PROVE  Shape'
<1>1. PICK t : t = Tok("use", n, NONE, NONE)
  OBVIOUS
<1>2. Proper(t) /\ t.op = "use" /\ Declared(t) = <<>>
  BY <1>1, TokensAre DEF Tok, Declared
<1>3. Types /\ At(t) /\ scopes' = Resolve(scopes, t.name) /\ Moved
  BY <1>1 DEF Shape, UseVar
<1>4. Reads(t, prog')
  BY <1>2, <1>3, TokenRead
<1>5. Extended(scopes', scopes, 0) /\ Len(Declared(t)) = 0
  BY <1>2, <1>3, ScopesAre, ResolvedIs
<1>6. Grows(scopes', scopes, t)
  BY <1>2, <1>3, <1>5, ScopesAre, GrowsBy
<1>7. QED
  BY <1>2, <1>3, <1>4, <1>6, GrowthForward

LEMMA ShapeLocalOne ==
  ASSUME Shape, NEW n \in Names, LocalOne(Tok("local", n, NONE, NONE))
  PROVE  Shape'
<1>1. PICK t : t = Tok("local", n, NONE, NONE)
  OBVIOUS
<1>2. Proper(t) /\ t.op = "local" /\ Declared(t) = <<n>> /\ t.name = n
  BY <1>1, TokensAre DEF Tok, Declared
<1>3. Types /\ Laid /\ Matches /\ At(t) /\ scopes' = (IF Analyzing THEN scope_add_local(scopes, n) ELSE Declare(scopes, n)) /\ Moved
  BY <1>1, <1>2 DEF Shape, LocalOne
<1>4. Reads(t, prog')
  BY <1>2, <1>3, TokenRead
<1>5. Len(Declared(t)) = 1 /\ t.op \in {"use", "local"} /\ t.op \in {"use", "local", "for", "block"}
  BY <1>2
<1>6. scopes[Len(scopes)].active < MaxSlots
  <2>1. scopes[Len(scopes)].active + Len(Declared(t)) <= MaxSlots
    BY <1>2, <1>3, <1>4, <1>5, Room
  <2>2. scopes[Len(scopes)].active \in Nat /\ MaxSlots \in Nat
    BY <1>3, ScopesAre, SlotsAre
  <2>3. QED
    BY <1>5, <2>1, <2>2
<1>7. Extended(scopes', scopes, 1)
  BY <1>3, <1>6, ScopesAre, LocalIs
<1>8. Grows(scopes', scopes, t)
  <2>1. Extended(scopes', scopes, Len(Declared(t)))
    BY <1>5, <1>7
  <2>2. scopes \in Seq(ScopeType) /\ Len(scopes) >= 1
    BY <1>3, ScopesAre
  <2>3. t.op \in {"use", "local"}
    BY <1>5
  <2>4. QED
    BY <2>1, <2>2, <2>3, GrowsBy
<1>9. QED
  BY <1>3, <1>2, <1>4, <1>5, <1>8, GrowthForward

LEMMA ShapeBeginBlock ==
  ASSUME Shape, BeginBlock(Tok("block", NONE, NONE, NONE))
  PROVE  Shape'
<1>1. PICK t : t = Tok("block", NONE, NONE, NONE)
  OBVIOUS
<1>2. Proper(t) /\ t.op = "block" /\ Declared(t) = <<>>
  BY <1>1, BoundAssumption DEF Proper, Token, Tok, Declared
<1>3. Types /\ At(t) /\ Begins(scopes', scopes, Top(scopes).active) /\ Moved
  BY <1>1 DEF Shape, BeginBlock, Begins
<1>4. Reads(t, prog')
  BY <1>2, <1>3, TokenRead
<1>5. Extended(scopes, scopes, 0) /\ Len(Declared(t)) = 0
  BY <1>2, <1>3, ScopesAre DEF Extended, Skeleton
<1>6. Grows(scopes', scopes, t)
  BY <1>2, <1>3, <1>5, ScopesAre, GrowsByBlock
<1>7. QED
  BY <1>2, <1>3, <1>4, <1>6, GrowthForward

LEMMA OneMore ==
  ASSUME NEW sc \in Seq(ScopeType), Len(sc) >= 1, NEW x, NEW i \in Nat, Extended(x, sc, i),
         NEW n \in Names \cup {HIDDEN}, sc[Len(sc)].active + i < MaxSlots
  PROVE  /\ Adds(scope_add_local(x, n), x, n) /\ Extended(scope_add_local(x, n), sc, i + 1)
         /\ Declares(Declare(x, n), x, n) /\ Extended(Declare(x, n), sc, i + 1)
<1>1. x \in Seq(ScopeType) /\ Len(x) >= 1 /\ x[Len(x)].active < MaxSlots
  BY DEF Extended
<1>2. PICK y, z : y = scope_add_local(x, n) /\ z = Declare(x, n)
  OBVIOUS
<1>3. Adds(y, x, n) /\ Declares(z, x, n)
  BY <1>1, <1>2, AddLocalIs, DeclareIs
<1>4. Extended(y, x, 1) /\ Extended(z, x, 1)
  BY <1>1, <1>3, ExtendedByOne
<1>5. Extended(y, sc, i + 1) /\ Extended(z, sc, i + 1)
  BY <1>4, ExtendedTwice
<1>6. QED
  BY <1>2, <1>3, <1>5

\* The scopes after the value that reads q, if there is one.
Read(sc, q) == IF q = NONE THEN sc ELSE Resolve(sc, q)

ReadsAs(r, sc, q) == IF q = NONE THEN r = sc ELSE Resolves(r, sc, q)

LEMMA NoMore ==
  ASSUME NEW sc \in Seq(ScopeType), Len(sc) >= 1, NEW x, NEW i \in Nat, Extended(x, sc, i), NEW q
  PROVE  ReadsAs(Read(x, q), x, q) /\ Extended(Read(x, q), sc, i)
<1>1. x \in Seq(ScopeType) /\ Len(x) >= 1
  BY DEF Extended
<1>2. CASE q = NONE
  BY <1>2 DEF Read, ReadsAs
<1>3. CASE q # NONE
  <2>1. PICK y : y = Resolve(x, q)
    OBVIOUS
  <2>2. Resolves(y, x, q)
    BY <1>1, <2>1, ResolveIs
  <2>3. Extended(y, x, 0)
    BY <1>1, <2>2, ExtendedByNone
  <2>4. Extended(y, sc, i + 0)
    BY <2>3, ExtendedTwice
  <2>5. i + 0 = i
    OBVIOUS
  <2>6. QED
    BY <1>3, <2>1, <2>2, <2>4, <2>5 DEF Read, ReadsAs
<1>4. QED
  BY <1>2, <1>3

\* From sc to r by way of x and y: two locals, and a value between them or before.
TwoLocals(r, sc, n, o, q, x, y) ==
  IF Analyzing
    THEN Resolves(x, sc, q) /\ Adds(y, x, n) /\ Adds(r, y, o)
    ELSE x = Declare(sc, n) /\ Declares(x, sc, n) /\ Resolves(y, x, q) /\ Declares(r, y, o)

LEMMA LocalTwoIs ==
  ASSUME NEW sc \in Seq(ScopeType), Len(sc) >= 1, NEW n \in Names, NEW o \in Names, NEW q \in Names,
         sc[Len(sc)].active + 2 <= MaxSlots,
         NEW r, r = IF Analyzing THEN scope_add_local(scope_add_local(Resolve(sc, q), n), o)
                    ELSE Declare(Resolve(Declare(sc, n), q), o)
  PROVE  Extended(r, sc, 2) /\ \E x, y : TwoLocals(r, sc, n, o, q, x, y)
<1>1. Len(sc) \in 1 .. Len(sc) /\ sc[Len(sc)] \in ScopeType
  BY LenProperties, ElementOfSeq
<1>2. PICK c : c = sc[Len(sc)].active
  OBVIOUS
<1>3. c \in Nat /\ MaxSlots \in Nat /\ c + 0 < MaxSlots /\ c + 1 < MaxSlots
  BY <1>1, <1>2, ScopeTyped, SlotsAre
<1>4. q # NONE
  BY BoundAssumption
<1>5. Extended(sc, sc, 0)
  BY <1>2, <1>3 DEF Extended, Skeleton
<1>6. CASE Analyzing
  <2>1. PICK x : x = Resolve(sc, q)
    OBVIOUS
  <2>2. Resolves(x, sc, q) /\ Extended(x, sc, 0)
    BY <1>4, <1>5, <2>1, NoMore DEF Read, ReadsAs
  <2>3. PICK y : y = scope_add_local(x, n)
    OBVIOUS
  <2>4. Adds(y, x, n) /\ Extended(y, sc, 0 + 1)
    BY <1>2, <1>3, <2>2, <2>3, OneMore
  <2>5. Extended(y, sc, 1)
    BY <2>4
  <2>6. r = scope_add_local(y, o)
    BY <1>6, <2>1, <2>3
  <2>7. Adds(r, y, o) /\ Extended(r, sc, 1 + 1)
    BY <1>2, <1>3, <2>5, <2>6, OneMore
  <2>8. TwoLocals(r, sc, n, o, q, x, y)
    BY <1>6, <2>2, <2>4, <2>7 DEF TwoLocals
  <2>9. QED
    BY <2>7, <2>8
<1>7. CASE ~Analyzing
  <2>1. PICK x : x = Declare(sc, n)
    OBVIOUS
  <2>2. Declares(x, sc, n) /\ Extended(x, sc, 0 + 1)
    BY <1>2, <1>3, <1>5, <2>1, OneMore
  <2>3. Extended(x, sc, 1)
    BY <2>2
  <2>4. PICK y : y = Resolve(x, q)
    OBVIOUS
  <2>5. Resolves(y, x, q) /\ Extended(y, sc, 1)
    BY <1>4, <2>3, <2>4, NoMore DEF Read, ReadsAs
  <2>6. r = Declare(y, o)
    BY <1>7, <2>1, <2>4
  <2>7. Declares(r, y, o) /\ Extended(r, sc, 1 + 1)
    BY <1>2, <1>3, <2>5, <2>6, OneMore
  <2>8. TwoLocals(r, sc, n, o, q, x, y)
    BY <1>7, <2>1, <2>2, <2>5, <2>7 DEF TwoLocals
  <2>9. QED
    BY <2>7, <2>8
<1>8. QED
  BY <1>6, <1>7

\* What a step of t finds: the token is the one at ip, and its locals have room.
LocalTwoStep(t) ==
  /\ Reads(t, prog') /\ Moved /\ scopes \in Seq(ScopeType) /\ Len(scopes) >= 1
  /\ Extended(scopes', scopes, 2) /\ \E x, y : TwoLocals(scopes', scopes, t.name, t.other, t.read, x, y)

LEMMA LocalTwoSteps ==
  ASSUME Types, Laid, Matches, NEW n \in Names, NEW o \in Names, NEW q \in Names,
         NEW t, t = Tok("local", n, o, q), LocalTwo(t)
  PROVE  LocalTwoStep(t)
<1>1. o # NONE /\ q # NONE
  BY BoundAssumption
<1>2. Proper(t) /\ t.op = "local" /\ Declared(t) = <<n, o>> /\ t.name = n /\ t.other = o /\ t.read = q
  BY <1>1, TokensAre DEF Tok, Declared
<1>3. /\ At(t) /\ Moved
      /\ scopes' = IF Analyzing THEN scope_add_local(scope_add_local(Resolve(scopes, q), n), o)
                   ELSE Declare(Resolve(Declare(scopes, n), q), o)
  BY <1>2 DEF LocalTwo
<1>4. Reads(t, prog')
  BY <1>2, <1>3, TokenRead
<1>5. t.op \in {"use", "local", "for", "block"}
  BY <1>2
<1>6. scopes[Len(scopes)].active + Len(Declared(t)) <= MaxSlots
  BY <1>2, <1>4, <1>5, Room
<1>7. Len(Declared(t)) = 2
  BY <1>2
<1>8. scopes \in Seq(ScopeType) /\ Len(scopes) >= 1
  BY ScopesAre
<1>9. scopes[Len(scopes)].active + 2 <= MaxSlots
  BY <1>6, <1>7
<1>10. Extended(scopes', scopes, 2) /\ \E x, y : TwoLocals(scopes', scopes, n, o, q, x, y)
  BY <1>3, <1>8, <1>9, LocalTwoIs
<1>11. QED
  BY <1>2, <1>3, <1>4, <1>8, <1>10 DEF LocalTwoStep

LEMMA ShapeLocalTwo ==
  ASSUME Shape, NEW n \in Names, NEW o \in Names, NEW q \in Names, LocalTwo(Tok("local", n, o, q))
  PROVE  Shape'
<1>1. PICK t : t = Tok("local", n, o, q)
  OBVIOUS
<1>2. o # NONE /\ q # NONE
  BY BoundAssumption
<1>3. Proper(t) /\ t.op = "local" /\ Declared(t) = <<n, o>>
  BY <1>1, <1>2, TokensAre DEF Tok, Declared
<1>4. LocalTwoStep(t)
  BY <1>1, LocalTwoSteps DEF Shape
<1>5. Reads(t, prog') /\ Moved /\ Extended(scopes', scopes, 2) /\ scopes \in Seq(ScopeType) /\ Len(scopes) >= 1
  BY <1>4 DEF LocalTwoStep
<1>6. t.op \in {"use", "local"} /\ t.op \in {"use", "local", "for", "block"}
  BY <1>3
<1>7. Extended(scopes', scopes, Len(Declared(t)))
  BY <1>3, <1>5
<1>8. Grows(scopes', scopes, t)
  BY <1>5, <1>6, <1>7, GrowsBy
<1>9. QED
  BY <1>3, <1>5, <1>6, <1>8, GrowthForward

\* The scopes that a loop begins with: those of its bounds, its variable and
\* its two hidden locals.
Bounds(sc, n, q) ==
  IF Analyzing
    THEN scope_add_local(scope_add_local(scope_add_local(Read(sc, q), n), HIDDEN), HIDDEN)
    ELSE Declare(Declare(Read(Declare(sc, n), q), HIDDEN), HIDDEN)

\* From sc to w by way of x, y and z.
ThreeLocals(w, sc, n, q, x, y, z) ==
  IF Analyzing
    THEN ReadsAs(x, sc, q) /\ Adds(y, x, n) /\ Adds(z, y, HIDDEN) /\ Adds(w, z, HIDDEN)
    ELSE x = Declare(sc, n) /\ Declares(x, sc, n) /\ ReadsAs(y, x, q) /\ Declares(z, y, HIDDEN) /\ Declares(w, z, HIDDEN)

LEMMA BoundsAre ==
  ASSUME NEW sc \in Seq(ScopeType), Len(sc) >= 1, NEW n \in Names, NEW q, sc[Len(sc)].active + 3 <= MaxSlots,
         NEW w, w = Bounds(sc, n, q)
  PROVE  Extended(w, sc, 3) /\ \E x, y, z : ThreeLocals(w, sc, n, q, x, y, z)
<1>1. Len(sc) \in 1 .. Len(sc) /\ sc[Len(sc)] \in ScopeType
  BY LenProperties, ElementOfSeq
<1>2. PICK c : c = sc[Len(sc)].active
  OBVIOUS
<1>3. c \in Nat /\ MaxSlots \in Nat /\ c + 0 < MaxSlots /\ c + 1 < MaxSlots /\ c + 2 < MaxSlots
  BY <1>1, <1>2, ScopeTyped, SlotsAre
<1>4. Extended(sc, sc, 0)
  BY <1>2, <1>3 DEF Extended, Skeleton
<1>5. CASE Analyzing
  <2>1. PICK x : x = Read(sc, q)
    OBVIOUS
  <2>2. ReadsAs(x, sc, q) /\ Extended(x, sc, 0)
    BY <1>4, <2>1, NoMore
  <2>3. PICK y : y = scope_add_local(x, n)
    OBVIOUS
  <2>4. Adds(y, x, n) /\ Extended(y, sc, 0 + 1)
    BY <1>2, <1>3, <2>2, <2>3, OneMore
  <2>5. Extended(y, sc, 1)
    BY <2>4
  <2>6. PICK z : z = scope_add_local(y, HIDDEN)
    OBVIOUS
  <2>7. Adds(z, y, HIDDEN) /\ Extended(z, sc, 1 + 1)
    BY <1>2, <1>3, <2>5, <2>6, OneMore
  <2>8. Extended(z, sc, 2)
    BY <2>7
  <2>9. w = scope_add_local(z, HIDDEN)
    BY <1>5, <2>1, <2>3, <2>6 DEF Bounds
  <2>10. Adds(w, z, HIDDEN) /\ Extended(w, sc, 2 + 1)
    BY <1>2, <1>3, <2>8, <2>9, OneMore
  <2>11. ThreeLocals(w, sc, n, q, x, y, z)
    BY <1>5, <2>2, <2>4, <2>7, <2>10 DEF ThreeLocals
  <2>12. QED
    BY <2>10, <2>11
<1>6. CASE ~Analyzing
  <2>1. PICK x : x = Declare(sc, n)
    OBVIOUS
  <2>2. Declares(x, sc, n) /\ Extended(x, sc, 0 + 1)
    BY <1>2, <1>3, <1>4, <2>1, OneMore
  <2>3. Extended(x, sc, 1)
    BY <2>2
  <2>4. PICK y : y = Read(x, q)
    OBVIOUS
  <2>5. ReadsAs(y, x, q) /\ Extended(y, sc, 1)
    BY <2>3, <2>4, NoMore
  <2>6. PICK z : z = Declare(y, HIDDEN)
    OBVIOUS
  <2>7. Declares(z, y, HIDDEN) /\ Extended(z, sc, 1 + 1)
    BY <1>2, <1>3, <2>5, <2>6, OneMore
  <2>8. Extended(z, sc, 2)
    BY <2>7
  <2>9. w = Declare(z, HIDDEN)
    BY <1>6, <2>1, <2>4, <2>6 DEF Bounds
  <2>10. Declares(w, z, HIDDEN) /\ Extended(w, sc, 2 + 1)
    BY <1>2, <1>3, <2>8, <2>9, OneMore
  <2>11. ThreeLocals(w, sc, n, q, x, y, z)
    BY <1>6, <2>1, <2>2, <2>5, <2>7, <2>10 DEF ThreeLocals
  <2>12. QED
    BY <2>10, <2>11
<1>7. QED
  BY <1>5, <1>6

LEMMA ForReads ==
  ASSUME NEW t, BeginFor(t)
  PROVE  Begins(scopes', Bounds(scopes, t.name, t.read), Top(scopes).active)
BY DEF BeginFor, Begins, Bounds, Read

BeginForStep(t) ==
  /\ Reads(t, prog') /\ Moved /\ scopes \in Seq(ScopeType) /\ Len(scopes) >= 1
  /\ \E w, x, y, z :
       /\ Extended(w, scopes, 3) /\ ThreeLocals(w, scopes, t.name, t.read, x, y, z)
       /\ Begins(scopes', w, scopes[Len(scopes)].active)

LEMMA BeginForSteps ==
  ASSUME Types, Laid, Matches, NEW n \in Names, NEW q \in Names \cup {NONE}, NEW t, t = Tok("for", n, NONE, q), BeginFor(t)
  PROVE  BeginForStep(t)
<1>1. Proper(t) /\ t.op = "for" /\ Declared(t) = <<n, HIDDEN, HIDDEN>> /\ t.name = n /\ t.read = q
  BY TokensAre DEF Tok, Declared
<1>2. At(t) /\ Moved
  BY DEF BeginFor
<1>3. Reads(t, prog')
  BY <1>1, <1>2, TokenRead
<1>4. t.op \in {"use", "local", "for", "block"}
  BY <1>1
<1>5. scopes[Len(scopes)].active + Len(Declared(t)) <= MaxSlots
  BY <1>1, <1>3, <1>4, Room
<1>6. scopes \in Seq(ScopeType) /\ Len(scopes) >= 1 /\ Top(scopes) = scopes[Len(scopes)]
  BY ScopesAre
<1>7. Len(Declared(t)) = 3
  BY <1>1
<1>8. scopes[Len(scopes)].active + 3 <= MaxSlots
  BY <1>5, <1>7
<1>9. PICK w : w = Bounds(scopes, n, q)
  OBVIOUS
<1>10. Extended(w, scopes, 3) /\ \E x, y, z : ThreeLocals(w, scopes, n, q, x, y, z)
  BY <1>6, <1>8, <1>9, BoundsAre
<1>11. Begins(scopes', w, scopes[Len(scopes)].active)
  BY <1>1, <1>6, <1>9, ForReads
<1>12. QED
  BY <1>1, <1>2, <1>3, <1>6, <1>10, <1>11 DEF BeginForStep

LEMMA ShapeBeginFor ==
  ASSUME Shape, NEW n \in Names, NEW q \in Names \cup {NONE}, BeginFor(Tok("for", n, NONE, q))
  PROVE  Shape'
<1>1. PICK t : t = Tok("for", n, NONE, q)
  OBVIOUS
<1>2. Proper(t) /\ t.op = "for" /\ Declared(t) = <<n, HIDDEN, HIDDEN>>
  BY <1>1, TokensAre DEF Tok, Declared
<1>3. BeginForStep(t)
  BY <1>1, BeginForSteps DEF Shape
<1>4. Reads(t, prog') /\ Moved /\ scopes \in Seq(ScopeType) /\ Len(scopes) >= 1
  BY <1>3 DEF BeginForStep
<1>5. PICK w : Extended(w, scopes, 3) /\ Begins(scopes', w, scopes[Len(scopes)].active)
  BY <1>3 DEF BeginForStep
<1>6. t.op \in {"for", "block"} /\ t.op \in {"use", "local", "for", "block"}
  BY <1>2
<1>7. Extended(w, scopes, Len(Declared(t)))
  BY <1>2, <1>5
<1>8. Grows(scopes', scopes, t)
  BY <1>4, <1>5, <1>6, <1>7, GrowsByBlock
<1>9. QED
  BY <1>2, <1>4, <1>6, <1>8, GrowthForward

LEMMA EndIs == Proper(Tok("end", NONE, NONE, NONE)) /\ Tok("end", NONE, NONE, NONE).op = "end"
BY BoundAssumption DEF Proper, Token, Tok

\* r is sc without its innermost open block, which began at base.
Closes(r, sc, base) ==
  /\ r \in Seq(ScopeType) /\ Len(r) = Len(sc)
  /\ \A d \in 1 .. Len(sc) : d # Len(sc) => r[d] = sc[d]
  /\ LET f == sc[Len(sc)]
         g == r[Len(sc)]
     IN /\ g.opener = f.opener /\ g.start = f.start /\ g.nested = f.nested /\ g.pass = f.pass
        /\ g.initial = f.initial /\ g.captured = f.captured /\ g.env = f.env /\ g.ups = f.ups
        /\ g.names = f.names /\ g.active = base /\ g.visible = Before(f.visible, base)
        /\ g.blocks = SubSeq(f.blocks, 1, Len(f.blocks) - 1)

LEMMA CloseIs ==
  ASSUME NEW sc \in Seq(ScopeType), Len(sc) >= 1, NEW f, f = sc[Len(sc)],
         f.blocks # <<>>, NEW base \in SlotNo, NEW r,
         r = WithTop(sc, [Leave(f, base) EXCEPT !.blocks = SubSeq(@, 1, Len(f.blocks) - 1)])
  PROVE  Closes(r, sc, base)
<1>1. f \in ScopeType
  BY LenProperties, ElementOfSeq
<1>2. f.blocks \in Seq(Nat)
  BY <1>1, ScopeTyped
<1>3. Len(f.blocks) \in Nat \ {0}
  BY <1>2, LenProperties, EmptySeq
<1>4. PICK n : n = Len(f.blocks) - 1
  OBVIOUS
<1>5. n \in 0 .. Len(f.blocks)
  BY <1>3, <1>4
<1>6. PICK bs : bs = SubSeq(f.blocks, 1, n)
  OBVIOUS
<1>7. bs \in Seq(Nat)
  BY <1>2, <1>5, <1>6, FrontIs
<1>8. PICK g : g = Leave(f, base)
  OBVIOUS
<1>9. Leaves(g, f, base)
  BY <1>1, <1>8, LeaveIs
<1>10. g \in ScopeType /\ g.blocks = f.blocks
  BY <1>9 DEF Leaves, Kin
<1>11. PICK h : h = [g EXCEPT !.blocks = bs]
  OBVIOUS
<1>12. h \in ScopeType
  BY <1>7, <1>10, <1>11 DEF ScopeType
<1>13. /\ h.opener = g.opener /\ h.start = g.start /\ h.nested = g.nested /\ h.pass = g.pass
       /\ h.initial = g.initial /\ h.captured = g.captured /\ h.env = g.env /\ h.ups = g.ups
       /\ h.names = g.names /\ h.active = g.active /\ h.visible = g.visible /\ h.blocks = bs
  BY <1>10, <1>11 DEF ScopeType
<1>14. r = WithTop(sc, h)
  BY <1>4, <1>6, <1>8, <1>10, <1>11
<1>15. Replaces(r, sc, h)
  BY <1>12, <1>14, ReplaceTop
<1>16. QED
  BY <1>4, <1>6, <1>9, <1>13, <1>15 DEF Replaces, Leaves, Kin, Closes

LEMMA EndBlockCloses ==
  ASSUME Types, Laid, Matches, NEW t, EndBlock(t)
  PROVE  /\ Closes(scopes', scopes, Top(scopes).blocks[Len(Top(scopes).blocks)])
         /\ Top(scopes).blocks[Len(Top(scopes).blocks)] \in 0 .. Top(scopes).active
<1>1. PICK m, k, f : m = Lay[ip] /\ k = Len(scopes) /\ f = scopes[k]
  OBVIOUS
<1>2. Fits(scopes, m) /\ LayoutOK(m, ip)
  BY <1>1, ShapeFits
<1>3. k \in 1 .. k /\ k = Len(m) /\ scopes \in Seq(ScopeType) /\ Top(scopes) = f /\ k >= 1 /\ f \in ScopeType
  BY <1>1, <1>2, ScopesAre DEF Fits
<1>4. f.active = Len(m[k].locals) /\ f.blocks = m[k].blocks /\ m[k] \in FrameType /\ Placed(m[k], k, ip)
  BY <1>1, <1>2, <1>3, LayoutPlaces, ElementOfSeq DEF Fits
<1>5. f.blocks # <<>>
  BY <1>3 DEF EndBlock
<1>6. FrameOK(m[k])
  BY <1>4 DEF Placed
<1>7. PICK base : base = f.blocks[Len(f.blocks)]
  OBVIOUS
<1>8. base \in 0 .. Len(m[k].locals)
  BY <1>4, <1>5, <1>6, <1>7, CutIs
<1>9. base \in 0 .. f.active
  BY <1>4, <1>8
<1>10. f.active \in Nat /\ f.active <= MaxSlots /\ MaxSlots \in Nat
  BY <1>3, ScopeTyped, SlotsAre
<1>11. base \in Nat /\ base <= MaxSlots
  BY <1>9, <1>10
<1>12. base \in SlotNo
  BY <1>11, SlotsAre
<1>13. scopes' = WithTop(scopes, [Leave(f, base) EXCEPT !.blocks = SubSeq(@, 1, Len(f.blocks) - 1)])
  BY <1>3, <1>7 DEF EndBlock
<1>14. Closes(scopes', scopes, base)
  BY <1>1, <1>3, <1>5, <1>12, <1>13, CloseIs
<1>15. QED
  BY <1>3, <1>7, <1>9, <1>14

LEMMA ShapeEndBlock ==
  ASSUME Shape, EndBlock(Tok("end", NONE, NONE, NONE))
  PROVE  Shape'
<1>1. PICK t : t = Tok("end", NONE, NONE, NONE)
  OBVIOUS
<1>2. Proper(t) /\ t.op = "end"
  BY <1>1, EndIs
<1>3. EndBlock(t) /\ At(t) /\ Moved /\ Top(scopes).blocks # <<>>
  BY <1>1 DEF EndBlock
<1>4. Types /\ Laid /\ Matches
  BY DEF Shape
<1>5. Reads(t, prog')
  BY <1>2, <1>3, <1>4, TokenRead
<1>6. PICK m, k, a, base : m = Lay[ip] /\ k = Len(scopes) /\ a = After(m, t, ip) /\ base = scopes[k].blocks[Len(scopes[k].blocks)]
  OBVIOUS
<1>7. Fits(scopes, m) /\ LayoutOK(m, ip) /\ ip \in Nat /\ ip >= 1
  BY <1>4, <1>6, ShapeFits
<1>8. k \in 1 .. k /\ k = Len(m) /\ Top(scopes) = scopes[k] /\ scopes \in Seq(ScopeType)
  BY <1>4, <1>6, <1>7, ScopesAre DEF Fits
<1>9. scopes[k].blocks = m[k].blocks /\ m[k] \in FrameType /\ Placed(m[k], k, ip)
  BY <1>6, <1>7, <1>8, LayoutPlaces, ElementOfSeq DEF Fits
<1>10. m[k].blocks # <<>> /\ FrameOK(m[k])
  BY <1>3, <1>8, <1>9 DEF Placed
<1>11. PICK g : g = Cut(m[k])
  OBVIOUS
<1>12. LayoutOK(a, ip + 1) /\ Len(a) = Len(m) /\ \A d \in 1 .. Len(m) : a[d] = IF d = Len(m) THEN g ELSE m[d]
  BY <1>2, <1>6, <1>7, <1>8, <1>10, <1>11, AfterBlock
<1>13. g.opener = m[k].opener /\ g.start = m[k].start /\ Len(g.locals) = base /\ g.blocks = SubSeq(scopes[k].blocks, 1, Len(scopes[k].blocks) - 1)
  BY <1>6, <1>9, <1>10, <1>11, CutIs
<1>14. SameFunctions(a, m, g)
  BY <1>8, <1>12, <1>13 DEF SameFunctions
<1>15. Closes(scopes', scopes, base)
  BY <1>3, <1>4, <1>6, <1>8, EndBlockCloses
<1>16. Stays(scopes', scopes, a)
  BY <1>6, <1>8, <1>12, <1>13, <1>15 DEF Closes, Stays, Skeleton
<1>17. Goes(scopes', scopes, a, m, t)
  BY <1>7, <1>12, <1>14, <1>16, StaysGoes
<1>18. QED
  BY <1>3, <1>5, <1>6, <1>17, Forward

LEMMA ShapeBeginFunction ==
  ASSUME Shape, NEW op \in Openers, NEW n \in Names \cup {NONE}, op # "lambda" => n \in Names,
         BeginFunction(Tok(op, n, NONE, NONE))
  PROVE  Shape'
<1>1. PICK t : t = Tok(op, n, NONE, NONE)
  OBVIOUS
<1>2. Proper(t) /\ t.op \in Openers
  <2>1. CASE op = "lambda"
    BY <1>1, <2>1, BoundAssumption DEF Proper, Token, Tok, Openers
  <2>2. CASE op # "lambda"
    BY <1>1, <2>2, BoundAssumption DEF Proper, Token, Tok, Openers
  <2>3. QED
    BY <2>1, <2>2
<1>3. At(t) /\ Moved /\ Len(scopes) < MaxDepth /\ scopes' = Enter(scopes, t, Analyzing)
  BY <1>1 DEF BeginFunction
<1>4. Types /\ Laid /\ Matches
  BY DEF Shape
<1>5. Reads(t, prog')
  BY <1>2, <1>3, <1>4, TokenRead
<1>6. PICK m, k, a, r : m = Lay[ip] /\ k = Len(scopes) /\ a = After(m, t, ip) /\ r = scopes'
  OBVIOUS
<1>7. Fits(scopes, m) /\ LayoutOK(m, ip) /\ ip \in Nat /\ ip >= 1
  BY <1>4, <1>6, ShapeFits
<1>8. scopes \in Seq(ScopeType) /\ k \in Nat /\ k >= 1 /\ k = Len(m) /\ MaxDepth \in Nat
  BY <1>4, <1>6, <1>7, ScopesAre, BoundAssumption DEF Fits
<1>9. PICK b : b = Analyzing
  OBVIOUS
<1>10. b \in BOOLEAN
  BY <1>9 DEF Analyzing
<1>11. Enters(r, scopes, t, b)
  BY <1>2, <1>3, <1>6, <1>7, <1>8, <1>9, <1>10, EnterIs
<1>12. LayoutOK(a, ip + 1) /\ Len(a) = k + 1 /\ a[k + 1] = Frame(t, ip + 1) /\ \A d \in 1 .. k : a[d] = m[d]
  BY <1>2, <1>6, <1>7, <1>8, AfterOpener
<1>13. /\ Frame(t, ip + 1).opener = t /\ Frame(t, ip + 1).start = ip + 1 /\ Frame(t, ip + 1).blocks = <<>>
       /\ Frame(t, ip + 1).locals = Initial(t)
  BY <1>2, <1>7, FrameIs
<1>14. r \in Seq(ScopeType) /\ Len(r) = k + 1 /\ k + 1 \in 1 .. MaxDepth /\ k + 1 \in Nat
  <2>1. r \in Seq(ScopeType) /\ Len(r) = k + 1
    BY <1>6, <1>11 DEF Enters
  <2>2. k < MaxDepth
    BY <1>3, <1>6
  <2>3. QED
    BY <1>8, <2>1, <2>2
<1>15. ASSUME NEW d \in 1 .. k + 1
       PROVE  /\ r[d] \in ScopeType
              /\ r[d].opener = a[d].opener /\ r[d].start = a[d].start
              /\ r[d].active = Len(a[d].locals) /\ r[d].blocks = a[d].blocks
              /\ r[d].initial = Len(Initial(r[d].opener))
  <2>1. CASE d = k + 1
    BY <1>6, <1>11, <1>12, <1>13, <2>1 DEF Enters
  <2>2. CASE d # k + 1
    <3>1. d \in 1 .. k
      BY <1>8, <2>2
    <3>2. r[d] = scopes[d] /\ a[d] = m[d]
      BY <1>6, <1>11, <1>12, <3>1 DEF Enters
    <3>3. QED
      BY <1>6, <1>7, <3>1, <3>2 DEF Fits
  <2>3. QED
    BY <2>1, <2>2
<1>16. Fits(r, a)
  BY <1>12, <1>14, <1>15 DEF Fits
<1>17. \A d \in 1 .. Len(r) : d <= Len(scopes) => Skeleton(r[d], scopes[d]) /\ r[d].pass = scopes[d].pass
  <2>1. \A d \in 1 .. k : r[d] = scopes[d]
    BY <1>6, <1>11 DEF Enters
  <2>2. \A d \in 1 .. Len(r) : d <= k => d \in 1 .. k
    BY <1>8, <1>14
  <2>3. QED
    BY <1>6, <2>1, <2>2 DEF Skeleton
<1>18. LET f == r[k + 1] IN f.opener = t /\ f.start = ip + 1 /\ (f.nested <=> Analyzing) /\ f.pass = "analyze"
  BY <1>6, <1>9, <1>11 DEF Enters
<1>19. Goes(r, scopes, a, m, t)
  BY <1>6, <1>8, <1>12, <1>14, <1>16, <1>17, <1>18 DEF Goes
<1>20. QED
  BY <1>3, <1>5, <1>6, <1>19, Forward

\* The locals that the function o leaves in the function around it.
Leaving(o) == IF o.op = "localfunc" THEN 1 ELSE 0

LEMMA PopGoes ==
  ASSUME Types, NEW m, Fits(scopes, m), LayoutOK(m, ip), ip \in Nat, ip >= 1, NEW t, t.op = "end",
         Top(scopes).blocks = <<>>, Len(scopes) > 1,
         NEW r, Extended(r, Below(scopes), Leaving(Top(scopes).opener))
  PROVE  Goes(r, scopes, After(m, t, ip), m, t)
<1>1. PICK k, a, b, o : k = Len(scopes) /\ a = After(m, t, ip) /\ b = Below(scopes) /\ o = Top(scopes).opener
  OBVIOUS
<1>2. scopes \in Seq(ScopeType) /\ k \in Nat /\ k > 1 /\ k \in 1 .. k /\ k = Len(m) /\ Top(scopes) = scopes[k] /\ k \in 1 .. MaxDepth
  BY <1>1, ScopesAre DEF Fits
<1>3. scopes[k].blocks = m[k].blocks /\ o = m[k].opener /\ m[k].blocks = <<>>
  BY <1>1, <1>2 DEF Fits
<1>4. PICK g : g = Stored(m[k - 1], o)
  OBVIOUS
<1>5. LayoutOK(a, ip + 1) /\ Len(a) = k - 1 /\ \A d \in 1 .. k - 1 : a[d] = IF d = k - 1 THEN g ELSE m[d]
  BY <1>1, <1>2, <1>3, <1>4, AfterFunction
<1>6. k - 1 \in 1 .. Len(m) /\ k - 1 \in 1 .. k - 1 /\ k - 1 \in Nat /\ k - 1 \in 1 .. MaxDepth
  BY <1>2, BoundAssumption
<1>7. m \in Seq(FrameType) /\ Placed(m[k - 1], k - 1, ip) /\ Placed(m[k], k, ip)
  BY <1>2, <1>6, LayoutPlaces
<1>8. m[k - 1] \in FrameType /\ FrameOK(m[k - 1]) /\ (o = MAIN \/ (o.op \in Openers /\ Proper(o)))
  BY <1>3, <1>6, <1>7, ElementOfSeq DEF Placed
<1>9. /\ g.opener = m[k - 1].opener /\ g.start = m[k - 1].start /\ g.blocks = m[k - 1].blocks
      /\ Len(g.locals) = Len(m[k - 1].locals) + Leaving(o)
  BY <1>4, <1>8, StoredIs DEF Leaving
<1>10. Len(b) = k - 1 /\ \A d \in 1 .. k - 1 : b[d] = scopes[d]
  <2>1. Len(scopes) >= 1
    BY <1>1, <1>2
  <2>2. QED
    BY <1>1, <1>2, <2>1, BelowIs
<1>11. /\ r \in Seq(ScopeType) /\ Len(r) = k - 1
       /\ \A d \in 1 .. k - 1 : Skeleton(r[d], scopes[d]) /\ r[d].pass = scopes[d].pass /\ r[d].blocks = scopes[d].blocks
       /\ \A d \in 1 .. k - 1 : d # k - 1 => r[d].active = scopes[d].active
       /\ r[k - 1].active = scopes[k - 1].active + Leaving(o)
  BY <1>1, <1>6, <1>10 DEF Extended
<1>12. ASSUME NEW d \in 1 .. k - 1
       PROVE  /\ r[d] \in ScopeType
              /\ r[d].opener = a[d].opener /\ r[d].start = a[d].start
              /\ r[d].active = Len(a[d].locals) /\ r[d].blocks = a[d].blocks
              /\ r[d].initial = Len(Initial(r[d].opener))
  <2>1. d \in 1 .. k /\ r[d] \in ScopeType
    BY <1>2, <1>11, ElementOfSeq
  <2>2. /\ scopes[d].opener = m[d].opener /\ scopes[d].start = m[d].start
        /\ scopes[d].active = Len(m[d].locals) /\ scopes[d].blocks = m[d].blocks
        /\ scopes[d].initial = Len(Initial(scopes[d].opener))
    BY <1>1, <2>1 DEF Fits
  <2>3. Skeleton(r[d], scopes[d]) /\ r[d].blocks = scopes[d].blocks
    BY <1>11
  <2>4. CASE d = k - 1
    BY <1>5, <1>9, <1>11, <2>1, <2>2, <2>3, <2>4 DEF Skeleton
  <2>5. CASE d # k - 1
    BY <1>5, <1>11, <2>1, <2>2, <2>3, <2>5 DEF Skeleton
  <2>6. QED
    BY <2>4, <2>5
<1>13. Fits(r, a)
  BY <1>5, <1>6, <1>11, <1>12 DEF Fits
<1>14. \A d \in 1 .. Len(r) : Skeleton(r[d], scopes[d]) /\ r[d].pass = scopes[d].pass
  BY <1>11
<1>15. \A d \in 1 .. Len(r) - 1 : a[d] = m[d]
  <2>1. \A d \in 1 .. k - 1 - 1 : d \in 1 .. k - 1 /\ d # k - 1
    BY <1>2
  <2>2. QED
    BY <1>5, <1>11, <2>1
<1>16. Len(r) <= k + 1 /\ Len(r) # k + 1
  BY <1>2, <1>11
<1>17. QED
  BY <1>1, <1>5, <1>13, <1>14, <1>15, <1>16 DEF Goes

\* What the end of a function's body does to the functions around it.
StoredFirst(sc, o) ==
  CASE o.op = "localfunc" -> scope_add_local(sc, o.name)
    [] o.op = "funcdef"   -> Resolve(sc, o.name)
    [] OTHER              -> sc

StoredSecond(sc, o) ==
  CASE o.op = "localfunc" -> Declare(sc, o.name)
    [] o.op = "funcdef"   -> Resolve(sc, o.name)
    [] OTHER              -> sc

LEMMA StoreCases ==
  ASSUME NEW sc, NEW o
  PROVE  /\ o.op = "localfunc" => StoredFirst(sc, o) = scope_add_local(sc, o.name) /\ StoredSecond(sc, o) = Declare(sc, o.name)
         /\ o.op = "funcdef" => StoredFirst(sc, o) = Resolve(sc, o.name) /\ StoredSecond(sc, o) = Resolve(sc, o.name)
         /\ o.op \notin {"localfunc", "funcdef"} => StoredFirst(sc, o) = sc /\ StoredSecond(sc, o) = sc
BY DEF StoredFirst, StoredSecond

(* The function around one that ends has room for its name. *)
LEMMA RoomBelow ==
  ASSUME Types, Laid, Matches, NEW t, t.op = "end", Reads(t, prog'), Top(scopes).blocks = <<>>, Len(scopes) > 1
  PROVE  /\ scopes[Len(scopes) - 1].active + Leaving(Top(scopes).opener) <= MaxSlots
         /\ scopes[Len(scopes) - 1].active \in Nat
         /\ Top(scopes).opener.op \in Openers /\ Proper(Top(scopes).opener)
<1>1. PICK m, k, o : m = Lay[ip] /\ k = Len(scopes) /\ o = Top(scopes).opener
  OBVIOUS
<1>2. Fits(scopes, m) /\ LayoutOK(m, ip) /\ ip \in Nat /\ ip >= 1
  BY <1>1, ShapeFits
<1>3. scopes \in Seq(ScopeType) /\ k \in Nat /\ k > 1 /\ k \in 1 .. k /\ k = Len(m) /\ Top(scopes) = scopes[k]
  BY <1>1, <1>2, ScopesAre DEF Fits
<1>4. scopes[k].blocks = m[k].blocks /\ o = m[k].opener /\ m[k].blocks = <<>>
  BY <1>1, <1>2, <1>3 DEF Fits
<1>5. PICK a, g : a = After(m, t, ip) /\ g = Stored(m[k - 1], o)
  OBVIOUS
<1>6. LayoutOK(a, ip + 1) /\ Len(a) = k - 1 /\ \A d \in 1 .. k - 1 : a[d] = IF d = k - 1 THEN g ELSE m[d]
  <2>1. m[Len(m)].blocks = <<>> /\ Len(m) > 1 /\ m[Len(m)].opener = o
    BY <1>3, <1>4
  <2>2. QED
    BY <1>2, <1>3, <1>5, <2>1, AfterFunction
<1>7. k - 1 \in 1 .. Len(m) /\ k - 1 \in 1 .. k - 1 /\ k - 1 \in 1 .. k
  BY <1>3
<1>8. m \in Seq(FrameType) /\ Placed(m[k - 1], k - 1, ip) /\ Placed(m[k], k, ip)
  BY <1>2, <1>3, <1>7, LayoutPlaces
<1>9. m[k - 1] \in FrameType /\ FrameOK(m[k - 1])
  BY <1>7, <1>8, ElementOfSeq DEF Placed
<1>10. o.op \in Openers /\ Proper(o)
  BY <1>3, <1>4, <1>8 DEF Placed
<1>11. Len(g.locals) = Len(m[k - 1].locals) + Leaving(o)
  BY <1>5, <1>9, <1>10, StoredIs DEF Leaving
<1>12. a[k - 1] = g /\ Len(a[k - 1].locals) <= 3 * (ip + 1) - 1
  BY <1>6, <1>7 DEF LayoutOK
<1>13. ip <= MaxTokens /\ MaxTokens \in Nat
  BY BoundAssumption DEF Reads
<1>14. 3 * (ip + 1) - 1 <= MaxSlots /\ MaxSlots \in Nat
  BY <1>2, <1>13 DEF MaxSlots
<1>15. PICK x, y : x = Len(m[k - 1].locals) /\ y = Leaving(o)
  OBVIOUS
<1>16. x \in Nat /\ y \in Nat
  BY <1>9, <1>15, FrameTyped DEF Leaving
<1>17. x + y <= 3 * (ip + 1) - 1
  BY <1>11, <1>12, <1>15
<1>18. x + y <= MaxSlots
  BY <1>2, <1>14, <1>16, <1>17
<1>19. scopes[k - 1].active = x
  BY <1>1, <1>2, <1>7, <1>15 DEF Fits
<1>20. QED
  BY <1>1, <1>10, <1>15, <1>16, <1>18, <1>19

LEMMA PopExtends ==
  ASSUME Types, Laid, Matches, NEW t, t.op = "end", Reads(t, prog'), Top(scopes).blocks = <<>>, Len(scopes) > 1,
         NEW o, o = Top(scopes).opener, NEW b, b = Below(scopes)
  PROVE  Extended(StoredFirst(b, o), b, Leaving(o)) /\ Extended(StoredSecond(b, o), b, Leaving(o))
<1>1. PICK k : k = Len(scopes)
  OBVIOUS
<1>2. k \in Nat /\ k > 1 /\ scopes \in Seq(ScopeType)
  BY <1>1, ScopesAre
<1>3. b \in Seq(ScopeType) /\ Len(b) = k - 1 /\ Len(b) >= 1 /\ (\A d \in 1 .. k - 1 : b[d] = scopes[d]) /\ k - 1 \in 1 .. k - 1
  BY <1>1, <1>2, BelowIs
<1>4. b[Len(b)].active + Leaving(o) <= MaxSlots /\ b[Len(b)].active \in Nat /\ o.op \in Openers /\ Proper(o)
  BY <1>1, <1>3, RoomBelow
<1>5. MaxSlots \in Nat
  BY SlotsAre
<1>6. CASE o.op = "localfunc"
  <2>1. o.name \in Names \cup {HIDDEN} /\ Leaving(o) = 1
    BY <1>4, <1>6 DEF Proper, Leaving
  <2>2. b[Len(b)].active < MaxSlots
    BY <1>4, <1>5, <2>1
  <2>3. QED
    BY <1>3, <1>6, <2>1, <2>2, StoreCases, LocalIs
<1>7. CASE o.op = "funcdef"
  <2>1. Leaving(o) = 0
    BY <1>7 DEF Leaving
  <2>2. QED
    BY <1>3, <1>7, <2>1, StoreCases, ResolvedIs
<1>8. CASE o.op \notin {"localfunc", "funcdef"}
  <2>1. Leaving(o) = 0
    BY <1>8 DEF Leaving
  <2>2. Extended(b, b, 0)
    BY <1>3, <1>4 DEF Extended, Skeleton
  <2>3. QED
    BY <1>8, <2>1, <2>2, StoreCases
<1>9. QED
  BY <1>6, <1>7, <1>8

\* The end of a function, in a function that is analysed and in one that is not.
Ends(t) ==
  /\ t.op = "end" /\ Len(scopes) > 1 /\ Top(scopes).blocks = <<>> /\ At(t) /\ Moved
  /\ \/ scopes' = StoredFirst(Below(scopes), Top(scopes).opener)
     \/ scopes' = StoredSecond(Below(scopes), Top(scopes).opener)

LEMMA EndsAre ==
  ASSUME NEW t
  PROVE  /\ EndNested(t) => Ends(t) /\ scopes' = StoredFirst(Below(scopes), Top(scopes).opener)
         /\ EndFunction(t) => Ends(t) /\ scopes' = StoredSecond(Below(scopes), Top(scopes).opener)
BY DEF EndNested, EndFunction, Ends, StoredFirst, StoredSecond

LEMMA ShapeEndFunction ==
  ASSUME Shape, NEW t, Proper(t), Ends(t)
  PROVE  Shape'
<1>1. t.op = "end" /\ Len(scopes) > 1 /\ Top(scopes).blocks = <<>> /\ At(t) /\ Moved
  BY DEF Ends
<1>2. Types /\ Laid /\ Matches
  BY DEF Shape
<1>3. Reads(t, prog')
  BY <1>1, <1>2, TokenRead
<1>4. PICK m, b, o : m = Lay[ip] /\ b = Below(scopes) /\ o = Top(scopes).opener
  OBVIOUS
<1>5. Extended(scopes', b, Leaving(o))
  <2>1. Extended(StoredFirst(b, o), b, Leaving(o)) /\ Extended(StoredSecond(b, o), b, Leaving(o))
    BY <1>1, <1>2, <1>3, <1>4, PopExtends
  <2>2. scopes' = StoredFirst(b, o) \/ scopes' = StoredSecond(b, o)
    BY <1>4 DEF Ends
  <2>3. QED
    BY <2>1, <2>2
<1>6. Fits(scopes, m) /\ LayoutOK(m, ip) /\ ip \in Nat /\ ip >= 1
  BY <1>2, <1>4, ShapeFits
<1>7. Goes(scopes', scopes, After(m, t, ip), m, t)
  BY <1>1, <1>2, <1>4, <1>5, <1>6, PopGoes
<1>8. QED
  BY <1>1, <1>3, <1>4, <1>7, Forward

(* The second pass over the body of the top function begins. *)
LEMMA Restart ==
  ASSUME Shape, Top(scopes).blocks = <<>>, ~Top(scopes).nested, Len(scopes) = 1 \/ ~Writing,
         Starts(scopes', scopes), prog' = prog, ip' = Top(scopes).start,
         active' = active \/ (ip <= Len(prog) /\ active' = [active EXCEPT ![ip] = Top(scopes).active])
  PROVE  Shape'
<1>1. PICK k, r, m, f, s : k = Len(scopes) /\ r = scopes' /\ m = Lay[ip] /\ f = Top(scopes) /\ s = f.start
  OBVIOUS
<1>2. Types /\ Laid /\ Matches /\ Places /\ Passes /\ Noted
  BY DEF Shape
<1>3. Fits(scopes, m) /\ LayoutOK(m, ip) /\ ip \in Nat /\ ip >= 1
  BY <1>1, <1>2, ShapeFits
<1>4. scopes \in Seq(ScopeType) /\ k \in Nat /\ k >= 1 /\ k \in 1 .. k /\ f = scopes[k] /\ f \in ScopeType /\ f.active \in Nat /\ k = Len(m)
  BY <1>1, <1>2, <1>3, ScopesAre DEF Fits
<1>5. /\ r \in Seq(ScopeType) /\ Len(r) = k /\ r[k] \in ScopeType /\ (\A d \in 1 .. k : d # k => r[d] = scopes[d])
      /\ r[k].opener = f.opener /\ r[k].start = f.start /\ r[k].nested = f.nested /\ r[k].pass = "compile"
      /\ r[k].active = f.initial /\ r[k].initial = f.initial /\ r[k].blocks = f.blocks
  BY <1>1, <1>4 DEF Starts
<1>6. \A d \in 1 .. k : r[d].opener = scopes[d].opener /\ r[d].start = scopes[d].start /\ r[d].nested = scopes[d].nested /\ r[d].initial = scopes[d].initial
  <2>1. r[k].initial = scopes[k].initial /\ r[k].opener = scopes[k].opener /\ r[k].start = scopes[k].start /\ r[k].nested = scopes[k].nested
    BY <1>4, <1>5
  <2>2. QED
    BY <1>5, <2>1
<1>7. \A d \in 1 .. k : scopes[d].start \in 1 .. Len(prog) + 1
  <2>1. ip \in 1 .. Len(prog) + 1 /\ Len(prog) \in Nat
    BY <1>2, LenProperties DEF Types
  <2>2. \A d \in 1 .. k : scopes[d].start \in 1 .. ip
    BY <1>1, <1>3, <1>4 DEF Fits, LayoutOK
  <2>3. QED
    BY <2>1, <2>2
<1>8. s \in 1 .. Len(prog) + 1 /\ Len(prog) \in Nat /\ s \in Nat
  BY <1>1, <1>2, <1>4, <1>7, LenProperties DEF Types
<1>9. PICK l : l = Lay[s]
  OBVIOUS
<1>10. PICK c, e : c = SubSeq(m, 1, k - 1) /\ e = Frame(f.opener, s)
  OBVIOUS
<1>11. l = Append(c, e)
  BY <1>1, <1>2, <1>4, <1>9, <1>10 DEF Places
<1>12. m \in Seq(FrameType) /\ k - 1 \in 0 .. Len(m) /\ k - 1 \in Nat
  BY <1>3, <1>4 DEF LayoutOK
<1>13. c \in Seq(FrameType) /\ Len(c) = k - 1 /\ \A d \in 1 .. k - 1 : c[d] = m[d]
  BY <1>10, <1>12, FrontIs
<1>14. f.opener = MAIN \/ (f.opener.op \in Openers /\ Proper(f.opener))
  BY <1>1, <1>3, <1>4 DEF Fits, LayoutOK
<1>15. /\ e \in FrameType /\ e.opener = f.opener /\ e.start = s /\ e.blocks = <<>> /\ e.locals = Initial(f.opener)
  BY <1>8, <1>10, <1>14, FrameIs
<1>16. l \in Seq(FrameType) /\ Len(l) = k /\ l[k] = e /\ \A d \in 1 .. k - 1 : l[d] = m[d]
  <2>1. l \in Seq(FrameType) /\ Len(l) = k - 1 + 1 /\ l[k - 1 + 1] = e /\ \A d \in 1 .. k - 1 : l[d] = c[d]
    BY <1>11, <1>13, <1>15, AppendProperties
  <2>2. k - 1 + 1 = k
    BY <1>4
  <2>3. QED
    BY <1>13, <2>1, <2>2
<1>17. Types'
  <2>1. active' \in [1 .. MaxTokens -> Nat]
    <3>1. active \in [1 .. MaxTokens -> Nat]
      BY <1>2 DEF Types
    <3>2. CASE active' = active
      BY <3>1, <3>2
    <3>3. CASE active' = [active EXCEPT ![ip] = Top(scopes).active]
      BY <1>1, <1>4, <3>1, <3>3
    <3>4. QED
      BY <3>2, <3>3
  <2>2. ip' \in 1 .. Len(prog) + 1 /\ scopes' \in Seq(ScopeType) /\ Len(scopes') \in 1 .. MaxDepth
    BY <1>1, <1>2, <1>5, <1>8 DEF Types
  <2>3. QED
    BY <1>2, <2>1, <2>2 DEF Types
<1>18. Laid'
  BY <1>2 DEF Laid, Lay
<1>19. Lay'[ip'] = l
  BY <1>1, <1>9 DEF Lay
<1>20. Matches'
  <2>1. ASSUME NEW d \in 1 .. k
        PROVE  /\ r[d].opener = l[d].opener /\ r[d].start = l[d].start
               /\ r[d].active = Len(l[d].locals) /\ r[d].blocks = l[d].blocks
               /\ r[d].initial = Len(Initial(r[d].opener))
    <3>1. /\ scopes[d].opener = m[d].opener /\ scopes[d].start = m[d].start
          /\ scopes[d].active = Len(m[d].locals) /\ scopes[d].blocks = m[d].blocks
          /\ scopes[d].initial = Len(Initial(scopes[d].opener))
      BY <1>1, <1>3 DEF Fits
    <3>2. CASE d = k
      BY <1>1, <1>4, <1>5, <1>15, <1>16, <3>1, <3>2
    <3>3. CASE d # k
      <4>1. d \in 1 .. k - 1
        BY <1>4, <3>3
      <4>2. l[d] = m[d] /\ r[d] = scopes[d]
        BY <1>5, <1>16, <3>3, <4>1
      <4>3. QED
        BY <3>1, <4>2
    <3>4. QED
      BY <3>2, <3>3
  <2>2. QED
    BY <1>1, <1>5, <1>16, <1>19, <2>1 DEF Matches
<1>21. Places'
  <2>1. ASSUME NEW d \in 1 .. k
        PROVE  Lay[r[d].start] = Append(SubSeq(l, 1, d - 1), Frame(r[d].opener, r[d].start))
    <3>1. Lay[scopes[d].start] = Append(SubSeq(m, 1, d - 1), Frame(scopes[d].opener, scopes[d].start))
      BY <1>1, <1>2 DEF Places
    <3>2. PICK j : j = d - 1
      OBVIOUS
    <3>3. j \in Nat /\ j <= Len(m) /\ j <= Len(l) /\ \A x \in 1 .. j : x \in 1 .. k - 1
      BY <1>4, <1>16, <3>2
    <3>4. \A x \in 1 .. j : m[x] = l[x]
      BY <1>16, <3>3
    <3>5. SubSeq(m, 1, j) = SubSeq(l, 1, j)
      BY <1>12, <1>16, <3>3, <3>4, SameFront
    <3>6. QED
      BY <1>6, <3>1, <3>2, <3>5
  <2>2. Lay' = Lay
    BY DEF Lay
  <2>3. QED
    BY <1>1, <1>5, <1>19, <2>1, <2>2 DEF Places
<1>22. Passes'
  <2>1. ~r[1].nested /\ r[1].start = 1
    BY <1>1, <1>2, <1>4, <1>6 DEF Passes
  <2>2. ASSUME NEW d \in 2 .. k, r[d].nested PROVE r[d - 1].pass = "analyze"
    <3>1. d \in 1 .. k /\ d - 1 \in 1 .. k /\ d - 1 # k
      BY <1>4
    <3>2. QED
      BY <1>1, <1>2, <1>5, <1>6, <2>2, <3>1 DEF Passes
  <2>3. ASSUME NEW d \in 1 .. k, NEW x \in 1 .. k, d < x, r[d].pass = "analyze"
        PROVE  r[x].nested /\ r[x].pass = "analyze"
    <3>1. d # k
      BY <1>5, <2>3
    <3>2. scopes[d].pass = "analyze"
      BY <1>5, <2>3, <3>1
    <3>3. scopes[x].nested /\ scopes[x].pass = "analyze"
      BY <1>1, <1>2, <2>3, <3>2 DEF Passes
    <3>4. x # k
      BY <1>1, <1>4, <3>3
    <3>5. QED
      BY <1>5, <3>3, <3>4
  <2>4. r[1].pass # "analyze"
    <3>1. CASE k = 1
      BY <1>5, <3>1
    <3>2. CASE k # 1
      <4>1. ~Writing
        BY <1>1, <3>2
      <4>2. r[1] = scopes[1]
        BY <1>4, <1>5, <3>2
      <4>3. QED
        BY <4>1, <4>2 DEF Writing
    <3>3. QED
      BY <3>1, <3>2
  <2>5. QED
    BY <1>1, <1>5, <2>1, <2>2, <2>3, <2>4 DEF Passes, Writing
<1>23. Noted'
  <2>1. active \in [1 .. MaxTokens -> Nat] /\ Len(prog) <= MaxTokens /\ MaxTokens \in Nat
    BY <1>2, BoundAssumption DEF Types
  <2>2. f.active = Len(Top(m).locals)
    BY <1>1, <1>3, <1>4 DEF Fits, Top
  <2>3. ASSUME NEW i \in 1 .. Len(prog) PROVE active'[i] = Len(Top(Lay[i]).locals)
    <3>1. active[i] = Len(Top(Lay[i]).locals) /\ i \in 1 .. MaxTokens
      BY <1>2, <1>8, <2>1 DEF Noted
    <3>2. CASE active' = active
      BY <3>1, <3>2
    <3>3. CASE active' = [active EXCEPT ![ip] = Top(scopes).active]
      <4>1. CASE i = ip
        <5>1. active'[i] = f.active
          BY <1>1, <2>1, <3>1, <3>3, <4>1
        <5>2. QED
          BY <1>1, <2>2, <4>1, <5>1
      <4>2. CASE i # ip
        BY <2>1, <3>1, <3>3, <4>2
      <4>3. QED
        BY <4>1, <4>2
    <3>4. QED
      BY <3>2, <3>3
  <2>4. QED
    BY <2>3 DEF Noted, Lay
<1>24. QED
  BY <1>17, <1>18, <1>20, <1>21, <1>22, <1>23 DEF Shape

LEMMA EndAnalysisIs ==
  ASSUME Types, Passes, NEW t, Proper(t), EndAnalysis(t)
  PROVE  /\ ~Writing /\ ip <= Len(prog) /\ prog' = prog /\ prog[ip] = t
         /\ Starts(scopes', scopes) /\ ip' = Top(scopes).start
         /\ active' = [active EXCEPT ![ip] = Top(scopes).active]
<1>1. /\ Len(scopes) > 1 /\ Top(scopes).nested = Top(scopes).nested /\ ~Top(scopes).nested
      /\ At(t) /\ scopes' = StartSecondPass(scopes) /\ ip' = Top(scopes).start
      /\ active' = [active EXCEPT ![ip] = Top(scopes).active]
  BY DEF EndAnalysis
<1>2. scopes \in Seq(ScopeType) /\ Len(scopes) \in Nat /\ Top(scopes) = scopes[Len(scopes)] /\ Len(scopes) >= 1
  BY ScopesAre
<1>3. ~Writing
  <2>1. 1 \in 1 .. Len(scopes) /\ Len(scopes) \in 1 .. Len(scopes)
    BY <1>1, <1>2
  <2>2. scopes[1].pass = "analyze" => scopes[Len(scopes)].nested
    BY <1>1, <1>2, <2>1 DEF Passes
  <2>3. QED
    BY <1>1, <1>2, <2>2 DEF Writing
<1>4. ip <= Len(prog) /\ prog[ip] = t /\ prog' = prog
  BY <1>1, <1>3 DEF At
<1>5. Starts(scopes', scopes)
  BY <1>1, <1>2, StartIs
<1>6. QED
  BY <1>1, <1>3, <1>4, <1>5

LEMMA ShapeEndAnalysis ==
  ASSUME Shape, NEW t, Proper(t), EndAnalysis(t)
  PROVE  Shape'
<1>1. Types /\ Passes
  BY DEF Shape
<1>2. Top(scopes).blocks = <<>> /\ ~Top(scopes).nested
  BY DEF EndAnalysis
<1>3. /\ ~Writing /\ ip <= Len(prog) /\ prog' = prog
      /\ Starts(scopes', scopes) /\ ip' = Top(scopes).start
      /\ active' = [active EXCEPT ![ip] = Top(scopes).active]
  BY <1>1, EndAnalysisIs
<1>4. QED
  BY <1>2, <1>3, Restart

LEMMA EndOfProgramIs ==
  ASSUME Types, Passes, EndOfProgram
  PROVE  /\ Len(scopes) = 1 /\ Top(scopes).blocks = <<>> /\ ~Top(scopes).nested
         /\ Starts(scopes', scopes) /\ prog' = prog /\ ip' = Top(scopes).start /\ active' = active /\ ip = Len(prog) + 1
<1>1. scopes \in Seq(ScopeType) /\ Len(scopes) >= 1 /\ Top(scopes) = scopes[Len(scopes)]
  BY ScopesAre
<1>2. OpenIn(scopes) = 0 /\ scopes' = StartSecondPass(scopes) /\ ip' = 1 /\ prog' = prog /\ active' = active /\ Writing
  BY DEF EndOfProgram
<1>3. Len(scopes) = 1 /\ scopes[1].blocks = <<>>
  BY <1>1, <1>2, OpenInIs
<1>4. Starts(scopes', scopes)
  BY <1>1, <1>2, StartIs
<1>5. ~scopes[1].nested /\ scopes[1].start = 1 /\ ip = Len(prog) + 1
  BY <1>2 DEF Passes
<1>6. QED
  BY <1>1, <1>2, <1>3, <1>4, <1>5

LEMMA ShapeEndOfProgram ==
  ASSUME Shape, EndOfProgram
  PROVE  Shape'
<1>1. Types /\ Passes
  BY DEF Shape
<1>2. /\ Len(scopes) = 1 /\ Top(scopes).blocks = <<>> /\ ~Top(scopes).nested
      /\ Starts(scopes', scopes) /\ prog' = prog /\ ip' = Top(scopes).start /\ active' = active
  BY <1>1, EndOfProgramIs
<1>3. QED
  BY <1>2, Restart

LEMMA ShapeInit == Init => Shape
<1> SUFFICES ASSUME Init PROVE Shape
  OBVIOUS
<1>1. prog = <<>> /\ ip = 1 /\ scopes = <<NewScope(MAIN, 1, FALSE)>> /\ active = [i \in 1 .. MaxTokens |-> 0]
  BY DEF Init
<1>2. prog \in Seq(Token) /\ Len(prog) = 0
  BY <1>1
<1>3. PICK f, l : f = NewScope(MAIN, 1, FALSE) /\ l = Frame(MAIN, 1)
  OBVIOUS
<1>4. f \in ScopeType
  BY <1>3, NewScopeIs
<1>5. /\ f.opener = MAIN /\ f.start = 1 /\ ~f.nested /\ f.pass = "analyze" /\ f.active = 0 /\ f.initial = 0 /\ f.blocks = <<>>
  BY <1>3 DEF NewScope
<1>6. PICK sc : sc = <<f>>
  OBVIOUS
<1>7. sc \in Seq(ScopeType) /\ Len(sc) = 1 /\ sc[1] = f
  BY <1>4, <1>6
<1>8. scopes = sc
  BY <1>1, <1>3, <1>6
<1>9. Initial(MAIN) = <<>>
  BY DEF Initial, MAIN
<1>10. l \in FrameType /\ l.opener = MAIN /\ l.start = 1 /\ l.blocks = <<>> /\ l.locals = <<>>
  <2>1. MAIN = MAIN /\ 1 \in Nat
    OBVIOUS
  <2>2. l \in FrameType /\ l.opener = MAIN /\ l.start = 1 /\ l.blocks = <<>> /\ l.locals = Initial(MAIN)
    BY <1>3, <2>1, FrameIs
  <2>3. QED
    BY <1>9, <2>2
<1>11. PICK m : m = <<l>>
  OBVIOUS
<1>12. Len(m) = 1 /\ m[1] = l /\ m \in Seq(FrameType)
  BY <1>10, <1>11
<1>13. Lay[1] = m
  BY <1>2, <1>3, <1>11, LayoutsAre DEF Lay
<1>14. Types
  <2>1. active \in [1 .. MaxTokens -> Nat]
    BY <1>1
  <2>2. Len(prog) <= MaxTokens /\ ip \in 1 .. Len(prog) + 1 /\ \A i \in 1 .. Len(prog) : Proper(prog[i])
    BY <1>1, <1>2, BoundAssumption
  <2>3. scopes \in Seq(ScopeType) /\ Len(scopes) \in 1 .. MaxDepth
    <3>1. 1 \in 1 .. MaxDepth
      BY BoundAssumption
    <3>2. QED
      BY <1>7, <1>8, <3>1
  <2>4. QED
    BY <1>2, <2>1, <2>2, <2>3 DEF Types
<1>15. Laid
  <2>1. LayoutOK(m, 1)
    BY <1>3, <1>11, MainLayout
  <2>2. \A i \in 1 .. Len(prog) + 1 : i = 1
    BY <1>2
  <2>3. QED
    BY <1>13, <2>1, <2>2 DEF Laid
<1>16. \A d \in 1 .. Len(sc) : d = 1
  BY <1>7
<1>17. Matches
  <2>1. /\ sc[1].opener = m[1].opener /\ sc[1].start = m[1].start /\ sc[1].active = Len(m[1].locals)
        /\ sc[1].blocks = m[1].blocks /\ sc[1].initial = Len(Initial(sc[1].opener))
    <3>1. Len(<<>>) = 0
      OBVIOUS
    <3>2. QED
      BY <1>5, <1>7, <1>9, <1>10, <1>12, <3>1
  <2>2. Lay[ip] = m
    BY <1>1, <1>13
  <2>3. QED
    BY <1>7, <1>8, <1>12, <1>16, <2>1, <2>2 DEF Matches
<1>18. Places
  <2>1. SubSeq(m, 1, 0) = <<>>
    BY <1>12
  <2>2. Append(<<>>, l) = m
    BY <1>11
  <2>3. Lay[1] = Append(SubSeq(Lay[ip], 1, 1 - 1), Frame(MAIN, 1))
    BY <1>1, <1>3, <1>13, <2>1, <2>2
  <2>4. sc[1].start = 1 /\ sc[1].opener = MAIN
    BY <1>5, <1>7
  <2>5. QED
    BY <1>8, <1>16, <2>3, <2>4 DEF Places
<1>19. Passes
  <2>1. ~sc[1].nested /\ sc[1].start = 1
    BY <1>5, <1>7
  <2>2. \A d \in 2 .. Len(sc) : FALSE
    BY <1>7
  <2>3. \A d, e \in 1 .. Len(sc) : ~(d < e)
    BY <1>7
  <2>4. ip = Len(prog) + 1
    BY <1>1, <1>2
  <2>5. QED
    BY <1>8, <2>1, <2>2, <2>3, <2>4 DEF Passes
<1>20. Noted
  BY <1>2 DEF Noted
<1>21. QED
  BY <1>14, <1>15, <1>17, <1>18, <1>19, <1>20 DEF Shape

(* One case for each disjunct of Next. *)
LEMMA ShapeNext == Shape /\ [Next]_vars => Shape'
<1> SUFFICES ASSUME Shape, [Next]_vars PROVE Shape'
  OBVIOUS
<1>1. ASSUME NEW n \in Names, UseVar(Tok("use", n, NONE, NONE)) PROVE Shape'
  BY <1>1, ShapeUseVar
<1>2. ASSUME NEW n \in Names, LocalOne(Tok("local", n, NONE, NONE)) PROVE Shape'
  BY <1>2, ShapeLocalOne
<1>3. ASSUME NEW n \in Names, NEW op \in {"lambda", "localfunc", "funcdef"}, BeginFunction(Tok(op, n, NONE, NONE))
      PROVE  Shape'
  BY <1>3, ShapeBeginFunction DEF Openers
<1>4. ASSUME NEW n \in Names, NEW r \in Names \cup {NONE}, BeginFor(Tok("for", n, NONE, r)) PROVE Shape'
  BY <1>4, ShapeBeginFor
<1>5. ASSUME NEW n \in Names, NEW m \in Names \ {n}, NEW r \in Names, LocalTwo(Tok("local", n, m, r)) PROVE Shape'
  BY <1>5, ShapeLocalTwo
<1>6. CASE BeginFunction(Tok("lambda", NONE, NONE, NONE))
  BY <1>6, ShapeBeginFunction DEF Openers
<1>7. CASE BeginBlock(Tok("block", NONE, NONE, NONE))
  BY <1>7, ShapeBeginBlock
<1>8. ASSUME NEW t, t = Tok("end", NONE, NONE, NONE), End(t) PROVE Shape'
  <2>1. Proper(t)
    BY <1>8, EndIs
  <2>2. CASE EndBlock(t)
    BY <1>8, <2>2, ShapeEndBlock
  <2>3. CASE EndNested(t)
    BY <2>1, <2>3, EndsAre, ShapeEndFunction
  <2>4. CASE EndAnalysis(t)
    BY <2>1, <2>4, ShapeEndAnalysis
  <2>5. CASE EndFunction(t)
    BY <2>1, <2>5, EndsAre, ShapeEndFunction
  <2>6. QED
    BY <1>8, <2>2, <2>3, <2>4, <2>5 DEF End
<1>9. CASE EndOfProgram
  BY <1>9, ShapeEndOfProgram
<1>10. CASE UNCHANGED vars
  BY <1>10 DEF vars, Shape, Types, Laid, Matches, Places, Passes, Noted, Lay, Writing
<1>11. QED
  BY <1>1, <1>2, <1>3, <1>4, <1>5, <1>6, <1>7, <1>8, <1>9, <1>10 DEF Next

(* The scopes are always those that the program has around the token. *)
THEOREM ShapeAlways == Spec => []Shape
<1>1. Init => Shape
  BY ShapeInit
<1>2. Shape /\ [Next]_vars => Shape'
  BY ShapeNext
<1>3. QED
  BY <1>1, <1>2, PTL DEF Spec

(* Both passes have the same number of active locals at every token, for    *)
(* every program: they mean the same slot by the same index.               *)
THEOREM SlotsAlwaysAgree == Spec => []SlotsAgree
<1>1. Shape => SlotsAgree
  <2> SUFFICES ASSUME Shape, ~Analyzing, ip <= Len(prog) PROVE Top(scopes).active = active[ip]
    BY DEF SlotsAgree
  <2>1. Types /\ Matches /\ Noted
    BY DEF Shape
  <2>2. ip \in 1 .. Len(prog)
    BY <2>1, LenProperties DEF Types
  <2>3. active[ip] = Len(Top(Lay[ip]).locals)
    BY <2>1, <2>2 DEF Noted
  <2>4. Len(scopes) \in 1 .. Len(scopes) /\ Top(scopes) = scopes[Len(scopes)]
    BY <2>1, ScopesAre
  <2>5. Top(scopes).active = Len(Top(Lay[ip]).locals)
    BY <2>1, <2>4 DEF Matches, Top
  <2>6. QED
    BY <2>3, <2>5
<1>2. QED
  BY <1>1, ShapeAlways, PTL

-----------------------------------------------------------------------------
(* Upvalues. *)

LEMMA LeadsOn ==
  ASSUME NEW u \in UpType, NEW d, NEW v \in Seq(UpType), NEW w \in Seq(UpType), Leads(u, d, v), Len(v) <= Len(w)
  PROVE  Leads(u, d, w)
<1>1. Len(v) \in Nat /\ Len(w) \in Nat /\ u.index \in Nat
  BY LenProperties DEF UpType
<1>2. QED
  BY <1>1 DEF Leads

LEMMA LinkedResolve ==
  ASSUME NEW sc \in Seq(ScopeType), Len(sc) >= 1, Linked(sc), NEW n, NEW r, Resolves(r, sc, n)
  PROVE  Linked(r)
<1>1. r \in Seq(ScopeType) /\ Len(r) = Len(sc) /\ Len(sc) \in Nat
  BY LenProperties DEF Resolves
<1>2. ASSUME NEW d \in 1 .. Len(sc)
      PROVE  /\ r[d] \in ScopeType /\ sc[d] \in ScopeType /\ r[d].env = sc[d].env
             /\ r[d].ups = (IF IsUpvalue(sc, n) /\ d > OwnerOf(sc, n)
                              THEN add_upvalue(sc[d].ups, Descriptors(sc, n)[d]) ELSE sc[d].ups)
             /\ r[d].ups \in Seq(UpType) /\ sc[d].ups \in Seq(UpType)
  BY <1>1, ElementOfSeq, ScopeTyped DEF Resolves, Alike
<1>3. CASE ~IsUpvalue(sc, n)
  <2>1. \A d \in 1 .. Len(sc) : r[d].env = sc[d].env /\ r[d].ups = sc[d].ups
    BY <1>2, <1>3
  <2>2. \A d \in 1 .. Len(sc) : \A i \in DOMAIN sc[d].ups : d > 1
    BY DEF Linked, Leads
  <2>3. \A d \in 1 .. Len(sc) : d > 1 => d - 1 \in 1 .. Len(sc)
    BY <1>1
  <2>4. \A d \in 1 .. Len(sc) : \A i \in DOMAIN sc[d].ups : sc[d - 1].ups = r[d - 1].ups
    BY <2>1, <2>2, <2>3
  <2>5. QED
    BY <1>1, <2>1, <2>4 DEF Linked
<1>4. CASE IsUpvalue(sc, n)
  <2>1. PICK o, i, e : o = OwnerOf(sc, n) /\ i = resolve_local_scope(sc[o], n) /\ e = Descriptors(sc, n)
    OBVIOUS
  <2>2. o # -1
    BY <1>4, <2>1 DEF IsUpvalue
  <2>3. /\ o \in 1 .. Len(sc) - 1 /\ i \in SlotNo
        /\ \A d \in o + 1 .. Len(sc) :
             /\ e[d] \in UpType
             /\ e[d] = IF d = o + 1
                         THEN [from_local |-> TRUE, index |-> IF sc[o].env[i] = NOENV THEN i ELSE sc[o].env[i]]
                         ELSE [from_local |-> FALSE, index |-> Position(add_upvalue(sc[d - 1].ups, e[d - 1]), e[d - 1])]
    BY <2>1, <2>2, DescriptorsAre
  <2>4. ASSUME NEW d \in 1 .. Len(sc)
        PROVE  /\ Len(sc[d].ups) <= Len(r[d].ups)
               /\ (\A x, y \in DOMAIN r[d].ups : r[d].ups[x] = r[d].ups[y] => x = y)
               /\ d > o => r[d].ups = add_upvalue(sc[d].ups, e[d]) /\ e[d] \in UpType /\ d \in o + 1 .. Len(sc)
               /\ ~(d > o) => r[d].ups = sc[d].ups
    <3>1. CASE d > o
      <4>1. d \in o + 1 .. Len(sc)
        BY <1>1, <2>3, <3>1
      <4>2. e[d] \in UpType /\ r[d].ups = add_upvalue(sc[d].ups, e[d])
        BY <1>2, <1>4, <2>1, <2>3, <3>1, <4>1
      <4>3. \A x, y \in DOMAIN sc[d].ups : sc[d].ups[x] = sc[d].ups[y] => x = y
        BY DEF Linked
      <4>4. Added(r[d].ups, sc[d].ups, e[d])
        BY <1>2, <4>2, UpvalueAdded
      <4>5. QED
        BY <3>1, <4>1, <4>2, <4>3, <4>4 DEF Added
    <3>2. CASE ~(d > o)
      <4>1. r[d].ups = sc[d].ups
        BY <1>2, <2>1, <3>2
      <4>2. Len(sc[d].ups) \in Nat
        BY <1>2, LenProperties
      <4>3. QED
        BY <3>2, <4>1, <4>2 DEF Linked
    <3>3. QED
      BY <3>1, <3>2
  <2>5. ASSUME NEW d \in o + 1 .. Len(sc)
        PROVE  Leads(e[d], d, r[d - 1].ups)
    <3>1. d \in 1 .. Len(sc) /\ d > 1 /\ d - 1 \in 1 .. Len(sc)
      BY <1>1, <2>3
    <3>2. CASE d = o + 1
      <4>1. sc[o].env[i] \in SlotNo \cup {NOENV}
        BY <1>1, <2>3 DEF Linked
      <4>2. PICK x : x = IF sc[o].env[i] = NOENV THEN i ELSE sc[o].env[i]
        OBVIOUS
      <4>3. x \in SlotNo
        BY <2>3, <4>1, <4>2
      <4>4. e[d] = [from_local |-> TRUE, index |-> x]
        BY <2>3, <3>2, <4>2
      <4>5. QED
        BY <3>1, <4>3, <4>4 DEF Leads
    <3>3. CASE d # o + 1
      <4>1. d - 1 \in o + 1 .. Len(sc) /\ d - 1 > o
        BY <1>1, <2>3, <3>3
      <4>2. PICK x, u : x = e[d - 1] /\ u = add_upvalue(sc[d - 1].ups, x)
        OBVIOUS
      <4>3. x \in UpType /\ r[d - 1].ups = u
        BY <2>3, <2>4, <3>1, <4>1, <4>2
      <4>4. u \in Seq(UpType) /\ \E z \in DOMAIN u : u[z] = x
        <5>1. sc[d - 1].ups \in Seq(UpType)
          BY <1>2, <3>1
        <5>2. Added(u, sc[d - 1].ups, x)
          BY <4>2, <4>3, <5>1, UpvalueAdded
        <5>3. QED
          BY <5>2 DEF Added
      <4>5. Position(u, x) < Len(u)
        BY <4>4, PositionIs
      <4>6. e[d] = [from_local |-> FALSE, index |-> Position(u, x)]
        BY <2>3, <3>3, <4>2
      <4>7. QED
        BY <3>1, <4>3, <4>5, <4>6 DEF Leads
    <3>4. QED
      BY <3>2, <3>3
  <2>6. ASSUME NEW d \in 1 .. Len(sc), NEW j \in DOMAIN r[d].ups
        PROVE  Leads(r[d].ups[j], d, r[d - 1].ups)
    <3>1. \A z \in DOMAIN sc[d].ups : Leads(sc[d].ups[z], d, r[d - 1].ups) /\ sc[d].ups[z] \in UpType
      <4> TAKE z \in DOMAIN sc[d].ups
      <4>1. Leads(sc[d].ups[z], d, sc[d - 1].ups)
        BY DEF Linked
      <4>2. d > 1 /\ d - 1 \in 1 .. Len(sc)
        BY <1>1, <4>1 DEF Leads
      <4>3. sc[d].ups[z] \in UpType
        BY <1>2, LenProperties, ElementOfSeq
      <4>4. sc[d - 1].ups \in Seq(UpType) /\ r[d - 1].ups \in Seq(UpType) /\ Len(sc[d - 1].ups) <= Len(r[d - 1].ups)
        BY <1>2, <2>4, <4>2
      <4>5. QED
        BY <4>1, <4>3, <4>4, LeadsOn
    <3>2. CASE d > o
      <4>1. d \in o + 1 .. Len(sc) /\ e[d] \in UpType /\ r[d].ups = add_upvalue(sc[d].ups, e[d])
        BY <2>4, <3>2
      <4>2. Added(r[d].ups, sc[d].ups, e[d])
        BY <1>2, <4>1, UpvalueAdded
      <4>2a. j \in 1 .. Len(sc[d].ups) \/ r[d].ups[j] = e[d]
        BY <4>2 DEF Added
      <4>3. CASE r[d].ups[j] = e[d]
        BY <2>5, <4>1, <4>3
      <4>4. CASE j \in 1 .. Len(sc[d].ups)
        <5>1. r[d].ups[j] = sc[d].ups[j]
          BY <4>2, <4>4 DEF Added
        <5>2. j \in DOMAIN sc[d].ups
          BY <1>2, <4>4, LenProperties
        <5>3. QED
          BY <3>1, <5>1, <5>2
      <4>5. QED
        BY <4>2a, <4>3, <4>4
    <3>3. CASE ~(d > o)
      BY <2>4, <3>1, <3>3
    <3>4. QED
      BY <3>2, <3>3
  <2>7. \A d \in 1 .. Len(sc) : \A x \in SlotNo : r[d].env[x] \in SlotNo \cup {NOENV}
    BY <1>2 DEF Linked
  <2>8. QED
    BY <1>1, <2>4, <2>6, <2>7 DEF Linked
<1>5. QED
  BY <1>3, <1>4

\* r is sc, the cells and upvalues of whose functions no step has changed.
SameLinks(r, sc) == Len(r) = Len(sc) /\ \A d \in 1 .. Len(sc) : r[d].env = sc[d].env /\ r[d].ups = sc[d].ups

LEMMA LinkedSame ==
  ASSUME NEW sc \in Seq(ScopeType), Linked(sc), NEW r, SameLinks(r, sc)
  PROVE  Linked(r)
<1>1. Len(sc) \in Nat /\ Len(r) = Len(sc) /\ \A d \in 1 .. Len(sc) : r[d].env = sc[d].env /\ r[d].ups = sc[d].ups
  BY LenProperties DEF SameLinks
<1>2. \A d \in 1 .. Len(sc) : \A i \in DOMAIN sc[d].ups : d > 1
  BY DEF Linked, Leads
<1>3. \A d \in 1 .. Len(sc) : d > 1 => d - 1 \in 1 .. Len(sc)
  BY <1>1
<1>4. \A d \in 1 .. Len(sc) : \A i \in DOMAIN sc[d].ups : sc[d - 1].ups = r[d - 1].ups
  BY <1>1, <1>2, <1>3
<1>5. QED
  BY <1>1, <1>4 DEF Linked

LEMMA LinksKept ==
  ASSUME NEW sc \in Seq(ScopeType), Len(sc) >= 1, Linked(sc), NEW r, NEW n
  PROVE  /\ Adds(r, sc, n) \/ Declares(r, sc, n) => Linked(r)
         /\ ReadsAs(r, sc, n) => Linked(r)
<1>1. ASSUME Adds(r, sc, n) \/ Declares(r, sc, n) PROVE Linked(r)
  <2>1. SameLinks(r, sc)
    BY <1>1 DEF Adds, Declares, Kin, SameLinks
  <2>2. QED
    BY <2>1, LinkedSame
<1>2. ASSUME ReadsAs(r, sc, n) PROVE Linked(r)
  BY <1>2, LinkedResolve DEF ReadsAs
<1>3. QED
  BY <1>1, <1>2

LEMMA LinksOfBlocks ==
  ASSUME NEW sc \in Seq(ScopeType), Len(sc) >= 1, Linked(sc), NEW r, NEW base,
         (base \in Nat /\ Begins(r, sc, base)) \/ Closes(r, sc, base)
  PROVE  Linked(r)
<1>1. CASE base \in Nat /\ Begins(r, sc, base)
  <2>1. Begun(r, sc, base)
    BY <1>1, BeginsIs
  <2>2. PICK f, g : f = sc[Len(sc)] /\ g = [r[Len(sc)] EXCEPT !.blocks = f.blocks]
    OBVIOUS
  <2>3. Kin(g, f) /\ r \in Seq(ScopeType) /\ Len(r) = Len(sc) /\ \A d \in 1 .. Len(sc) : d # Len(sc) => r[d] = sc[d]
    BY <2>1, <2>2 DEF Begun
  <2>4. Len(sc) \in 1 .. Len(r) /\ r[Len(sc)] \in ScopeType
    BY <2>3, LenProperties, ElementOfSeq
  <2>5. r[Len(sc)].env = g.env /\ r[Len(sc)].ups = g.ups
    BY <2>2, <2>4 DEF ScopeType
  <2>6. SameLinks(r, sc)
    BY <2>2, <2>3, <2>5 DEF Kin, SameLinks
  <2>7. QED
    BY <2>6, LinkedSame
<1>2. CASE Closes(r, sc, base)
  <2>1. SameLinks(r, sc)
    BY <1>2 DEF Closes, SameLinks
  <2>2. QED
    BY <2>1, LinkedSame
<1>3. QED
  BY <1>1, <1>2

LEMMA LinksOfStart ==
  ASSUME NEW sc \in Seq(ScopeType), Len(sc) >= 1, Linked(sc), NEW r, Starts(r, sc)
  PROVE  Linked(r)
<1>1. PICK k, f : k = Len(sc) /\ f = sc[k]
  OBVIOUS
<1>2. k \in Nat /\ k \in 1 .. k /\ f \in ScopeType
  BY <1>1, LenProperties, ElementOfSeq
<1>3. Len(r) = k /\ (\A d \in 1 .. k : d # k => r[d] = sc[d]) /\ r[k].env = WithCells(f).env /\ r[k].ups = f.ups
  BY <1>1 DEF Starts
<1>4. \A d \in 1 .. k : r[d].ups = sc[d].ups
  BY <1>1, <1>3
<1>5. ASSUME NEW i \in SlotNo PROVE r[k].env[i] \in SlotNo \cup {NOENV}
  <2>1. r[k].env[i] = IF i \in f.captured THEN Cardinality({j \in f.captured : j < i}) ELSE NOENV
    BY <1>2, <1>3, CellsAre
  <2>2. PICK c : c = Cardinality({j \in f.captured : j < i})
    OBVIOUS
  <2>3. i \in Nat /\ i <= MaxSlots /\ MaxSlots \in Nat /\ f.captured \in SUBSET SlotNo
    BY <1>2, SlotsAre, ScopeTyped
  <2>4. c \in Nat /\ c <= i
    BY <2>2, <2>3, CountBelow
  <2>5. c <= MaxSlots
    BY <2>3, <2>4
  <2>6. c \in SlotNo
    BY <2>4, <2>5, SlotsAre
  <2>7. QED
    BY <2>1, <2>2, <2>6
<1>6. \A d \in 1 .. k : \A i \in SlotNo : r[d].env[i] \in SlotNo \cup {NOENV}
  BY <1>1, <1>3, <1>5 DEF Linked
<1>7. \A d \in 1 .. k : \A i \in DOMAIN sc[d].ups : d > 1 /\ sc[d - 1].ups = r[d - 1].ups
  <2>1. \A d \in 1 .. k : \A i \in DOMAIN sc[d].ups : d > 1
    BY <1>1 DEF Linked, Leads
  <2>2. \A d \in 1 .. k : d > 1 => d - 1 \in 1 .. k
    BY <1>2
  <2>3. QED
    BY <1>4, <2>1, <2>2
<1>8. QED
  BY <1>1, <1>3, <1>4, <1>6, <1>7 DEF Linked

LEMMA LinksOfEnter ==
  ASSUME NEW sc \in Seq(ScopeType), Len(sc) >= 1, Linked(sc), NEW r, NEW t, NEW b, Enters(r, sc, t, b)
  PROVE  Linked(r)
<1>1. PICK k : k = Len(sc)
  OBVIOUS
<1>2. k \in Nat /\ k >= 1 /\ Len(r) = k + 1 /\ (\A d \in 1 .. k : r[d] = sc[d]) /\ r[k + 1].ups = <<>>
      /\ \A j \in SlotNo : r[k + 1].env[j] = NOENV
  BY <1>1, LenProperties DEF Enters
<1>3. ASSUME NEW d \in 1 .. k + 1
      PROVE  /\ \A i \in SlotNo : r[d].env[i] \in SlotNo \cup {NOENV}
             /\ \A i, j \in DOMAIN r[d].ups : r[d].ups[i] = r[d].ups[j] => i = j
             /\ \A i \in DOMAIN r[d].ups : Leads(r[d].ups[i], d, r[d - 1].ups)
  <2>1. CASE d = k + 1
    BY <1>2, <2>1
  <2>2. CASE d # k + 1
    <3>1. d \in 1 .. k /\ r[d] = sc[d] /\ (d > 1 => d - 1 \in 1 .. k)
      BY <1>2, <2>2
    <3>2. \A i \in DOMAIN sc[d].ups : d > 1
      BY <1>1, <3>1 DEF Linked, Leads
    <3>3. QED
      BY <1>1, <1>2, <3>1, <3>2 DEF Linked
  <2>3. QED
    BY <2>1, <2>2
<1>4. QED
  BY <1>2, <1>3 DEF Linked

LEMMA LinksBelow ==
  ASSUME NEW sc \in Seq(ScopeType), Len(sc) > 1, Linked(sc)
  PROVE  Linked(Below(sc))
<1>1. PICK b, k : b = Below(sc) /\ k = Len(sc)
  OBVIOUS
<1>2. k \in Nat /\ Len(b) = k - 1 /\ \A d \in 1 .. k - 1 : b[d] = sc[d]
  BY <1>1, LenProperties, BelowIs
<1>3. ASSUME NEW d \in 1 .. k - 1
      PROVE  /\ \A i \in SlotNo : b[d].env[i] \in SlotNo \cup {NOENV}
             /\ \A i, j \in DOMAIN b[d].ups : b[d].ups[i] = b[d].ups[j] => i = j
             /\ \A i \in DOMAIN b[d].ups : Leads(b[d].ups[i], d, b[d - 1].ups)
  <2>1. d \in 1 .. k /\ b[d] = sc[d] /\ (d > 1 => d - 1 \in 1 .. k - 1)
    BY <1>2
  <2>2. \A i \in DOMAIN sc[d].ups : d > 1
    BY <1>1, <2>1 DEF Linked, Leads
  <2>3. QED
    BY <1>1, <1>2, <2>1, <2>2 DEF Linked
<1>4. QED
  BY <1>1, <1>2, <1>3 DEF Linked

-----------------------------------------------------------------------------
(* The steps, by what they make of the scopes. *)

UseStep(t) ==
  /\ t.op = "use" /\ Proper(t) /\ Reads(t, prog') /\ Moved
  /\ Resolves(scopes', scopes, t.name) /\ Accessing(scopes, t.name)

LocalStep(t) ==
  /\ t.op = "local" /\ t.other = NONE /\ Proper(t) /\ Reads(t, prog') /\ Moved /\ Kept /\ access' = access
  /\ IF Analyzing THEN Adds(scopes', scopes, t.name) ELSE Declares(scopes', scopes, t.name)

LocalsStep(t) ==
  /\ t.op = "local" /\ t.other \in Names /\ Proper(t) /\ Reads(t, prog') /\ Moved /\ Kept
  /\ HeaderUses \/ t.read # t.name
  /\ IF Analyzing THEN access' = access ELSE Accessing(Declare(scopes, t.name), t.read)
  /\ \E x, y : TwoLocals(scopes', scopes, t.name, t.other, t.read, x, y)

LoopStep(t) ==
  /\ t.op = "for" /\ Proper(t) /\ Reads(t, prog') /\ Moved /\ Kept
  /\ HeaderUses \/ t.read # t.name
  /\ IF Analyzing \/ t.read = NONE THEN access' = access ELSE Accessing(Declare(scopes, t.name), t.read)
  /\ \E w, x, y, z :
       ThreeLocals(w, scopes, t.name, t.read, x, y, z) /\ w \in Seq(ScopeType) /\ Len(w) = Len(scopes)
       /\ Begins(scopes', w, scopes[Len(scopes)].active)

BlockStep(t) ==
  /\ t.op = "block" /\ Proper(t) /\ Reads(t, prog') /\ Moved /\ access' = access
  /\ Begins(scopes', scopes, scopes[Len(scopes)].active)

EnterStep(t) ==
  /\ t.op \in Openers /\ Proper(t) /\ Reads(t, prog') /\ Moved /\ access' = access
  /\ \E b \in BOOLEAN : Enters(scopes', scopes, t, b)

CloseStep(t) ==
  /\ t.op = "end" /\ Proper(t) /\ Reads(t, prog') /\ Moved /\ access' = access
  /\ Top(scopes).blocks # <<>>
  /\ \E base \in 0 .. Top(scopes).active : Closes(scopes', scopes, base)

\* The function around one that ends, b, takes it, as o says.
Takes(r, b, o) ==
  IF o.op = "localfunc" THEN IF Analyzing THEN Adds(r, b, o.name) ELSE Declares(r, b, o.name)
  ELSE IF o.op = "funcdef" THEN Resolves(r, b, o.name) ELSE r = b

LeaveStep(t) ==
  /\ t.op = "end" /\ Proper(t) /\ Reads(t, prog') /\ Moved /\ Len(scopes) > 1 /\ Top(scopes).blocks = <<>>
  /\ Proper(Top(scopes).opener) /\ Top(scopes).opener.op \in Openers
  /\ scopes[Len(scopes) - 1].pass = Top(scopes).pass
  /\ Takes(scopes', Below(scopes), Top(scopes).opener)
  /\ Analyzing => Kept
  /\ access' = IF ~Analyzing /\ Top(scopes).opener.op = "funcdef"
                 THEN [goes |-> Emitted(Resolve(Below(scopes), Top(scopes).opener.name), Top(scopes).opener.name),
                       should |-> Lexical(Below(scopes), Top(scopes).opener.name)]
                 ELSE access

StartStep ==
  /\ prog' = prog /\ access' = access /\ Starts(scopes', scopes) /\ ip' = scopes[Len(scopes)].start
  /\ Top(scopes).blocks = <<>> /\ ~Top(scopes).nested
  /\ \/ Len(scopes) = 1 /\ ip = Len(prog) + 1
     \/ Len(scopes) > 1 /\ ip <= Len(prog) /\ prog[ip].op = "end"

LEMMA UseStepIs ==
  ASSUME Shape, NEW n \in Names, UseVar(Tok("use", n, NONE, NONE))
  PROVE  \E t : UseStep(t)
<1>1. PICK t : t = Tok("use", n, NONE, NONE)
  OBVIOUS
<1>2. Proper(t) /\ t.op = "use"
  BY <1>1, TokensAre DEF Tok
<1>3. Types /\ At(t) /\ scopes' = Resolve(scopes, t.name) /\ Moved /\ Accessing(scopes, t.name)
  BY <1>1 DEF Shape, UseVar
<1>4. Reads(t, prog')
  BY <1>2, <1>3, TokenRead
<1>5. Resolves(scopes', scopes, t.name)
  BY <1>3, ScopesAre, ResolveIs
<1>6. QED
  BY <1>2, <1>3, <1>4, <1>5 DEF UseStep

LEMMA LocalStepIs ==
  ASSUME Shape, NEW n \in Names, LocalOne(Tok("local", n, NONE, NONE))
  PROVE  \E t : LocalStep(t)
<1>1. PICK t : t = Tok("local", n, NONE, NONE)
  OBVIOUS
<1>2. Proper(t) /\ t.op = "local" /\ Declared(t) = <<n>> /\ t.name = n /\ t.other = NONE
  BY <1>1, TokensAre DEF Tok, Declared
<1>3. /\ Types /\ Laid /\ Matches /\ At(t) /\ Moved /\ Kept /\ access' = access
      /\ scopes' = IF Analyzing THEN scope_add_local(scopes, n) ELSE Declare(scopes, n)
  BY <1>1, <1>2 DEF Shape, LocalOne
<1>4. Reads(t, prog')
  BY <1>2, <1>3, TokenRead
<1>5. Len(Declared(t)) = 1 /\ t.op \in {"use", "local", "for", "block"}
  BY <1>2
<1>6. scopes[Len(scopes)].active < MaxSlots
  <2>1. scopes[Len(scopes)].active + Len(Declared(t)) <= MaxSlots
    BY <1>2, <1>3, <1>4, <1>5, Room
  <2>2. scopes[Len(scopes)].active \in Nat /\ MaxSlots \in Nat
    BY <1>3, ScopesAre, SlotsAre
  <2>3. QED
    BY <1>5, <2>1, <2>2
<1>7. Adds(scope_add_local(scopes, n), scopes, n) /\ Declares(Declare(scopes, n), scopes, n)
  BY <1>3, <1>6, ScopesAre, AddLocalIs, DeclareIs
<1>8. IF Analyzing THEN Adds(scopes', scopes, t.name) ELSE Declares(scopes', scopes, t.name)
  BY <1>2, <1>3, <1>7
<1>9. QED
  BY <1>2, <1>3, <1>4, <1>8 DEF LocalStep

LEMMA LocalsStepIs ==
  ASSUME Shape, NEW n \in Names, NEW o \in Names, NEW q \in Names, LocalTwo(Tok("local", n, o, q))
  PROVE  \E t : LocalsStep(t)
<1>1. PICK t : t = Tok("local", n, o, q)
  OBVIOUS
<1>2. o # NONE /\ q # NONE
  BY BoundAssumption
<1>3. Proper(t) /\ t.op = "local" /\ t.other = o
  BY <1>1, <1>2, TokensAre DEF Tok
<1>4. LocalTwoStep(t) /\ LocalTwo(t)
  BY <1>1, LocalTwoSteps DEF Shape
<1>5. /\ HeaderUses \/ t.read # t.name
      /\ IF Analyzing THEN access' = access ELSE Accessing(Declare(scopes, t.name), t.read)
      /\ Kept
  BY <1>4 DEF LocalTwo
<1>6. QED
  BY <1>3, <1>4, <1>5 DEF LocalTwoStep, LocalsStep

LEMMA LoopStepIs ==
  ASSUME Shape, NEW n \in Names, NEW q \in Names \cup {NONE}, BeginFor(Tok("for", n, NONE, q))
  PROVE  \E t : LoopStep(t)
<1>1. PICK t : t = Tok("for", n, NONE, q)
  OBVIOUS
<1>2. Proper(t) /\ t.op = "for"
  BY <1>1, TokensAre DEF Tok
<1>3. BeginForStep(t) /\ BeginFor(t)
  BY <1>1, BeginForSteps DEF Shape
<1>4. /\ HeaderUses \/ t.read # t.name
      /\ IF Analyzing \/ t.read = NONE THEN access' = access ELSE Accessing(Declare(scopes, t.name), t.read)
      /\ Kept
  BY <1>3 DEF BeginFor
<1>5. Reads(t, prog') /\ Moved
  BY <1>3 DEF BeginForStep
<1>6. PICK w, x, y, z : /\ Extended(w, scopes, 3) /\ ThreeLocals(w, scopes, t.name, t.read, x, y, z)
                        /\ Begins(scopes', w, scopes[Len(scopes)].active)
  BY <1>3 DEF BeginForStep
<1>7. w \in Seq(ScopeType) /\ Len(w) = Len(scopes)
  BY <1>6 DEF Extended
<1>8. QED
  BY <1>2, <1>4, <1>5, <1>6, <1>7 DEF LoopStep

LEMMA BlockStepIs ==
  ASSUME Shape, BeginBlock(Tok("block", NONE, NONE, NONE))
  PROVE  \E t : BlockStep(t)
<1>1. PICK t : t = Tok("block", NONE, NONE, NONE)
  OBVIOUS
<1>2. Proper(t) /\ t.op = "block"
  BY <1>1, TokensAre, BoundAssumption DEF Proper, Token, Tok
<1>3. Types /\ At(t) /\ Begins(scopes', scopes, Top(scopes).active) /\ Moved /\ access' = access
  BY <1>1 DEF Shape, BeginBlock, Begins
<1>4. Reads(t, prog')
  BY <1>2, <1>3, TokenRead
<1>5. Top(scopes).active = scopes[Len(scopes)].active
  BY DEF Top
<1>6. QED
  BY <1>2, <1>3, <1>4, <1>5 DEF BlockStep

LEMMA EnterStepIs ==
  ASSUME Shape, NEW op \in Openers, NEW n \in Names \cup {NONE}, op # "lambda" => n \in Names,
         BeginFunction(Tok(op, n, NONE, NONE))
  PROVE  \E t : EnterStep(t)
<1>1. PICK t : t = Tok(op, n, NONE, NONE)
  OBVIOUS
<1>2. Proper(t) /\ t.op \in Openers
  <2>1. CASE op = "lambda"
    BY <1>1, <2>1, BoundAssumption DEF Proper, Token, Tok, Openers
  <2>2. CASE op # "lambda"
    BY <1>1, <2>2, BoundAssumption DEF Proper, Token, Tok, Openers
  <2>3. QED
    BY <2>1, <2>2
<1>3. At(t) /\ Moved /\ scopes' = Enter(scopes, t, Analyzing) /\ Types /\ access' = access
  BY <1>1 DEF BeginFunction, Shape
<1>4. Reads(t, prog') /\ ip \in Nat
  BY <1>2, <1>3, TokenRead DEF Reads
<1>5. PICK b \in BOOLEAN : b = Analyzing
  BY DEF Analyzing
<1>6. Enters(scopes', scopes, t, b)
  BY <1>2, <1>3, <1>4, <1>5, ScopesAre, EnterIs
<1>7. QED
  BY <1>2, <1>3, <1>4, <1>6 DEF EnterStep

LEMMA CloseStepIs ==
  ASSUME Shape, EndBlock(Tok("end", NONE, NONE, NONE))
  PROVE  \E t : CloseStep(t)
<1>1. PICK t : t = Tok("end", NONE, NONE, NONE)
  OBVIOUS
<1>2. Proper(t) /\ t.op = "end"
  BY <1>1, EndIs
<1>3. EndBlock(t) /\ At(t) /\ Moved /\ Top(scopes).blocks # <<>> /\ access' = access
  BY <1>1 DEF EndBlock
<1>4. Types /\ Laid /\ Matches
  BY DEF Shape
<1>5. Reads(t, prog')
  BY <1>2, <1>3, <1>4, TokenRead
<1>6. PICK base : base = Top(scopes).blocks[Len(Top(scopes).blocks)]
  OBVIOUS
<1>7. Closes(scopes', scopes, base) /\ base \in 0 .. Top(scopes).active
  BY <1>3, <1>4, <1>6, EndBlockCloses
<1>8. QED
  BY <1>2, <1>3, <1>5, <1>7 DEF CloseStep

(* The function at the top and the one around it are in the same pass, when *)
(* the top one ends without a second pass to come.                         *)
LEMMA SamePass ==
  ASSUME Types, Passes, Len(scopes) > 1, Top(scopes).nested \/ ~Analyzing
  PROVE  scopes[Len(scopes) - 1].pass = Top(scopes).pass /\ (Top(scopes).nested => Analyzing)
<1>1. PICK k : k = Len(scopes)
  OBVIOUS
<1>2. k \in Nat /\ k > 1 /\ k - 1 \in 1 .. k /\ k \in 2 .. k /\ k \in 1 .. k /\ k - 1 < k /\ Top(scopes) = scopes[k]
  BY <1>1, ScopesAre
<1>3. scopes[k].nested => scopes[k - 1].pass = "analyze"
  BY <1>1, <1>2 DEF Passes
<1>4. scopes[k - 1].pass = "analyze" => scopes[k].pass = "analyze"
  BY <1>1, <1>2 DEF Passes
<1>5. scopes[k - 1].pass \in {"analyze", "compile"} /\ scopes[k].pass \in {"analyze", "compile"}
  BY <1>1, <1>2, ScopesAre, ElementOfSeq, ScopeTyped
<1>6. QED
  BY <1>1, <1>2, <1>3, <1>4, <1>5 DEF Analyzing

LEMMA LeaveStepIs ==
  ASSUME Shape, EndNested(Tok("end", NONE, NONE, NONE)) \/ EndFunction(Tok("end", NONE, NONE, NONE))
  PROVE  \E t : LeaveStep(t)
<1>1. PICK t : t = Tok("end", NONE, NONE, NONE)
  OBVIOUS
<1>2. PICK b, o : b = Below(scopes) /\ o = Top(scopes).opener
  OBVIOUS
<1>3. Proper(t) /\ t.op = "end"
  BY <1>1, EndIs
<1>4. Ends(t)
  BY <1>1, EndsAre
<1>5. Len(scopes) > 1 /\ Top(scopes).blocks = <<>> /\ At(t) /\ Moved
  BY <1>4 DEF Ends
<1>6. Types /\ Laid /\ Matches /\ Passes
  BY DEF Shape
<1>7. Reads(t, prog')
  BY <1>3, <1>5, <1>6, TokenRead
<1>8. Proper(o) /\ o.op \in Openers /\ scopes[Len(scopes) - 1].active + Leaving(o) <= MaxSlots /\ scopes[Len(scopes) - 1].active \in Nat
  BY <1>2, <1>3, <1>5, <1>6, <1>7, RoomBelow
<1>9. /\ b \in Seq(ScopeType) /\ Len(b) >= 1 /\ b[Len(b)] = scopes[Len(scopes) - 1]
  <2>1. scopes \in Seq(ScopeType) /\ Len(scopes) \in Nat
    BY <1>6, ScopesAre
  <2>2. b \in Seq(ScopeType) /\ Len(b) = Len(scopes) - 1 /\ \A d \in 1 .. Len(scopes) - 1 : b[d] = scopes[d]
    BY <1>2, <1>5, <2>1, BelowIs
  <2>3. Len(scopes) - 1 \in 1 .. Len(scopes) - 1
    BY <1>5, <2>1
  <2>4. QED
    BY <1>5, <2>1, <2>2, <2>3
<1>10. EndNested(t) => Top(scopes).nested
  BY DEF EndNested
<1>11. EndFunction(t) => ~Analyzing
  BY DEF EndFunction
<1>12. scopes[Len(scopes) - 1].pass = Top(scopes).pass /\ (EndNested(t) => Analyzing)
  BY <1>1, <1>5, <1>6, <1>10, <1>11, SamePass
<1>13. EndNested(t) => scopes' = StoredFirst(b, o) /\ Kept /\ access' = access
  BY <1>2, EndsAre DEF EndNested
<1>14. EndFunction(t) => /\ scopes' = StoredSecond(b, o)
                         /\ access' = IF o.op = "funcdef"
                                        THEN [goes |-> Emitted(Resolve(b, o.name), o.name), should |-> Lexical(b, o.name)]
                                        ELSE access
  BY <1>2, EndsAre DEF EndFunction
<1>15. Takes(scopes', b, o)
  <2>1. CASE o.op = "localfunc"
    <3>1. o.name \in Names \cup {HIDDEN} /\ Leaving(o) = 1
      BY <1>8, <2>1 DEF Proper, Leaving
    <3>2. b[Len(b)].active < MaxSlots
      BY <1>8, <1>9, <3>1, SlotsAre
    <3>3. Adds(scope_add_local(b, o.name), b, o.name) /\ Declares(Declare(b, o.name), b, o.name)
      BY <1>9, <3>1, <3>2, AddLocalIs, DeclareIs
    <3>4. CASE EndNested(t)
      BY <1>12, <1>13, <2>1, <3>3, <3>4, StoreCases DEF Takes
    <3>5. CASE EndFunction(t)
      BY <1>11, <1>14, <2>1, <3>3, <3>5, StoreCases DEF Takes
    <3>6. QED
      BY <1>1, <3>4, <3>5
  <2>2. CASE o.op = "funcdef"
    <3>1. scopes' = Resolve(b, o.name)
      BY <1>1, <1>13, <1>14, <2>2, StoreCases
    <3>2. QED
      BY <1>9, <2>2, <3>1, ResolveIs DEF Takes
  <2>3. CASE o.op \notin {"localfunc", "funcdef"}
    <3>1. scopes' = b
      BY <1>1, <1>13, <1>14, <2>3, StoreCases
    <3>2. QED
      BY <2>3, <3>1 DEF Takes
  <2>4. QED
    BY <2>1, <2>2, <2>3
<1>16. Analyzing => Kept
  BY <1>1, <1>11, <1>13
<1>17. access' = IF ~Analyzing /\ o.op = "funcdef"
                   THEN [goes |-> Emitted(Resolve(b, o.name), o.name), should |-> Lexical(b, o.name)]
                   ELSE access
  BY <1>1, <1>11, <1>12, <1>13, <1>14
<1>18. QED
  BY <1>2, <1>3, <1>5, <1>7, <1>8, <1>12, <1>15, <1>16, <1>17 DEF LeaveStep

LEMMA StartStepIs ==
  ASSUME Shape, EndAnalysis(Tok("end", NONE, NONE, NONE)) \/ EndOfProgram
  PROVE  StartStep
<1>1. Types /\ Passes
  BY DEF Shape
<1>2. Top(scopes) = scopes[Len(scopes)]
  BY DEF Top
<1>3. ASSUME NEW t, t = Tok("end", NONE, NONE, NONE), EndAnalysis(t) PROVE StartStep
  <2>1. Proper(t) /\ t.op = "end"
    BY <1>3, EndIs
  <2>2. ip <= Len(prog) /\ prog' = prog /\ prog[ip] = t /\ Starts(scopes', scopes) /\ ip' = Top(scopes).start
    BY <1>1, <1>3, <2>1, EndAnalysisIs
  <2>3. Len(scopes) > 1 /\ Top(scopes).blocks = <<>> /\ ~Top(scopes).nested /\ access' = access
    BY <1>3 DEF EndAnalysis
  <2>4. QED
    BY <1>2, <2>1, <2>2, <2>3 DEF StartStep
<1>4. CASE EndOfProgram
  <2>1. access' = access
    BY <1>4 DEF EndOfProgram
  <2>2. QED
    BY <1>1, <1>2, <1>4, <2>1, EndOfProgramIs DEF StartStep
<1>5. QED
  BY <1>3, <1>4

Step(t) ==
  \/ UseStep(t) \/ LocalStep(t) \/ LocalsStep(t) \/ LoopStep(t) \/ BlockStep(t) \/ EnterStep(t) \/ CloseStep(t) \/ LeaveStep(t)

LEMMA StepIs == Shape /\ Next => StartStep \/ \E t : Step(t)
<1> SUFFICES ASSUME Shape, Next PROVE StartStep \/ \E t : Step(t)
  OBVIOUS
<1>1. ASSUME NEW n \in Names, UseVar(Tok("use", n, NONE, NONE)) PROVE \E t : Step(t)
  BY <1>1, UseStepIs DEF Step
<1>2. ASSUME NEW n \in Names, LocalOne(Tok("local", n, NONE, NONE)) PROVE \E t : Step(t)
  BY <1>2, LocalStepIs DEF Step
<1>3. ASSUME NEW n \in Names, NEW op \in {"lambda", "localfunc", "funcdef"}, BeginFunction(Tok(op, n, NONE, NONE))
      PROVE  \E t : Step(t)
  BY <1>3, EnterStepIs DEF Openers, Step
<1>4. ASSUME NEW n \in Names, NEW r \in Names \cup {NONE}, BeginFor(Tok("for", n, NONE, r)) PROVE \E t : Step(t)
  BY <1>4, LoopStepIs DEF Step
<1>5. ASSUME NEW n \in Names, NEW m \in Names \ {n}, NEW r \in Names, LocalTwo(Tok("local", n, m, r)) PROVE \E t : Step(t)
  BY <1>5, LocalsStepIs DEF Step
<1>6. CASE BeginFunction(Tok("lambda", NONE, NONE, NONE))
  BY <1>6, EnterStepIs DEF Openers, Step
<1>7. CASE BeginBlock(Tok("block", NONE, NONE, NONE))
  BY <1>7, BlockStepIs DEF Step
<1>8. CASE End(Tok("end", NONE, NONE, NONE))
  BY <1>8, CloseStepIs, LeaveStepIs, StartStepIs DEF End, Step
<1>9. CASE EndOfProgram
  BY <1>9, StartStepIs
<1>10. QED
  BY <1>1, <1>2, <1>3, <1>4, <1>5, <1>6, <1>7, <1>8, <1>9 DEF Next

(* The upvalues of every function lead somewhere. *)
Upvalues == Linked(scopes)

LEMMA LinkedNext ==
  ASSUME Shape, Upvalues, [Next]_vars
  PROVE  Upvalues'
<1>1. scopes \in Seq(ScopeType) /\ Len(scopes) >= 1 /\ Linked(scopes)
  BY ScopesAre DEF Shape, Upvalues
<1>2. PICK r : r = scopes'
  OBVIOUS
<1>3. SUFFICES Linked(r)
  BY <1>2 DEF Upvalues, Linked, Leads
<1>4. CASE UNCHANGED vars
  BY <1>1, <1>2, <1>4 DEF vars
<1>5. CASE StartStep
  BY <1>1, <1>2, <1>5, LinksOfStart DEF StartStep
<1>6. ASSUME NEW t, UseStep(t) PROVE Linked(r)
  BY <1>1, <1>2, <1>6, LinkedResolve DEF UseStep
<1>7. ASSUME NEW t, LocalStep(t) PROVE Linked(r)
  <2>1. Adds(r, scopes, t.name) \/ Declares(r, scopes, t.name)
    BY <1>2, <1>7 DEF LocalStep
  <2>2. QED
    BY <1>1, <2>1, LinksKept
<1>8. ASSUME NEW t, LocalsStep(t) PROVE Linked(r)
  <2>1. PICK x, y : TwoLocals(r, scopes, t.name, t.other, t.read, x, y)
    BY <1>2, <1>8 DEF LocalsStep
  <2>2. CASE Analyzing
    <3>1. Resolves(x, scopes, t.read) /\ Adds(y, x, t.name) /\ Adds(r, y, t.other)
      BY <2>1, <2>2 DEF TwoLocals
    <3>2. Linked(x) /\ x \in Seq(ScopeType) /\ Len(x) = Len(scopes)
      BY <1>1, <3>1, LinkedResolve DEF Resolves
    <3>3. Linked(y) /\ y \in Seq(ScopeType) /\ Len(y) = Len(x)
      BY <1>1, <3>1, <3>2, LinksKept DEF Adds
    <3>4. QED
      BY <1>1, <3>1, <3>2, <3>3, LinksKept
  <2>3. CASE ~Analyzing
    <3>1. Declares(x, scopes, t.name) /\ Resolves(y, x, t.read) /\ Declares(r, y, t.other)
      BY <2>1, <2>3 DEF TwoLocals
    <3>2. Linked(x) /\ x \in Seq(ScopeType) /\ Len(x) = Len(scopes)
      BY <1>1, <3>1, LinksKept DEF Declares
    <3>3. Linked(y) /\ y \in Seq(ScopeType) /\ Len(y) = Len(x)
      BY <1>1, <3>1, <3>2, LinkedResolve DEF Resolves
    <3>4. QED
      BY <1>1, <3>1, <3>2, <3>3, LinksKept
  <2>4. QED
    BY <2>2, <2>3
<1>9. ASSUME NEW t, LoopStep(t) PROVE Linked(r)
  <2>1. PICK w, x, y, z : /\ ThreeLocals(w, scopes, t.name, t.read, x, y, z) /\ w \in Seq(ScopeType) /\ Len(w) = Len(scopes)
                          /\ Begins(r, w, scopes[Len(scopes)].active)
    BY <1>2, <1>9 DEF LoopStep
  <2>2. Linked(w)
    <3>1. CASE Analyzing
      <4>1. ReadsAs(x, scopes, t.read) /\ Adds(y, x, t.name) /\ Adds(z, y, HIDDEN) /\ Adds(w, z, HIDDEN)
        BY <2>1, <3>1 DEF ThreeLocals
      <4>2. Linked(x) /\ x \in Seq(ScopeType) /\ Len(x) = Len(scopes)
        BY <1>1, <4>1, LinksKept DEF ReadsAs, Resolves
      <4>3. Linked(y) /\ y \in Seq(ScopeType) /\ Len(y) = Len(x)
        BY <1>1, <4>1, <4>2, LinksKept DEF Adds
      <4>4. Linked(z) /\ z \in Seq(ScopeType) /\ Len(z) = Len(y)
        BY <1>1, <4>1, <4>2, <4>3, LinksKept DEF Adds
      <4>5. QED
        BY <1>1, <4>1, <4>2, <4>3, <4>4, LinksKept
    <3>2. CASE ~Analyzing
      <4>1. Declares(x, scopes, t.name) /\ ReadsAs(y, x, t.read) /\ Declares(z, y, HIDDEN) /\ Declares(w, z, HIDDEN)
        BY <2>1, <3>2 DEF ThreeLocals
      <4>2. Linked(x) /\ x \in Seq(ScopeType) /\ Len(x) = Len(scopes)
        BY <1>1, <4>1, LinksKept DEF Declares
      <4>3. Linked(y) /\ y \in Seq(ScopeType) /\ Len(y) = Len(x)
        BY <1>1, <4>1, <4>2, LinksKept DEF ReadsAs, Resolves
      <4>4. Linked(z) /\ z \in Seq(ScopeType) /\ Len(z) = Len(y)
        BY <1>1, <4>1, <4>2, <4>3, LinksKept DEF Declares
      <4>5. QED
        BY <1>1, <4>1, <4>2, <4>3, <4>4, LinksKept
    <3>3. QED
      BY <3>1, <3>2
  <2>3. scopes[Len(scopes)].active \in Nat
    BY ScopesAre DEF Shape
  <2>4. QED
    BY <1>1, <2>1, <2>2, <2>3, LinksOfBlocks
<1>10. ASSUME NEW t, BlockStep(t) PROVE Linked(r)
  <2>1. scopes[Len(scopes)].active \in Nat
    BY ScopesAre DEF Shape
  <2>2. QED
    BY <1>1, <1>2, <1>10, <2>1, LinksOfBlocks DEF BlockStep
<1>11. ASSUME NEW t, EnterStep(t) PROVE Linked(r)
  BY <1>1, <1>2, <1>11, LinksOfEnter DEF EnterStep
<1>12. ASSUME NEW t, CloseStep(t) PROVE Linked(r)
  BY <1>1, <1>2, <1>12, LinksOfBlocks DEF CloseStep
<1>13. ASSUME NEW t, LeaveStep(t) PROVE Linked(r)
  <2>1. PICK b, o : b = Below(scopes) /\ o = Top(scopes).opener
    OBVIOUS
  <2>2. Len(scopes) > 1 /\ Takes(r, b, o)
    BY <1>2, <1>13, <2>1 DEF LeaveStep
  <2>3. Linked(b) /\ b \in Seq(ScopeType) /\ Len(b) >= 1
    BY <1>1, <2>1, <2>2, LinksBelow, BelowIs
  <2>4. Adds(r, b, o.name) \/ Declares(r, b, o.name) \/ Resolves(r, b, o.name) \/ r = b
    BY <2>2 DEF Takes
  <2>5. QED
    BY <2>3, <2>4, LinksKept, LinkedResolve
<1>14. QED
  BY <1>4, <1>5, <1>6, <1>7, <1>8, <1>9, <1>10, <1>11, <1>12, <1>13, StepIs DEF Step

LEMMA LinkedInit == Init => Upvalues
<1> SUFFICES ASSUME Init PROVE Upvalues
  OBVIOUS
<1>1. Len(scopes) = 1 /\ scopes[1] = NewScope(MAIN, 1, FALSE)
  BY DEF Init
<1>2. \A i \in SlotNo : scopes[1].env[i] = NOENV
  BY <1>1 DEF NewScope
<1>3. scopes[1].ups = <<>>
  BY <1>1 DEF NewScope
<1>4. \A d \in 1 .. Len(scopes) : d = 1
  BY <1>1
<1>5. QED
  BY <1>2, <1>3, <1>4 DEF Upvalues, Linked

-----------------------------------------------------------------------------
(* What the analysis finds. *)

LEMMA AllCompiling ==
  ASSUME Types, Passes
  PROVE  /\ ~Analyzing => \A d \in 1 .. Len(scopes) : scopes[d].pass = "compile"
         /\ (\E d \in 1 .. Len(scopes) : scopes[d].pass = "compile") => ~Writing
<1>1. scopes \in Seq(ScopeType) /\ Len(scopes) >= 1 /\ Len(scopes) \in Nat /\ Top(scopes) = scopes[Len(scopes)]
  BY ScopesAre
<1>2. ASSUME NEW d \in 1 .. Len(scopes) PROVE scopes[d].pass \in {"analyze", "compile"}
  BY <1>1, ElementOfSeq, ScopeTyped
<1>3. ASSUME NEW d \in 1 .. Len(scopes), scopes[d].pass = "analyze"
      PROVE  \A e \in 1 .. Len(scopes) : d <= e => scopes[e].pass = "analyze"
  <2> TAKE e \in 1 .. Len(scopes)
  <2>1. CASE d = e
    BY <1>3, <2>1
  <2>2. CASE d # e
    BY <1>1, <1>3, <2>2 DEF Passes
  <2>3. QED
    BY <2>1, <2>2
<1>4. 1 \in 1 .. Len(scopes) /\ Len(scopes) \in 1 .. Len(scopes) /\ \A d \in 1 .. Len(scopes) : 1 <= d /\ d <= Len(scopes)
  BY <1>1
<1>5. QED
  BY <1>1, <1>2, <1>3, <1>4 DEF Analyzing, Writing

\* r is sc with more captures, and perhaps other names in its top.
Wider(r, sc) ==
  /\ r \in Seq(ScopeType) /\ Len(r) = Len(sc)
  /\ \A d \in 1 .. Len(sc) :
       /\ r[d].pass = sc[d].pass /\ r[d].start = sc[d].start /\ sc[d].captured \subseteq r[d].captured
       /\ d # Len(sc) => r[d].names = sc[d].names

WiderStill(r, sc) == Wider(r, sc) /\ r[Len(sc)].names = sc[Len(sc)].names

LEMMA WiderSteps ==
  ASSUME NEW sc \in Seq(ScopeType), Len(sc) >= 1, NEW r, NEW n
  PROVE  /\ Resolves(r, sc, n) => WiderStill(r, sc)
         /\ ReadsAs(r, sc, n) => WiderStill(r, sc)
         /\ Adds(r, sc, n) => Wider(r, sc)
         /\ Declares(r, sc, n) => WiderStill(r, sc)
<1>1. Len(sc) \in 1 .. Len(sc)
  BY LenProperties
<1>2. ASSUME Resolves(r, sc, n) PROVE WiderStill(r, sc)
  <2>1. r \in Seq(ScopeType) /\ Len(r) = Len(sc)
    BY <1>2 DEF Resolves
  <2>2. ASSUME NEW d \in 1 .. Len(sc)
        PROVE  /\ r[d].pass = sc[d].pass /\ r[d].start = sc[d].start /\ r[d].names = sc[d].names
               /\ sc[d].captured \subseteq r[d].captured
    <3>1. Alike(r[d], sc[d])
      BY <1>2 DEF Resolves
    <3>2. r[d].captured = IF IsUpvalue(sc, n) /\ d = OwnerOf(sc, n)
              THEN sc[d].captured \cup {resolve_local_scope(sc[d], n)} ELSE sc[d].captured
      BY <1>2 DEF Resolves
    <3>3. QED
      BY <3>1, <3>2 DEF Alike
  <2>3. QED
    BY <1>1, <2>1, <2>2 DEF Wider, WiderStill
<1>3. ASSUME Adds(r, sc, n) PROVE Wider(r, sc)
  BY <1>1, <1>3 DEF Adds, Kin, Wider
<1>4. ASSUME Declares(r, sc, n) PROVE WiderStill(r, sc)
  BY <1>1, <1>4 DEF Declares, Kin, Wider, WiderStill
<1>5. WiderStill(sc, sc)
  BY DEF Wider, WiderStill
<1>6. QED
  BY <1>2, <1>3, <1>4, <1>5 DEF ReadsAs

LEMMA WiderTwice ==
  ASSUME NEW sc, NEW x, NEW r
  PROVE  /\ Wider(x, sc) /\ Wider(r, x) => Wider(r, sc)
         /\ WiderStill(x, sc) /\ WiderStill(r, x) => WiderStill(r, sc)
BY DEF Wider, WiderStill

\* The names in sc are those of the layout m.
Named(sc, m) ==
  /\ sc \in Seq(ScopeType) /\ Len(sc) >= 1 /\ Len(sc) = Len(m)
  /\ \A d \in 1 .. Len(sc) :
       /\ sc[d].active = Len(m[d].locals)
       /\ \A j \in 1 .. Len(m[d].locals) : sc[d].names[j - 1] = m[d].locals[j]

(* A name means the same in the scopes as in the layout. *)
LEMMA NamesMean ==
  ASSUME NEW sc, NEW m, Named(sc, m), NEW n
  PROVE  /\ \A d \in 1 .. Len(sc) : resolve_local_scope(sc[d], n) = SlotIn(m[d], n)
         /\ OwnerOf(sc, n) = Around(m, n)
         /\ Captures(m, n) = IF IsUpvalue(sc, n) THEN {<<OwnerOf(sc, n), resolve_local_scope(sc[OwnerOf(sc, n)], n)>>} ELSE {}
<1>1. sc \in Seq(ScopeType) /\ Len(sc) >= 1 /\ Len(sc) = Len(m) /\ Len(sc) \in Nat
  BY LenProperties DEF Named
<1>2. ASSUME NEW d \in 1 .. Len(sc) PROVE resolve_local_scope(sc[d], n) = SlotIn(m[d], n)
  <2>1. PICK c : c = sc[d].active
    OBVIOUS
  <2>2. c = Len(m[d].locals) /\ \A j \in 1 .. c : sc[d].names[j - 1] = m[d].locals[j]
    BY <2>1 DEF Named
  <2>3. c \in Nat
    BY <1>1, <2>1, ElementOfSeq, ScopeTyped, SlotsAre
  <2>4. \A i \in 0 .. c - 1 : sc[d].names[i] = m[d].locals[i + 1]
    <3> TAKE i \in 0 .. c - 1
    <3>1. i + 1 \in 1 .. c /\ i + 1 - 1 = i
      BY <2>3
    <3>2. QED
      BY <2>2, <3>1
  <2>5. {i \in 0 .. c - 1 : sc[d].names[i] = n} = {i \in 0 .. c - 1 : m[d].locals[i + 1] = n}
    BY <2>4
  <2>6. QED
    BY <2>1, <2>2, <2>5 DEF resolve_local_scope, SlotIn
<1>3. OwnerOf(sc, n) = Around(m, n)
  <2>1. {d \in 1 .. Len(sc) - 1 : resolve_local_scope(sc[d], n) # -1} = {d \in 1 .. Len(m) - 1 : SlotIn(m[d], n) # -1}
    BY <1>1, <1>2
  <2>2. QED
    BY <2>1 DEF OwnerOf, Around
<1>4. PICK o : o = OwnerOf(sc, n)
  OBVIOUS
<1>5. resolve_local_scope(Top(sc), n) = SlotIn(Top(m), n)
  BY <1>1, <1>2 DEF Top
<1>6. o = -1 \/ o \in 1 .. Len(sc)
  BY <1>1, <1>4, OwnerFound
<1>7. CASE IsUpvalue(sc, n)
  <2>1. SlotIn(Top(m), n) = -1 /\ o # -1
    BY <1>4, <1>5, <1>7 DEF IsUpvalue, IsLocal
  <2>2. resolve_local_scope(sc[o], n) = SlotIn(m[o], n)
    BY <1>2, <1>6, <2>1
  <2>3. QED
    BY <1>2, <1>3, <1>4, <1>7, <2>1, <2>2 DEF Captures
<1>8. CASE ~IsUpvalue(sc, n)
  <2>1. SlotIn(Top(m), n) # -1 \/ Around(m, n) = -1
    BY <1>3, <1>5, <1>8 DEF IsUpvalue, IsLocal
  <2>2. QED
    BY <1>2, <1>3, <1>8, <2>1 DEF Captures
<1>9. QED
  BY <1>7, <1>8

(* Resolving a name captures what the layout says it captures. *)
LEMMA ResolveCaptures ==
  ASSUME NEW sc, NEW m, Named(sc, m), NEW n, NEW r, Resolves(r, sc, n), NEW c \in Captures(m, n)
  PROVE  c[1] \in 1 .. Len(sc) - 1 /\ c[2] \in r[c[1]].captured
<1>1. sc \in Seq(ScopeType) /\ Len(sc) >= 1 /\ Len(sc) \in Nat
  BY LenProperties DEF Named
<1>2. PICK o : o = OwnerOf(sc, n)
  OBVIOUS
<1>3. IsUpvalue(sc, n) /\ c = <<o, resolve_local_scope(sc[o], n)>>
  BY <1>2, NamesMean
<1>4. o \in 1 .. Len(sc) - 1
  BY <1>1, <1>2, <1>3, OwnerFound DEF IsUpvalue
<1>5. r[o].captured = sc[o].captured \cup {resolve_local_scope(sc[o], n)}
  <2>1. o \in 1 .. Len(sc)
    BY <1>1, <1>4
  <2>2. r[o].captured = IF IsUpvalue(sc, n) /\ o = OwnerOf(sc, n)
            THEN sc[o].captured \cup {resolve_local_scope(sc[o], n)} ELSE sc[o].captured
    BY <2>1 DEF Resolves
  <2>3. QED
    BY <1>2, <1>3, <2>2
<1>6. QED
  BY <1>3, <1>4, <1>5

LEMMA NamedHere ==
  ASSUME Types, Laid, Matches, Analysed
  PROVE  Named(scopes, Lay[ip])
<1>1. Fits(scopes, Lay[ip]) /\ LayoutOK(Lay[ip], ip) /\ ip \in Nat /\ Len(scopes) >= 1
  BY ShapeFits
<1>2. ASSUME NEW d \in 1 .. Len(scopes)
      PROVE  /\ scopes[d].active = Len(Lay[ip][d].locals)
             /\ \A j \in 1 .. Len(Lay[ip][d].locals) : scopes[d].names[j - 1] = Lay[ip][d].locals[j]
  <2>1. PICK s \in ip .. Len(prog) + 1 : Spans(d, s)
    BY DEF Analysed
  <2>2. scopes[d].start = Lay[ip][d].start /\ Lay[ip][d].start \in 1 .. ip
    BY <1>1 DEF Fits, LayoutOK
  <2>3. ip \in scopes[d].start .. s
    <3>1. Len(prog) \in Nat
      BY LenProperties DEF Types
    <3>2. QED
      BY <1>1, <2>2, <3>1
  <2>4. \A j \in 1 .. Len(Lay[ip][d].locals) : scopes[d].names[j - 1] = Lay[ip][d].locals[j]
    BY <2>1, <2>3 DEF Spans
  <2>5. QED
    BY <1>1, <2>4 DEF Fits
<1>3. QED
  BY <1>1, <1>2 DEF Named, Fits

LEMMA NamedBelow ==
  ASSUME NEW sc, NEW m, Named(sc, m), Len(sc) > 1, m \in Seq(FrameType)
  PROVE  Named(Below(sc), Below(m))
<1>1. sc \in Seq(ScopeType) /\ Len(sc) >= 1 /\ Len(sc) = Len(m) /\ Len(sc) \in Nat
  BY LenProperties DEF Named
<1>2. Below(sc) \in Seq(ScopeType) /\ Len(Below(sc)) = Len(sc) - 1 /\ \A d \in 1 .. Len(sc) - 1 : Below(sc)[d] = sc[d]
  BY <1>1, BelowIs
<1>3. Len(Below(m)) = Len(sc) - 1 /\ \A d \in 1 .. Len(sc) - 1 : Below(m)[d] = m[d]
  BY <1>1, BelowIs
<1>4. \A d \in 1 .. Len(sc) - 1 : d \in 1 .. Len(sc)
  BY <1>1
<1>5. PICK b, l : b = Below(sc) /\ l = Below(m)
  OBVIOUS
<1>6. ASSUME NEW d \in 1 .. Len(b)
      PROVE  b[d].active = Len(l[d].locals) /\ \A j \in 1 .. Len(l[d].locals) : b[d].names[j - 1] = l[d].locals[j]
  <2>1. d \in 1 .. Len(sc) - 1 /\ d \in 1 .. Len(sc)
    BY <1>2, <1>4, <1>5
  <2>2. b[d] = sc[d] /\ l[d] = m[d]
    BY <1>2, <1>3, <1>5, <2>1
  <2>3. QED
    BY <2>1, <2>2 DEF Named
<1>7. b \in Seq(ScopeType) /\ Len(b) = Len(l) /\ Len(b) >= 1
  BY <1>1, <1>2, <1>3, <1>5
<1>8. QED
  BY <1>5, <1>6, <1>7 DEF Named

\* The top of the scopes ends with the token t.
Ending(t) == t.op = "end" /\ Top(scopes).blocks = <<>>

\* r, the scopes after the token t, keep what was found and have what t adds;
\* a is the layout after t.
Covers(r, t, a) ==
  /\ Len(r) <= Len(scopes) + 1 /\ (Ending(t) => Len(r) < Len(scopes))
  /\ \A d \in 1 .. Len(r) :
       /\ IF d <= Len(scopes)
            THEN /\ r[d].pass = scopes[d].pass /\ r[d].start = scopes[d].start
                 /\ scopes[d].captured \subseteq r[d].captured
                 /\ scopes[d].pass = "compile" => r[d].names = scopes[d].names
                 /\ scopes[d].pass = "analyze" =>
                      /\ \A i \in SlotNo : scopes[d].names[i] \in {NONE, r[d].names[i]}
                      /\ \A c \in CapturesAt(Lay[ip], t) : c[1] = d => c[2] \in r[d].captured
            ELSE r[d].pass = "analyze" /\ r[d].start = ip + 1
       /\ r[d].pass = "analyze" => \A j \in 1 .. Len(a[d].locals) : r[d].names[j - 1] = a[d].locals[j]

LEMMA AfterIs ==
  ASSUME Shape', NEW t, Reads(t, prog'), Moved, NEW a, a = After(Lay[ip], t, ip)
  PROVE  /\ Len(scopes') = Len(a) /\ Lay'[ip + 1] = a /\ ip' = ip + 1 /\ ip' \in 1 .. Len(prog') + 1
         /\ \A i \in 1 .. Len(prog) + 1 : Lay'[i] = Lay[i]
         /\ \A d \in 1 .. Len(a) : scopes'[d].active = Len(a[d].locals)
<1>1. ip' = ip + 1
  BY DEF Moved
<1>2. Lay'[ip + 1] = a /\ \A i \in 1 .. Len(prog) + 1 : Lay'[i] = Lay[i]
  BY DEF Reads, Lay
<1>3. ip' \in 1 .. Len(prog') + 1 /\ Len(scopes') = Len(Lay'[ip'])
      /\ \A d \in 1 .. Len(scopes') : scopes'[d].active = Len(Lay'[ip'][d].locals)
  BY DEF Shape, Types, Matches
<1>4. QED
  BY <1>1, <1>2, <1>3

LEMMA AnalysedForward ==
  ASSUME Shape, Shape', Analysed, NEW t, Reads(t, prog'), Moved, NEW a, a = After(Lay[ip], t, ip),
         Covers(scopes', t, a)
  PROVE  Analysed'
<1>1. PICK r, p : r = scopes' /\ p = prog'
  OBVIOUS
<1>2. Types /\ Laid /\ Matches /\ Passes
  BY DEF Shape
<1>3. /\ Len(r) = Len(a) /\ Lay'[ip + 1] = a /\ ip' = ip + 1 /\ (\A i \in 1 .. Len(prog) + 1 : Lay'[i] = Lay[i])
  BY <1>1, AfterIs
<1>4. /\ ip \in Nat /\ ip >= 1 /\ Len(prog) \in Nat /\ Len(p) \in Nat /\ ip <= Len(prog) + 1 /\ ip <= Len(p)
      /\ Len(scopes) \in Nat /\ Len(prog) <= Len(p) /\ Len(prog) <= MaxTokens /\ MaxTokens \in Nat
  BY <1>1, <1>2, ScopesAre, LenProperties, BoundAssumption DEF Types, Reads
<1>5. SUFFICES ASSUME NEW d \in 1 .. Len(r) PROVE \E s \in ip + 1 .. Len(p) + 1 : Spans(d, s)'
  BY <1>1, <1>3 DEF Analysed
<1>6. CASE d <= Len(scopes) /\ scopes[d].pass = "compile"
  <2>1. d \in 1 .. Len(scopes)
    BY <1>4, <1>6
  <2>2. PICK s \in ip .. Len(prog) + 1 : Spans(d, s)
    BY <2>1 DEF Analysed
  <2>3. ~Writing
    BY <1>2, <1>6, <2>1, AllCompiling
  <2>4. ip <= Len(prog) /\ p = prog
    BY <1>1, <1>4, <2>3 DEF Reads
  <2>5. /\ Len(Lay[s]) = d /\ Lay[s][d].blocks = <<>>
        /\ IF d = 1 THEN s = Len(prog) + 1 ELSE s <= Len(prog) /\ prog[s].op = "end"
    BY <1>6, <2>2 DEF Spans
  <2>6. s # ip
    <3> SUFFICES ASSUME s = ip PROVE FALSE
      OBVIOUS
    <3>1. d = Len(scopes)
      BY <1>2, <2>5 DEF Matches
    <3>2. d # 1
      BY <1>4, <2>4, <2>5
    <3>3. t.op = "end"
      BY <1>1, <2>4, <2>5, <3>2 DEF Reads
    <3>4. scopes[d].blocks = Lay[ip][d].blocks
      BY <1>2, <2>1 DEF Matches
    <3>5. Ending(t)
      BY <2>5, <3>1, <3>3, <3>4 DEF Ending, Top
    <3>6. Len(r) < Len(scopes)
      BY <1>1, <3>5 DEF Covers
    <3>7. QED
      BY <1>3, <1>4, <1>5, <3>1, <3>6
  <2>7. s \in ip + 1 .. Len(p) + 1 /\ s \in 1 .. Len(prog) + 1 /\ s \in Nat
    BY <1>4, <2>2, <2>4, <2>6
  <2>8. PICK f, g : f = scopes[d] /\ g = r[d]
    OBVIOUS
  <2>9. g.pass = "compile" /\ g.start = f.start /\ f.captured \subseteq g.captured /\ g.names = f.names
    BY <1>1, <1>6, <2>8 DEF Covers
  <2>10. f.start \in Nat /\ f.start >= 1
    <3>1. f.start = Lay[ip][d].start /\ LayoutOK(Lay[ip], ip) /\ Len(Lay[ip]) = Len(scopes)
      BY <1>2, <2>1, <2>8, ShapeFits DEF Fits
    <3>2. f.start \in 1 .. ip
      BY <2>1, <3>1 DEF LayoutOK
    <3>3. QED
      BY <3>2
  <2>11. \A i \in f.start .. s :
           d <= Len(Lay[i]) /\ \A j \in 1 .. Len(Lay[i][d].locals) : f.names[j - 1] = Lay[i][d].locals[j]
    BY <2>2, <2>8 DEF Spans
  <2>12. \A i \in f.start .. s - 1 : \A c \in CapturesAt(Lay[i], prog[i]) : c[1] = d => c[2] \in f.captured
    BY <2>2, <2>8 DEF Spans
  <2>13. \A i \in f.start .. s : i \in 1 .. Len(prog) + 1
    BY <1>4, <2>7, <2>10
  <2>14. \A i \in f.start .. s - 1 : i \in 1 .. Len(prog) + 1
    BY <1>4, <2>7, <2>10
  <2>15. Lay'[s] = Lay[s] /\ \A i \in f.start .. s : Lay'[i] = Lay[i]
    BY <1>3, <2>7, <2>13
  <2>16. \A i \in f.start .. s - 1 : Lay'[i] = Lay[i]
    BY <1>3, <2>14
  <2>17. Spans(d, s)'
    <3>1. /\ Len(Lay'[s]) = d /\ Lay'[s][d].blocks = <<>>
          /\ IF d = 1 THEN s = Len(p) + 1 ELSE s <= Len(p) /\ p[s].op = "end"
      BY <2>4, <2>5, <2>15
    <3>2. \A i \in g.start .. s :
            d <= Len(Lay'[i]) /\ \A j \in 1 .. Len(Lay'[i][d].locals) : g.names[j - 1] = Lay'[i][d].locals[j]
      BY <2>9, <2>11, <2>15
    <3>3. \A i \in g.start .. s - 1 : \A c \in CapturesAt(Lay'[i], p[i]) : c[1] = d => c[2] \in g.captured
      BY <2>4, <2>9, <2>12, <2>16
    <3>4. g.pass # "analyze"
      BY <2>9
    <3>5. g = scopes'[d]
      BY <1>1, <2>8
    <3> HIDE DEF Lay
    <3>6. QED
      BY <1>1, <3>1, <3>2, <3>3, <3>4, <3>5 DEF Spans
  <2>18. QED
    BY <2>7, <2>17
<1>7. CASE d <= Len(scopes) /\ scopes[d].pass = "analyze"
  <2>1. d \in 1 .. Len(scopes)
    BY <1>4, <1>7
  <2>2. PICK f, g : f = scopes[d] /\ g = r[d]
    OBVIOUS
  <2>3. Spans(d, ip)
    <3>1. PICK s \in ip .. Len(prog) + 1 : Spans(d, s)
      BY <2>1 DEF Analysed
    <3>2. s = ip
      BY <1>7, <3>1 DEF Spans
    <3>3. QED
      BY <3>1, <3>2
  <2>4. \A i \in f.start .. ip :
          d <= Len(Lay[i]) /\ \A j \in 1 .. Len(Lay[i][d].locals) : f.names[j - 1] = Lay[i][d].locals[j]
    BY <2>2, <2>3 DEF Spans
  <2>5. \A i \in f.start .. ip - 1 : \A c \in CapturesAt(Lay[i], prog[i]) : c[1] = d => c[2] \in f.captured
    BY <2>2, <2>3 DEF Spans
  <2>6. f.start \in Nat /\ f.start >= 1 /\ f.start <= ip
    <3>1. f.start = Lay[ip][d].start /\ LayoutOK(Lay[ip], ip) /\ Len(Lay[ip]) = Len(scopes)
      BY <1>2, <2>1, <2>2, ShapeFits DEF Fits
    <3>2. f.start \in 1 .. ip
      BY <2>1, <3>1 DEF LayoutOK
    <3>3. QED
      BY <3>2
  <2>7. /\ g.pass = "analyze" /\ g.start = f.start /\ f.captured \subseteq g.captured
        /\ \A i \in SlotNo : f.names[i] \in {NONE, g.names[i]}
        /\ \A c \in CapturesAt(Lay[ip], t) : c[1] = d => c[2] \in g.captured
        /\ \A j \in 1 .. Len(a[d].locals) : g.names[j - 1] = a[d].locals[j]
    BY <1>1, <1>7, <2>2 DEF Covers
  <2>8. ASSUME NEW i \in g.start .. ip + 1
        PROVE  d <= Len(Lay'[i]) /\ \A j \in 1 .. Len(Lay'[i][d].locals) : g.names[j - 1] = Lay'[i][d].locals[j]
    <3>1. CASE i = ip + 1
      BY <1>3, <1>5, <2>7, <3>1
    <3>2. CASE i # ip + 1
      <4>1. i \in f.start .. ip /\ i \in 1 .. Len(prog) + 1 /\ i \in Nat /\ i >= 1
        BY <1>4, <2>6, <2>7, <3>2
      <4>2. PICK l : l = Lay[i][d].locals
        OBVIOUS
      <4>3. d <= Len(Lay[i]) /\ \A j \in 1 .. Len(l) : f.names[j - 1] = l[j]
        BY <2>4, <4>1, <4>2
      <4>4. LayoutOK(Lay[i], i)
        BY <1>2, <4>1 DEF Laid
      <4>5. Lay[i] \in Seq(FrameType) /\ d \in 1 .. Len(Lay[i])
        <5>1. Lay[i] \in Seq(FrameType)
          BY <4>4 DEF LayoutOK
        <5>2. QED
          BY <4>3, <5>1, <2>1, LenProperties
      <4>6. l \in Seq(Names \cup {HIDDEN}) /\ Len(l) \in Nat /\ Len(l) <= 3 * i - 1
        BY <4>2, <4>4, <4>5, FrameTyped, ElementOfSeq DEF LayoutOK
      <4>7. ASSUME NEW j \in 1 .. Len(l) PROVE g.names[j - 1] = l[j]
        <5>1. l[j] # NONE
          BY <4>6, ElementOfSeq, BoundAssumption DEF HIDDEN, NONE
        <5>2. 3 * i - 1 <= MaxSlots /\ MaxSlots \in Nat
          BY <1>4, <4>1 DEF MaxSlots
        <5>3. j - 1 \in Nat /\ j - 1 <= MaxSlots
          BY <4>1, <4>6, <5>2
        <5>4. j - 1 \in SlotNo
          BY <5>3, SlotsAre
        <5>5. f.names[j - 1] \in {NONE, g.names[j - 1]} /\ f.names[j - 1] = l[j]
          BY <2>7, <4>3, <5>4
        <5>6. QED
          BY <5>1, <5>5
      <4>8. Lay'[i] = Lay[i]
        BY <1>3, <4>1
      <4>9. QED
        BY <4>2, <4>3, <4>7, <4>8
    <3>3. QED
      BY <3>1, <3>2
  <2>9. ASSUME NEW i \in g.start .. ip + 1 - 1, NEW c \in CapturesAt(Lay'[i], p[i]), c[1] = d
        PROVE  c[2] \in g.captured
    <3>1. i \in 1 .. Len(prog) + 1 /\ i \in f.start .. ip
      BY <1>4, <2>6, <2>7
    <3>2. Lay'[i] = Lay[i]
      BY <1>3, <3>1
    <3>3. CASE i = ip
      <4>1. p[i] = t
        BY <1>1, <3>3 DEF Reads
      <4>2. QED
        BY <2>7, <2>9, <3>2, <3>3, <4>1
    <3>4. CASE i # ip
      <4>1. i \in f.start .. ip - 1 /\ i \in 1 .. Len(prog)
        BY <1>4, <2>6, <3>1, <3>4
      <4>2. p[i] = prog[i]
        BY <1>1, <4>1 DEF Reads
      <4>3. QED
        BY <2>5, <2>7, <2>9, <3>2, <4>1, <4>2
    <3>5. QED
      BY <3>3, <3>4
  <2>10. PICK s : s = ip + 1
    OBVIOUS
  <2>11. Spans(d, s)'
    <3>1. g = scopes'[d] /\ g.pass = "analyze" /\ s = ip'
      BY <1>1, <1>3, <2>2, <2>7, <2>10
    <3>2. \A i \in g.start .. s :
            d <= Len(Lay'[i]) /\ \A j \in 1 .. Len(Lay'[i][d].locals) : g.names[j - 1] = Lay'[i][d].locals[j]
      BY <2>8, <2>10
    <3>3. \A i \in g.start .. s - 1 : \A c \in CapturesAt(Lay'[i], p[i]) : c[1] = d => c[2] \in g.captured
      <4>1. s - 1 = ip + 1 - 1
        BY <1>4, <2>10
      <4>2. QED
        BY <2>9, <4>1
    <3> HIDE DEF Lay
    <3>4. QED
      BY <1>1, <3>1, <3>2, <3>3 DEF Spans
  <2>12. s \in ip + 1 .. Len(p) + 1
    BY <1>4, <2>10
  <2>13. QED
    BY <2>11, <2>12
<1>8. CASE ~(d <= Len(scopes))
  <2>1. PICK g : g = r[d]
    OBVIOUS
  <2>2. g.pass = "analyze" /\ g.start = ip + 1 /\ \A j \in 1 .. Len(a[d].locals) : g.names[j - 1] = a[d].locals[j]
    BY <1>1, <1>8, <2>1 DEF Covers
  <2>3. \A i \in g.start .. ip + 1 : i = ip + 1
    BY <1>4, <2>2
  <2>4. \A i \in g.start .. ip + 1 :
          d <= Len(Lay'[i]) /\ \A j \in 1 .. Len(Lay'[i][d].locals) : g.names[j - 1] = Lay'[i][d].locals[j]
    BY <1>3, <1>5, <2>2, <2>3
  <2>5. g.start .. ip + 1 - 1 = {}
    BY <1>4, <2>2
  <2>6. PICK s : s = ip + 1 /\ s = ip' /\ g = scopes'[d]
    BY <1>1, <1>3, <2>1
  <2>7. Spans(d, s)'
    <3>1. \A i \in g.start .. s :
            d <= Len(Lay'[i]) /\ \A j \in 1 .. Len(Lay'[i][d].locals) : g.names[j - 1] = Lay'[i][d].locals[j]
      BY <2>4, <2>6
    <3>2. \A i \in g.start .. s - 1 : FALSE
      <4>1. s - 1 = ip + 1 - 1
        BY <1>4, <2>6
      <4>2. QED
        BY <2>5, <4>1
    <3> HIDE DEF Lay
    <3>3. QED
      BY <1>1, <2>2, <2>6, <3>1, <3>2 DEF Spans
  <2>8. s \in ip + 1 .. Len(p) + 1
    BY <1>4, <2>6
  <2>9. QED
    BY <2>7, <2>8
<1>9. QED
  <2>1. d <= Len(scopes) => d \in 1 .. Len(scopes)
    BY <1>4
  <2>2. d <= Len(scopes) => scopes[d].pass \in {"analyze", "compile"}
    BY <1>2, <2>1, ScopesAre, ElementOfSeq, ScopeTyped
  <2>3. QED
    BY <1>6, <1>7, <1>8, <2>2

\* What a step that stays in the top function has to do for Covers.
Widens(r, t) ==
  LET k == Len(scopes) IN
  /\ Wider(r, scopes)
  /\ scopes[k].pass = "compile" => r[k].names = scopes[k].names
  /\ scopes[k].pass = "analyze" =>
       /\ \A i \in SlotNo : scopes[k].names[i] \in {NONE, r[k].names[i]}
       /\ \A i \in 0 .. scopes[k].active - 1 : r[k].names[i] = scopes[k].names[i]
       /\ \A j \in 1 .. Len(Declared(t)) : r[k].names[scopes[k].active + j - 1] = Declared(t)[j]
       /\ \A c \in CapturesAt(Lay[ip], t) : c[1] \in 1 .. k => c[2] \in r[c[1]].captured

LEMMA WidensCovers ==
  ASSUME Types, Laid, Matches, Passes, Analysed, NEW t, Proper(t), t.op \in {"use", "local", "for", "block"},
         NEW r, Widens(r, t), NEW a, a = After(Lay[ip], t, ip)
  PROVE  Covers(r, t, a)
<1>1. PICK m, k : m = Lay[ip] /\ k = Len(scopes)
  OBVIOUS
<1>2. Fits(scopes, m) /\ LayoutOK(m, ip) /\ ip \in Nat /\ ip >= 1 /\ Named(scopes, m)
  BY <1>1, ShapeFits, NamedHere
<1>3. k \in Nat /\ k >= 1 /\ k = Len(m) /\ k \in 1 .. k /\ scopes \in Seq(ScopeType)
  BY <1>1, <1>2, ScopesAre DEF Fits
<1>4. Len(a) = k /\ (\A d \in 1 .. k : a[d] = IF d = k THEN Grown(m[k], t) ELSE m[d])
  BY <1>1, <1>2, <1>3, AfterGrowth
<1>5. m \in Seq(FrameType) /\ m[k] \in FrameType /\ FrameOK(m[k])
  BY <1>2, <1>3, LayoutPlaces, ElementOfSeq DEF Placed
<1>6. /\ Len(Grown(m[k], t).locals) = Len(m[k].locals) + Len(Declared(t))
      /\ \A j \in 1 .. Len(m[k].locals) : Grown(m[k], t).locals[j] = m[k].locals[j]
      /\ \A j \in 1 .. Len(Declared(t)) : Grown(m[k], t).locals[Len(m[k].locals) + j] = Declared(t)[j]
  BY <1>5, GrownIs
<1>7. Len(m[k].locals) \in Nat /\ Len(Declared(t)) \in Nat
  BY <1>5, FrameTyped, DeclaredIs
<1>8. Len(r) = k /\ ~Ending(t) /\ k <= k + 1
  BY <1>1, <1>3 DEF Widens, Wider, Ending
<1>9. ASSUME NEW d \in 1 .. k
      PROVE  /\ d <= k /\ r[d].pass = scopes[d].pass /\ r[d].start = scopes[d].start
             /\ scopes[d].captured \subseteq r[d].captured
             /\ d # k => r[d].names = scopes[d].names
             /\ scopes[d].pass = "analyze" => scopes[k].pass = "analyze"
  <2>1. d <= k /\ (d # k => d < k)
    BY <1>3
  <2>2. d # k /\ scopes[d].pass = "analyze" => scopes[k].pass = "analyze"
    BY <1>1, <1>3, <2>1 DEF Passes
  <2>3. QED
    BY <1>1, <2>1, <2>2 DEF Widens, Wider
<1>10. ASSUME NEW d \in 1 .. k, scopes[d].pass = "analyze"
       PROVE  /\ \A i \in SlotNo : scopes[d].names[i] \in {NONE, r[d].names[i]}
              /\ \A c \in CapturesAt(m, t) : c[1] = d => c[2] \in r[d].captured
              /\ \A j \in 1 .. Len(a[d].locals) : r[d].names[j - 1] = a[d].locals[j]
  <2>1. scopes[k].pass = "analyze"
    BY <1>9, <1>10
  <2>2. /\ \A i \in SlotNo : scopes[k].names[i] \in {NONE, r[k].names[i]}
        /\ \A i \in 0 .. scopes[k].active - 1 : r[k].names[i] = scopes[k].names[i]
        /\ \A j \in 1 .. Len(Declared(t)) : r[k].names[scopes[k].active + j - 1] = Declared(t)[j]
        /\ \A c \in CapturesAt(m, t) : c[1] \in 1 .. k => c[2] \in r[c[1]].captured
    BY <1>1, <2>1 DEF Widens
  <2>3. scopes[d].active = Len(m[d].locals) /\ \A j \in 1 .. Len(m[d].locals) : scopes[d].names[j - 1] = m[d].locals[j]
    BY <1>1, <1>2 DEF Named
  <2>4. CASE d = k
    <3>1. PICK x, y : x = Len(m[k].locals) /\ y = Len(Declared(t))
      OBVIOUS
    <3>2. x \in Nat /\ y \in Nat /\ scopes[k].active = x /\ Len(a[k].locals) = x + y /\ a[k] = Grown(m[k], t)
      BY <1>3, <1>4, <1>6, <1>7, <2>3, <2>4, <3>1
    <3>3. ASSUME NEW j \in 1 .. x + y PROVE r[k].names[j - 1] = a[k].locals[j]
      <4>1. CASE j <= x
        <5>1. j \in 1 .. x /\ j - 1 \in 0 .. x - 1
          BY <3>2, <4>1
        <5>2. r[k].names[j - 1] = scopes[k].names[j - 1] /\ scopes[k].names[j - 1] = m[k].locals[j] /\ a[k].locals[j] = m[k].locals[j]
          BY <1>6, <2>2, <2>3, <2>4, <3>1, <3>2, <5>1
        <5>3. QED
          BY <5>2
      <4>2. CASE ~(j <= x)
        <5>1. PICK i : i = j - x
          OBVIOUS
        <5>2. i \in 1 .. y /\ x + i = j /\ x + i - 1 = j - 1
          BY <3>2, <4>2, <5>1
        <5>3. r[k].names[x + i - 1] = Declared(t)[i] /\ a[k].locals[x + i] = Declared(t)[i]
          BY <1>6, <2>2, <3>1, <3>2, <5>2
        <5>4. QED
          BY <5>2, <5>3
      <4>3. QED
        BY <4>1, <4>2
    <3>4. QED
      BY <2>2, <2>4, <3>2, <3>3
  <2>5. CASE d # k
    <3>1. a[d] = m[d] /\ r[d].names = scopes[d].names
      BY <1>4, <1>9, <2>5
    <3>2. QED
      BY <2>2, <2>3, <3>1
  <2>6. QED
    BY <2>4, <2>5
<1>11. ASSUME NEW d \in 1 .. k, scopes[d].pass = "compile" PROVE r[d].names = scopes[d].names
  <2>1. scopes[k].pass = "compile" => r[k].names = scopes[k].names
    BY <1>1 DEF Widens
  <2>2. QED
    BY <1>9, <1>11, <2>1
<1>12. QED
  BY <1>1, <1>3, <1>8, <1>9, <1>10, <1>11 DEF Covers

LEMMA AddsNames ==
  ASSUME NEW sc \in Seq(ScopeType), Len(sc) >= 1, NEW r, NEW n, Adds(r, sc, n), NEW c, c = sc[Len(sc)].active
  PROVE  /\ c \in Nat /\ r[Len(r)].active = c + 1 /\ r[Len(r)].names[c] = n
         /\ \A i \in SlotNo : i # c => r[Len(r)].names[i] = sc[Len(sc)].names[i]
         /\ \A i \in 0 .. c - 1 : r[Len(r)].names[i] = sc[Len(sc)].names[i]
<1>1. PICK f, g : f = sc[Len(sc)] /\ g = r[Len(sc)]
  OBVIOUS
<1>2. f \in ScopeType
  BY <1>1, LenProperties, ElementOfSeq
<1>3. f.names \in [SlotNo -> Names \cup {NONE, HIDDEN}] /\ c \in SlotNo
  BY <1>1, <1>2, ScopeTyped
<1>4. Len(r) = Len(sc) /\ g.active = c + 1 /\ g.names = [f.names EXCEPT ![c] = n]
  BY <1>1 DEF Adds
<1>5. c \in Nat /\ c <= MaxSlots /\ MaxSlots \in Nat
  BY <1>3, SlotsAre
<1>6. \A i \in 0 .. c - 1 : i \in SlotNo /\ i # c
  BY <1>5, SlotsAre
<1>7. g.names[c] = n /\ \A i \in SlotNo : i # c => g.names[i] = f.names[i]
  BY <1>3, <1>4
<1>8. QED
  BY <1>1, <1>4, <1>5, <1>6, <1>7

LEMMA WiderBlocks ==
  ASSUME NEW sc \in Seq(ScopeType), Len(sc) >= 1, NEW r, NEW base
  PROVE  /\ base \in Nat /\ Begins(r, sc, base) => WiderStill(r, sc)
         /\ Closes(r, sc, base) => WiderStill(r, sc)
<1>1. Len(sc) \in 1 .. Len(sc)
  BY LenProperties
<1>2. ASSUME base \in Nat, Begins(r, sc, base) PROVE WiderStill(r, sc)
  <2>1. Begun(r, sc, base)
    BY <1>2, BeginsIs
  <2>2. PICK f, g : f = sc[Len(sc)] /\ g = [r[Len(sc)] EXCEPT !.blocks = f.blocks]
    OBVIOUS
  <2>3. /\ Kin(g, f) /\ r \in Seq(ScopeType) /\ Len(r) = Len(sc) /\ r[Len(sc)].names = f.names
        /\ \A d \in 1 .. Len(sc) : d # Len(sc) => r[d] = sc[d]
    BY <2>1, <2>2 DEF Begun
  <2>4. r[Len(sc)] \in ScopeType
    BY <1>1, <2>3, ElementOfSeq
  <2>5. r[Len(sc)].pass = g.pass /\ r[Len(sc)].start = g.start /\ r[Len(sc)].captured = g.captured
    BY <2>2, <2>4 DEF ScopeType
  <2>6. QED
    BY <2>2, <2>3, <2>5 DEF Kin, Wider, WiderStill
<1>3. ASSUME Closes(r, sc, base) PROVE WiderStill(r, sc)
  BY <1>3 DEF Closes, Wider, WiderStill
<1>4. QED
  BY <1>2, <1>3

LEMMA CapturesKept ==
  ASSUME NEW sc, NEW m, Named(sc, m), NEW n, NEW x, Resolves(x, sc, n), NEW r, Wider(r, x)
  PROVE  \A c \in Captures(m, n) : c[1] \in 1 .. Len(sc) => c[2] \in r[c[1]].captured
<1> TAKE c \in Captures(m, n)
<1> HAVE c[1] \in 1 .. Len(sc)
<1>1. c[2] \in x[c[1]].captured
  BY ResolveCaptures
<1>2. c[1] \in 1 .. Len(x)
  BY DEF Resolves
<1>3. QED
  BY <1>1, <1>2 DEF Wider

LEMMA KeptIs ==
  ASSUME ~Renames, Types, Kept, NEW r, r = scopes', r \in Seq(ScopeType), NEW d \in 1 .. Len(scopes), d <= Len(r)
  PROVE  \A i \in SlotNo : scopes[d].names[i] \in {NONE, r[d].names[i]}
<1>1. scopes \in Seq(ScopeType) /\ Len(scopes) \in Nat /\ Len(r) \in Nat
  BY ScopesAre, LenProperties
<1>2. DOMAIN scopes = 1 .. Len(scopes) /\ DOMAIN r = 1 .. Len(r)
  BY <1>1, LenProperties
<1>3. d \in DOMAIN scopes \cap DOMAIN r
  BY <1>1, <1>2
<1>4. QED
  BY <1>3 DEF Kept

\* r has the names of sc, and what follows it in the top.
Follows(r, sc, ns) ==
  LET f == sc[Len(sc)]
      g == r[Len(r)]
  IN /\ r \in Seq(ScopeType) /\ Len(r) = Len(sc) /\ Wider(r, sc)
     /\ g.active = f.active + Len(ns)
     /\ \A i \in 0 .. f.active - 1 : g.names[i] = f.names[i]
     /\ \A j \in 1 .. Len(ns) : g.names[f.active + j - 1] = ns[j]

LEMMA FollowsAdds ==
  ASSUME NEW sc \in Seq(ScopeType), Len(sc) >= 1, NEW x, NEW y, NEW z, NEW w, NEW n, NEW o, NEW q,
         Adds(x, sc, n)
  PROVE  /\ Follows(x, sc, <<n>>)
         /\ Adds(y, x, o) => Follows(y, sc, <<n, o>>)
         /\ Adds(y, x, o) /\ Adds(z, y, q) => Follows(z, sc, <<n, o, q>>)
<1>1. PICK k, c : k = Len(sc) /\ c = sc[k].active
  OBVIOUS
<1>2. k \in Nat /\ k >= 1 /\ Len(x) = k /\ x \in Seq(ScopeType) /\ Wider(x, sc)
  BY <1>1, LenProperties, WiderSteps DEF Adds
<1>3. /\ c \in Nat /\ x[k].active = c + 1 /\ x[k].names[c] = n
      /\ \A i \in 0 .. c - 1 : x[k].names[i] = sc[k].names[i]
  BY <1>1, <1>2, AddsNames
<1>4. Follows(x, sc, <<n>>)
  <2>1. Len(<<n>>) = 1 /\ <<n>>[1] = n /\ \A j \in 1 .. 1 : j = 1
    OBVIOUS
  <2>2. c + 1 - 1 = c
    BY <1>3
  <2>3. \A j \in 1 .. 1 : x[k].names[c + j - 1] = <<n>>[j]
    BY <1>3, <2>1, <2>2
  <2>4. QED
    BY <1>1, <1>2, <1>3, <2>1, <2>3 DEF Follows
<1>5. ASSUME Adds(y, x, o)
      PROVE  /\ Follows(y, sc, <<n, o>>) /\ Len(y) = k /\ y \in Seq(ScopeType) /\ Wider(y, sc)
             /\ y[k].active = c + 2 /\ y[k].names[c] = n /\ y[k].names[c + 1] = o
             /\ \A i \in 0 .. c - 1 : y[k].names[i] = sc[k].names[i]
  <2>1. Len(y) = k /\ y \in Seq(ScopeType) /\ Wider(y, x)
    BY <1>2, <1>5, WiderSteps DEF Adds
  <2>2. Wider(y, sc)
    BY <1>2, <2>1, WiderTwice
  <2>3. PICK e : e = c + 1
    OBVIOUS
  <2>4. x[Len(x)].active = e
    BY <1>2, <1>3, <2>3
  <2>5. /\ y[k].active = e + 1 /\ y[k].names[e] = o
        /\ \A i \in 0 .. e - 1 : y[k].names[i] = x[k].names[i]
    BY <1>2, <1>5, <2>1, <2>4, AddsNames
  <2>6. c \in 0 .. e - 1 /\ (\A i \in 0 .. c - 1 : i \in 0 .. e - 1) /\ e + 1 = c + 2
    BY <1>3, <2>3
  <2>7. /\ y[k].active = c + 2 /\ y[k].names[c] = n /\ y[k].names[c + 1] = o
        /\ \A i \in 0 .. c - 1 : y[k].names[i] = sc[k].names[i]
    BY <1>3, <2>3, <2>5, <2>6
  <2>8. Len(<<n, o>>) = 2 /\ <<n, o>>[1] = n /\ <<n, o>>[2] = o /\ \A j \in 1 .. 2 : j = 1 \/ j = 2
    OBVIOUS
  <2>9. c + 1 - 1 = c /\ c + 2 - 1 = c + 1
    BY <1>3
  <2>10. \A j \in 1 .. 2 : y[k].names[c + j - 1] = <<n, o>>[j]
    BY <2>7, <2>8, <2>9
  <2>11. Follows(y, sc, <<n, o>>)
    BY <1>1, <2>1, <2>2, <2>7, <2>8, <2>10 DEF Follows
  <2>12. QED
    BY <2>1, <2>2, <2>7, <2>11
<1>6. ASSUME Adds(y, x, o), Adds(z, y, q) PROVE Follows(z, sc, <<n, o, q>>)
  <2>1. Len(z) = k /\ z \in Seq(ScopeType) /\ Wider(z, y)
    BY <1>2, <1>5, <1>6, WiderSteps DEF Adds
  <2>2. Wider(z, sc)
    BY <1>5, <1>6, <2>1, WiderTwice
  <2>3. PICK e : e = c + 2
    OBVIOUS
  <2>4. y[Len(y)].active = e /\ Len(y) >= 1 /\ y \in Seq(ScopeType) /\ Len(y) = k
    BY <1>2, <1>5, <1>6, <2>3
  <2>5. /\ z[k].active = e + 1 /\ z[k].names[e] = q
        /\ \A i \in 0 .. e - 1 : z[k].names[i] = y[k].names[i]
    BY <1>6, <2>1, <2>4, AddsNames
  <2>6. c \in 0 .. e - 1 /\ c + 1 \in 0 .. e - 1 /\ (\A i \in 0 .. c - 1 : i \in 0 .. e - 1) /\ e + 1 = c + 3
    BY <1>3, <2>3
  <2>7. /\ z[k].active = c + 3 /\ z[k].names[c] = n /\ z[k].names[c + 1] = o /\ z[k].names[c + 2] = q
        /\ \A i \in 0 .. c - 1 : z[k].names[i] = sc[k].names[i]
    BY <1>5, <1>6, <2>3, <2>5, <2>6
  <2>8. /\ Len(<<n, o, q>>) = 3 /\ <<n, o, q>>[1] = n /\ <<n, o, q>>[2] = o /\ <<n, o, q>>[3] = q
        /\ \A j \in 1 .. 3 : j = 1 \/ j = 2 \/ j = 3
    OBVIOUS
  <2>9. c + 1 - 1 = c /\ c + 2 - 1 = c + 1 /\ c + 3 - 1 = c + 2
    BY <1>3
  <2>10. \A j \in 1 .. 3 : z[k].names[c + j - 1] = <<n, o, q>>[j]
    BY <2>7, <2>8, <2>9
  <2>11. QED
    BY <1>1, <2>1, <2>2, <2>7, <2>8, <2>10 DEF Follows
<1>7. QED
  BY <1>4, <1>5, <1>6

LEMMA FollowsFirst ==
  ASSUME NEW sc \in Seq(ScopeType), Len(sc) >= 1, NEW x, NEW r, NEW ns, WiderStill(x, sc),
         x[Len(sc)].active = sc[Len(sc)].active, Follows(r, x, ns)
  PROVE  Follows(r, sc, ns)
<1>1. Len(x) = Len(sc) /\ Wider(x, sc) /\ x[Len(sc)].names = sc[Len(sc)].names
  BY DEF WiderStill, Wider
<1>2. Wider(r, sc)
  BY <1>1, WiderTwice DEF Follows
<1>3. QED
  BY <1>1, <1>2 DEF Follows

LEMMA FollowsLast ==
  ASSUME NEW sc \in Seq(ScopeType), Len(sc) >= 1, NEW x, NEW r, NEW ns, WiderStill(r, x),
         r[Len(r)].active = x[Len(x)].active, Follows(x, sc, ns)
  PROVE  Follows(r, sc, ns)
<1>1. r \in Seq(ScopeType) /\ Len(x) = Len(sc) /\ Len(r) = Len(x) /\ Wider(r, x) /\ r[Len(x)].names = x[Len(x)].names
  BY DEF WiderStill, Wider, Follows
<1>2. Wider(r, sc)
  BY <1>1, WiderTwice DEF Follows
<1>3. QED
  BY <1>1, <1>2 DEF Follows

LEMMA FollowsWidens ==
  ASSUME Types, NEW t, NEW r, Follows(r, scopes, Declared(t)), Analyzing,
         \A i \in SlotNo : scopes[Len(scopes)].names[i] \in {NONE, r[Len(scopes)].names[i]},
         \A c \in CapturesAt(Lay[ip], t) : c[1] \in 1 .. Len(scopes) => c[2] \in r[c[1]].captured
  PROVE  Widens(r, t)
<1>1. scopes[Len(scopes)].pass = "analyze"
  BY DEF Analyzing, Top
<1>2. Len(r) = Len(scopes)
  BY DEF Follows
<1>3. QED
  BY <1>1, <1>2 DEF Follows, Widens

LEMMA StillWidens ==
  ASSUME Types, Passes, NEW t, NEW r, WiderStill(r, scopes), ~Analyzing
  PROVE  Widens(r, t)
<1>1. scopes[Len(scopes)].pass = "compile"
  BY AllCompiling, ScopesAre
<1>2. QED
  BY <1>1 DEF WiderStill, Widens

LEMMA ActiveKept ==
  ASSUME NEW sc \in Seq(ScopeType), Len(sc) >= 1, NEW r, NEW n
  PROVE  /\ Resolves(r, sc, n) => r[Len(sc)].active = sc[Len(sc)].active
         /\ ReadsAs(r, sc, n) => r[Len(sc)].active = sc[Len(sc)].active
         /\ n \in Nat /\ Begins(r, sc, n) => r[Len(sc)].active = sc[Len(sc)].active
<1>1. Len(sc) \in 1 .. Len(sc)
  BY LenProperties
<1>2. Resolves(r, sc, n) => r[Len(sc)].active = sc[Len(sc)].active
  BY <1>1 DEF Resolves, Alike
<1>3. n \in Nat /\ Begins(r, sc, n) => r[Len(sc)].active = sc[Len(sc)].active
  BY <1>1, BeginsIs DEF Begun
<1>4. QED
  BY <1>2, <1>3 DEF ReadsAs

LEMMA UseWidens ==
  ASSUME Shape, Analysed, ~Renames, NEW t, UseStep(t)
  PROVE  Widens(scopes', t)
<1>1. PICK r, m : r = scopes' /\ m = Lay[ip]
  OBVIOUS
<1>2. Types /\ Laid /\ Matches /\ Passes /\ Resolves(r, scopes, t.name) /\ t.op = "use"
  BY <1>1 DEF Shape, UseStep
<1>3. scopes \in Seq(ScopeType) /\ Len(scopes) >= 1 /\ Named(scopes, m)
  BY <1>1, <1>2, ScopesAre, NamedHere
<1>4. WiderStill(r, scopes) /\ r[Len(scopes)].active = scopes[Len(scopes)].active
  BY <1>2, <1>3, WiderSteps, ActiveKept
<1>5. CASE Analyzing
  <2>1. Declared(t) = <<>> /\ CapturesAt(m, t) = Captures(m, t.name)
    BY <1>2 DEF Declared, CapturesAt
  <2>2. Wider(r, r)
    BY <1>4 DEF Wider, WiderStill
  <2>3. \A c \in CapturesAt(m, t) : c[1] \in 1 .. Len(scopes) => c[2] \in r[c[1]].captured
    BY <1>2, <1>3, <2>1, <2>2, CapturesKept
  <2>4. Follows(r, scopes, <<>>)
    <3>1. scopes[Len(scopes)].active \in Nat
      BY <1>2, ScopesAre
    <3>2. Len(r) = Len(scopes) /\ r \in Seq(ScopeType) /\ Wider(r, scopes) /\ r[Len(scopes)].names = scopes[Len(scopes)].names
      BY <1>4 DEF Wider, WiderStill
    <3>3. Len(<<>>) = 0 /\ \A j \in 1 .. 0 : FALSE
      OBVIOUS
    <3>4. QED
      BY <1>4, <3>1, <3>2, <3>3 DEF Follows
  <2>5. \A i \in SlotNo : scopes[Len(scopes)].names[i] \in {NONE, r[Len(scopes)].names[i]}
    BY <1>4 DEF WiderStill
  <2>6. QED
    BY <1>1, <1>2, <1>5, <2>1, <2>3, <2>4, <2>5, FollowsWidens
<1>6. CASE ~Analyzing
  BY <1>1, <1>2, <1>4, <1>6, StillWidens
<1>7. QED
  BY <1>5, <1>6

LEMMA LocalWidens ==
  ASSUME Shape, Analysed, ~Renames, NEW t, LocalStep(t)
  PROVE  Widens(scopes', t)
<1>1. PICK r, m : r = scopes' /\ m = Lay[ip]
  OBVIOUS
<1>2. /\ Types /\ Laid /\ Matches /\ Passes /\ t.op = "local" /\ t.other = NONE /\ Kept
      /\ IF Analyzing THEN Adds(r, scopes, t.name) ELSE Declares(r, scopes, t.name)
  BY <1>1 DEF Shape, LocalStep
<1>3. scopes \in Seq(ScopeType) /\ Len(scopes) >= 1 /\ Len(scopes) \in 1 .. Len(scopes)
  BY <1>2, ScopesAre
<1>4. CASE Analyzing
  <2>1. Adds(r, scopes, t.name) /\ Declared(t) = <<t.name>> /\ CapturesAt(m, t) = {}
    BY <1>2, <1>4 DEF Declared, CapturesAt
  <2>2. Follows(r, scopes, Declared(t))
    BY <1>3, <2>1, FollowsAdds
  <2>3. r \in Seq(ScopeType) /\ Len(r) = Len(scopes) /\ Len(scopes) <= Len(r)
    BY <1>3, <2>2 DEF Follows
  <2>4. \A i \in SlotNo : scopes[Len(scopes)].names[i] \in {NONE, r[Len(scopes)].names[i]}
    BY <1>1, <1>2, <1>3, <2>3, KeptIs
  <2>5. QED
    BY <1>1, <1>2, <1>4, <2>1, <2>2, <2>4, FollowsWidens
<1>5. CASE ~Analyzing
  BY <1>1, <1>2, <1>3, <1>5, WiderSteps, StillWidens
<1>6. QED
  BY <1>4, <1>5

LEMMA LocalsWidens ==
  ASSUME Shape, Analysed, ~Renames, NEW t, LocalsStep(t)
  PROVE  Widens(scopes', t)
<1>1. PICK r, m : r = scopes' /\ m = Lay[ip]
  OBVIOUS
<1>2. /\ Types /\ Laid /\ Matches /\ Passes /\ t.op = "local" /\ t.other # NONE /\ Kept
      /\ \E x, y : TwoLocals(r, scopes, t.name, t.other, t.read, x, y)
  BY <1>1, BoundAssumption DEF Shape, LocalsStep
<1>3. scopes \in Seq(ScopeType) /\ Len(scopes) >= 1 /\ Len(scopes) \in 1 .. Len(scopes) /\ Named(scopes, m)
  BY <1>1, <1>2, ScopesAre, NamedHere
<1>4. PICK x, y : TwoLocals(r, scopes, t.name, t.other, t.read, x, y)
  BY <1>2
<1>5. CASE Analyzing
  <2>1. Resolves(x, scopes, t.read) /\ Adds(y, x, t.name) /\ Adds(r, y, t.other)
    BY <1>4, <1>5 DEF TwoLocals
  <2>2. Declared(t) = <<t.name, t.other>> /\ CapturesAt(m, t) = Captures(m, t.read)
    BY <1>2 DEF Declared, CapturesAt
  <2>3. WiderStill(x, scopes) /\ x[Len(scopes)].active = scopes[Len(scopes)].active /\ x \in Seq(ScopeType) /\ Len(x) = Len(scopes)
    BY <1>3, <2>1, WiderSteps, ActiveKept DEF Resolves
  <2>4. Follows(r, x, <<t.name, t.other>>)
    BY <1>3, <2>1, <2>3, FollowsAdds
  <2>5. Follows(r, scopes, Declared(t))
    BY <1>3, <2>2, <2>3, <2>4, FollowsFirst
  <2>6. Wider(r, x)
    BY <2>4 DEF Follows
  <2>7. \A c \in CapturesAt(m, t) : c[1] \in 1 .. Len(scopes) => c[2] \in r[c[1]].captured
    BY <1>3, <2>1, <2>2, <2>6, CapturesKept
  <2>8. r \in Seq(ScopeType) /\ Len(r) = Len(scopes) /\ Len(scopes) <= Len(r)
    BY <1>3, <2>5 DEF Follows
  <2>9. \A i \in SlotNo : scopes[Len(scopes)].names[i] \in {NONE, r[Len(scopes)].names[i]}
    BY <1>1, <1>2, <1>3, <2>8, KeptIs
  <2>10. QED
    BY <1>1, <1>2, <1>5, <2>5, <2>7, <2>9, FollowsWidens
<1>6. CASE ~Analyzing
  <2>1. Declares(x, scopes, t.name) /\ Resolves(y, x, t.read) /\ Declares(r, y, t.other)
    BY <1>4, <1>6 DEF TwoLocals
  <2>2. WiderStill(x, scopes) /\ x \in Seq(ScopeType) /\ Len(x) >= 1
    BY <1>3, <2>1, WiderSteps DEF Declares
  <2>3. WiderStill(y, x) /\ y \in Seq(ScopeType) /\ Len(y) >= 1
    BY <2>1, <2>2, WiderSteps DEF Resolves
  <2>4. WiderStill(r, y)
    BY <2>1, <2>3, WiderSteps
  <2>5. WiderStill(r, scopes)
    BY <2>2, <2>3, <2>4, WiderTwice
  <2>6. QED
    BY <1>1, <1>2, <1>6, <2>5, StillWidens
<1>7. QED
  BY <1>5, <1>6

LEMMA LoopWidens ==
  ASSUME Shape, Analysed, ~Renames, NEW t, LoopStep(t)
  PROVE  Widens(scopes', t)
<1>1. PICK r, m : r = scopes' /\ m = Lay[ip]
  OBVIOUS
<1>2. /\ Types /\ Laid /\ Matches /\ Passes /\ t.op = "for" /\ Kept
      /\ \E w, x, y, z :
           ThreeLocals(w, scopes, t.name, t.read, x, y, z) /\ w \in Seq(ScopeType) /\ Len(w) = Len(scopes)
           /\ Begins(r, w, scopes[Len(scopes)].active)
  BY <1>1 DEF Shape, LoopStep
<1>3. /\ scopes \in Seq(ScopeType) /\ Len(scopes) >= 1 /\ Len(scopes) \in 1 .. Len(scopes) /\ Named(scopes, m)
      /\ scopes[Len(scopes)].active \in Nat
  BY <1>1, <1>2, ScopesAre, NamedHere
<1>4. PICK w, x, y, z : /\ ThreeLocals(w, scopes, t.name, t.read, x, y, z) /\ w \in Seq(ScopeType) /\ Len(w) = Len(scopes)
                        /\ Begins(r, w, scopes[Len(scopes)].active)
  BY <1>2
<1>5. WiderStill(r, w) /\ r[Len(w)].active = w[Len(w)].active /\ Len(r) = Len(w) /\ r \in Seq(ScopeType)
  <2>1. WiderStill(r, w) /\ r[Len(w)].active = w[Len(w)].active
    BY <1>3, <1>4, WiderBlocks, ActiveKept
  <2>2. QED
    BY <2>1 DEF WiderStill, Wider
<1>6. CASE Analyzing
  <2>1. ReadsAs(x, scopes, t.read) /\ Adds(y, x, t.name) /\ Adds(z, y, HIDDEN) /\ Adds(w, z, HIDDEN)
    BY <1>4, <1>6 DEF ThreeLocals
  <2>2. Declared(t) = <<t.name, HIDDEN, HIDDEN>> /\ CapturesAt(m, t) = IF t.read = NONE THEN {} ELSE Captures(m, t.read)
    BY <1>2 DEF Declared, CapturesAt
  <2>3. WiderStill(x, scopes) /\ x[Len(scopes)].active = scopes[Len(scopes)].active
    BY <1>3, <2>1, WiderSteps, ActiveKept
  <2>4. x \in Seq(ScopeType) /\ Len(x) = Len(scopes)
    BY <2>3 DEF WiderStill, Wider
  <2>5. Follows(w, x, <<t.name, HIDDEN, HIDDEN>>)
    BY <1>3, <2>1, <2>4, FollowsAdds
  <2>6. Follows(w, scopes, Declared(t))
    BY <1>3, <2>2, <2>3, <2>5, FollowsFirst
  <2>7. Follows(r, scopes, Declared(t))
    BY <1>3, <1>5, <2>6, FollowsLast
  <2>8. Wider(r, x)
    BY <1>5, <2>5, WiderTwice DEF Follows, WiderStill
  <2>9. \A c \in CapturesAt(m, t) : c[1] \in 1 .. Len(scopes) => c[2] \in r[c[1]].captured
    <3>1. CASE t.read = NONE
      BY <2>2, <3>1
    <3>2. CASE t.read # NONE
      <4>1. Resolves(x, scopes, t.read) /\ CapturesAt(m, t) = Captures(m, t.read)
        BY <2>1, <2>2, <3>2 DEF ReadsAs
      <4>2. QED
        BY <1>3, <2>8, <4>1, CapturesKept
    <3>3. QED
      BY <3>1, <3>2
  <2>10. Len(r) = Len(scopes) /\ Len(scopes) <= Len(r)
    BY <1>3, <2>7 DEF Follows
  <2>11. \A i \in SlotNo : scopes[Len(scopes)].names[i] \in {NONE, r[Len(scopes)].names[i]}
    BY <1>1, <1>2, <1>3, <1>5, <2>10, KeptIs
  <2>12. QED
    BY <1>1, <1>2, <1>6, <2>7, <2>9, <2>11, FollowsWidens
<1>7. CASE ~Analyzing
  <2>1. Declares(x, scopes, t.name) /\ ReadsAs(y, x, t.read) /\ Declares(z, y, HIDDEN) /\ Declares(w, z, HIDDEN)
    BY <1>4, <1>7 DEF ThreeLocals
  <2>2. WiderStill(x, scopes) /\ x \in Seq(ScopeType) /\ Len(x) >= 1
    BY <1>3, <2>1, WiderSteps DEF Declares
  <2>3. WiderStill(y, x)
    BY <2>1, <2>2, WiderSteps
  <2>4. y \in Seq(ScopeType) /\ Len(y) >= 1
    BY <2>2, <2>3 DEF WiderStill, Wider
  <2>5. WiderStill(z, y) /\ z \in Seq(ScopeType) /\ Len(z) >= 1
    BY <2>1, <2>4, WiderSteps DEF Declares
  <2>6. WiderStill(w, z)
    BY <2>1, <2>5, WiderSteps
  <2>7. WiderStill(r, scopes)
    BY <1>5, <2>2, <2>3, <2>5, <2>6, WiderTwice
  <2>8. QED
    BY <1>1, <1>2, <1>7, <2>7, StillWidens
<1>8. QED
  BY <1>6, <1>7

LEMMA BlockWidens ==
  ASSUME Shape, Analysed, NEW t, BlockStep(t)
  PROVE  Widens(scopes', t)
<1>1. PICK r : r = scopes'
  OBVIOUS
<1>2. Types /\ Passes /\ Begins(r, scopes, scopes[Len(scopes)].active) /\ t.op = "block"
  BY <1>1 DEF Shape, BlockStep
<1>3. scopes \in Seq(ScopeType) /\ Len(scopes) >= 1 /\ scopes[Len(scopes)].active \in Nat
  BY <1>2, ScopesAre
<1>4. WiderStill(r, scopes) /\ r[Len(scopes)].active = scopes[Len(scopes)].active
  BY <1>2, <1>3, WiderBlocks, ActiveKept
<1>5. CASE Analyzing
  <2>1. Declared(t) = <<>> /\ CapturesAt(Lay[ip], t) = {}
    BY <1>2 DEF Declared, CapturesAt
  <2>2. Len(r) = Len(scopes) /\ r \in Seq(ScopeType) /\ Wider(r, scopes) /\ r[Len(scopes)].names = scopes[Len(scopes)].names
    BY <1>4 DEF Wider, WiderStill
  <2>3. Len(<<>>) = 0 /\ \A j \in 1 .. 0 : FALSE
    OBVIOUS
  <2>4. Follows(r, scopes, <<>>)
    BY <1>3, <1>4, <2>2, <2>3 DEF Follows
  <2>5. \A i \in SlotNo : scopes[Len(scopes)].names[i] \in {NONE, r[Len(scopes)].names[i]}
    BY <2>2
  <2>6. QED
    BY <1>1, <1>2, <1>5, <2>1, <2>4, <2>5, FollowsWidens
<1>6. CASE ~Analyzing
  BY <1>1, <1>2, <1>4, <1>6, StillWidens
<1>7. QED
  BY <1>5, <1>6

LEMMA EnterCovers ==
  ASSUME Shape, Analysed, NEW t, EnterStep(t), NEW a, a = After(Lay[ip], t, ip)
  PROVE  Covers(scopes', t, a)
<1>1. PICK r, m, k : r = scopes' /\ m = Lay[ip] /\ k = Len(scopes)
  OBVIOUS
<1>2. Types /\ Laid /\ Matches /\ Passes /\ t.op \in Openers /\ Proper(t) /\ \E b \in BOOLEAN : Enters(r, scopes, t, b)
  BY <1>1 DEF Shape, EnterStep
<1>3. PICK b \in BOOLEAN : Enters(r, scopes, t, b)
  BY <1>2
<1>4. Fits(scopes, m) /\ LayoutOK(m, ip) /\ ip \in Nat /\ ip >= 1 /\ Named(scopes, m) /\ k \in Nat /\ k = Len(m)
  BY <1>1, <1>2, ShapeFits, NamedHere DEF Fits
<1>5. Len(a) = k + 1 /\ a[k + 1] = Frame(t, ip + 1) /\ \A d \in 1 .. k : a[d] = m[d]
  BY <1>1, <1>2, <1>4, AfterOpener
<1>6. Len(r) = k + 1 /\ (\A d \in 1 .. k : r[d] = scopes[d])
      /\ r[k + 1].pass = "analyze" /\ r[k + 1].start = ip + 1
      /\ \A j \in 1 .. Len(Initial(t)) : r[k + 1].names[j - 1] = Initial(t)[j]
  BY <1>1, <1>3 DEF Enters
<1>7. Frame(t, ip + 1).locals = Initial(t)
  BY <1>2, <1>4, FrameIs
<1>8. CapturesAt(m, t) = {} /\ ~Ending(t)
  BY <1>2 DEF CapturesAt, Openers, Ending
<1>9. ASSUME NEW d \in 1 .. k + 1, d <= k
      PROVE  r[d] = scopes[d] /\ \A j \in 1 .. Len(a[d].locals) : r[d].names[j - 1] = a[d].locals[j]
  <2>1. d \in 1 .. k
    BY <1>4, <1>9
  <2>2. r[d] = scopes[d] /\ a[d] = m[d]
    BY <1>5, <1>6, <2>1
  <2>3. QED
    BY <1>1, <1>4, <2>1, <2>2 DEF Named
<1>10. ASSUME NEW d \in 1 .. k + 1, ~(d <= k)
       PROVE  /\ r[d].pass = "analyze" /\ r[d].start = ip + 1
              /\ \A j \in 1 .. Len(a[d].locals) : r[d].names[j - 1] = a[d].locals[j]
  <2>1. d = k + 1
    BY <1>4, <1>10
  <2>2. QED
    BY <1>5, <1>6, <1>7, <2>1
<1>11. QED
  BY <1>1, <1>4, <1>6, <1>8, <1>9, <1>10 DEF Covers

LEMMA CloseCovers ==
  ASSUME Shape, Analysed, NEW t, CloseStep(t), NEW a, a = After(Lay[ip], t, ip)
  PROVE  Covers(scopes', t, a)
<1>1. PICK r, m, k : r = scopes' /\ m = Lay[ip] /\ k = Len(scopes)
  OBVIOUS
<1>2. Types /\ Laid /\ Matches /\ Passes /\ t.op = "end" /\ Proper(t) /\ Top(scopes).blocks # <<>> /\ \E base : Closes(r, scopes, base)
  BY <1>1 DEF Shape, CloseStep
<1>3. Fits(scopes, m) /\ LayoutOK(m, ip) /\ ip \in Nat /\ ip >= 1 /\ Named(scopes, m) /\ k \in Nat /\ k = Len(m) /\ k \in 1 .. k
      /\ scopes \in Seq(ScopeType) /\ k >= 1
  BY <1>1, <1>2, ShapeFits, NamedHere, ScopesAre DEF Fits
<1>4. m[k].blocks # <<>> /\ m[k] \in FrameType /\ FrameOK(m[k])
  <2>1. scopes[k].blocks # <<>> /\ scopes[k].blocks = m[k].blocks
    BY <1>1, <1>2, <1>3 DEF Fits, Top
  <2>2. QED
    BY <1>3, <2>1, LayoutPlaces, ElementOfSeq DEF Placed
<1>5. PICK g : g = Cut(m[k])
  OBVIOUS
<1>6. Len(a) = k /\ \A d \in 1 .. k : a[d] = IF d = k THEN g ELSE m[d]
  BY <1>1, <1>2, <1>3, <1>4, <1>5, AfterBlock
<1>7. Len(g.locals) \in 0 .. Len(m[k].locals) /\ \A j \in 1 .. Len(g.locals) : g.locals[j] = m[k].locals[j]
  BY <1>4, <1>5, CutIs
<1>8. \A j \in 1 .. Len(g.locals) : j \in 1 .. Len(m[k].locals)
  BY <1>4, <1>7, FrameTyped
<1>9. WiderStill(r, scopes)
  <2>1. Len(scopes) >= 1
    BY <1>1, <1>3
  <2>2. QED
    BY <1>2, <1>3, <2>1, WiderBlocks
<1>10. Len(r) = k /\ \A d \in 1 .. k : /\ r[d].pass = scopes[d].pass /\ r[d].start = scopes[d].start
                                      /\ scopes[d].captured \subseteq r[d].captured /\ r[d].names = scopes[d].names
  BY <1>1, <1>9 DEF Wider, WiderStill
<1>11. CapturesAt(m, t) = {} /\ ~Ending(t)
  BY <1>1, <1>2, <1>3, <1>4 DEF CapturesAt, Ending, Top
<1>12. ASSUME NEW d \in 1 .. k
       PROVE  d <= k /\ \A j \in 1 .. Len(a[d].locals) : r[d].names[j - 1] = a[d].locals[j]
  <2>1. \A j \in 1 .. Len(m[d].locals) : scopes[d].names[j - 1] = m[d].locals[j]
    BY <1>1, <1>3 DEF Named
  <2>2. \A j \in 1 .. Len(a[d].locals) : j \in 1 .. Len(m[d].locals) /\ a[d].locals[j] = m[d].locals[j]
    BY <1>6, <1>7, <1>8
  <2>3. QED
    BY <1>3, <1>10, <2>1, <2>2
<1>13. Len(r) <= k + 1
  BY <1>3, <1>10
<1>14. QED
  BY <1>1, <1>10, <1>11, <1>12, <1>13 DEF Covers

LEMMA LeaveCovers ==
  ASSUME Shape, Analysed, ~Renames, NEW t, LeaveStep(t), NEW a, a = After(Lay[ip], t, ip)
  PROVE  Covers(scopes', t, a)
<1>1. PICK r, m, k, b, o : r = scopes' /\ m = Lay[ip] /\ k = Len(scopes) /\ b = Below(scopes) /\ o = Top(scopes).opener
  OBVIOUS
<1>2. /\ Types /\ Laid /\ Matches /\ Passes /\ t.op = "end" /\ k > 1 /\ Top(scopes).blocks = <<>> /\ Takes(r, b, o)
      /\ Proper(o) /\ o.op \in Openers /\ (Analyzing => Kept)
  BY <1>1 DEF Shape, LeaveStep
<1>3. /\ Fits(scopes, m) /\ LayoutOK(m, ip) /\ ip \in Nat /\ ip >= 1 /\ Named(scopes, m) /\ k \in Nat /\ k = Len(m) /\ k \in 1 .. k
      /\ scopes \in Seq(ScopeType) /\ Top(scopes) = scopes[k]
  BY <1>1, <1>2, ShapeFits, NamedHere, ScopesAre DEF Fits
<1>4. m[k].blocks = <<>> /\ m[k].opener = o /\ Top(m) = m[k] /\ m \in Seq(FrameType)
  BY <1>1, <1>2, <1>3 DEF Fits, Top, LayoutOK
<1>5. k - 1 \in Nat /\ k - 1 >= 1 /\ k - 1 \in 1 .. k /\ k - 1 \in 1 .. k - 1 /\ \A d \in 1 .. k - 1 : d \in 1 .. k
  BY <1>2, <1>3
<1>6. b \in Seq(ScopeType) /\ Len(b) = k - 1 /\ \A d \in 1 .. k - 1 : b[d] = scopes[d]
  <2>1. Len(scopes) >= 1
    BY <1>1, <1>2, <1>3
  <2>2. QED
    BY <1>1, <1>3, <2>1, BelowIs
<1>7. Named(b, Below(m))
  BY <1>1, <1>2, <1>3, <1>4, NamedBelow
<1>8. PICK g : g = Stored(m[k - 1], o)
  OBVIOUS
<1>9. Len(a) = k - 1 /\ \A d \in 1 .. k - 1 : a[d] = IF d = k - 1 THEN g ELSE m[d]
  BY <1>1, <1>2, <1>3, <1>4, <1>8, AfterFunction
<1>10. m[k - 1] \in FrameType /\ FrameOK(m[k - 1])
  BY <1>3, <1>4, <1>5, LayoutPlaces, ElementOfSeq DEF Placed
<1>11. /\ Len(g.locals) = Len(m[k - 1].locals) + (IF o.op = "localfunc" THEN 1 ELSE 0)
       /\ \A j \in 1 .. Len(m[k - 1].locals) : g.locals[j] = m[k - 1].locals[j]
       /\ o.op = "localfunc" => g.locals[Len(m[k - 1].locals) + 1] = o.name
  BY <1>2, <1>8, <1>10, StoredIs
<1>12. PICK c : c = scopes[k - 1].active
  OBVIOUS
<1>13. c = Len(m[k - 1].locals) /\ c \in Nat
  BY <1>1, <1>3, <1>5, <1>10, <1>12, FrameTyped DEF Named
<1>14. /\ Wider(r, b) /\ Len(r) = k - 1 /\ r \in Seq(ScopeType)
       /\ ~Analyzing \/ o.op # "localfunc" => r[k - 1].names = b[k - 1].names
  <2>1. /\ o.op = "localfunc" => IF Analyzing THEN Adds(r, b, o.name) ELSE Declares(r, b, o.name)
        /\ o.op = "funcdef" => Resolves(r, b, o.name)
        /\ o.op \notin {"localfunc", "funcdef"} => r = b
    BY <1>2 DEF Takes
  <2>2. Len(b) >= 1
    BY <1>5, <1>6
  <2>3. WiderStill(b, b)
    BY <1>6 DEF Wider, WiderStill
  <2>4. CASE o.op = "localfunc"
    <3>1. Analyzing => Wider(r, b)
      BY <1>6, <2>1, <2>2, <2>4, WiderSteps
    <3>2. ~Analyzing => WiderStill(r, b)
      BY <1>6, <2>1, <2>2, <2>4, WiderSteps
    <3>3. QED
      BY <1>6, <2>4, <3>1, <3>2 DEF Wider, WiderStill
  <2>5. CASE o.op # "localfunc"
    <3>1. WiderStill(r, b)
      BY <1>6, <2>1, <2>2, <2>3, <2>5, WiderSteps
    <3>2. QED
      BY <1>6, <3>1 DEF Wider, WiderStill
  <2>6. QED
    BY <2>4, <2>5
<1>15. ASSUME NEW d \in 1 .. k - 1
       PROVE  /\ d <= k /\ r[d].pass = scopes[d].pass /\ r[d].start = scopes[d].start
              /\ scopes[d].captured \subseteq r[d].captured
              /\ d # k - 1 \/ ~Analyzing \/ o.op # "localfunc" => r[d].names = scopes[d].names
  <2>1. d <= k
    BY <1>5
  <2>2. /\ r[d].pass = b[d].pass /\ r[d].start = b[d].start /\ b[d].captured \subseteq r[d].captured
        /\ d # k - 1 => r[d].names = b[d].names
    BY <1>6, <1>14 DEF Wider
  <2>3. QED
    BY <1>6, <1>14, <2>1, <2>2
<1>16. Len(r) <= k + 1 /\ Len(r) < k
  BY <1>3, <1>14
<1>17. CASE ~Analyzing
  <2>1. \A d \in 1 .. k - 1 : scopes[d].pass = "compile"
    BY <1>1, <1>2, <1>5, <1>17, AllCompiling
  <2>2. \A d \in 1 .. k - 1 : scopes[d].pass # "analyze"
    BY <2>1
  <2>3. QED
    BY <1>1, <1>14, <1>15, <1>16, <1>17, <2>1, <2>2 DEF Covers
<1>18. CASE Analyzing
  <2>1. \A d \in 1 .. k - 1 : \A i \in SlotNo : scopes[d].names[i] \in {NONE, r[d].names[i]}
    <3>1. Kept
      BY <1>2, <1>18
    <3>2. \A d \in 1 .. k - 1 : d \in 1 .. Len(scopes) /\ d <= Len(r)
      BY <1>1, <1>5, <1>14
    <3>3. QED
      BY <1>1, <1>2, <1>14, <3>1, <3>2, KeptIs
  <2>2. \A d \in 1 .. k - 1 : \A e \in CapturesAt(m, t) : e[1] = d => e[2] \in r[d].captured
    <3>1. CASE o.op = "funcdef"
      <4>1. Resolves(r, b, o.name)
        BY <1>2, <3>1 DEF Takes
      <4>2. CapturesAt(m, t) = Captures(Below(m), o.name)
        BY <1>2, <1>4, <3>1 DEF CapturesAt
      <4>3. QED
        BY <1>7, <4>1, <4>2, ResolveCaptures
    <3>2. CASE o.op # "funcdef"
      BY <1>2, <1>4, <3>2 DEF CapturesAt
    <3>3. QED
      BY <3>1, <3>2
  <2>3. ASSUME NEW d \in 1 .. k - 1
        PROVE  \A j \in 1 .. Len(a[d].locals) : r[d].names[j - 1] = a[d].locals[j]
    <3>1. d \in 1 .. k /\ \A j \in 1 .. Len(m[d].locals) : scopes[d].names[j - 1] = m[d].locals[j]
      BY <1>1, <1>3, <1>5 DEF Named
    <3>2. CASE d # k - 1
      BY <1>9, <1>15, <3>1, <3>2
    <3>3. CASE d = k - 1 /\ o.op # "localfunc"
      <4>1. Len(g.locals) = c
        BY <1>11, <1>13, <3>3
      <4>2. QED
        BY <1>9, <1>11, <1>13, <1>15, <3>1, <3>3, <4>1
    <3>4. CASE d = k - 1 /\ o.op = "localfunc"
      <4>1. Adds(r, b, o.name) /\ b[Len(b)].active = c /\ Len(b) >= 1
        BY <1>2, <1>5, <1>6, <1>12, <1>18, <3>4 DEF Takes
      <4>2. r[k - 1].names[c] = o.name /\ \A i \in 0 .. c - 1 : r[k - 1].names[i] = b[k - 1].names[i]
        BY <1>6, <1>14, <4>1, AddsNames
      <4>3. a[k - 1] = g /\ Len(g.locals) = c + 1 /\ g.locals[c + 1] = o.name
        BY <1>5, <1>9, <1>11, <1>13, <3>4
      <4>4. ASSUME NEW j \in 1 .. c + 1 PROVE r[k - 1].names[j - 1] = g.locals[j]
        <5>1. CASE j = c + 1
          <6>1. j - 1 = c
            BY <1>13, <5>1
          <6>2. QED
            BY <4>2, <4>3, <5>1, <6>1
        <5>2. CASE j # c + 1
          <6>1. j \in 1 .. c /\ j - 1 \in 0 .. c - 1
            BY <1>13, <5>2
          <6>2. r[k - 1].names[j - 1] = scopes[k - 1].names[j - 1]
            BY <1>5, <1>6, <4>2, <6>1
          <6>3. QED
            BY <1>11, <1>13, <3>1, <3>4, <6>1, <6>2
        <5>3. QED
          BY <5>1, <5>2
      <4>5. QED
        BY <3>4, <4>3, <4>4
    <3>5. QED
      BY <3>2, <3>3, <3>4
  <2>4. \A d \in 1 .. k - 1 : scopes[d].pass = "compile" => r[d].names = scopes[d].names
    <3> TAKE d \in 1 .. k - 1
    <3> HAVE scopes[d].pass = "compile"
    <3>1. scopes[k - 1].pass = scopes[k].pass
      BY <1>1, <1>3 DEF LeaveStep
    <3>2. d # k - 1
      BY <1>3, <1>18, <3>1 DEF Analyzing
    <3>3. QED
      BY <1>15, <3>2
  <2>5. QED
    BY <1>1, <1>14, <1>15, <1>16, <2>1, <2>2, <2>3, <2>4 DEF Covers
<1>19. QED
  BY <1>17, <1>18

LEMMA StepCovers ==
  ASSUME Shape, Analysed, ~Renames, NEW t, Step(t), NEW a, a = After(Lay[ip], t, ip)
  PROVE  Covers(scopes', t, a) /\ Reads(t, prog') /\ Moved
<1>1. Types /\ Laid /\ Matches /\ Passes
  BY DEF Shape
<1>2. ASSUME Widens(scopes', t), Proper(t), t.op \in {"use", "local", "for", "block"} PROVE Covers(scopes', t, a)
  BY <1>1, <1>2, WidensCovers
<1>3. CASE UseStep(t)
  <2>1. Widens(scopes', t)
    BY <1>3, UseWidens
  <2>2. Proper(t) /\ t.op \in {"use", "local", "for", "block"} /\ Reads(t, prog') /\ Moved
    BY <1>3 DEF UseStep
  <2>3. QED
    BY <1>2, <2>1, <2>2
<1>4. CASE LocalStep(t)
  <2>1. Widens(scopes', t)
    BY <1>4, LocalWidens
  <2>2. Proper(t) /\ t.op \in {"use", "local", "for", "block"} /\ Reads(t, prog') /\ Moved
    BY <1>4 DEF LocalStep
  <2>3. QED
    BY <1>2, <2>1, <2>2
<1>5. CASE LocalsStep(t)
  <2>1. Widens(scopes', t)
    BY <1>5, LocalsWidens
  <2>2. Proper(t) /\ t.op \in {"use", "local", "for", "block"} /\ Reads(t, prog') /\ Moved
    BY <1>5 DEF LocalsStep
  <2>3. QED
    BY <1>2, <2>1, <2>2
<1>6. CASE LoopStep(t)
  <2>1. Widens(scopes', t)
    BY <1>6, LoopWidens
  <2>2. Proper(t) /\ t.op \in {"use", "local", "for", "block"} /\ Reads(t, prog') /\ Moved
    BY <1>6 DEF LoopStep
  <2>3. QED
    BY <1>2, <2>1, <2>2
<1>7. CASE BlockStep(t)
  <2>1. Widens(scopes', t)
    BY <1>7, BlockWidens
  <2>2. Proper(t) /\ t.op \in {"use", "local", "for", "block"} /\ Reads(t, prog') /\ Moved
    BY <1>7 DEF BlockStep
  <2>3. QED
    BY <1>2, <2>1, <2>2
<1>8. CASE EnterStep(t)
  BY <1>8, EnterCovers DEF EnterStep
<1>9. CASE CloseStep(t)
  BY <1>9, CloseCovers DEF CloseStep
<1>10. CASE LeaveStep(t)
  BY <1>10, LeaveCovers DEF LeaveStep
<1>11. QED
  BY <1>3, <1>4, <1>5, <1>6, <1>7, <1>8, <1>9, <1>10 DEF Step

LEMMA StartAnalysed ==
  ASSUME Shape, Analysed, StartStep
  PROVE  Analysed'
<1>1. PICK r, k, m : r = scopes' /\ k = Len(scopes) /\ m = Lay[ip]
  OBVIOUS
<1>2. Types /\ Laid /\ Matches /\ Passes
  BY DEF Shape
<1>3. /\ prog' = prog /\ Starts(r, scopes) /\ ip' = scopes[k].start /\ Top(scopes).blocks = <<>> /\ ~Top(scopes).nested
      /\ \/ k = 1 /\ ip = Len(prog) + 1
         \/ k > 1 /\ ip <= Len(prog) /\ prog[ip].op = "end"
  BY <1>1 DEF StartStep
<1>4. /\ Fits(scopes, m) /\ LayoutOK(m, ip) /\ ip \in Nat /\ ip >= 1 /\ k \in Nat /\ k = Len(m) /\ k \in 1 .. k
      /\ scopes \in Seq(ScopeType) /\ Top(scopes) = scopes[k] /\ Len(prog) \in Nat /\ ip <= Len(prog) + 1
  BY <1>1, <1>2, ShapeFits, ScopesAre, LenProperties DEF Fits, Types
<1>5. m[k].blocks = <<>> /\ scopes[k].start \in 1 .. ip
  BY <1>1, <1>3, <1>4 DEF Fits, LayoutOK
<1>6. Lay' = Lay
  BY <1>3 DEF Lay
<1>7. Len(r) = k /\ (\A d \in 1 .. k : d # k => r[d] = scopes[d])
      /\ r[k].start = scopes[k].start /\ r[k].pass = "compile" /\ r[k].names = scopes[k].names /\ r[k].captured = scopes[k].captured
  BY <1>1 , <1>3 DEF Starts
<1>8. scopes[k].start \in Nat /\ scopes[k].start <= ip
  BY <1>4, <1>5
<1>9. ASSUME NEW d \in 1 .. k PROVE \E s \in scopes[k].start .. Len(prog) + 1 : Spans(d, s)'
  <2>1. PICK s \in ip .. Len(prog) + 1 : Spans(d, s)
    BY <1>1 DEF Analysed
  <2>2. s \in scopes[k].start .. Len(prog) + 1
    BY <1>4, <1>8, <2>1
  <2>3. PICK f, g : f = scopes[d] /\ g = r[d]
    OBVIOUS
  <2>4. g.start = f.start /\ g.names = f.names /\ g.captured = f.captured
    BY <1>7, <2>3
  <2>5. g.pass # "analyze"
    <3>1. CASE d = k
      BY <1>7, <2>3, <3>1
    <3>2. CASE d # k
      <4>1. d < k /\ d \in 1 .. Len(scopes) /\ k \in 1 .. Len(scopes)
        BY <1>1, <1>4, <3>2
      <4>2. scopes[d].pass = "analyze" => scopes[k].nested
        BY <1>2, <4>1 DEF Passes
      <4>3. QED
        BY <1>3, <1>4, <1>7, <2>3, <3>2, <4>2
    <3>3. QED
      BY <3>1, <3>2
  <2>6. /\ Len(Lay[s]) = d /\ Lay[s][d].blocks = <<>>
        /\ IF d = 1 THEN s = Len(prog) + 1 ELSE s <= Len(prog) /\ prog[s].op = "end"
    <3>1. CASE f.pass = "analyze"
      <4>1. s = ip
        BY <2>1, <2>3, <3>1 DEF Spans
      <4>2. d = k
        <5> SUFFICES ASSUME d # k PROVE FALSE
          OBVIOUS
        <5>1. d < k /\ d \in 1 .. Len(scopes) /\ k \in 1 .. Len(scopes)
          BY <1>1, <1>4
        <5>2. scopes[k].nested
          BY <1>2, <2>3, <3>1, <5>1 DEF Passes
        <5>3. QED
          BY <1>3, <1>4, <5>2
      <4>3. QED
        BY <1>1, <1>3, <1>4, <1>5, <4>1, <4>2
    <3>2. CASE f.pass # "analyze"
      BY <2>1, <2>3, <3>2 DEF Spans
    <3>3. QED
      BY <3>1, <3>2
  <2>7. \A i \in g.start .. s :
          d <= Len(Lay[i]) /\ \A j \in 1 .. Len(Lay[i][d].locals) : g.names[j - 1] = Lay[i][d].locals[j]
    BY <2>1, <2>3, <2>4 DEF Spans
  <2>8. \A i \in g.start .. s - 1 : \A c \in CapturesAt(Lay[i], prog[i]) : c[1] = d => c[2] \in g.captured
    BY <2>1, <2>3, <2>4 DEF Spans
  <2>9. g = scopes'[d]
    BY <1>1, <2>3
  <2>10. Spans(d, s)'
    <3> HIDE DEF Lay
    <3>1. QED
      BY <1>3, <1>6, <2>5, <2>6, <2>7, <2>8, <2>9 DEF Spans
  <2>11. QED
    BY <2>2, <2>10
<1>10. QED
  BY <1>1, <1>3, <1>7, <1>9 DEF Analysed

LEMMA AnalysedInit ==
  ASSUME Init
  PROVE  Analysed
<1>1. Shape /\ prog = <<>> /\ ip = 1 /\ Len(prog) = 0
  BY ShapeInit DEF Init
<1>2. Len(scopes) = 1 /\ scopes[1] = NewScope(MAIN, 1, FALSE)
  BY DEF Init
<1>3. scopes[1].pass = "analyze" /\ scopes[1].start = 1 /\ scopes[1].active = 0
  BY <1>2 DEF NewScope
<1>4. Len(Lay[1]) = 1 /\ Len(Lay[1][1].locals) = 0
  <2> HIDE DEF Lay
  <2>1. Matches /\ 1 \in 1 .. Len(scopes)
    BY <1>1, <1>2 DEF Shape
  <2>2. Len(scopes) = Len(Lay[1]) /\ scopes[1].active = Len(Lay[1][1].locals)
    BY <1>1, <2>1 DEF Matches
  <2>3. QED
    BY <1>2, <1>3, <2>2
<1>5. \A i \in 1 .. 1 : i = 1
  OBVIOUS
<1>6. Spans(1, 1)
  <2> HIDE DEF Lay
  <2>1. \A i \in 1 .. 1 : 1 <= Len(Lay[i]) /\ \A j \in 1 .. Len(Lay[i][1].locals) : FALSE
    BY <1>4, <1>5
  <2>2. 1 .. 1 - 1 = {}
    OBVIOUS
  <2>3. QED
    BY <1>1, <1>3, <2>1, <2>2 DEF Spans
<1>7. QED
  BY <1>1, <1>2, <1>6 DEF Analysed

LEMMA AnalysedNext ==
  ASSUME Shape, Shape', Analysed, ~Renames, [Next]_vars
  PROVE  Analysed'
<1>1. CASE UNCHANGED vars
  <2>1. scopes' = scopes /\ prog' = prog /\ ip' = ip /\ Lay' = Lay
    BY <1>1 DEF vars, Lay
  <2> HIDE DEF Lay
  <2>2. QED
    BY <2>1 DEF Analysed, Spans
<1>2. CASE StartStep
  BY <1>2, StartAnalysed
<1>3. ASSUME NEW t, Step(t) PROVE Analysed'
  <2>1. PICK a : a = After(Lay[ip], t, ip)
    OBVIOUS
  <2>2. Covers(scopes', t, a) /\ Reads(t, prog') /\ Moved
    BY <1>3, <2>1, StepCovers
  <2>3. QED
    BY <2>1, <2>2, AnalysedForward
<1>4. QED
  BY <1>1, <1>2, <1>3, StepIs

-----------------------------------------------------------------------------
(* Cells and the declarations in scope. *)

\* g has the storage of f.
SameStore(g, f) ==
  /\ g.pass = f.pass /\ g.env = f.env /\ g.visible = f.visible
  /\ f.pass # "analyze" => g.captured = f.captured /\ g.active = f.active /\ g.names = f.names

LEMMA StorageSame ==
  ASSUME NEW sc, Storage(sc), NEW r, Len(r) \in Nat, Len(sc) \in Nat, Len(r) <= Len(sc),
         \A d \in 1 .. Len(r) : SameStore(r[d], sc[d])
  PROVE  Storage(r)
<1>1. ASSUME NEW d \in 1 .. Len(r) PROVE Stores(d, r[d])
  <2>1. PICK f, g : f = sc[d] /\ g = r[d]
    OBVIOUS
  <2>2. d \in 1 .. Len(sc)
    OBVIOUS
  <2>3. Stores(d, f) /\ SameStore(g, f)
    BY <2>1, <2>2 DEF Storage
  <2>4. Stores(d, g)
    <3>1. CASE f.pass = "analyze"
      BY <2>3, <3>1 DEF Stores, SameStore
    <3>2. CASE f.pass # "analyze"
      <4>1. g.pass # "analyze" /\ g.env = f.env /\ g.visible = f.visible /\ g.captured = f.captured /\ g.active = f.active /\ g.names = f.names
        BY <2>3, <3>2 DEF SameStore
      <4>2. \A i : OwnCell(d, g, i) = OwnCell(d, f, i)
        BY <4>1 DEF OwnCell
      <4>3. QED
        BY <2>3, <3>2, <4>1, <4>2 DEF Stores
    <3>3. QED
      BY <3>1, <3>2
  <2>5. QED
    BY <2>1, <2>4
<1>2. QED
  BY <1>1 DEF Storage

\* A use of n captures nothing new of a function in its second pass.
Known(sc, n) ==
  IsUpvalue(sc, n) /\ sc[OwnerOf(sc, n)].pass # "analyze" =>
    resolve_local_scope(sc[OwnerOf(sc, n)], n) \in sc[OwnerOf(sc, n)].captured

LEMMA StorageResolved ==
  ASSUME NEW sc \in Seq(ScopeType), Len(sc) >= 1, Storage(sc), NEW n, NEW r, Resolves(r, sc, n), Known(sc, n)
  PROVE  Storage(r)
<1>1. Len(sc) \in Nat /\ Len(r) = Len(sc)
  BY LenProperties DEF Resolves
<1>2. ASSUME NEW d \in 1 .. Len(sc) PROVE SameStore(r[d], sc[d])
  <2>1. Alike(r[d], sc[d])
    BY DEF Resolves
  <2>2. r[d].captured =
            IF IsUpvalue(sc, n) /\ d = OwnerOf(sc, n)
              THEN sc[d].captured \cup {resolve_local_scope(sc[d], n)} ELSE sc[d].captured
    BY DEF Resolves
  <2>3. sc[d].pass # "analyze" => r[d].captured = sc[d].captured
    BY <2>2 DEF Known
  <2>4. QED
    BY <2>1, <2>3 DEF Alike, SameStore
<1>3. QED
  BY <1>1, <1>2, StorageSame

LEMMA StorageAdded ==
  ASSUME NEW sc \in Seq(ScopeType), Len(sc) >= 1, Storage(sc), NEW n, NEW r, Adds(r, sc, n), sc[Len(sc)].pass = "analyze"
  PROVE  Storage(r) /\ r[Len(r)].pass = "analyze"
<1>1. Len(sc) \in Nat /\ Len(r) = Len(sc)
  BY LenProperties DEF Adds
<1>2. ASSUME NEW d \in 1 .. Len(sc) PROVE SameStore(r[d], sc[d])
  <2>1. CASE d = Len(sc)
    BY <2>1 DEF Adds, Kin, SameStore
  <2>2. CASE d # Len(sc)
    BY <2>2 DEF Adds, SameStore
  <2>3. QED
    BY <2>1, <2>2
<1>3. QED
  BY <1>1, <1>2, StorageSame DEF Adds, Kin

LEMMA StorageBegun ==
  ASSUME NEW sc \in Seq(ScopeType), Len(sc) >= 1, Storage(sc), NEW base \in Nat, NEW r, Begins(r, sc, base)
  PROVE  Storage(r)
<1>1. Begun(r, sc, base)
  BY BeginsIs
<1>2. Len(sc) \in Nat /\ Len(r) = Len(sc) /\ r[Len(sc)] \in ScopeType
  <2>1. Len(sc) \in Nat /\ Len(r) = Len(sc) /\ r \in Seq(ScopeType)
    BY <1>1, LenProperties DEF Begun
  <2>2. QED
    BY <2>1, ElementOfSeq
<1>3. ASSUME NEW d \in 1 .. Len(sc) PROVE SameStore(r[d], sc[d])
  <2>1. CASE d = Len(sc)
    <3>1. PICK f, g : f = sc[d] /\ g = r[d]
      OBVIOUS
    <3>2. /\ Kin([g EXCEPT !.blocks = f.blocks], f) /\ g.names = f.names /\ g.visible = f.visible
          /\ g.active = f.active /\ g.pass = f.pass
      BY <1>1, <2>1, <3>1 DEF Begun
    <3>3. g \in ScopeType
      BY <1>2, <2>1, <3>1
    <3>4. g.captured = f.captured /\ g.env = f.env
      BY <3>2, <3>3 DEF Kin, ScopeType
    <3>5. QED
      BY <3>1, <3>2, <3>4 DEF SameStore
  <2>2. CASE d # Len(sc)
    BY <1>1, <2>2 DEF Begun, SameStore
  <2>3. QED
    BY <2>1, <2>2
<1>4. QED
  BY <1>2, <1>3, StorageSame

LEMMA StorageBelow ==
  ASSUME NEW sc \in Seq(ScopeType), Len(sc) > 1, Storage(sc)
  PROVE  Storage(Below(sc))
<1>1. PICK b : b = Below(sc)
  OBVIOUS
<1>2. Len(sc) \in Nat /\ Len(sc) >= 1
  BY LenProperties
<1>3. Len(b) = Len(sc) - 1 /\ \A d \in 1 .. Len(sc) - 1 : b[d] = sc[d]
  BY <1>1, <1>2, BelowIs
<1>4. Len(b) \in Nat /\ Len(b) <= Len(sc)
  BY <1>2, <1>3
<1>5. \A d \in 1 .. Len(b) : SameStore(b[d], sc[d])
  BY <1>3 DEF SameStore
<1>6. QED
  BY <1>1, <1>2, <1>4, <1>5, StorageSame

(* What is above the top of a stack alone. *)
LEMMA StorageOnTop ==
  ASSUME NEW sc \in Seq(ScopeType), NEW r \in Seq(ScopeType), Storage(sc), NEW k, k = Len(r),
         k >= 1, k <= Len(sc) + 1, \A d \in 1 .. Len(sc) : d # k => r[d] = sc[d], Stores(k, r[k])
  PROVE  Storage(r)
<1>1. Len(sc) \in Nat /\ k \in Nat
  BY LenProperties
<1>2. ASSUME NEW d \in 1 .. Len(r) PROVE Stores(d, r[d])
  <2>1. CASE d = k
    BY <2>1
  <2>2. CASE d # k
    <3>1. d \in 1 .. Len(sc)
      BY <1>1, <2>2
    <3>2. Stores(d, sc[d])
      BY <3>1 DEF Storage
    <3>3. QED
      BY <2>2, <3>1, <3>2
  <2>3. QED
    BY <2>1, <2>2
<1>3. QED
  BY <1>2 DEF Storage

LEMMA StorageDeclared ==
  ASSUME NEW sc \in Seq(ScopeType), Len(sc) >= 1, Storage(sc), NEW n, NEW r, Declares(r, sc, n),
         sc[Len(sc)].pass # "analyze", sc[Len(sc)].names[sc[Len(sc)].active] = n
  PROVE  Storage(r)
<1>1. PICK k, f, g, c : k = Len(sc) /\ f = sc[k] /\ g = r[k] /\ c = f.active
  OBVIOUS
<1>2. k \in Nat /\ k \in 1 .. Len(sc) /\ f \in ScopeType /\ r \in Seq(ScopeType) /\ Len(r) = k
  BY <1>1, LenProperties, ElementOfSeq DEF Declares
<1>3. c \in Nat /\ f.visible \in Seq(SeenType)
  BY <1>1, <1>2, ScopeTyped, SlotsAre
<1>4. PICK v : v = [name |-> n, slot |-> c, store |-> OwnCell(k, f, c)]
  OBVIOUS
<1>5. /\ g.pass = f.pass /\ g.env = f.env /\ g.captured = f.captured /\ g.names = f.names
      /\ g.active = c + 1 /\ g.visible = Append(f.visible, v)
  BY <1>1, <1>4 DEF Declares, Kin
<1>6. Stores(k, f) /\ f.pass # "analyze" /\ f.names[c] = n
  BY <1>1, <1>2 DEF Storage
<1>7. /\ \A i \in SlotNo : f.env[i] = IF i \in f.captured THEN Cardinality({j \in f.captured : j < i}) ELSE NOENV
      /\ Len(f.visible) = c
      /\ \A j \in 1 .. c : f.visible[j] = [name |-> f.names[j - 1], slot |-> j - 1, store |-> OwnCell(k, f, j - 1)]
  BY <1>1, <1>6 DEF Stores
<1>8. Len(g.visible) = c + 1 /\ g.visible[c + 1] = v /\ \A j \in 1 .. c : g.visible[j] = f.visible[j]
  <2>1. f.visible \in Seq(SeenType \cup {v}) /\ v \in SeenType \cup {v}
    <3>1. Len(f.visible) \in Nat /\ \A j \in 1 .. Len(f.visible) : f.visible[j] \in SeenType \cup {v}
      BY <1>3, LenProperties, ElementOfSeq
    <3>2. f.visible = [j \in 1 .. Len(f.visible) |-> f.visible[j]]
      BY <1>3, LenProperties
    <3>3. QED
      BY <3>1, <3>2, IsASeq
  <2>2. QED
    BY <1>5, <1>7, <2>1, AppendProperties
<1>9. \A i : OwnCell(k, g, i) = OwnCell(k, f, i)
  BY <1>5 DEF OwnCell
<1>10. \A j \in 1 .. c + 1 : g.visible[j] = [name |-> g.names[j - 1], slot |-> j - 1, store |-> OwnCell(k, g, j - 1)]
  <2> TAKE j \in 1 .. c + 1
  <2>1. CASE j = c + 1
    <3>1. j - 1 = c
      BY <1>3, <2>1
    <3>2. QED
      BY <1>4, <1>5, <1>6, <1>8, <1>9, <2>1, <3>1
  <2>2. CASE j # c + 1
    <3>1. j \in 1 .. c
      BY <1>3, <2>2
    <3>2. QED
      BY <1>5, <1>7, <1>8, <1>9, <3>1
  <2>3. QED
    BY <2>1, <2>2
<1>11. Stores(k, g)
  <2>1. g.pass # "analyze"
    BY <1>5, <1>6
  <2>2. \A i \in SlotNo : g.env[i] = IF i \in g.captured THEN Cardinality({j \in g.captured : j < i}) ELSE NOENV
    BY <1>5, <1>7
  <2>3. QED
    BY <1>5, <1>8, <1>10, <2>1, <2>2 DEF Stores
<1>12. \A d \in 1 .. Len(sc) : d # k => r[d] = sc[d]
  BY <1>1 DEF Declares
<1>13. k <= Len(sc) + 1 /\ k >= 1
  BY <1>1, <1>2
<1>14. QED
  BY <1>1, <1>2, <1>11, <1>12, <1>13, StorageOnTop

LEMMA StorageClosed ==
  ASSUME NEW sc \in Seq(ScopeType), Len(sc) >= 1, Storage(sc), NEW base \in 0 .. sc[Len(sc)].active, NEW r, Closes(r, sc, base)
  PROVE  Storage(r)
<1>1. PICK k, f, g, c : k = Len(sc) /\ f = sc[k] /\ g = r[k] /\ c = f.active
  OBVIOUS
<1>2. k \in Nat /\ k \in 1 .. Len(sc) /\ f \in ScopeType /\ r \in Seq(ScopeType) /\ Len(r) = k
  BY <1>1, LenProperties, ElementOfSeq DEF Closes
<1>3. c \in Nat /\ f.visible \in Seq(SeenType) /\ base \in Nat /\ base <= c
  BY <1>1, <1>2, ScopeTyped, SlotsAre
<1>4. /\ g.pass = f.pass /\ g.env = f.env /\ g.captured = f.captured /\ g.names = f.names
      /\ g.active = base /\ g.visible = Before(f.visible, base)
  BY <1>1 DEF Closes
<1>5. Stores(k, f)
  BY <1>1, <1>2 DEF Storage
<1>6. \A i : OwnCell(k, g, i) = OwnCell(k, f, i)
  BY <1>4 DEF OwnCell
<1>7. Stores(k, g)
  <2>1. CASE f.pass = "analyze"
    <3>1. f.visible = <<>> /\ \A i \in SlotNo : f.env[i] = NOENV
      BY <1>5, <2>1 DEF Stores
    <3>2. g.visible = <<>>
      BY <1>3, <1>4, <3>1, BeforeIs
    <3>3. QED
      BY <1>4, <2>1, <3>1, <3>2 DEF Stores
  <2>2. CASE f.pass # "analyze"
    <3>1. /\ \A i \in SlotNo : f.env[i] = IF i \in f.captured THEN Cardinality({j \in f.captured : j < i}) ELSE NOENV
          /\ Len(f.visible) = c
          /\ \A j \in 1 .. c : f.visible[j] = [name |-> f.names[j - 1], slot |-> j - 1, store |-> OwnCell(k, f, j - 1)]
      BY <1>1, <1>5, <2>2 DEF Stores
    <3>2. \A j \in 1 .. Len(f.visible) : f.visible[j].slot = j - 1
      <4> TAKE j \in 1 .. Len(f.visible)
      <4>1. f.visible[j] = [name |-> f.names[j - 1], slot |-> j - 1, store |-> OwnCell(k, f, j - 1)]
        BY <3>1
      <4>2. QED
        BY <4>1
    <3>3. g.visible = SubSeq(f.visible, 1, base)
      BY <1>3, <1>4, <3>1, <3>2, BeforeIs
    <3>4. Len(g.visible) = base /\ \A j \in 1 .. base : g.visible[j] = f.visible[j] /\ j \in 1 .. c
      <4>1. base \in 0 .. Len(f.visible)
        BY <1>3, <3>1
      <4>2. QED
        BY <1>3, <3>3, <4>1, FrontIs
    <3>5. \A j \in 1 .. base : g.visible[j] = [name |-> g.names[j - 1], slot |-> j - 1, store |-> OwnCell(k, g, j - 1)]
      BY <1>4, <1>6, <3>1, <3>4
    <3>6. g.pass # "analyze" /\ \A i \in SlotNo : g.env[i] = IF i \in g.captured THEN Cardinality({j \in g.captured : j < i}) ELSE NOENV
      BY <1>4, <2>2, <3>1
    <3>7. QED
      BY <1>4, <3>4, <3>5, <3>6 DEF Stores
  <2>3. QED
    BY <2>1, <2>2
<1>8. \A d \in 1 .. Len(sc) : d # k => r[d] = sc[d]
  BY <1>1 DEF Closes
<1>9. k <= Len(sc) + 1 /\ k >= 1
  BY <1>1, <1>2
<1>10. QED
  BY <1>1, <1>2, <1>7, <1>8, <1>9, StorageOnTop

LEMMA StorageEntered ==
  ASSUME NEW sc \in Seq(ScopeType), Storage(sc), NEW t, NEW b, NEW r, Enters(r, sc, t, b)
  PROVE  Storage(r)
<1>1. Len(sc) \in Nat /\ r \in Seq(ScopeType) /\ Len(r) = Len(sc) + 1 /\ \A d \in 1 .. Len(sc) : r[d] = sc[d]
  BY LenProperties DEF Enters
<1>2. PICK k, g : k = Len(sc) + 1 /\ g = r[k]
  OBVIOUS
<1>3. g.pass = "analyze" /\ g.visible = <<>> /\ \A i \in SlotNo : g.env[i] = NOENV
  BY <1>2 DEF Enters
<1>4. Stores(k, g)
  BY <1>3 DEF Stores
<1>5. QED
  BY <1>1, <1>2, <1>4, StorageOnTop

LEMMA StorageStarted ==
  ASSUME NEW sc \in Seq(ScopeType), Len(sc) >= 1, Storage(sc), NEW r, Starts(r, sc)
  PROVE  Storage(r)
<1>1. PICK k, f, g : k = Len(sc) /\ f = sc[k] /\ g = r[k]
  OBVIOUS
<1>2. k \in Nat /\ k \in 1 .. Len(sc) /\ f \in ScopeType /\ r \in Seq(ScopeType) /\ Len(r) = k
  BY <1>1, LenProperties, ElementOfSeq DEF Starts
<1>3. /\ g.pass = "compile" /\ g.names = f.names /\ g.active = f.initial /\ g.captured = f.captured
      /\ g.env = WithCells(f).env /\ Len(g.visible) = f.initial
      /\ \A j \in 1 .. f.initial :
             g.visible[j] = [name |-> f.names[j - 1], slot |-> j - 1, store |-> OwnCell(k, g, j - 1)]
  BY <1>1 DEF Starts
<1>4. \A i \in SlotNo : g.env[i] = IF i \in g.captured THEN Cardinality({j \in g.captured : j < i}) ELSE NOENV
  <2>1. PICK e, U : e = WithCells(f).env /\ U = f.captured
    OBVIOUS
  <2>2. \A i \in SlotNo : e[i] = IF i \in U THEN Cardinality({j \in U : j < i}) ELSE NOENV
    BY <1>2, <2>1, CellsAre
  <2>3. g.env = e /\ g.captured = U
    BY <1>3, <2>1
  <2>4. QED
    BY <2>2, <2>3
<1>5. Stores(k, g)
  BY <1>3, <1>4 DEF Stores
<1>6. \A d \in 1 .. Len(sc) : d # k => r[d] = sc[d]
  BY <1>1 DEF Starts
<1>7. k <= Len(sc) + 1 /\ k >= 1
  BY <1>1, <1>2
<1>8. QED
  BY <1>1, <1>2, <1>5, <1>6, <1>7, StorageOnTop

-----------------------------------------------------------------------------
(* The second pass finds what the analysis has found. *)

\* The function at depth d, in its second pass, has the names of the layout
\* a, and what the token t captures of it.
AsPlanned(d, t, a) ==
  /\ d <= Len(a)
  /\ \A j \in 1 .. Len(a[d].locals) : scopes[d].names[j - 1] = a[d].locals[j]
  /\ \A c \in CapturesAt(Lay[ip], t) : c[1] = d => c[2] \in scopes[d].captured

LEMMA Planned ==
  ASSUME Shape, Analysed, NEW t, Reads(t, prog'), NEW d \in 1 .. Len(scopes), scopes[d].pass # "analyze",
         ~Ending(t) \/ d < Len(scopes), NEW a, a = After(Lay[ip], t, ip)
  PROVE  AsPlanned(d, t, a)
<1>1. Types /\ Laid /\ Matches /\ Passes
  BY DEF Shape
<1>2. /\ scopes \in Seq(ScopeType) /\ Len(scopes) >= 1 /\ Len(scopes) \in Nat /\ Top(scopes) = scopes[Len(scopes)]
      /\ ip \in Nat /\ Len(prog) \in Nat /\ Fits(scopes, Lay[ip]) /\ LayoutOK(Lay[ip], ip)
  BY <1>1, ScopesAre, ShapeFits, LenProperties DEF Types
<1>3. ~Writing
  <2>1. scopes[d].pass = "compile"
    BY <1>2, ElementOfSeq, ScopeTyped
  <2>2. QED
    BY <1>1, <2>1, AllCompiling
<1>4. ip <= Len(prog) /\ prog' = prog /\ prog[ip] = t /\ Lay[ip + 1] = a
  <2>1. ip <= Len(prog) /\ prog' = prog
    BY <1>2, <1>3 DEF Reads
  <2>2. QED
    BY <2>1 DEF Reads, Lay
<1>5. PICK s \in ip .. Len(prog) + 1 : Spans(d, s)
  BY DEF Analysed
<1>6. PICK f : f = scopes[d]
  OBVIOUS
<1>7. f.start \in 1 .. ip
  BY <1>2, <1>6 DEF Fits, LayoutOK
<1>8. s # ip
  <2> SUFFICES ASSUME s = ip PROVE FALSE
    OBVIOUS
  <2> HIDE DEF Lay
  <2>1. Len(Lay[ip]) = d /\ Lay[ip][d].blocks = <<>> /\ (d = 1 => ip = Len(prog) + 1) /\ (d # 1 => prog[ip].op = "end")
    BY <1>5, <1>6 DEF Spans
  <2>2. Len(scopes) = d /\ scopes[d].blocks = <<>>
    BY <1>2, <2>1 DEF Fits
  <2>3. t.op = "end"
    BY <1>2, <1>4, <2>1
  <2>4. QED
    BY <1>2, <2>2, <2>3 DEF Ending
<1>9. s \in Nat /\ ip + 1 \in f.start .. s /\ ip \in f.start .. s - 1
  BY <1>2, <1>5, <1>7, <1>8
<1>10. PICK j : j = ip + 1
  OBVIOUS
<1>11. d <= Len(Lay[j]) /\ \A i \in 1 .. Len(Lay[j][d].locals) : f.names[i - 1] = Lay[j][d].locals[i]
  <2> HIDE DEF Lay
  <2>1. QED
    BY <1>5, <1>6, <1>9, <1>10 DEF Spans
<1>12. \A c \in CapturesAt(Lay[ip], prog[ip]) : c[1] = d => c[2] \in f.captured
  <2> HIDE DEF Lay
  <2>1. QED
    BY <1>5, <1>6, <1>9 DEF Spans
<1>13. QED
  BY <1>4, <1>6, <1>10, <1>11, <1>12 DEF AsPlanned

LEMMA KnownIs ==
  ASSUME NEW sc, NEW m, Named(sc, m), NEW n,
         \A c \in Captures(m, n) : sc[c[1]].pass # "analyze" => c[2] \in sc[c[1]].captured
  PROVE  Known(sc, n)
<1> SUFFICES ASSUME IsUpvalue(sc, n), sc[OwnerOf(sc, n)].pass # "analyze"
             PROVE  resolve_local_scope(sc[OwnerOf(sc, n)], n) \in sc[OwnerOf(sc, n)].captured
  BY DEF Known
<1>1. PICK o : o = OwnerOf(sc, n)
  OBVIOUS
<1>2. PICK c : c = <<o, resolve_local_scope(sc[o], n)>>
  OBVIOUS
<1>3. c \in Captures(m, n)
  BY <1>1, <1>2, NamesMean
<1>4. QED
  BY <1>1, <1>2, <1>3

(* A name that a token reads. *)
LEMMA KnownHere ==
  ASSUME Shape, Analysed, NEW t, Reads(t, prog'), NEW n, Captures(Lay[ip], n) \subseteq CapturesAt(Lay[ip], t), ~Ending(t)
  PROVE  Known(scopes, n) /\ Named(scopes, Lay[ip])
<1>1. PICK m : m = Lay[ip]
  OBVIOUS
<1>2. Named(scopes, m) /\ scopes \in Seq(ScopeType) /\ Len(scopes) >= 1 /\ Len(scopes) \in Nat
  BY <1>1, NamedHere, ScopesAre DEF Shape
<1>3. ASSUME NEW c \in Captures(m, n), scopes[c[1]].pass # "analyze" PROVE c[2] \in scopes[c[1]].captured
  <2>1. PICK d : d = c[1]
    OBVIOUS
  <2>2. d \in 1 .. Len(scopes)
    <3>1. Resolves(Resolve(scopes, n), scopes, n)
      BY <1>2, ResolveIs
    <3>2. d \in 1 .. Len(scopes) - 1
      BY <1>2, <2>1, <3>1, ResolveCaptures
    <3>3. QED
      BY <1>2, <3>2
  <2>3. PICK a : a = After(Lay[ip], t, ip)
    OBVIOUS
  <2>4. AsPlanned(d, t, a)
    BY <1>3, <2>1, <2>2, <2>3, Planned
  <2>5. QED
    BY <1>1, <2>1, <2>4 DEF AsPlanned
<1>4. QED
  BY <1>1, <1>2, <1>3, KnownIs

(* A name means the same after the declaration of another. *)
LEMMA OtherDeclared ==
  ASSUME NEW sc \in Seq(ScopeType), Len(sc) >= 1, NEW n, NEW r, Declares(r, sc, n),
         sc[Len(sc)].names[sc[Len(sc)].active] = n, NEW q, q # n
  PROVE  /\ \A d \in 1 .. Len(sc) : resolve_local_scope(r[d], q) = resolve_local_scope(sc[d], q)
         /\ OwnerOf(r, q) = OwnerOf(sc, q) /\ (IsLocal(r, q) <=> IsLocal(sc, q)) /\ (IsUpvalue(r, q) <=> IsUpvalue(sc, q))
         /\ Known(sc, q) => Known(r, q)
<1>1. PICK k : k = Len(sc)
  OBVIOUS
<1>2. k \in Nat /\ k \in 1 .. k /\ k = Len(r) /\ Top(sc) = sc[k] /\ Top(r) = r[k] /\ sc[k] \in ScopeType
  BY <1>1, LenProperties, ElementOfSeq DEF Declares, Top
<1>3. ASSUME NEW d \in 1 .. k PROVE resolve_local_scope(r[d], q) = resolve_local_scope(sc[d], q)
  <2>1. CASE d # k
    <3>1. r[d] = sc[d]
      BY <1>1, <2>1 DEF Declares
    <3>2. QED
      BY <3>1
  <2>2. CASE d = k
    <3>1. PICK c : c = sc[k].active
      OBVIOUS
    <3>2. c \in Nat /\ r[k].active = c + 1 /\ r[k].names = sc[k].names /\ sc[k].names[c] = n
      BY <1>1, <1>2, <3>1, ScopeTyped, SlotsAre DEF Declares
    <3>3. {i \in 0 .. c + 1 - 1 : sc[k].names[i] = q} = {i \in 0 .. c - 1 : sc[k].names[i] = q}
      BY <3>2
    <3>4. {i \in 0 .. r[k].active - 1 : r[k].names[i] = q} = {i \in 0 .. sc[k].active - 1 : sc[k].names[i] = q}
      BY <3>1, <3>2, <3>3
    <3>5. resolve_local_scope(r[k], q) = resolve_local_scope(sc[k], q)
      BY <3>4 DEF resolve_local_scope
    <3>6. QED
      BY <2>2, <3>5
  <2>3. QED
    BY <2>1, <2>2
<1>4. OwnerOf(r, q) = OwnerOf(sc, q)
  <2>1. \A d \in 1 .. k - 1 : d \in 1 .. k
    BY <1>2
  <2>2. {d \in 1 .. k - 1 : resolve_local_scope(r[d], q) # -1} = {d \in 1 .. k - 1 : resolve_local_scope(sc[d], q) # -1}
    BY <1>3, <2>1
  <2>3. QED
    BY <1>1, <1>2, <2>2 DEF OwnerOf
<1>5. (IsLocal(r, q) <=> IsLocal(sc, q)) /\ (IsUpvalue(r, q) <=> IsUpvalue(sc, q))
  BY <1>2, <1>3, <1>4 DEF IsLocal, IsUpvalue
<1>6. ASSUME Known(sc, q) PROVE Known(r, q)
  <2>1. PICK o : o = OwnerOf(sc, q)
    OBVIOUS
  <2>2. CASE ~IsUpvalue(sc, q)
    BY <1>5, <2>2 DEF Known
  <2>3. CASE IsUpvalue(sc, q)
    <3>1. o \in 1 .. k - 1
      BY <1>1, <2>1, <2>3, OwnerFound DEF IsUpvalue
    <3>2. o \in 1 .. k /\ o # k
      BY <1>2, <3>1
    <3>3. r[o] = sc[o]
      BY <1>1, <3>2 DEF Declares
    <3>4. QED
      BY <1>4, <1>5, <1>6, <2>1, <3>3 DEF Known
  <2>4. QED
    BY <2>2, <2>3
<1>7. QED
  BY <1>1, <1>3, <1>4, <1>5, <1>6

(* What the token t declares, the second pass finds in the next slots. *)
LEMMA PlannedNames ==
  ASSUME Shape, Analysed, NEW t, Proper(t), Reads(t, prog'), ~Analyzing, t.op \in {"use", "local", "for", "block"}
  PROVE  \A j \in 1 .. Len(Declared(t)) : scopes[Len(scopes)].names[scopes[Len(scopes)].active + j - 1] = Declared(t)[j]
<1>1. PICK k, m, a, c : k = Len(scopes) /\ m = Lay[ip] /\ a = After(Lay[ip], t, ip) /\ c = scopes[k].active
  OBVIOUS
<1>2. /\ Fits(scopes, m) /\ LayoutOK(m, ip) /\ ip \in Nat /\ ip >= 1 /\ k \in 1 .. k /\ k = Len(m) /\ k = Len(scopes)
      /\ c = Len(m[k].locals) /\ Top(scopes) = scopes[k] /\ c \in Nat
  BY <1>1, ShapeFits, ScopesAre DEF Shape, Fits
<1>3. m[k] \in FrameType /\ FrameOK(m[k])
  BY <1>2, ElementOfSeq DEF LayoutOK
<1>4. a[k] = Grown(m[k], t) /\ Len(Declared(t)) \in Nat
  <2>1. Len(Declared(t)) \in Nat
    BY DeclaredIs
  <2>2. \A d \in 1 .. Len(m) : a[d] = IF d = Len(m) THEN Grown(m[Len(m)], t) ELSE m[d]
    <3>1. PICK i : i = ip
      OBVIOUS
    <3>2. i \in Nat /\ i >= 1 /\ LayoutOK(m, i) /\ a = After(m, t, i)
      BY <1>1, <1>2, <3>1
    <3>3. QED
      BY <3>2, AfterGrowth
  <2>3. QED
    BY <1>2, <2>1, <2>2
<1>5. Len(a[k].locals) = c + Len(Declared(t)) /\ \A j \in 1 .. Len(Declared(t)) : a[k].locals[c + j] = Declared(t)[j]
  <2>1. PICK f, g : f = m[k] /\ g = Grown(f, t)
    OBVIOUS
  <2>2. Len(g.locals) = Len(f.locals) + Len(Declared(t)) /\ \A j \in 1 .. Len(Declared(t)) : g.locals[Len(f.locals) + j] = Declared(t)[j]
    BY <1>3, <2>1, GrownIs
  <2>3. a[k] = g /\ c = Len(f.locals)
    BY <1>2, <1>4, <2>1
  <2>4. QED
    BY <2>2, <2>3
<1>6. AsPlanned(k, t, a)
  <2>1. scopes[k].pass # "analyze" /\ ~Ending(t)
    BY <1>2 DEF Analyzing, Ending
  <2>2. QED
    BY <1>1, <1>2, <2>1, Planned
<1>7. ASSUME NEW j \in 1 .. Len(Declared(t)) PROVE scopes[k].names[c + j - 1] = Declared(t)[j]
  <2>1. PICK i : i = c + j
    OBVIOUS
  <2>2. i \in 1 .. Len(a[k].locals)
    BY <1>2, <1>4, <1>5, <2>1
  <2>3. scopes[k].names[i - 1] = a[k].locals[i]
    BY <1>6, <2>2 DEF AsPlanned
  <2>4. a[k].locals[i] = Declared(t)[j]
    BY <1>5, <2>1
  <2>5. c + j - 1 = i - 1
    <3>1. c \in Nat /\ j \in Int
      BY <1>2
    <3>2. QED
      BY <2>1, <3>1
  <2>6. QED
    BY <2>3, <2>4, <2>5
<1>8. QED
  BY <1>1, <1>7

LEMMA UseStorage ==
  ASSUME Shape, Analysed, Storage(scopes), NEW t, UseStep(t)
  PROVE  Storage(scopes')
<1>1. PICK r : r = scopes'
  OBVIOUS
<1>2. Resolves(r, scopes, t.name) /\ t.op = "use" /\ Reads(t, prog')
  BY <1>1 DEF UseStep
<1>3. CapturesAt(Lay[ip], t) = Captures(Lay[ip], t.name) /\ ~Ending(t)
  BY <1>2 DEF CapturesAt, Ending
<1>4. Known(scopes, t.name)
  BY <1>2, <1>3, KnownHere
<1>5. QED
  BY <1>1, <1>2, <1>4, ScopesAre, StorageResolved DEF Shape

LEMMA LocalStorage ==
  ASSUME Shape, Analysed, Storage(scopes), NEW t, LocalStep(t)
  PROVE  Storage(scopes')
<1>1. PICK r : r = scopes'
  OBVIOUS
<1>2. /\ IF Analyzing THEN Adds(r, scopes, t.name) ELSE Declares(r, scopes, t.name)
      /\ t.op = "local" /\ t.other = NONE /\ Proper(t) /\ Reads(t, prog')
  BY <1>1 DEF LocalStep
<1>3. scopes \in Seq(ScopeType) /\ Len(scopes) >= 1 /\ Top(scopes) = scopes[Len(scopes)] /\ Top(scopes).active \in Nat
  BY ScopesAre DEF Shape
<1>4. CASE Analyzing
  BY <1>1, <1>2, <1>3, <1>4, StorageAdded DEF Analyzing
<1>5. CASE ~Analyzing
  <2>1. Declared(t) = <<t.name>> /\ Len(<<t.name>>) = 1 /\ 1 \in 1 .. 1
    BY <1>2 DEF Declared
  <2>2. scopes[Len(scopes)].names[scopes[Len(scopes)].active + 1 - 1] = t.name
    <3>1. \A j \in 1 .. Len(Declared(t)) : scopes[Len(scopes)].names[scopes[Len(scopes)].active + j - 1] = Declared(t)[j]
      BY <1>2, <1>5, PlannedNames
    <3>2. 1 \in 1 .. Len(Declared(t)) /\ Declared(t)[1] = t.name
      BY <2>1
    <3>3. QED
      BY <3>1, <3>2
  <2>3. scopes[Len(scopes)].names[scopes[Len(scopes)].active] = t.name
    BY <1>3, <2>2
  <2>4. QED
    BY <1>1, <1>2, <1>3, <1>5, <2>3, StorageDeclared DEF Analyzing
<1>6. QED
  BY <1>4, <1>5

LEMMA LocalsStorage ==
  ASSUME Shape, Analysed, ~HeaderUses, Storage(scopes), NEW t, LocalsStep(t)
  PROVE  Storage(scopes')
<1>1. PICK r : r = scopes'
  OBVIOUS
<1>2. t.op = "local" /\ t.other # NONE /\ Proper(t) /\ Reads(t, prog') /\ t.read # t.name
  BY BoundAssumption DEF LocalsStep
<1>3. PICK x, y : TwoLocals(r, scopes, t.name, t.other, t.read, x, y)
  BY <1>1 DEF LocalsStep
<1>4. /\ scopes \in Seq(ScopeType) /\ Len(scopes) >= 1 /\ Len(scopes) \in Nat
      /\ Top(scopes) = scopes[Len(scopes)] /\ Top(scopes).active \in Nat
  BY ScopesAre DEF Shape
<1>5. CapturesAt(Lay[ip], t) = Captures(Lay[ip], t.read) /\ ~Ending(t)
  BY <1>2 DEF CapturesAt, Ending
<1>6. Known(scopes, t.read)
  BY <1>2, <1>5, KnownHere
<1>7. CASE Analyzing
  <2>1. Resolves(x, scopes, t.read) /\ Adds(y, x, t.name) /\ Adds(r, y, t.other)
    BY <1>3, <1>7 DEF TwoLocals
  <2>2. Storage(x) /\ x \in Seq(ScopeType) /\ Len(x) = Len(scopes)
    BY <1>4, <1>6, <2>1, StorageResolved DEF Resolves
  <2>3. x[Len(x)].pass = "analyze"
    <3>1. Len(scopes) \in 1 .. Len(scopes)
      BY <1>4
    <3>2. Alike(x[Len(scopes)], scopes[Len(scopes)])
      BY <2>1, <3>1 DEF Resolves
    <3>3. QED
      BY <1>4, <1>7, <2>2, <3>2 DEF Analyzing, Alike
  <2>4. Storage(y) /\ y[Len(y)].pass = "analyze" /\ y \in Seq(ScopeType) /\ Len(y) = Len(scopes)
    <3>1. Len(x) >= 1
      BY <1>4, <2>2
    <3>2. Storage(y) /\ y[Len(y)].pass = "analyze"
      BY <2>1, <2>2, <2>3, <3>1, StorageAdded
    <3>3. y \in Seq(ScopeType) /\ Len(y) = Len(x)
      BY <2>1 DEF Adds
    <3>4. QED
      BY <2>2, <3>2, <3>3
  <2>5. QED
    BY <1>1, <1>4, <2>1, <2>4, StorageAdded
<1>8. CASE ~Analyzing
  <2>1. PICK k, c : k = Len(scopes) /\ c = scopes[k].active
    OBVIOUS
  <2>2. Declares(x, scopes, t.name) /\ Resolves(y, x, t.read) /\ Declares(r, y, t.other)
    BY <1>3, <1>8 DEF TwoLocals
  <2>3. c \in Nat /\ scopes[k].names[c] = t.name /\ scopes[k].names[c + 1] = t.other
    <3>1. \A j \in 1 .. Len(Declared(t)) : scopes[k].names[c + j - 1] = Declared(t)[j]
      BY <1>2, <1>8, <2>1, PlannedNames
    <3>2. Declared(t) = <<t.name, t.other>> /\ 1 \in 1 .. Len(<<t.name, t.other>>) /\ 2 \in 1 .. Len(<<t.name, t.other>>)
      BY <1>2 DEF Declared
    <3>3. c \in Nat /\ c + 1 - 1 = c /\ c + 2 - 1 = c + 1
      BY <1>4, <2>1
    <3>4. Declared(t)[1] = t.name /\ Declared(t)[2] = t.other
      BY <3>2
    <3>5. QED
      BY <3>1, <3>2, <3>3, <3>4
  <2>4. Storage(x) /\ Known(x, t.read) /\ x \in Seq(ScopeType) /\ Len(x) = k
    <3>1. scopes[Len(scopes)].pass # "analyze"
      BY <1>4, <1>8 DEF Analyzing
    <3>2. Storage(x)
      BY <1>4, <2>1, <2>2, <2>3, <3>1, StorageDeclared
    <3>3. QED
      BY <1>2, <1>4, <1>6, <2>1, <2>2, <2>3, <3>2, OtherDeclared DEF Declares
  <2>5. x[k].pass = scopes[k].pass /\ x[k].names = scopes[k].names /\ x[k].active = c + 1
    BY <2>1, <2>2 DEF Declares, Kin
  <2>6. Storage(y) /\ y \in Seq(ScopeType) /\ Len(y) = k
    BY <1>4, <2>1, <2>2, <2>4, StorageResolved DEF Resolves
  <2>7. y[k].pass = x[k].pass /\ y[k].names = x[k].names /\ y[k].active = x[k].active
    <3>1. k \in 1 .. Len(x)
      BY <1>4, <2>1, <2>4
    <3>2. QED
      BY <2>2, <3>1 DEF Resolves, Alike
  <2>8. y[k].pass # "analyze" /\ y[k].names[y[k].active] = t.other
    BY <1>4, <1>8, <2>1, <2>3, <2>5, <2>7 DEF Analyzing
  <2>9. Len(y) >= 1
    BY <1>4, <2>1, <2>6
  <2>10. QED
    BY <1>1, <2>2, <2>6, <2>8, <2>9, StorageDeclared
<1>9. QED
  BY <1>7, <1>8

LEMMA LoopStorage ==
  ASSUME Shape, Analysed, ~HeaderUses, Storage(scopes), NEW t, LoopStep(t)
  PROVE  Storage(scopes')
<1>1. PICK r : r = scopes'
  OBVIOUS
<1>2. t.op = "for" /\ Proper(t) /\ Reads(t, prog') /\ t.read # t.name
  BY DEF LoopStep
<1>3. PICK w, x, y, z :
        /\ ThreeLocals(w, scopes, t.name, t.read, x, y, z) /\ w \in Seq(ScopeType) /\ Len(w) = Len(scopes)
        /\ Begins(r, w, scopes[Len(scopes)].active)
  BY <1>1 DEF LoopStep
<1>4. /\ scopes \in Seq(ScopeType) /\ Len(scopes) >= 1 /\ Len(scopes) \in Nat
      /\ Top(scopes) = scopes[Len(scopes)] /\ Top(scopes).active \in Nat
  BY ScopesAre DEF Shape
<1>5. ~Ending(t)
  BY <1>2 DEF Ending
<1>6. t.read # NONE => Known(scopes, t.read)
  <2>1. t.read # NONE => CapturesAt(Lay[ip], t) = Captures(Lay[ip], t.read)
    BY <1>2 DEF CapturesAt
  <2>2. QED
    BY <1>2, <1>5, <2>1, KnownHere
<1>7. SUFFICES Storage(w)
  BY <1>1, <1>3, <1>4, StorageBegun
<1>8. CASE Analyzing
  <2>1. ReadsAs(x, scopes, t.read) /\ Adds(y, x, t.name) /\ Adds(z, y, HIDDEN) /\ Adds(w, z, HIDDEN)
    BY <1>3, <1>8 DEF ThreeLocals
  <2>2. Storage(x) /\ x \in Seq(ScopeType) /\ Len(x) = Len(scopes) /\ x[Len(x)].pass = "analyze"
    <3>1. CASE t.read = NONE
      BY <1>4, <1>8, <2>1, <3>1 DEF ReadsAs, Analyzing
    <3>2. CASE t.read # NONE
      <4>1. Resolves(x, scopes, t.read) /\ Len(scopes) \in 1 .. Len(scopes)
        BY <1>4, <2>1, <3>2 DEF ReadsAs
      <4>2. Alike(x[Len(scopes)], scopes[Len(scopes)]) /\ x \in Seq(ScopeType) /\ Len(x) = Len(scopes)
        BY <4>1 DEF Resolves
      <4>3. QED
        BY <1>4, <1>6, <1>8, <3>2, <4>1, <4>2, StorageResolved DEF Analyzing, Alike
    <3>3. QED
      BY <3>1, <3>2
  <2>3. Storage(y) /\ y \in Seq(ScopeType) /\ Len(y) = Len(scopes) /\ y[Len(y)].pass = "analyze"
    <3>1. y \in Seq(ScopeType) /\ Len(y) = Len(x) /\ Len(x) >= 1
      BY <1>4, <2>1, <2>2 DEF Adds
    <3>2. QED
      BY <2>1, <2>2, <3>1, StorageAdded
  <2>4. Storage(z) /\ z \in Seq(ScopeType) /\ Len(z) = Len(scopes) /\ z[Len(z)].pass = "analyze"
    <3>1. z \in Seq(ScopeType) /\ Len(z) = Len(y) /\ Len(y) >= 1
      BY <1>4, <2>1, <2>3 DEF Adds
    <3>2. QED
      BY <2>1, <2>3, <3>1, StorageAdded
  <2>5. QED
    BY <1>4, <2>1, <2>4, StorageAdded
<1>9. CASE ~Analyzing
  <2>1. PICK k, c : k = Len(scopes) /\ c = scopes[k].active
    OBVIOUS
  <2>2. Declares(x, scopes, t.name) /\ ReadsAs(y, x, t.read) /\ Declares(z, y, HIDDEN) /\ Declares(w, z, HIDDEN)
    BY <1>3, <1>9 DEF ThreeLocals
  <2>3. c \in Nat /\ scopes[k].names[c] = t.name /\ scopes[k].names[c + 1] = HIDDEN /\ scopes[k].names[c + 1 + 1] = HIDDEN
    <3>1. \A j \in 1 .. Len(Declared(t)) : scopes[k].names[c + j - 1] = Declared(t)[j]
      BY <1>2, <1>9, <2>1, PlannedNames
    <3>2. Declared(t) = <<t.name, HIDDEN, HIDDEN>> /\ Len(Declared(t)) = 3
      BY <1>2 DEF Declared
    <3>3. c \in Nat /\ c + 1 - 1 = c /\ c + 2 - 1 = c + 1 /\ c + 3 - 1 = c + 1 + 1
      BY <1>4, <2>1
    <3>4. Declared(t)[1] = t.name /\ Declared(t)[2] = HIDDEN /\ Declared(t)[3] = HIDDEN
      BY <3>2
    <3>5. 1 \in 1 .. 3 /\ 2 \in 1 .. 3 /\ 3 \in 1 .. 3
      OBVIOUS
    <3>6. QED
      BY <3>1, <3>2, <3>3, <3>4, <3>5
  <2>4. Storage(x) /\ (t.read # NONE => Known(x, t.read)) /\ x \in Seq(ScopeType) /\ Len(x) = k
    <3>1. scopes[Len(scopes)].pass # "analyze"
      BY <1>4, <1>9 DEF Analyzing
    <3>2. Storage(x)
      BY <1>4, <2>1, <2>2, <2>3, <3>1, StorageDeclared
    <3>3. QED
      BY <1>2, <1>4, <1>6, <2>1, <2>2, <2>3, <3>2, OtherDeclared DEF Declares
  <2>5. x[k].pass = scopes[k].pass /\ x[k].names = scopes[k].names /\ x[k].active = c + 1
    BY <2>1, <2>2 DEF Declares, Kin
  <2>6. /\ Storage(y) /\ y \in Seq(ScopeType) /\ Len(y) = k
        /\ y[k].pass = x[k].pass /\ y[k].names = x[k].names /\ y[k].active = x[k].active
    <3>1. CASE t.read = NONE
      BY <2>2, <2>4, <3>1 DEF ReadsAs
    <3>2. CASE t.read # NONE
      <4>1. Resolves(y, x, t.read) /\ k \in 1 .. Len(x) /\ Len(x) >= 1
        BY <1>4, <2>1, <2>2, <2>4, <3>2 DEF ReadsAs
      <4>2. Alike(y[k], x[k]) /\ y \in Seq(ScopeType) /\ Len(y) = k
        BY <2>4, <4>1 DEF Resolves
      <4>3. Storage(y)
        BY <2>4, <3>2, <4>1, StorageResolved
      <4>4. QED
        BY <4>2, <4>3 DEF Alike
    <3>3. QED
      BY <3>1, <3>2
  <2>7. y[k].pass # "analyze" /\ y[k].names = scopes[k].names /\ y[k].active = c + 1
    BY <1>4, <1>9, <2>1, <2>5, <2>6 DEF Analyzing
  <2>8. /\ Storage(z) /\ z \in Seq(ScopeType) /\ Len(z) = k
        /\ z[k].pass # "analyze" /\ z[k].names = scopes[k].names /\ z[k].active = c + 1 + 1
    <3>1. Len(y) >= 1 /\ y[Len(y)].pass # "analyze" /\ y[Len(y)].names[y[Len(y)].active] = HIDDEN
      BY <1>4, <2>1, <2>3, <2>6, <2>7
    <3>2. Storage(z)
      BY <2>2, <2>6, <3>1, StorageDeclared
    <3>3. Len(y) = k
      BY <2>6
    <3>4. QED
      BY <2>2, <2>7, <3>2, <3>3 DEF Declares, Kin
  <2>9. Len(z) >= 1 /\ z[Len(z)].pass # "analyze" /\ z[Len(z)].names[z[Len(z)].active] = HIDDEN
    BY <1>4, <2>1, <2>3, <2>8
  <2>10. QED
    BY <2>2, <2>8, <2>9, StorageDeclared
<1>10. QED
  BY <1>8, <1>9

LEMMA BlockStorage ==
  ASSUME Shape, Storage(scopes), NEW t, BlockStep(t) \/ EnterStep(t) \/ CloseStep(t)
  PROVE  Storage(scopes')
<1>1. PICK r : r = scopes'
  OBVIOUS
<1>2. scopes \in Seq(ScopeType) /\ Len(scopes) >= 1 /\ Top(scopes) = scopes[Len(scopes)] /\ Top(scopes).active \in Nat
  BY ScopesAre DEF Shape
<1>3. CASE BlockStep(t)
  BY <1>1, <1>2, <1>3, StorageBegun DEF BlockStep
<1>4. CASE EnterStep(t)
  <2>1. PICK b : Enters(r, scopes, t, b)
    BY <1>1, <1>4 DEF EnterStep
  <2>2. QED
    BY <1>1, <1>2, <2>1, StorageEntered
<1>5. CASE CloseStep(t)
  <2>1. PICK base \in 0 .. scopes[Len(scopes)].active : Closes(r, scopes, base)
    BY <1>1, <1>2, <1>5 DEF CloseStep
  <2>2. QED
    BY <1>1, <1>2, <2>1, StorageClosed
<1>6. QED
  BY <1>3, <1>4, <1>5

(* What the function around one that ends knows of it. *)
LEMMA PlannedBelow ==
  ASSUME Shape, Analysed, NEW t, LeaveStep(t), NEW b, b = Below(scopes), NEW o, o = Top(scopes).opener
  PROVE  /\ b \in Seq(ScopeType) /\ Len(b) = Len(scopes) - 1 /\ Len(b) >= 1 /\ b[Len(b)].active \in Nat
         /\ Named(b, Below(Lay[ip]))
         /\ b[Len(b)].pass # "analyze" /\ o.op = "localfunc" => b[Len(b)].names[b[Len(b)].active] = o.name
         /\ o.op = "funcdef" => Known(b, o.name)
<1>1. PICK k, m, a : k = Len(scopes) /\ m = Lay[ip] /\ a = After(Lay[ip], t, ip)
  OBVIOUS
<1>2. /\ Fits(scopes, m) /\ LayoutOK(m, ip) /\ ip \in Nat /\ ip >= 1 /\ k \in Nat /\ k = Len(m) /\ k > 1
      /\ scopes \in Seq(ScopeType) /\ Top(scopes) = scopes[k] /\ Named(scopes, m) /\ Len(scopes) >= 1
  BY <1>1, ShapeFits, ScopesAre, NamedHere DEF Shape, Fits, LeaveStep
<1>3. t.op = "end" /\ scopes[k].blocks = <<>> /\ Ending(t) /\ Reads(t, prog')
  BY <1>2 DEF LeaveStep, Ending
<1>4. o = m[k].opener /\ m[k].blocks = <<>> /\ k \in 1 .. k /\ k - 1 \in 1 .. k - 1 /\ k - 1 \in 1 .. k /\ m \in Seq(FrameType)
  <2>1. k \in 1 .. k /\ k - 1 \in 1 .. k - 1 /\ k - 1 \in 1 .. k
    BY <1>2
  <2>2. scopes[k].opener = m[k].opener /\ scopes[k].blocks = m[k].blocks
    BY <1>1, <1>2, <2>1 DEF Fits
  <2>3. QED
    BY <1>2, <1>3, <2>1, <2>2 DEF LayoutOK
<1>5. /\ b \in Seq(ScopeType) /\ Len(b) = k - 1 /\ (\A d \in 1 .. k - 1 : b[d] = scopes[d])
      /\ b[k - 1] = scopes[k - 1] /\ b[k - 1].active \in Nat
  <2>1. b \in Seq(ScopeType) /\ Len(b) = k - 1 /\ \A d \in 1 .. k - 1 : b[d] = scopes[d]
    BY <1>1, <1>2, BelowIs
  <2>2. b[k - 1] \in ScopeType
    BY <1>4, <2>1, ElementOfSeq
  <2>3. QED
    BY <1>4, <2>1, <2>2, ScopeTyped, SlotsAre
<1>6. Named(b, Below(m))
  BY <1>1, <1>2, <1>4, NamedBelow
<1>7. ASSUME NEW d \in 1 .. k - 1, scopes[d].pass # "analyze" PROVE AsPlanned(d, t, a)
  <2>1. d \in 1 .. Len(scopes) /\ d < Len(scopes)
    BY <1>1, <1>2
  <2>2. QED
    BY <1>1, <1>3, <1>7, <2>1, Planned
<1>8. ASSUME b[k - 1].pass # "analyze", o.op = "localfunc" PROVE b[k - 1].names[b[k - 1].active] = o.name
  <2>1. AsPlanned(k - 1, t, a)
    BY <1>4, <1>5, <1>7, <1>8
  <2>2. PICK f : f = m[k - 1]
    OBVIOUS
  <2>3. a[k - 1] = Stored(f, o)
    <3>1. PICK i : i = ip
      OBVIOUS
    <3>2. i \in Nat /\ i >= 1 /\ LayoutOK(m, i) /\ a = After(m, t, i) /\ m[Len(m)].blocks = <<>> /\ Len(m) > 1
      BY <1>1, <1>2, <1>4, <3>1
    <3>3. \A d \in 1 .. Len(m) - 1 : a[d] = IF d = Len(m) - 1 THEN Stored(m[Len(m) - 1], m[Len(m)].opener) ELSE m[d]
      BY <1>3, <3>2, AfterFunction
    <3>4. QED
      BY <1>2, <1>4, <2>2, <3>3
  <2>4. f \in FrameType /\ FrameOK(f) /\ scopes[k - 1].active = Len(f.locals) /\ Len(f.locals) \in Nat
    <3>1. f \in FrameType
      BY <1>2, <1>4, <2>2, ElementOfSeq
    <3>2. FrameOK(f) /\ scopes[k - 1].active = Len(f.locals)
      BY <1>1, <1>2, <1>4, <2>2 DEF LayoutOK, Fits
    <3>3. QED
      BY <3>1, <3>2, FrameTyped
  <2>5. o \in {MAIN} \/ (o.op \in Openers /\ Proper(o))
    BY DEF LeaveStep
  <2>6. PICK g, c : g = Stored(f, o) /\ c = Len(f.locals)
    OBVIOUS
  <2>7. Len(g.locals) = c + 1 /\ g.locals[c + 1] = o.name
    BY <1>8, <2>4, <2>5, <2>6, StoredIs
  <2>8. c + 1 \in 1 .. Len(g.locals) /\ c + 1 - 1 = c
    BY <2>4, <2>6, <2>7
  <2>9. \A j \in 1 .. Len(g.locals) : scopes[k - 1].names[j - 1] = g.locals[j]
    BY <2>1, <2>3, <2>6 DEF AsPlanned
  <2>10. scopes[k - 1].names[c] = o.name
    <3>1. PICK i : i = c + 1
      OBVIOUS
    <3>2. i \in 1 .. Len(g.locals) /\ g.locals[i] = o.name
      BY <2>7, <2>8, <3>1
    <3>3. scopes[k - 1].names[i - 1] = o.name
      BY <2>9, <3>2
    <3>4. i - 1 = c
      <4>1. c \in Nat
        BY <2>4, <2>6
      <4>2. QED
        BY <3>1, <4>1
    <3>5. QED
      BY <3>3, <3>4
  <2>11. QED
    BY <1>5, <2>4, <2>6, <2>10
<1>9. ASSUME o.op = "funcdef" PROVE Known(b, o.name)
  <2>1. CapturesAt(m, t) = Captures(Below(m), o.name)
    <3>1. Top(m) = m[k]
      BY <1>2 DEF Top
    <3>2. QED
      BY <1>3, <1>4, <1>9, <3>1 DEF CapturesAt
  <2>2. ASSUME NEW c \in Captures(Below(m), o.name), b[c[1]].pass # "analyze" PROVE c[2] \in b[c[1]].captured
    <3>1. PICK d : d = c[1]
      OBVIOUS
    <3>2. d \in 1 .. k - 1
      <4>1. Resolves(Resolve(b, o.name), b, o.name)
        <5>1. Len(b) >= 1
          BY <1>2, <1>5
        <5>2. QED
          BY <1>5, <5>1, ResolveIs
      <4>2. d \in 1 .. Len(b) - 1
        BY <1>6, <3>1, <4>1, ResolveCaptures
      <4>3. QED
        BY <1>2, <1>5, <4>2
    <3>3. AsPlanned(d, t, a)
      BY <1>5, <1>7, <2>2, <3>1, <3>2
    <3>4. QED
      BY <1>1, <1>5, <2>1, <3>1, <3>2, <3>3 DEF AsPlanned
  <2>3. QED
    BY <1>6, <2>2, KnownIs
<1>10. Len(b) >= 1 /\ Len(b) = Len(scopes) - 1
  BY <1>1, <1>2, <1>5
<1>11. QED
  BY <1>1, <1>5, <1>6, <1>8, <1>9, <1>10

LEMMA LeaveStorage ==
  ASSUME Shape, Analysed, Storage(scopes), NEW t, LeaveStep(t)
  PROVE  Storage(scopes')
<1>1. PICK r, b, o : r = scopes' /\ b = Below(scopes) /\ o = Top(scopes).opener
  OBVIOUS
<1>2. Takes(r, b, o) /\ Len(scopes) > 1 /\ scopes[Len(scopes) - 1].pass = Top(scopes).pass
  BY <1>1 DEF LeaveStep
<1>3. scopes \in Seq(ScopeType) /\ Len(scopes) >= 1 /\ Len(scopes) \in Nat
  BY ScopesAre DEF Shape
<1>4. /\ b \in Seq(ScopeType) /\ Len(b) = Len(scopes) - 1 /\ Len(b) >= 1 /\ b[Len(b)].active \in Nat
      /\ b[Len(b)].pass # "analyze" /\ o.op = "localfunc" => b[Len(b)].names[b[Len(b)].active] = o.name
      /\ o.op = "funcdef" => Known(b, o.name)
  BY <1>1, PlannedBelow
<1>5. Storage(b)
  BY <1>1, <1>2, <1>3, StorageBelow
<1>6. b[Len(b)] = scopes[Len(scopes) - 1]
  <2>1. Len(scopes) - 1 \in 1 .. Len(scopes) - 1
    BY <1>2, <1>3
  <2>2. QED
    BY <1>1, <1>3, <1>4, <2>1, BelowIs
<1>7. b[Len(b)].pass = "analyze" <=> Analyzing
  BY <1>2, <1>6 DEF Analyzing
<1>8. CASE o.op = "localfunc"
  <2>1. IF Analyzing THEN Adds(r, b, o.name) ELSE Declares(r, b, o.name)
    BY <1>2, <1>8 DEF Takes
  <2>2. CASE Analyzing
    BY <1>1, <1>4, <1>5, <1>7, <2>1, <2>2, StorageAdded
  <2>3. CASE ~Analyzing
    BY <1>1, <1>4, <1>5, <1>7, <1>8, <2>1, <2>3, StorageDeclared
  <2>4. QED
    BY <2>2, <2>3
<1>9. CASE o.op = "funcdef"
  <2>1. Resolves(r, b, o.name)
    BY <1>2, <1>9 DEF Takes
  <2>2. QED
    BY <1>1, <1>4, <1>5, <1>9, <2>1, StorageResolved
<1>10. CASE o.op \notin {"localfunc", "funcdef"}
  BY <1>1, <1>2, <1>5, <1>10 DEF Takes
<1>11. QED
  BY <1>8, <1>9, <1>10

LEMMA StorageNext ==
  ASSUME Shape, Analysed, ~HeaderUses, Storage(scopes), [Next]_vars
  PROVE  Storage(scopes')
<1>1. CASE UNCHANGED vars
  BY <1>1 DEF vars
<1>2. CASE StartStep
  <2>1. PICK r : r = scopes'
    OBVIOUS
  <2>2. Starts(r, scopes)
    BY <1>2, <2>1 DEF StartStep
  <2>3. QED
    BY <2>1, <2>2, ScopesAre, StorageStarted DEF Shape
<1>3. ASSUME NEW t, Step(t) PROVE Storage(scopes')
  BY <1>3, UseStorage, LocalStorage, LocalsStorage, LoopStorage, BlockStorage, LeaveStorage DEF Step
<1>4. QED
  BY <1>1, <1>2, <1>3, StepIs

LEMMA StorageInit ==
  ASSUME Init
  PROVE  Storage(scopes)
<1>1. Len(scopes) = 1 /\ scopes[1] = NewScope(MAIN, 1, FALSE)
  BY DEF Init
<1>2. Stores(1, scopes[1])
  BY <1>1 DEF NewScope, Stores
<1>3. \A d \in 1 .. 1 : d = 1
  OBVIOUS
<1>4. QED
  BY <1>1, <1>2, <1>3 DEF Storage

-----------------------------------------------------------------------------
(* Captures and storage. *)

StorageInv == Shape /\ Analysed /\ Storage(scopes)

LEMMA StorageInvNext ==
  ASSUME StorageInv, ~Renames, ~HeaderUses, [Next]_vars
  PROVE  StorageInv'
<1>1. Shape /\ Analysed /\ Storage(scopes)
  BY DEF StorageInv
<1>2. Shape'
  BY <1>1, ShapeNext
<1>3. Analysed'
  BY <1>1, <1>2, AnalysedNext
<1>4. Storage(scopes)'
  BY <1>1, StorageNext DEF Storage
<1>5. QED
  BY <1>2, <1>3, <1>4 DEF StorageInv

LEMMA StorageInvariant ==
  ASSUME ~Renames, ~HeaderUses
  PROVE  Spec => []StorageInv
<1>1. Init => StorageInv
  BY ShapeInit, AnalysedInit, StorageInit DEF StorageInv
<1>2. StorageInv /\ [Next]_vars => StorageInv'
  BY StorageInvNext
<1>3. QED
  BY <1>1, <1>2, PTL DEF Spec

LEMMA CellFound ==
  ASSUME NEW d, NEW f \in ScopeType, Stores(d, f), f.pass # "analyze", MaxSlots < NOENV, NEW i \in f.captured
  PROVE  f.env[i] # NOENV
<1>1. i \in SlotNo /\ f.captured \in SUBSET SlotNo
  BY ScopeTyped
<1>2. f.env[i] = Cardinality({j \in f.captured : j < i})
  BY <1>1 DEF Stores
<1>3. i \in Nat /\ i <= MaxSlots /\ MaxSlots \in Nat
  BY <1>1, SlotsAre
<1>4. Cardinality({j \in f.captured : j < i}) <= i /\ Cardinality({j \in f.captured : j < i}) \in Nat
  BY <1>1, <1>3, CountBelow
<1>5. QED
  BY <1>2, <1>3, <1>4 DEF NOENV

LEMMA FoundHere ==
  ASSUME StorageInv, MaxSlots < NOENV
  PROVE  CapturesFound
<1> SUFFICES ASSUME NEW d \in DOMAIN scopes, scopes[d].pass = "compile", NEW i \in scopes[d].captured
             PROVE  scopes[d].env[i] # NOENV
  BY DEF CapturesFound
<1>1. scopes \in Seq(ScopeType) /\ d \in 1 .. Len(scopes)
  BY ScopesAre, LenProperties DEF StorageInv, Shape
<1>2. PICK f : f = scopes[d]
  OBVIOUS
<1>3. Stores(d, f) /\ f.pass # "analyze" /\ f \in ScopeType
  BY <1>1, <1>2, ElementOfSeq DEF StorageInv, Storage
<1>4. QED
  BY <1>2, <1>3, CellFound

(* In a function of fewer slots than a byte can name, every slot that the   *)
(* second pass treats as captured has a cell (resolve_upvalue_scope).       *)
THEOREM CapturesAlwaysFound ==
  ASSUME ~Renames, ~HeaderUses, MaxSlots < NOENV
  PROVE  Spec => []CapturesFound
<1>1. StorageInv => CapturesFound
  BY FoundHere
<1>2. Spec => []StorageInv
  BY StorageInvariant
<1>3. QED
  BY <1>1, <1>2, PTL

(* The cells of a function are numbered in the order of its slots. *)
LEMMA CellsDiffer ==
  ASSUME NEW U \in SUBSET SlotNo, NEW i \in U, NEW j \in U, i < j
  PROVE  Cardinality({x \in U : x < i}) < Cardinality({x \in U : x < j})
<1>1. i \in Nat /\ j \in Nat /\ \A x \in U : x \in Nat
  BY SlotsAre
<1>2. PICK V, W : V = {x \in U : x < i} /\ W = {x \in U : x < j}
  OBVIOUS
<1>3. IsFiniteSet(V) /\ IsFiniteSet(W) /\ Cardinality(V) \in Nat /\ Cardinality(W) \in Nat
  BY <1>1, <1>2, CountBelow
<1>4. i \notin V
  BY <1>1, <1>2
<1>5. IsFiniteSet(V \cup {i}) /\ Cardinality(V \cup {i}) = Cardinality(V) + 1
  BY <1>3, <1>4, FS_AddElement
<1>6. V \cup {i} \subseteq W
  <2>1. \A x \in V : x \in Nat /\ x < i /\ x \in U
    BY <1>1, <1>2
  <2>2. \A x \in V : x < j
    BY <1>1, <2>1
  <2>3. QED
    BY <1>2, <2>1, <2>2
<1>7. Cardinality(V \cup {i}) <= Cardinality(W)
  BY <1>3, <1>6, FS_Subset
<1>8. QED
  BY <1>2, <1>3, <1>5, <1>7

LEMMA OwnCellsDiffer ==
  ASSUME NEW d, NEW f \in ScopeType, Stores(d, f), f.pass # "analyze",
         NEW i \in SlotNo, NEW j \in SlotNo, OwnCell(d, f, i) = OwnCell(d, f, j)
  PROVE  i = j
<1> SUFFICES ASSUME i # j PROVE FALSE
  OBVIOUS
<1>1. PICK U : U = f.captured
  OBVIOUS
<1>2. U \in SUBSET SlotNo /\ i \in Nat /\ j \in Nat
  BY <1>1, ScopeTyped, SlotsAre
<1>3. \A x \in U : f.env[x] = Cardinality({y \in U : y < x})
  BY <1>1, <1>2 DEF Stores
<1>4. "cell" # "slot"
  OBVIOUS
<1>5. CASE i \notin U \/ j \notin U
  BY <1>1, <1>4, <1>5 DEF OwnCell
<1>6. CASE i \in U /\ j \in U
  <2>1. f.env[i] = f.env[j]
    BY <1>1, <1>6 DEF OwnCell
  <2>2. PICK a, b : a = Cardinality({y \in U : y < i}) /\ b = Cardinality({y \in U : y < j})
    OBVIOUS
  <2>3. a = b /\ a \in Nat /\ b \in Nat
    BY <1>2, <1>3, <1>6, <2>1, <2>2, CountBelow
  <2>4. ~(i < j) /\ ~(j < i)
    <3>1. i < j => a < b
      BY <1>2, <1>6, <2>2, CellsDiffer
    <3>2. j < i => b < a
      BY <1>2, <1>6, <2>2, CellsDiffer
    <3>3. QED
      BY <2>3, <3>1, <3>2
  <2>5. QED
    BY <1>2, <2>4
<1>7. QED
  BY <1>5, <1>6

LEMMA DistinctHere ==
  ASSUME StorageInv
  PROVE  StorageDistinct
<1>1. scopes \in Seq(ScopeType) /\ DOMAIN scopes = 1 .. Len(scopes) /\ Storage(scopes)
  BY ScopesAre, LenProperties DEF StorageInv, Shape
<1>2. ASSUME NEW d \in DOMAIN scopes, NEW i \in DOMAIN scopes[d].visible
      PROVE  /\ scopes[d].visible[i].store = OwnCell(d, scopes[d], i - 1) /\ i - 1 \in SlotNo /\ i \in Nat
             /\ scopes[d].pass # "analyze" /\ Stores(d, scopes[d]) /\ scopes[d] \in ScopeType
  <2>1. PICK f : f = scopes[d]
    OBVIOUS
  <2>2. f \in ScopeType /\ Stores(d, f)
    BY <1>1, <2>1, ElementOfSeq DEF Storage
  <2>3. f.visible \in Seq(SeenType) /\ f.active \in SlotNo
    BY <2>2, ScopeTyped
  <2>4. DOMAIN f.visible = 1 .. Len(f.visible) /\ Len(f.visible) \in Nat
    BY <2>3, LenProperties
  <2>5. f.pass # "analyze"
    <3> SUFFICES ASSUME f.pass = "analyze" PROVE FALSE
      OBVIOUS
    <3>1. f.visible = <<>>
      BY <2>2 DEF Stores
    <3>2. QED
      BY <2>1, <2>4, <3>1
  <2>6. Len(f.visible) = f.active
        /\ \A j \in 1 .. f.active : f.visible[j] = [name |-> f.names[j - 1], slot |-> j - 1, store |-> OwnCell(d, f, j - 1)]
    BY <2>2, <2>5 DEF Stores
  <2>7. i \in 1 .. f.active /\ i \in Nat
    BY <2>1, <2>4, <2>6
  <2>8. i - 1 \in SlotNo
    BY <2>3, <2>7, SlotsAre
  <2>9. f.visible[i].store = OwnCell(d, f, i - 1)
    <3>1. f.visible[i] = [name |-> f.names[i - 1], slot |-> i - 1, store |-> OwnCell(d, f, i - 1)]
      BY <2>6, <2>7
    <3>2. QED
      BY <3>1
  <2>10. QED
    BY <2>1, <2>2, <2>5, <2>7, <2>8, <2>9
<1>3. ASSUME NEW d \in DOMAIN scopes, NEW e \in DOMAIN scopes, NEW i \in DOMAIN scopes[d].visible,
             NEW j \in DOMAIN scopes[e].visible, scopes[d].visible[i].store = scopes[e].visible[j].store
      PROVE  d = e /\ i = j
  <2>1. OwnCell(d, scopes[d], i - 1) = OwnCell(e, scopes[e], j - 1)
    BY <1>2, <1>3
  <2>2. d = e
    BY <2>1 DEF OwnCell
  <2>3. i - 1 = j - 1
    BY <1>2, <2>1, <2>2, OwnCellsDiffer
  <2>4. i \in Nat /\ j \in Nat
    BY <1>2
  <2>5. QED
    BY <2>2, <2>3, <2>4
<1>4. QED
  BY <1>3 DEF StorageDistinct

(* Two declarations in scope never share a slot or a cell, in any function  *)
(* being compiled (scope_add_local, analyze_function_body).                *)
THEOREM StorageAlwaysDistinct ==
  ASSUME ~Renames, ~HeaderUses
  PROVE  Spec => []StorageDistinct
<1>1. StorageInv => StorageDistinct
  BY DistinctHere
<1>2. Spec => []StorageInv
  BY StorageInvariant
<1>3. QED
  BY <1>1, <1>2, PTL

-----------------------------------------------------------------------------
(* Accesses. *)

\* Where an access to n belongs, from the names and the cells.
Target(sc, n) ==
  IF IsLocal(sc, n) THEN OwnCell(Len(sc), Top(sc), resolve_local_scope(Top(sc), n))
  ELSE IF IsUpvalue(sc, n)
    THEN OwnCell(OwnerOf(sc, n), sc[OwnerOf(sc, n)], resolve_local_scope(sc[OwnerOf(sc, n)], n))
  ELSE <<0, "global", n>>

LEMMA LargestIs ==
  ASSUME NEW U, NEW i \in U, \A j \in U : j <= i, \A j \in U : j \in Int
  PROVE  Largest(U) = i
<1>1. \E x \in U : \A j \in U : j <= x
  OBVIOUS
<1>2. Largest(U) \in U /\ \A j \in U : j <= Largest(U)
  BY <1>1 DEF Largest
<1>3. Largest(U) <= i /\ i <= Largest(U) /\ i \in Int /\ Largest(U) \in Int
  BY <1>2
<1>4. QED
  BY <1>3

\* The declarations of n in scope in the function f.
Seen(f, n) == {i \in DOMAIN f.visible : f.visible[i].name = n}

LEMMA SeenIs ==
  ASSUME NEW d, NEW f \in ScopeType, Stores(d, f), f.pass # "analyze", NEW n, NEW r, r = resolve_local_scope(f, n)
  PROVE  /\ Seen(f, n) = {} <=> r = -1
         /\ r # -1 => Largest(Seen(f, n)) = r + 1 /\ f.visible[r + 1].store = OwnCell(d, f, r)
<1>1. PICK c : c = f.active
  OBVIOUS
<1>2. f.visible \in Seq(SeenType) /\ c \in Nat
  BY <1>1, ScopeTyped, SlotsAre
<1>3. Len(f.visible) = c
      /\ \A j \in 1 .. c : f.visible[j] = [name |-> f.names[j - 1], slot |-> j - 1, store |-> OwnCell(d, f, j - 1)]
  BY <1>1 DEF Stores
<1>4. DOMAIN f.visible = 1 .. c
  BY <1>2, <1>3, LenProperties
<1>5. \A j \in 1 .. c : f.visible[j].name = f.names[j - 1] /\ f.visible[j].store = OwnCell(d, f, j - 1)
  <2> TAKE j \in 1 .. c
  <2>1. f.visible[j] = [name |-> f.names[j - 1], slot |-> j - 1, store |-> OwnCell(d, f, j - 1)]
    BY <1>3
  <2>2. QED
    BY <2>1
<1>6. PICK U : U = Seen(f, n)
  OBVIOUS
<1>7. U = {j \in 1 .. c : f.names[j - 1] = n}
  BY <1>4, <1>5, <1>6 DEF Seen
<1>8. /\ r = -1 \/ r \in 0 .. c - 1
      /\ r = -1 => \A i \in 0 .. c - 1 : f.names[i] # n
      /\ r # -1 => /\ r \in SlotNo /\ f.names[r] = n
                   /\ \A i \in 0 .. c - 1 : f.names[i] = n => i <= r
  BY <1>1, SlotFound
<1>9. CASE r = -1
  <2>1. \A j \in 1 .. c : j - 1 \in 0 .. c - 1
    BY <1>2
  <2>2. U = {}
    BY <1>7, <1>8, <1>9, <2>1
  <2>3. QED
    BY <1>6, <1>9, <2>2
<1>10. CASE r # -1
  <2>1. PICK p : p = r + 1
    OBVIOUS
  <2>2. p \in 1 .. c /\ p - 1 = r /\ p \in Int /\ r \in Int
    BY <1>2, <1>8, <1>10, <2>1
  <2>3. p \in U /\ f.visible[p].store = OwnCell(d, f, r)
    BY <1>5, <1>7, <1>8, <1>10, <2>2
  <2>4. ASSUME NEW j \in U PROVE j <= p /\ j \in Int
    <3>1. j \in 1 .. c /\ f.names[j - 1] = n
      BY <1>7
    <3>2. j - 1 \in 0 .. c - 1
      BY <1>2, <3>1
    <3>3. j - 1 <= r
      BY <1>8, <1>10, <3>1, <3>2
    <3>4. j \in Int
      BY <1>2, <3>1
    <3>5. QED
      BY <2>1, <2>2, <3>3, <3>4
  <2>5. Largest(U) = p
    BY <2>3, <2>4, LargestIs
  <2>6. QED
    BY <1>6, <1>10, <2>1, <2>3, <2>5
<1>11. QED
  BY <1>9, <1>10

(* The innermost declaration in scope is the one that resolution finds. *)
LEMMA LexicalIs ==
  ASSUME NEW sc \in Seq(ScopeType), Len(sc) >= 1, Storage(sc), \A d \in 1 .. Len(sc) : sc[d].pass # "analyze", NEW n
  PROVE  Lexical(sc, n) = Target(sc, n)
<1>1. DOMAIN sc = 1 .. Len(sc) /\ Len(sc) \in Nat /\ Top(sc) = sc[Len(sc)]
  BY LenProperties DEF Top
<1>2. PICK k : k = Len(sc)
  OBVIOUS
<1>3. ASSUME NEW d \in 1 .. k
      PROVE  /\ Seen(sc[d], n) = {} <=> resolve_local_scope(sc[d], n) = -1
             /\ resolve_local_scope(sc[d], n) # -1 =>
                  sc[d].visible[Largest(Seen(sc[d], n))].store = OwnCell(d, sc[d], resolve_local_scope(sc[d], n))
  <2>1. PICK f, r : f = sc[d] /\ r = resolve_local_scope(f, n)
    OBVIOUS
  <2>2. f \in ScopeType /\ Stores(d, f) /\ f.pass # "analyze"
    BY <1>2, <2>1, ElementOfSeq DEF Storage
  <2>3. /\ Seen(f, n) = {} <=> r = -1
        /\ r # -1 => Largest(Seen(f, n)) = r + 1 /\ f.visible[r + 1].store = OwnCell(d, f, r)
    BY <2>1, <2>2, SeenIs
  <2>4. r # -1 => f.visible[Largest(Seen(f, n))].store = OwnCell(d, f, r)
    BY <2>3
  <2>5. QED
    BY <2>1, <2>3, <2>4
<1>4. PICK D : D = {d \in 1 .. k : resolve_local_scope(sc[d], n) # -1}
  OBVIOUS
<1>5. D = {d \in DOMAIN sc : Seen(sc[d], n) # {}}
  BY <1>1, <1>2, <1>3, <1>4
<1>6. Lexical(sc, n) = IF D = {} THEN <<0, "global", n>>
                       ELSE sc[Largest(D)].visible[Largest(Seen(sc[Largest(D)], n))].store
  BY <1>5 DEF Lexical, Seen
<1>7. PICK o : o = OwnerOf(sc, n)
  OBVIOUS
<1>8. /\ o = -1 \/ o \in 1 .. k - 1
      /\ o = -1 => \A d \in 1 .. k - 1 : resolve_local_scope(sc[d], n) = -1
      /\ o # -1 => /\ resolve_local_scope(sc[o], n) # -1
                   /\ \A d \in o + 1 .. k - 1 : resolve_local_scope(sc[d], n) = -1
  BY <1>2, <1>7, OwnerFound
<1>9. k \in 1 .. k /\ k \in Nat /\ (\A d \in 1 .. k - 1 : d \in 1 .. k) /\ \A d \in 1 .. k : d = k \/ d \in 1 .. k - 1
  BY <1>1, <1>2
<1>10. ASSUME NEW d \in D, \A e \in D : e <= d PROVE Lexical(sc, n) = OwnCell(d, sc[d], resolve_local_scope(sc[d], n))
  <2>1. \A e \in D : e \in Int
    BY <1>4
  <2>2. Largest(D) = d
    BY <1>10, <2>1, LargestIs
  <2>3. d \in 1 .. k /\ resolve_local_scope(sc[d], n) # -1
    BY <1>4
  <2>4. sc[d].visible[Largest(Seen(sc[d], n))].store = OwnCell(d, sc[d], resolve_local_scope(sc[d], n))
    BY <1>3, <2>3
  <2>5. QED
    BY <1>6, <2>2, <2>4
<1>11. CASE IsLocal(sc, n)
  <2>1. k \in D
    BY <1>1, <1>2, <1>4, <1>9, <1>11 DEF IsLocal
  <2>2. \A e \in D : e <= k
    BY <1>4, <1>9
  <2>3. Lexical(sc, n) = OwnCell(k, sc[k], resolve_local_scope(sc[k], n))
    BY <1>10, <2>1, <2>2
  <2>4. QED
    BY <1>1, <1>2, <1>11, <2>3 DEF Target
<1>12. CASE ~IsLocal(sc, n) /\ o # -1
  <2>1. resolve_local_scope(sc[k], n) = -1 /\ IsUpvalue(sc, n)
    BY <1>1, <1>2, <1>7, <1>12 DEF IsLocal, IsUpvalue
  <2>2. o \in D
    BY <1>4, <1>8, <1>9, <1>12
  <2>3. ASSUME NEW e \in D PROVE e <= o
    <3>1. e \in 1 .. k - 1 /\ resolve_local_scope(sc[e], n) # -1
      BY <1>4, <1>9, <2>1
    <3>2. e \notin o + 1 .. k - 1
      BY <1>8, <1>12, <3>1
    <3>3. QED
      BY <1>8, <1>9, <1>12, <3>1, <3>2
  <2>4. Lexical(sc, n) = OwnCell(o, sc[o], resolve_local_scope(sc[o], n))
    BY <1>10, <2>2, <2>3
  <2>5. QED
    BY <1>7, <1>12, <2>1, <2>4 DEF Target
<1>13. CASE ~IsLocal(sc, n) /\ o = -1
  <2>1. D = {}
    BY <1>1, <1>2, <1>4, <1>8, <1>9, <1>13 DEF IsLocal
  <2>2. QED
    BY <1>6, <1>7, <1>13, <2>1 DEF Target, IsUpvalue
<1>14. QED
  BY <1>11, <1>12, <1>13

(* Resolving a name again changes nothing. *)
LEMMA ResolvedAgain ==
  ASSUME NEW sc \in Seq(ScopeType), Len(sc) >= 1, NEW n, NEW r, Resolves(r, sc, n)
  PROVE  /\ \A d \in 1 .. Len(sc) : resolve_local_scope(r[d], n) = resolve_local_scope(sc[d], n)
         /\ OwnerOf(r, n) = OwnerOf(sc, n) /\ (IsLocal(r, n) <=> IsLocal(sc, n)) /\ (IsUpvalue(r, n) <=> IsUpvalue(sc, n))
<1>1. PICK k : k = Len(sc)
  OBVIOUS
<1>2. k \in Nat /\ k \in 1 .. k /\ k = Len(r) /\ Top(sc) = sc[k] /\ Top(r) = r[k]
  BY <1>1, LenProperties DEF Resolves, Top
<1>3. ASSUME NEW d \in 1 .. k PROVE resolve_local_scope(r[d], n) = resolve_local_scope(sc[d], n)
  <2>1. Alike(r[d], sc[d])
    BY <1>1 DEF Resolves
  <2>2. QED
    BY <2>1 DEF Alike, resolve_local_scope
<1>4. OwnerOf(r, n) = OwnerOf(sc, n)
  <2>1. \A d \in 1 .. k - 1 : d \in 1 .. k
    BY <1>2
  <2>2. {d \in 1 .. k - 1 : resolve_local_scope(r[d], n) # -1} = {d \in 1 .. k - 1 : resolve_local_scope(sc[d], n) # -1}
    BY <1>3, <2>1
  <2>3. QED
    BY <1>1, <1>2, <2>2 DEF OwnerOf
<1>5. QED
  BY <1>1, <1>2, <1>3, <1>4 DEF IsLocal, IsUpvalue

LEMMA AddedAgain ==
  ASSUME NEW u \in Seq(UpType), NEW x \in UpType
  PROVE  add_upvalue(add_upvalue(u, x), x) = add_upvalue(u, x)
<1>1. PICK w : w = add_upvalue(u, x)
  OBVIOUS
<1>2. \E i \in DOMAIN w : w[i] = x
  BY <1>1, UpvalueAdded DEF Added
<1>3. add_upvalue(w, x) = w
  BY <1>2 DEF add_upvalue
<1>4. QED
  BY <1>1, <1>3

LEMMA DescriptorsAgain ==
  ASSUME NEW sc \in Seq(ScopeType), Len(sc) >= 1, NEW n, NEW r, Resolves(r, sc, n), IsUpvalue(sc, n), NEW o, o = OwnerOf(sc, n)
  PROVE  \A d \in o + 1 .. Len(sc) : Descriptors(r, n)[d] = Descriptors(sc, n)[d]
<1>1. PICK k, i : k = Len(sc) /\ i = resolve_local_scope(sc[o], n)
  OBVIOUS
<1>2. o # -1 /\ k \in Nat /\ r \in Seq(ScopeType) /\ Len(r) = k /\ OwnerOf(r, n) = o /\ Len(r) >= 1
  BY <1>1, ResolvedAgain, LenProperties DEF IsUpvalue, Resolves
<1>3. o \in 1 .. k - 1
  BY <1>1, <1>2, OwnerFound
<1>4. i = resolve_local_scope(r[o], n) /\ r[o].env = sc[o].env
  <2>1. o \in 1 .. Len(sc)
    BY <1>1, <1>2, <1>3
  <2>2. Alike(r[o], sc[o])
    BY <2>1 DEF Resolves
  <2>3. \A d \in 1 .. Len(sc) : resolve_local_scope(r[d], n) = resolve_local_scope(sc[d], n)
    BY ResolvedAgain
  <2>4. QED
    BY <1>1, <2>1, <2>2, <2>3 DEF Alike
<1>5. PICK D, E : D = Descriptors(sc, n) /\ E = Descriptors(r, n)
  OBVIOUS
<1>6. \A d \in o + 1 .. k :
        /\ D[d] \in UpType
        /\ D[d] = IF d = o + 1
                    THEN [from_local |-> TRUE, index |-> IF sc[o].env[i] = NOENV THEN i ELSE sc[o].env[i]]
                    ELSE [from_local |-> FALSE, index |-> Position(add_upvalue(sc[d - 1].ups, D[d - 1]), D[d - 1])]
  BY <1>1, <1>2, <1>5, DescriptorsAre
<1>7. \A d \in o + 1 .. k :
        E[d] = IF d = o + 1
                    THEN [from_local |-> TRUE, index |-> IF r[o].env[i] = NOENV THEN i ELSE r[o].env[i]]
                    ELSE [from_local |-> FALSE, index |-> Position(add_upvalue(r[d - 1].ups, E[d - 1]), E[d - 1])]
  <2>1. o = OwnerOf(r, n) /\ OwnerOf(r, n) # -1 /\ i = resolve_local_scope(r[o], n)
    BY <1>2, <1>4
  <2>2. PICK v : v = r
    OBVIOUS
  <2>3. v \in Seq(ScopeType) /\ Len(v) = k /\ Len(v) >= 1 /\ OwnerOf(v, n) # -1 /\ E = Descriptors(v, n)
    BY <1>2, <1>5, <2>1, <2>2
  <2>4. o = OwnerOf(v, n) /\ i = resolve_local_scope(v[o], n)
    BY <2>1, <2>2
  <2>5. \A d \in o + 1 .. k :
          /\ E[d] \in UpType
          /\ E[d] = IF d = o + 1
                      THEN [from_local |-> TRUE, index |-> IF v[o].env[i] = NOENV THEN i ELSE v[o].env[i]]
                      ELSE [from_local |-> FALSE, index |-> Position(add_upvalue(v[d - 1].ups, E[d - 1]), E[d - 1])]
    BY <2>3, <2>4, DescriptorsAre
  <2>6. QED
    BY <2>2, <2>5
<1> DEFINE W == {d \in o + 1 .. k : E[d] = D[d]}
<1>8. o + 1 \in W
  <2>1. o + 1 \in o + 1 .. k
    BY <1>2, <1>3
  <2>2. QED
    BY <1>4, <1>6, <1>7, <2>1
<1>9. ASSUME NEW d \in o + 1 .. k - 1, d \in W PROVE d + 1 \in W
  <2>1. PICK e : e = d + 1
    OBVIOUS
  <2>2. e \in o + 1 .. k /\ e # o + 1 /\ e - 1 = d /\ d \in o + 1 .. k /\ d \in 1 .. k /\ d > o
    BY <1>2, <1>3, <2>1
  <2>3. E[d] = D[d] /\ D[d] \in UpType
    BY <1>6, <1>9, <2>2
  <2>4. r[d].ups = add_upvalue(sc[d].ups, D[d]) /\ sc[d].ups \in Seq(UpType)
    <3>1. sc[d] \in ScopeType
      BY <1>1, <2>2, ElementOfSeq
    <3>2. r[d].ups = IF IsUpvalue(sc, n) /\ d > OwnerOf(sc, n) THEN add_upvalue(sc[d].ups, Descriptors(sc, n)[d]) ELSE sc[d].ups
      BY <1>1, <2>2 DEF Resolves
    <3>3. QED
      BY <1>5, <2>2, <3>1, <3>2, ScopeTyped
  <2>5. add_upvalue(r[d].ups, E[d]) = add_upvalue(sc[d].ups, D[d])
    BY <2>3, <2>4, AddedAgain
  <2>6. E[e] = [from_local |-> FALSE, index |-> Position(add_upvalue(r[d].ups, E[d]), E[d])]
    BY <1>7, <2>2
  <2>7. D[e] = [from_local |-> FALSE, index |-> Position(add_upvalue(sc[d].ups, D[d]), D[d])]
    BY <1>6, <2>2
  <2>8. E[e] = D[e]
    BY <2>3, <2>5, <2>6, <2>7
  <2>9. QED
    BY <2>1, <2>2, <2>8
<1>10. \A d \in o + 1 .. k : d \in W
  <2> HIDE DEF W
  <2>1. o + 1 \in Nat
    BY <1>3
  <2>2. QED
    BY <1>2, <1>8, <1>9, <2>1, Throughout
<1>11. QED
  BY <1>1, <1>5, <1>10

\* The cell behind each upvalue of each function.
Behind(sc) ==
  LET cell[d \in 0 .. Len(sc)] ==
        IF d = 0 THEN <<>>
        ELSE [i \in DOMAIN sc[d].ups |->
                LET u == sc[d].ups[i]
                IN IF u.from_local THEN <<d - 1, "cell", u.index>> ELSE cell[d - 1][u.index + 1]]
  IN cell

LEMMA BehindIs ==
  ASSUME NEW sc \in Seq(ScopeType), Linked(sc)
  PROVE  \A d \in 1 .. Len(sc) : \A i \in DOMAIN sc[d].ups :
           Behind(sc)[d][i] = IF sc[d].ups[i].from_local THEN <<d - 1, "cell", sc[d].ups[i].index>>
                              ELSE Behind(sc)[d - 1][sc[d].ups[i].index + 1]
<1>1. PICK k : k = Len(sc)
  OBVIOUS
<1>2. k \in Nat
  BY <1>1, LenProperties
<1> DEFINE S == Nat \X {"cell"} \X Nat
           T == [d \in 0 .. k |-> IF d = 0 THEN {<<>>} ELSE [DOMAIN sc[d].ups -> S]]
           Next_(d, s) == [i \in DOMAIN sc[d].ups |->
                             IF sc[d].ups[i].from_local THEN <<d - 1, "cell", sc[d].ups[i].index>>
                             ELSE s[sc[d].ups[i].index + 1]]
           h == [x \in (1 .. k) \X UNION {T[d] : d \in 0 .. k} |-> Next_(x[1], x[2])]
<1>3. ASSUME NEW d \in 1 .. k, NEW s \in T[d - 1] PROVE h[<<d, s>>] = Next_(d, s) /\ Next_(d, s) \in T[d]
  <2>1. d - 1 \in 0 .. k /\ d \in 0 .. k /\ d # 0 /\ d - 1 \in Nat
    BY <1>2
  <2>2. <<d, s>> \in (1 .. k) \X UNION {T[e] : e \in 0 .. k}
    <3> HIDE DEF T
    <3>1. QED
      BY <2>1
  <2>3. h[<<d, s>>] = Next_(d, s)
    <3> HIDE DEF T
    <3>1. QED
      BY <2>2
  <2>4. ASSUME NEW i \in DOMAIN sc[d].ups
        PROVE  (IF sc[d].ups[i].from_local THEN <<d - 1, "cell", sc[d].ups[i].index>> ELSE s[sc[d].ups[i].index + 1]) \in S
    <3>1. PICK u : u = sc[d].ups[i]
      OBVIOUS
    <3>2. u \in UpType /\ Leads(u, d, sc[d - 1].ups)
      <4>1. sc[d] \in ScopeType
        BY <1>1, ElementOfSeq
      <4>2. sc[d].ups \in Seq(UpType)
        BY <4>1, ScopeTyped
      <4>3. u \in UpType
        BY <3>1, <4>2, ElementOfSeq, LenProperties
      <4>4. QED
        BY <1>1, <3>1, <4>3 DEF Linked
    <3>3. u.index \in Nat /\ u.from_local \in BOOLEAN
      BY <3>2 DEF UpType
    <3>4. CASE u.from_local
      BY <2>1, <3>1, <3>3, <3>4
    <3>5. CASE ~u.from_local
      <4>1. d > 1 /\ u.index < Len(sc[d - 1].ups)
        BY <3>2, <3>5 DEF Leads
      <4>2. d - 1 \in 1 .. k /\ d - 1 # 0
        BY <1>2, <4>1
      <4>3. sc[d - 1] \in ScopeType
        BY <1>1, <4>2, ElementOfSeq
      <4>4. DOMAIN sc[d - 1].ups = 1 .. Len(sc[d - 1].ups) /\ Len(sc[d - 1].ups) \in Nat
        BY <4>3, ScopeTyped, LenProperties
      <4>5. u.index + 1 \in DOMAIN sc[d - 1].ups
        BY <3>3, <4>1, <4>4
      <4>6. T[d - 1] = [DOMAIN sc[d - 1].ups -> S]
        BY <2>1, <4>2
      <4>7. s[u.index + 1] \in S
        BY <4>5, <4>6
      <4>8. QED
        BY <3>1, <3>5, <4>7
    <3>6. QED
      BY <3>3, <3>4, <3>5
  <2>5. Next_(d, s) \in [DOMAIN sc[d].ups -> S]
    BY <2>4
  <2>6. T[d] = [DOMAIN sc[d].ups -> S]
    BY <2>1
  <2>7. QED
    BY <2>3, <2>5, <2>6
<1>4. <<>> \in T[0]
  BY <1>2
<1> HIDE DEF T, h, S
<1>5. \E f : Steps(f, 0, k, <<>>, h) /\ \A d \in 0 .. k : f[d] \in T[d]
  <2>1. \A d \in 0 + 1 .. k : \A s \in T[d - 1] : h[<<d, s>>] \in T[d]
    <3> HIDE DEF Next_
    <3>1. 0 + 1 = 1
      OBVIOUS
    <3>2. \A d \in 1 .. k : \A s \in T[d - 1] : h[<<d, s>>] \in T[d]
      BY <1>3
    <3>3. QED
      BY <3>1, <3>2
  <2>2. 0 \in Nat /\ 0 <= k
    BY <1>2
  <2>3. QED
    BY <1>2, <1>4, <2>1, <2>2, IntervalRecursion
<1>6. PICK f : f = [d \in 0 .. k |-> IF d = 0 THEN <<>> ELSE h[<<d, f[d - 1]>>]] /\ \A d \in 0 .. k : f[d] \in T[d]
  BY <1>5 DEF Steps
<1>7. \A d \in 0 .. k : (IF d = 0 THEN <<>> ELSE h[<<d, f[d - 1]>>]) = (IF d = 0 THEN <<>> ELSE Next_(d, f[d - 1]))
  <2> TAKE d \in 0 .. k
  <2>1. CASE d = 0
    BY <2>1
  <2>2. CASE d # 0
    <3>1. d \in 1 .. k /\ d - 1 \in 0 .. k
      BY <1>2, <2>2
    <3>2. f[d - 1] \in T[d - 1]
      BY <1>6, <3>1
    <3>3. h[<<d, f[d - 1]>>] = Next_(d, f[d - 1])
      BY <1>3, <3>1, <3>2
    <3>4. QED
      BY <2>2, <3>3
  <2>3. QED
    BY <2>1, <2>2
<1> DEFINE Is(e) == e = [d \in 0 .. k |-> IF d = 0 THEN <<>> ELSE Next_(d, e[d - 1])]
<1>8. Is(f)
  <2> HIDE DEF Next_
  <2>1. QED
    BY <1>6, <1>7
<1>9. PICK e : e = Behind(sc)
  OBVIOUS
<1>10. e = CHOOSE x : Is(x)
  BY <1>1, <1>9, Zenon DEF Behind
<1>11. Is(e)
  BY <1>8, <1>10, Zenon
<1>12. ASSUME NEW d \in 1 .. k, NEW i \in DOMAIN sc[d].ups
       PROVE  e[d][i] = IF sc[d].ups[i].from_local THEN <<d - 1, "cell", sc[d].ups[i].index>>
                              ELSE e[d - 1][sc[d].ups[i].index + 1]
  <2>1. d \in 0 .. k /\ d # 0
    BY <1>2
  <2>2. e[d] = Next_(d, e[d - 1])
    <3> HIDE DEF Next_
    <3>1. QED
      BY <1>11, <2>1
  <2>3. QED
    BY <2>2
<1>13. QED
  BY <1>1, <1>9, <1>12

(* The upvalues from the owner of n to the top lead to its cell. *)
LEMMA ChainFollowed ==
  ASSUME NEW sc \in Seq(ScopeType), Len(sc) >= 1, Linked(sc), NEW n, IsUpvalue(sc, n), NEW r, Resolves(r, sc, n),
         NEW o, o = OwnerOf(sc, n), NEW i, i = resolve_local_scope(sc[o], n), sc[o].env[i] # NOENV
  PROVE  Emitted(r, n) = <<o, "cell", sc[o].env[i]>>
<1>1. PICK k, D, B : k = Len(sc) /\ D = Descriptors(sc, n) /\ B = Behind(r)
  OBVIOUS
<1>2. o # -1 /\ k \in Nat /\ r \in Seq(ScopeType) /\ Len(r) = k /\ Top(r) = r[k]
  BY <1>1, LenProperties DEF IsUpvalue, Resolves, Top
<1>3. o \in 1 .. k - 1 /\ o \in Nat /\ o + 1 \in o + 1 .. k /\ k \in o + 1 .. k
  <2>1. o \in 1 .. k - 1
    BY <1>1, <1>2, OwnerFound
  <2>2. QED
    BY <1>2, <2>1
<1>4. \A d \in o + 1 .. k :
        /\ D[d] \in UpType
        /\ D[d] = IF d = o + 1
                    THEN [from_local |-> TRUE, index |-> IF sc[o].env[i] = NOENV THEN i ELSE sc[o].env[i]]
                    ELSE [from_local |-> FALSE, index |-> Position(add_upvalue(sc[d - 1].ups, D[d - 1]), D[d - 1])]
  BY <1>1, <1>2, DescriptorsAre
<1>5. Linked(r)
  BY LinkedResolve
<1>6. \A d \in 1 .. k : \A j \in DOMAIN r[d].ups :
        B[d][j] = IF r[d].ups[j].from_local THEN <<d - 1, "cell", r[d].ups[j].index>>
                  ELSE B[d - 1][r[d].ups[j].index + 1]
  BY <1>1, <1>2, <1>5, BehindIs
<1> DEFINE P(d) == Position(r[d].ups, D[d]) + 1
<1>7. ASSUME NEW d \in o + 1 .. k
      PROVE  /\ d \in 1 .. k /\ P(d) \in DOMAIN r[d].ups /\ r[d].ups[P(d)] = D[d]
             /\ r[d].ups = add_upvalue(sc[d].ups, D[d])
  <2>1. d \in 1 .. k /\ d > o
    BY <1>2, <1>3
  <2>2. sc[d].ups \in Seq(UpType)
    BY <1>1, <2>1, ElementOfSeq, ScopeTyped
  <2>3. r[d].ups = add_upvalue(sc[d].ups, D[d])
    <3>1. r[d].ups = IF IsUpvalue(sc, n) /\ d > OwnerOf(sc, n) THEN add_upvalue(sc[d].ups, Descriptors(sc, n)[d]) ELSE sc[d].ups
      BY <1>1, <2>1 DEF Resolves
    <3>2. QED
      BY <1>1, <2>1, <3>1
  <2>4. PICK u, x : u = r[d].ups /\ x = D[d]
    OBVIOUS
  <2>5. Added(u, sc[d].ups, x)
    BY <1>4, <2>2, <2>3, <2>4, UpvalueAdded
  <2>6. u \in Seq(UpType) /\ \E j \in DOMAIN u : u[j] = x
    BY <2>5 DEF Added
  <2>7. Position(u, x) + 1 \in DOMAIN u /\ u[Position(u, x) + 1] = x
    BY <2>6, PositionIs
  <2>8. QED
    BY <2>1, <2>3, <2>4, <2>7
<1> HIDE DEF P
<1> DEFINE W == {d \in o + 1 .. k : B[d][P(d)] = <<o, "cell", sc[o].env[i]>>}
<1>8. o + 1 \in W
  <2>1. PICK d : d = o + 1
    OBVIOUS
  <2>2. d \in o + 1 .. k /\ d - 1 = o
    BY <1>3, <2>1
  <2>3. D[d] = [from_local |-> TRUE, index |-> sc[o].env[i]]
    BY <1>4, <2>1, <2>2
  <2>4. r[d].ups[P(d)].from_local /\ r[d].ups[P(d)].index = sc[o].env[i]
    BY <1>7, <2>2, <2>3
  <2>5. B[d][P(d)] = <<d - 1, "cell", sc[o].env[i]>>
    BY <1>6, <1>7, <2>2, <2>4
  <2>6. QED
    BY <2>1, <2>2, <2>5
<1>9. ASSUME NEW d \in o + 1 .. k - 1, d \in W PROVE d + 1 \in W
  <2>1. PICK e : e = d + 1
    OBVIOUS
  <2>2. e \in o + 1 .. k /\ e # o + 1 /\ e - 1 = d /\ d \in o + 1 .. k
    BY <1>2, <1>3, <2>1
  <2>3. D[e] = [from_local |-> FALSE, index |-> Position(add_upvalue(sc[d].ups, D[d]), D[d])]
    BY <1>4, <2>2
  <2>4. add_upvalue(sc[d].ups, D[d]) = r[d].ups
    BY <1>7, <2>2
  <2>5. ~r[e].ups[P(e)].from_local /\ r[e].ups[P(e)].index + 1 = P(d)
    BY <1>7, <2>2, <2>3, <2>4 DEF P
  <2>6. B[e][P(e)] = B[d][P(d)]
    <3>1. PICK j : j = P(e)
      OBVIOUS
    <3>2. e \in 1 .. k /\ j \in DOMAIN r[e].ups
      BY <1>7, <2>2, <3>1
    <3>3. B[e][j] = IF r[e].ups[j].from_local THEN <<e - 1, "cell", r[e].ups[j].index>>
                    ELSE B[e - 1][r[e].ups[j].index + 1]
      BY <1>6, <3>2
    <3>4. B[e][j] = B[d][P(d)]
      BY <2>2, <2>5, <3>1, <3>3
    <3>5. QED
      BY <3>1, <3>4
  <2>7. QED
    BY <1>9, <2>1, <2>2, <2>6
<1>10. k \in W
  <2> HIDE DEF W
  <2>1. \A d \in o + 1 .. k : d \in W
    <3>1. PICK a : a = o + 1
      OBVIOUS
    <3>2. a \in Nat /\ a \in W
      BY <1>3, <1>8, <3>1
    <3>3. \A d \in a .. k - 1 : d \in W => d + 1 \in W
      BY <1>9, <3>1
    <3>4. QED
      BY <1>2, <3>1, <3>2, <3>3, Throughout
  <2>2. QED
    BY <1>3, <2>1
<1>11. B[k][P(k)] = <<o, "cell", sc[o].env[i]>>
  BY <1>10
<1>12. Descriptors(r, n)[k] = D[k]
  BY <1>1, <1>3, DescriptorsAgain
<1>13. ~IsLocal(r, n) /\ IsUpvalue(r, n)
  BY ResolvedAgain DEF IsUpvalue
<1>14. Emitted(r, n) = B[k][Position(Top(r).ups, Descriptors(r, n)[Len(r)]) + 1]
  BY <1>1, <1>2, <1>13, Zenon DEF Emitted, Behind
<1>15. QED
  BY <1>2, <1>11, <1>12, <1>14 DEF P

LEMMA EmittedIs ==
  ASSUME NEW sc \in Seq(ScopeType), Len(sc) >= 1, Linked(sc), Storage(sc), \A d \in 1 .. Len(sc) : sc[d].pass # "analyze",
         NEW n, Known(sc, n), MaxSlots < NOENV
  PROVE  Emitted(Resolve(sc, n), n) = Target(sc, n)
<1>1. PICK r, k, o : r = Resolve(sc, n) /\ k = Len(sc) /\ o = OwnerOf(sc, n)
  OBVIOUS
<1>2. Resolves(r, sc, n)
  BY <1>1, ResolveIs
<1>3. k \in Nat /\ k \in 1 .. k /\ r \in Seq(ScopeType) /\ Len(r) = k /\ Top(r) = r[k] /\ Top(sc) = sc[k]
  BY <1>1, <1>2, LenProperties DEF Resolves, Top
<1>4. /\ \A d \in 1 .. Len(sc) : resolve_local_scope(r[d], n) = resolve_local_scope(sc[d], n)
      /\ (IsLocal(r, n) <=> IsLocal(sc, n)) /\ (IsUpvalue(r, n) <=> IsUpvalue(sc, n))
  BY <1>2, ResolvedAgain
<1>5. CASE IsLocal(sc, n)
  <2>1. PICK i : i = resolve_local_scope(sc[k], n)
    OBVIOUS
  <2>2. i = resolve_local_scope(r[k], n)
    BY <1>1, <1>3, <1>4, <2>1
  <2>3. r[k].captured = sc[k].captured /\ r[k].env = sc[k].env
    <3>1. ~IsUpvalue(sc, n)
      BY <1>5 DEF IsUpvalue
    <3>2. k \in 1 .. Len(sc)
      BY <1>1, <1>3
    <3>3. QED
      BY <1>2, <3>1, <3>2 DEF Resolves, Alike
  <2>4. Emitted(r, n) = Own(r, i)
    BY <1>3, <1>4, <1>5, <2>2 DEF Emitted
  <2>5. Own(r, i) = OwnCell(k, sc[k], i)
    BY <1>3, <2>3 DEF Own, OwnCell
  <2>6. QED
    BY <1>1, <1>3, <1>5, <2>1, <2>4, <2>5 DEF Target
<1>6. CASE ~IsLocal(sc, n) /\ ~IsUpvalue(sc, n)
  BY <1>1, <1>4, <1>6 DEF Emitted, Target
<1>7. CASE ~IsLocal(sc, n) /\ IsUpvalue(sc, n)
  <2>1. PICK i, f : i = resolve_local_scope(sc[o], n) /\ f = sc[o]
    OBVIOUS
  <2>2. o \in 1 .. k
    <3>1. o \in 1 .. k - 1
      BY <1>1, <1>7, OwnerFound DEF IsUpvalue
    <3>2. QED
      BY <1>3, <3>1
  <2>3. f \in ScopeType /\ Stores(o, f) /\ f.pass # "analyze"
    BY <1>1, <2>1, <2>2, ElementOfSeq DEF Storage
  <2>4. i \in f.captured
    BY <1>1, <1>7, <2>1, <2>3 DEF Known
  <2>5. f.env[i] # NOENV
    BY <2>3, <2>4, CellFound
  <2>6. Emitted(r, n) = <<o, "cell", f.env[i]>>
    BY <1>1, <1>2, <1>7, <2>1, <2>5, ChainFollowed
  <2>7. QED
    BY <1>1, <1>7, <2>1, <2>4, <2>6 DEF Target, OwnCell
<1>8. QED
  BY <1>5, <1>6, <1>7

(* An access of the stack sc goes to the innermost declaration in scope. *)
LEMMA AccessRight ==
  ASSUME NEW sc \in Seq(ScopeType), Len(sc) >= 1, Linked(sc), Storage(sc), \A d \in 1 .. Len(sc) : sc[d].pass # "analyze",
         NEW n, Known(sc, n), MaxSlots < NOENV
  PROVE  Emitted(Resolve(sc, n), n) = Lexical(sc, n)
BY LexicalIs, EmittedIs

(* The declaration of a local hides no name but its own. *)
LEMMA TargetDeclared ==
  ASSUME NEW sc \in Seq(ScopeType), Len(sc) >= 1, NEW n, NEW r, Declares(r, sc, n),
         sc[Len(sc)].names[sc[Len(sc)].active] = n, NEW q, q # n
  PROVE  Target(r, q) = Target(sc, q)
<1>1. PICK k, o : k = Len(sc) /\ o = OwnerOf(sc, q)
  OBVIOUS
<1>2. k \in Nat /\ k \in 1 .. k /\ k = Len(r) /\ Top(sc) = sc[k] /\ Top(r) = r[k]
  BY <1>1, LenProperties DEF Declares, Top
<1>3. /\ \A d \in 1 .. k : resolve_local_scope(r[d], q) = resolve_local_scope(sc[d], q)
      /\ OwnerOf(r, q) = o /\ (IsLocal(r, q) <=> IsLocal(sc, q)) /\ (IsUpvalue(r, q) <=> IsUpvalue(sc, q))
  <2>1. \A d \in 1 .. Len(sc) : resolve_local_scope(r[d], q) = resolve_local_scope(sc[d], q)
    BY OtherDeclared
  <2>2. OwnerOf(r, q) = OwnerOf(sc, q) /\ (IsLocal(r, q) <=> IsLocal(sc, q)) /\ (IsUpvalue(r, q) <=> IsUpvalue(sc, q))
    BY OtherDeclared
  <2>3. QED
    BY <1>1, <2>1, <2>2
<1>4. ASSUME NEW d \in 1 .. k PROVE \A i : OwnCell(d, r[d], i) = OwnCell(d, sc[d], i)
  <2>1. r[d].captured = sc[d].captured /\ r[d].env = sc[d].env
    <3>1. CASE d = k
      BY <1>1, <3>1 DEF Declares, Kin
    <3>2. CASE d # k
      <4>1. r[d] = sc[d]
        BY <1>1, <3>2 DEF Declares
      <4>2. QED
        BY <4>1
    <3>3. QED
      BY <3>1, <3>2
  <2>2. QED
    BY <2>1 DEF OwnCell
<1>5. CASE IsLocal(sc, q)
  <2>1. OwnCell(k, r[k], resolve_local_scope(r[k], q)) = OwnCell(k, sc[k], resolve_local_scope(sc[k], q))
    BY <1>2, <1>3, <1>4
  <2>2. QED
    BY <1>1, <1>2, <1>3, <1>5, <2>1 DEF Target
<1>6. CASE ~IsLocal(sc, q) /\ IsUpvalue(sc, q)
  <2>1. o \in 1 .. k
    <3>1. o \in 1 .. k - 1
      BY <1>1, <1>6, OwnerFound DEF IsUpvalue
    <3>2. QED
      BY <1>2, <3>1
  <2>2. OwnCell(o, r[o], resolve_local_scope(r[o], q)) = OwnCell(o, sc[o], resolve_local_scope(sc[o], q))
    BY <1>3, <1>4, <2>1
  <2>3. QED
    BY <1>1, <1>3, <1>6, <2>2 DEF Target
<1>7. CASE ~IsLocal(sc, q) /\ ~IsUpvalue(sc, q)
  BY <1>3, <1>7 DEF Target
<1>8. QED
  BY <1>5, <1>6, <1>7

AccessInv == StorageInv /\ Upvalues /\ LexicalAccess

(* The value that is read after the first name is declared. *)
LEMMA ReadRight ==
  ASSUME StorageInv, Upvalues, MaxSlots < NOENV, ~Analyzing, NEW t, Proper(t), Reads(t, prog'), t.op \in {"local", "for"},
         NEW x, Declares(x, scopes, t.name), t.read # t.name, CapturesAt(Lay[ip], t) = Captures(Lay[ip], t.read)
  PROVE  Emitted(Resolve(x, t.read), t.read) = Lexical(scopes, t.read)
<1>1. PICK k, c, q : k = Len(scopes) /\ c = scopes[k].active /\ q = t.read
  OBVIOUS
<1>2. Shape /\ Analysed /\ Storage(scopes) /\ Linked(scopes) /\ Types /\ Passes
  BY DEF StorageInv, Upvalues, Shape
<1>3. scopes \in Seq(ScopeType) /\ Len(scopes) >= 1 /\ k \in 1 .. k /\ c \in Nat /\ k \in Nat
  BY <1>1, <1>2, ScopesAre
<1>4. \A d \in 1 .. k : scopes[d].pass # "analyze"
  BY <1>1, <1>2, AllCompiling
<1>5. scopes[k].names[c] = t.name
  <2>1. \A j \in 1 .. Len(Declared(t)) : scopes[k].names[c + j - 1] = Declared(t)[j]
    BY <1>1, <1>2, PlannedNames
  <2>2. 1 \in 1 .. Len(Declared(t)) /\ Declared(t)[1] = t.name
    BY DEF Declared
  <2>3. c + 1 - 1 = c
    BY <1>3
  <2>4. QED
    BY <2>1, <2>2, <2>3
<1>6. Known(scopes, q)
  <2>1. ~Ending(t)
    BY DEF Ending
  <2>2. QED
    BY <1>1, <1>2, <2>1, KnownHere
<1>7. Storage(x) /\ Known(x, q) /\ Target(x, q) = Target(scopes, q) /\ Linked(x)
  <2>1. scopes[Len(scopes)].pass # "analyze" /\ scopes[Len(scopes)].names[scopes[Len(scopes)].active] = t.name /\ q # t.name
    BY <1>1, <1>3, <1>4, <1>5
  <2>2. Storage(x)
    BY <1>2, <1>3, <2>1, StorageDeclared
  <2>3. Known(x, q)
    BY <1>3, <1>6, <2>1, OtherDeclared
  <2>4. Target(x, q) = Target(scopes, q)
    BY <1>3, <2>1, TargetDeclared
  <2>5. Linked(x)
    BY <1>2, <1>3, LinksKept
  <2>6. QED
    BY <2>2, <2>3, <2>4, <2>5
<1>8. x \in Seq(ScopeType) /\ Len(x) = k /\ Len(x) >= 1 /\ \A d \in 1 .. Len(x) : x[d].pass # "analyze"
  <2>1. x \in Seq(ScopeType) /\ Len(x) = k
    BY <1>1 DEF Declares
  <2>2. ASSUME NEW d \in 1 .. k PROVE x[d].pass # "analyze"
    <3>1. CASE d = k
      BY <1>1, <1>4, <3>1 DEF Declares, Kin
    <3>2. CASE d # k
      <4>1. x[d] = scopes[d]
        BY <1>1, <3>2 DEF Declares
      <4>2. QED
        BY <1>4, <4>1
    <3>3. QED
      BY <3>1, <3>2
  <2>3. QED
    BY <1>1, <1>3, <2>1, <2>2
<1>9. Emitted(Resolve(x, q), q) = Target(x, q)
  BY <1>7, <1>8, EmittedIs
<1>10. Lexical(scopes, q) = Target(scopes, q)
  BY <1>1, <1>2, <1>3, <1>4, LexicalIs
<1>11. QED
  BY <1>1, <1>7, <1>9, <1>10

LEMMA AccessStep ==
  ASSUME AccessInv, ~HeaderUses, MaxSlots < NOENV, NEW t, Step(t)
  PROVE  access'.goes = access'.should
<1>1. StorageInv /\ Upvalues /\ Shape /\ Analysed /\ Storage(scopes) /\ Linked(scopes) /\ Types /\ Passes /\ access.goes = access.should
  BY DEF AccessInv, StorageInv, Upvalues, Shape, LexicalAccess
<1>2. /\ scopes \in Seq(ScopeType) /\ Len(scopes) >= 1 /\ Len(scopes) \in Nat
      /\ ~Analyzing => \A d \in 1 .. Len(scopes) : scopes[d].pass # "analyze"
  BY <1>1, ScopesAre, AllCompiling
<1>3. SUFFICES ASSUME access' # access PROVE access'.goes = access'.should
  BY <1>1
<1>4. CASE UseStep(t)
  <2>1. ~Analyzing /\ access' = [goes |-> Emitted(Resolve(scopes, t.name), t.name), should |-> Lexical(scopes, t.name)]
    BY <1>3, <1>4 DEF UseStep, Accessing
  <2>2. CapturesAt(Lay[ip], t) = Captures(Lay[ip], t.name) /\ ~Ending(t) /\ Reads(t, prog')
    BY <1>4 DEF UseStep, CapturesAt, Ending
  <2>3. Known(scopes, t.name)
    BY <1>1, <2>2, KnownHere
  <2>4. Emitted(Resolve(scopes, t.name), t.name) = Lexical(scopes, t.name)
    BY <1>1, <1>2, <2>1, <2>3, AccessRight
  <2>5. QED
    BY <2>1, <2>4
<1>5. CASE LocalsStep(t)
  <2>1. /\ t.op = "local" /\ t.other # NONE /\ Proper(t) /\ Reads(t, prog') /\ t.read # t.name
        /\ ~Analyzing /\ Accessing(Declare(scopes, t.name), t.read)
    BY <1>3, <1>5, BoundAssumption DEF LocalsStep
  <2>2. PICK x, y : TwoLocals(scopes', scopes, t.name, t.other, t.read, x, y)
    BY <1>5 DEF LocalsStep
  <2>3. x = Declare(scopes, t.name) /\ Declares(x, scopes, t.name)
    BY <2>1, <2>2 DEF TwoLocals
  <2>4. CapturesAt(Lay[ip], t) = Captures(Lay[ip], t.read)
    BY <2>1 DEF CapturesAt
  <2>5. Emitted(Resolve(x, t.read), t.read) = Lexical(scopes, t.read)
    BY <1>1, <2>1, <2>3, <2>4, ReadRight
  <2>6. access' = [goes |-> Emitted(Resolve(x, t.read), t.read), should |-> Lexical(scopes, t.read)]
    BY <2>1, <2>3 DEF Accessing
  <2>7. QED
    BY <2>5, <2>6
<1>6. CASE LoopStep(t)
  <2>1. /\ t.op = "for" /\ t.read # NONE /\ Proper(t) /\ Reads(t, prog') /\ t.read # t.name
        /\ ~Analyzing /\ Accessing(Declare(scopes, t.name), t.read)
    BY <1>3, <1>6 DEF LoopStep
  <2>2. PICK w, x, y, z : ThreeLocals(w, scopes, t.name, t.read, x, y, z)
    BY <1>6 DEF LoopStep
  <2>3. x = Declare(scopes, t.name) /\ Declares(x, scopes, t.name)
    BY <2>1, <2>2 DEF ThreeLocals
  <2>4. CapturesAt(Lay[ip], t) = Captures(Lay[ip], t.read)
    BY <2>1 DEF CapturesAt
  <2>5. Emitted(Resolve(x, t.read), t.read) = Lexical(scopes, t.read)
    BY <1>1, <2>1, <2>3, <2>4, ReadRight
  <2>6. access' = [goes |-> Emitted(Resolve(x, t.read), t.read), should |-> Lexical(scopes, t.read)]
    BY <2>1, <2>3 DEF Accessing
  <2>7. QED
    BY <2>5, <2>6
<1>7. CASE LeaveStep(t)
  <2>1. PICK b, o : b = Below(scopes) /\ o = Top(scopes).opener
    OBVIOUS
  <2>2. /\ ~Analyzing /\ o.op = "funcdef" /\ Len(scopes) > 1
        /\ access' = [goes |-> Emitted(Resolve(b, o.name), o.name), should |-> Lexical(b, o.name)]
    BY <1>3, <1>7, <2>1 DEF LeaveStep
  <2>3. b \in Seq(ScopeType) /\ Len(b) = Len(scopes) - 1 /\ Len(b) >= 1 /\ Known(b, o.name)
    BY <1>1, <1>7, <2>1, <2>2, PlannedBelow
  <2>4. Storage(b) /\ Linked(b)
    BY <1>1, <1>2, <2>1, <2>2, StorageBelow, LinksBelow
  <2>5. \A d \in 1 .. Len(b) : b[d].pass # "analyze"
    <3>1. \A d \in 1 .. Len(scopes) - 1 : b[d] = scopes[d] /\ d \in 1 .. Len(scopes)
      BY <1>2, <2>1, BelowIs
    <3>2. QED
      BY <1>2, <2>2, <2>3, <3>1
  <2>6. Emitted(Resolve(b, o.name), o.name) = Lexical(b, o.name)
    BY <2>3, <2>4, <2>5, AccessRight
  <2>7. QED
    BY <2>2, <2>6
<1>8. CASE LocalStep(t) \/ BlockStep(t) \/ EnterStep(t) \/ CloseStep(t)
  BY <1>3, <1>8 DEF LocalStep, BlockStep, EnterStep, CloseStep
<1>9. QED
  BY <1>4, <1>5, <1>6, <1>7, <1>8 DEF Step

LEMMA AccessNext ==
  ASSUME AccessInv, ~Renames, ~HeaderUses, MaxSlots < NOENV, [Next]_vars
  PROVE  AccessInv'
<1>1. StorageInv /\ Upvalues /\ Shape /\ access.goes = access.should
  BY DEF AccessInv, StorageInv, LexicalAccess
<1>2. StorageInv'
  BY <1>1, StorageInvNext
<1>3. Upvalues'
  BY <1>1, LinkedNext
<1>4. access'.goes = access'.should
  <2>1. CASE UNCHANGED vars
    BY <1>1, <2>1 DEF vars
  <2>2. CASE StartStep
    BY <1>1, <2>2 DEF StartStep
  <2>3. ASSUME NEW t, Step(t) PROVE access'.goes = access'.should
    BY <2>3, AccessStep
  <2>4. QED
    BY <1>1, <2>1, <2>2, <2>3, StepIs
<1>5. QED
  BY <1>2, <1>3, <1>4 DEF AccessInv, LexicalAccess

(* Every access goes to the storage of the innermost declaration in scope,  *)
(* or to the global if there is none, for a program whose slots keep their  *)
(* names and whose headers read no name they declare (emit_load_variable).  *)
THEOREM AccessAlwaysLexical ==
  ASSUME ~Renames, ~HeaderUses, MaxSlots < NOENV
  PROVE  Spec => []LexicalAccess
<1>1. Init => AccessInv
  BY ShapeInit, AnalysedInit, StorageInit, LinkedInit DEF StorageInv, AccessInv, Init, LexicalAccess
<1>2. AccessInv /\ [Next]_vars => AccessInv'
  BY AccessNext
<1>3. AccessInv => LexicalAccess
  BY DEF AccessInv
<1>4. QED
  BY <1>1, <1>2, <1>3, PTL DEF Spec

-----------------------------------------------------------------------------
(* Types. *)

\* A number for the upvalue u of a function with k slots.
Code(u, k) == IF u.from_local THEN u.index ELSE k + u.index

(* A function has at most as many upvalues as there is to reach. *)
LEMMA UpvaluesFew ==
  ASSUME NEW u \in Seq(UpType), NEW d, NEW v \in Seq(UpType), \A i, j \in DOMAIN u : u[i] = u[j] => i = j,
         \A i \in DOMAIN u : Leads(u[i], d, v)
  PROVE  Len(u) <= Len(v) + (MaxSlots + 1)
<1>1. PICK k, n : k = MaxSlots + 1 /\ n = Len(u)
  OBVIOUS
<1>2. k \in Nat /\ n \in Nat /\ Len(v) \in Nat /\ DOMAIN u = 1 .. n
  BY <1>1, SlotsAre, LenProperties
<1>3. PICK m : m = k + Len(v)
  OBVIOUS
<1>4. m \in Nat
  BY <1>2, <1>3
<1> DEFINE f == [i \in 1 .. n |-> Code(u[i], k)]
<1>5. ASSUME NEW i \in 1 .. n
      PROVE  /\ u[i].index \in Nat /\ u[i].from_local \in BOOLEAN
             /\ u[i] = [from_local |-> u[i].from_local, index |-> u[i].index]
             /\ IF u[i].from_local THEN u[i].index < k ELSE u[i].index < Len(v)
  <2>1. PICK x : x = u[i]
    OBVIOUS
  <2>2. x \in UpType /\ Leads(x, d, v)
    BY <1>1, <1>2, <2>1, ElementOfSeq
  <2>3. x.index \in Nat /\ x.from_local \in BOOLEAN /\ x = [from_local |-> x.from_local, index |-> x.index]
    BY <2>2 DEF UpType
  <2>4. IF x.from_local THEN x.index \in SlotNo ELSE x.index < Len(v)
    BY <2>2 DEF Leads
  <2>5. x.index \in SlotNo => x.index < k
    BY <1>1, SlotsAre
  <2>6. QED
    BY <2>1, <2>3, <2>4, <2>5
<1>6. f \in [1 .. n -> 0 .. m - 1]
  <2>1. ASSUME NEW i \in 1 .. n PROVE Code(u[i], k) \in 0 .. m - 1
    <3>1. CASE u[i].from_local
      BY <1>2, <1>3, <1>5, <3>1 DEF Code
    <3>2. CASE ~u[i].from_local
      BY <1>2, <1>3, <1>5, <3>2 DEF Code
    <3>3. QED
      BY <3>1, <3>2
  <2>2. QED
    BY <2>1
<1>7. ASSUME NEW i \in 1 .. n, NEW j \in 1 .. n, f[i] = f[j] PROVE i = j
  <2>1. Code(u[i], k) = Code(u[j], k)
    BY <1>7
  <2>2. u[i].from_local = u[j].from_local /\ u[i].index = u[j].index
    <3>1. PICK a, b, p, q : a = u[i].from_local /\ b = u[j].from_local /\ p = u[i].index /\ q = u[j].index
      OBVIOUS
    <3>2. a \in BOOLEAN /\ b \in BOOLEAN /\ p \in Nat /\ q \in Nat /\ (a => p < k) /\ (b => q < k)
      BY <1>5, <3>1
    <3>3. (IF a THEN p ELSE k + p) = IF b THEN q ELSE k + q
      BY <2>1, <3>1 DEF Code
    <3>4. (a /\ b) \/ (~a /\ ~b)
      <4>1. ~(a /\ ~b)
        BY <1>2, <3>2, <3>3
      <4>2. ~(b /\ ~a)
        BY <1>2, <3>2, <3>3
      <4>3. QED
        BY <4>1, <4>2
    <3>5. p = q
      BY <1>2, <3>2, <3>3, <3>4
    <3>6. a = b
      BY <3>2, <3>4
    <3>7. QED
      BY <3>1, <3>5, <3>6
  <2>3. u[i] = u[j]
    BY <1>5, <2>2
  <2>4. QED
    BY <1>2, <2>3
<1> HIDE DEF f
<1>8. IsFiniteSet(1 .. n) /\ Cardinality(1 .. n) = n /\ IsFiniteSet(0 .. m - 1) /\ Cardinality(0 .. m - 1) = m
  <2>1. 1 \in Int /\ n \in Int /\ 0 \in Int /\ m - 1 \in Int
    BY <1>2, <1>4
  <2>2. IsFiniteSet(1 .. n) /\ Cardinality(1 .. n) = IF 1 > n THEN 0 ELSE n - 1 + 1
    BY <2>1, FS_Interval
  <2>3. IsFiniteSet(0 .. m - 1) /\ Cardinality(0 .. m - 1) = IF 0 > m - 1 THEN 0 ELSE (m - 1) - 0 + 1
    BY <2>1, FS_Interval
  <2>4. (IF 1 > n THEN 0 ELSE n - 1 + 1) = n
    BY <1>2
  <2>5. (IF 0 > m - 1 THEN 0 ELSE (m - 1) - 0 + 1) = m
    BY <1>4
  <2>6. QED
    BY <2>2, <2>3, <2>4, <2>5
<1>9. f \in Injection(1 .. n, 0 .. m - 1)
  <2>1. DOMAIN f = 1 .. n
    BY <1>6
  <2>2. \A a, b \in DOMAIN f : f[a] = f[b] => a = b
    BY <1>7, <2>1
  <2>3. QED
    BY <1>6, <2>2 DEF Injection, IsInjective
<1>10. n <= m
  BY <1>8, <1>9, FS_Injection
<1>11. QED
  BY <1>1, <1>2, <1>3, <1>10

LEMMA UpvaluesBounded ==
  ASSUME NEW sc \in Seq(ScopeType), Linked(sc)
  PROVE  \A d \in 1 .. Len(sc) : Len(sc[d].ups) <= (d - 1) * (MaxSlots + 1)
<1>1. PICK k, m : k = Len(sc) /\ m = MaxSlots + 1
  OBVIOUS
<1>2. k \in Nat /\ m \in Nat
  BY <1>1, LenProperties, SlotsAre
<1>3. ASSUME NEW d \in 1 .. k PROVE sc[d].ups \in Seq(UpType) /\ Len(sc[d].ups) \in Nat
  BY <1>1, ElementOfSeq, ScopeTyped, LenProperties
<1> DEFINE W == {d \in 1 .. k : Len(sc[d].ups) <= (d - 1) * m}
<1>4. ASSUME 1 <= k PROVE 1 \in W
  <2>1. 1 \in 1 .. k
    BY <1>2, <1>4
  <2>2. \A i \in DOMAIN sc[1].ups : FALSE
    BY <1>1, <2>1 DEF Linked, Leads
  <2>3. DOMAIN sc[1].ups = 1 .. Len(sc[1].ups) /\ Len(sc[1].ups) \in Nat
    BY <1>3, <2>1, LenProperties
  <2>4. Len(sc[1].ups) = 0
    <3>1. SUFFICES ASSUME Len(sc[1].ups) >= 1 PROVE FALSE
      BY <2>3
    <3>2. 1 \in DOMAIN sc[1].ups
      BY <2>3, <3>1
    <3>3. QED
      BY <2>2, <3>2
  <2>5. (1 - 1) * m = 0
    BY <1>2
  <2>6. QED
    BY <2>1, <2>4, <2>5
<1>5. ASSUME NEW d \in 1 .. k - 1, d \in W PROVE d + 1 \in W
  <2>1. PICK e : e = d + 1
    OBVIOUS
  <2>2. e \in 1 .. k /\ d \in 1 .. k /\ e - 1 = d /\ d \in Nat
    BY <1>2, <2>1
  <2>3. PICK u, v : u = sc[e].ups /\ v = sc[d].ups
    OBVIOUS
  <2>4. u \in Seq(UpType) /\ v \in Seq(UpType) /\ Len(u) \in Nat /\ Len(v) \in Nat
    BY <1>3, <2>2, <2>3
  <2>5. (\A i, j \in DOMAIN u : u[i] = u[j] => i = j) /\ \A i \in DOMAIN u : Leads(u[i], e, v)
    BY <1>1, <2>2, <2>3 DEF Linked
  <2>6. Len(u) <= Len(v) + m
    BY <1>1, <2>4, <2>5, UpvaluesFew
  <2>7. Len(v) <= (d - 1) * m
    BY <1>5, <2>3
  <2>8. d * m = (d - 1) * m + m /\ (d - 1) * m \in Int /\ d * m \in Int
    BY <1>2, <2>2
  <2>9. Len(u) <= d * m
    BY <1>2, <2>4, <2>6, <2>7, <2>8
  <2>10. QED
    BY <2>1, <2>2, <2>3, <2>9
<1>6. ASSUME NEW d \in 1 .. k PROVE d \in W
  <2> HIDE DEF W
  <2>1. 1 <= k /\ 1 \in Nat
    BY <1>2
  <2>2. \A e \in 1 .. k : e \in W
    BY <1>2, <1>4, <1>5, <2>1, Throughout
  <2>3. QED
    BY <2>2
<1>7. QED
  BY <1>1, <1>6

-----------------------------------------------------------------------------
(* Indices of slots and of upvalues fit in a byte. *)

\* With so many tokens and functions the byte operands are wide enough.
Narrow == MaxDepth * (MaxSlots + 1) <= NOENV

LEMMA SlotsFit ==
  ASSUME Narrow
  PROVE  MaxSlots \in Nat /\ MaxSlots < NOENV
<1>1. PICK k, m : k = MaxDepth /\ m = MaxSlots + 1
  OBVIOUS
<1>2. k \in Nat /\ k >= 1 /\ m \in Nat /\ m >= 1 /\ MaxSlots \in Nat
  BY <1>1, SlotsAre, BoundAssumption
<1>3. k * m <= 255
  BY <1>1 DEF Narrow, NOENV
<1>4. m <= k * m
  <2>1. PICK p : p = k - 1
    OBVIOUS
  <2>2. p \in Nat /\ k = p + 1
    BY <1>2, <2>1
  <2>3. (p + 1) * m = p * m + m /\ p * m \in Nat
    BY <1>2, <2>2
  <2>4. QED
    BY <1>2, <2>2, <2>3
<1>5. QED
  BY <1>1, <1>2, <1>3, <1>4 DEF NOENV

LEMMA UpvaluesFit ==
  ASSUME Narrow, NEW sc \in Seq(ScopeType), Linked(sc), Len(sc) <= MaxDepth,
         NEW d \in 1 .. Len(sc), NEW i \in DOMAIN sc[d].ups
  PROVE  sc[d].ups[i] \in [from_local : BOOLEAN, index : 0 .. NOENV]
<1>1. PICK u : u = sc[d].ups[i]
  OBVIOUS
<1>2. sc[d].ups \in Seq(UpType) /\ Len(sc) \in Nat /\ MaxDepth \in Nat
  BY ElementOfSeq, ScopeTyped, LenProperties, BoundAssumption
<1>3. u \in UpType /\ Leads(u, d, sc[d - 1].ups)
  BY <1>1, <1>2, ElementOfSeq, LenProperties DEF Linked
<1>4. u = [from_local |-> u.from_local, index |-> u.index] /\ u.from_local \in BOOLEAN /\ u.index \in Nat
  BY <1>3 DEF UpType
<1>5. u.index <= NOENV
  <2>1. CASE u.from_local
    BY <1>3, <2>1, SlotsFit, SlotsAre DEF Leads, NOENV
  <2>2. CASE ~u.from_local
    <3>1. PICK e, l, m, k : e = d - 1 /\ l = Len(sc[d - 1].ups) /\ m = MaxSlots + 1 /\ k = MaxDepth
      OBVIOUS
    <3>2. d > 1 /\ u.index < l
      BY <1>3, <2>2, <3>1 DEF Leads
    <3>3. e \in 1 .. Len(sc) /\ e - 1 \in Nat /\ e - 1 <= k /\ k \in Nat /\ m \in Nat
      BY <1>2, <3>1, <3>2, SlotsFit
    <3>4. l \in Nat /\ l <= (e - 1) * m
      <4>1. \A c \in 1 .. Len(sc) : Len(sc[c].ups) <= (c - 1) * (MaxSlots + 1)
        BY UpvaluesBounded
      <4>2. sc[e].ups \in Seq(UpType)
        BY <3>3, ElementOfSeq, ScopeTyped
      <4>3. QED
        BY <3>1, <3>3, <4>1, <4>2, LenProperties
    <3>5. (e - 1) * m <= k * m
      <4>1. PICK p, q : p = e - 1 /\ q = k - p
        OBVIOUS
      <4>2. p \in Nat /\ q \in Nat /\ k = p + q
        BY <3>3, <4>1
      <4>3. (p + q) * m = p * m + q * m /\ p * m \in Nat /\ q * m \in Nat
        BY <3>3, <4>2
      <4>4. QED
        BY <4>1, <4>2, <4>3
    <3>6. k * m <= 255 /\ k * m \in Nat /\ (e - 1) * m \in Nat
      BY <3>1, <3>3 DEF Narrow, NOENV
    <3>7. QED
      BY <1>4, <3>2, <3>4, <3>5, <3>6 DEF NOENV
  <2>3. QED
    BY <2>1, <2>2
<1>6. QED
  <2>1. u.index \in 0 .. NOENV
    <3>1. PICK x : x = u.index
      OBVIOUS
    <3>2. x \in Nat /\ x <= 255
      <4>1. u.index \in Nat
        BY <1>4
      <4>2. QED
        BY <1>5, <3>1, <4>1 DEF NOENV
    <3>3. x \in 0 .. 255
      BY <3>2
    <3>4. 255 = NOENV
      BY DEF NOENV
    <3>5. QED
      BY <3>1, <3>3, <3>4, Zenon
  <2>2. [from_local |-> u.from_local, index |-> u.index] \in [from_local : BOOLEAN, index : 0 .. NOENV]
    BY <1>4, <2>1, Zenon
  <2>3. QED
    BY <1>1, <1>4, <2>2

(* The type invariant: each local has a slot of its table, and each operand *)
(* that names a slot, a cell or an upvalue fits in its byte, for every       *)
(* program of a size for which the operands are wide enough.                *)
THEOREM TypeCorrect ==
  ASSUME Narrow
  PROVE  Spec => []TypeOK
<1>1. Shape /\ Upvalues => TypeOK
  <2> SUFFICES ASSUME Shape, Upvalues PROVE TypeOK
    OBVIOUS
  <2>1. Types /\ Linked(scopes)
    BY DEF Shape, Upvalues
  <2>2. prog \in Seq(Token) /\ Len(prog) <= MaxTokens /\ ip \in 1 .. Len(prog) + 1
    BY <2>1 DEF Types
  <2>3. scopes \in Seq(ScopeType) /\ Len(scopes) \in 1 .. MaxDepth /\ Len(scopes) <= MaxDepth
    BY <2>1, BoundAssumption DEF Types
  <2>4. ASSUME NEW d \in DOMAIN scopes
        PROVE  /\ scopes[d].active \in SlotNo /\ scopes[d].captured \subseteq SlotNo
               /\ scopes[d].names \in [SlotNo -> Names \cup {NONE, HIDDEN}]
               /\ scopes[d].env \in [SlotNo -> 0 .. NOENV]
               /\ \A i \in DOMAIN scopes[d].ups : scopes[d].ups[i] \in [from_local : BOOLEAN, index : 0 .. NOENV]
    <3>1. d \in 1 .. Len(scopes)
      BY <2>3, LenProperties
    <3>2. scopes[d] \in ScopeType
      BY <2>3, <3>1, ElementOfSeq
    <3>3. /\ scopes[d].active \in SlotNo /\ scopes[d].captured \subseteq SlotNo
          /\ scopes[d].names \in [SlotNo -> Names \cup {NONE, HIDDEN}] /\ scopes[d].env \in [SlotNo -> Nat]
      BY <3>2, ScopeTyped
    <3>4. ASSUME NEW i \in SlotNo PROVE scopes[d].env[i] \in 0 .. NOENV
      <4>1. scopes[d].env[i] \in SlotNo \cup {NOENV}
        BY <2>1, <3>1 DEF Linked
      <4>2. QED
        BY <4>1, SlotsFit, SlotsAre DEF NOENV
    <3>5. scopes[d].env \in [SlotNo -> 0 .. NOENV]
      BY <3>3, <3>4
    <3>6. \A i \in DOMAIN scopes[d].ups : scopes[d].ups[i] \in [from_local : BOOLEAN, index : 0 .. NOENV]
      BY <2>1, <2>3, <3>1, UpvaluesFit
    <3>7. QED
      BY <3>3, <3>5, <3>6
  <2>5. QED
    BY <2>2, <2>3, <2>4 DEF TypeOK
<1>2. Init => Shape /\ Upvalues
  BY ShapeInit, LinkedInit
<1>3. (Shape /\ Upvalues) /\ [Next]_vars => (Shape /\ Upvalues)'
  <2>1. Shape /\ [Next]_vars => Shape'
    BY ShapeNext
  <2>2. Shape /\ Upvalues /\ [Next]_vars => Upvalues'
    BY LinkedNext
  <2>3. QED
    BY <2>1, <2>2
<1>4. QED
  BY <1>1, <1>2, <1>3, PTL DEF Spec
=============================================================================
