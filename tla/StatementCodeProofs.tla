------------------------- MODULE StatementCodeProofs -------------------------
(***************************************************************************)
(* Proofs about the code that is emitted for a chunk and the machine that   *)
(* runs it, for every set of statements, every number of locals and every   *)
(* depth: each byte has one height of the value stack, whichever way the     *)
(* machine came there, so the machine is always at an opcode with the values *)
(* it needs, and the locals of a block lie where the compiler counted them. *)
(***************************************************************************)
EXTENDS StatementCode, SequenceTheorems, FiniteSetTheorems, WellFoundedInduction, TLAPS

-----------------------------------------------------------------------------
(* Code that keeps the stack: a height of the value stack for each byte,     *)
(* such that every instruction leaves to the next, and every jump to where  *)
(* it leads, as many values as are expected there.                         *)

ByteType == [op : Op \cup {"operand"}, n : Int, tok : Nat, locals : Nat]
Heights  == [Nat -> Int]

Jumps == {"JUMP", "JUMPIFFALSE"}
Size(op) ==
  IF op \in Jumps THEN 3
  ELSE IF op \in {"LOAD", "LOADCONST", "CALL", "PRINT", "SETGLOBAL", "GETLOCAL", "SETLOCAL", "RETURN"} THEN 2
  ELSE 1

\* How many values more there are after the instruction than before.
Change(op) ==
  IF op \in {"LOAD", "LOADNIL", "LOADCONST", "DUP", "NEWTABLE", "GETLOCAL"} THEN 1
  ELSE IF op \in {"JUMP", "ROT3"} THEN 0
  ELSE IF op = "SETTABLE" THEN -3
  ELSE -1

\* The first byte of an instruction, or the place of the next one, up to L.
Point(c, r, L) == r \in 0 .. L /\ (r < Len(c) => c[r + 1].op # "operand")

\* The jump of a for-in loop out of it, which a program may be known not to take.
Leaving(b, Z) == b.op = "JUMPIFFALSE" /\ b.tok \in Z

Falls(op) == op \notin {"JUMP", "RETURN", "HALT"}

\* What the operand of an instruction that counts values or names a local may be.
Words == {"CALL", "PRINT", "GETLOCAL", "SETLOCAL"}
Worded(op, w) ==
  /\ op \in {"CALL", "PRINT"} => w = 1
  /\ op \in {"GETLOCAL", "SETLOCAL"} => w \in Nat

FlowsAt(c, h, H, Z, L, p) ==
  LET b == c[p + 1]
      w == c[p + 2].n
  IN /\ p + Size(b.op) <= Len(c)
     /\ Takes(b.op) > 0 => h[p] - Takes(b.op) >= b.locals
     /\ Falls(b.op) => Point(c, p + Size(b.op), L) /\ h[p + Size(b.op)] = h[p] + Change(b.op)
     /\ Worded(b.op, w)
     /\ b.op \in Jumps /\ p + 1 \notin H =>
          Point(c, p + 3 + w, L) /\ (Leaving(b, Z) \/ h[p + 3 + w] = h[p] + Change(b.op))

\* H are the operands that are still to be patched, Z the tokens of for-in loops.
Flows(c, h, H, Z, L) ==
  \A p \in 0 .. Len(c) - 1 : c[p + 1].op # "operand" => FlowsAt(c, h, H, Z, L, p)

\* More code behind the same; jumps may have been patched.
Extended(c, h, d, g) ==
  /\ Len(c) <= Len(d) /\ (Len(c) < Len(d) => d[Len(c) + 1].op # "operand")
  /\ \A p \in 0 .. Len(c) : g[p] = h[p]
  /\ \A i \in 1 .. Len(c) : d[i].op = c[i].op /\ d[i].tok = c[i].tok

\* The operand at x of a jump waits for a place with height t.
Waits(c, h, Z, x, t) ==
  /\ x \in 1 .. Len(c) - 2 /\ c[x].op \in Jumps
  /\ Leaving(c[x], Z) \/ h[x - 1] + Change(c[x].op) = t

Begun(c, h, r, t) == Point(c, r, Len(c)) /\ h[r] = t

Instr(op, n, t, l) ==
  IF Size(op) = 1 THEN <<Byte(op, 0, t, l)>>
  ELSE IF Size(op) = 2 THEN <<Byte(op, 0, t, l)>> \o Operand(n)
  ELSE <<Byte(op, 0, t, l)>> \o Operand(n) \o Operand(0)

-----------------------------------------------------------------------------
LEMMA OpFacts ==
  /\ \A op : Size(op) \in 1 .. 3 /\ Change(op) \in Int /\ Takes(op) \in 0 .. 3
  /\ \A op \in Jumps : Size(op) = 3 /\ op \in Op
  /\ "operand" \notin Op
BY DEF Size, Change, Takes, Jumps, Op

LEMMA ByteTyped ==
  ASSUME NEW c \in Seq(ByteType), NEW i \in 1 .. Len(c)
  PROVE  /\ c[i] \in ByteType
         /\ c[i].op \in Op \cup {"operand"} /\ c[i].n \in Int /\ c[i].tok \in Nat /\ c[i].locals \in Nat
<1>1. c[i] \in ByteType
  BY ElementOfSeq
<1>2. QED
  BY <1>1 DEF ByteType

LEMMA OneByte ==
  ASSUME NEW b \in ByteType
  PROVE  <<b>> \in Seq(ByteType) /\ Len(<<b>>) = 1 /\ <<b>>[1] = b
OBVIOUS

LEMMA Joined ==
  ASSUME NEW s \in Seq(ByteType), NEW b \in ByteType
  PROVE  /\ s \o <<b>> \in Seq(ByteType) /\ Len(s \o <<b>>) = Len(s) + 1
         /\ (s \o <<b>>)[Len(s) + 1] = b
         /\ \A i \in 1 .. Len(s) : (s \o <<b>>)[i] = s[i]
<1>1. Len(s) \in Nat /\ <<b>> \in Seq(ByteType) /\ Len(<<b>>) = 1 /\ <<b>>[1] = b
  BY OneByte, LenProperties
<1>2. s \o <<b>> \in Seq(ByteType) /\ Len(s \o <<b>>) = Len(s) + Len(<<b>>)
  BY <1>1, ConcatProperties
<1>3. \A i \in 1 .. Len(s) + Len(<<b>>) :
        (s \o <<b>>)[i] = IF i <= Len(s) THEN s[i] ELSE <<b>>[i - Len(s)]
  BY <1>1, ConcatProperties
<1>4. PICK k \in Nat : k = Len(s)
  BY <1>1
<1>5. (s \o <<b>>)[k + 1] = b
  <2>1. k + 1 \in 1 .. Len(s) + Len(<<b>>) /\ ~(k + 1 <= Len(s)) /\ (k + 1) - Len(s) = 1
    BY <1>1, <1>4
  <2>2. (s \o <<b>>)[k + 1] = <<b>>[(k + 1) - Len(s)]
    BY <1>3, <2>1
  <2>3. QED
    BY <1>1, <2>1, <2>2
<1>6. \A i \in 1 .. Len(s) : (s \o <<b>>)[i] = s[i]
  BY <1>1, <1>3
<1>7. QED
  BY <1>1, <1>2, <1>4, <1>5, <1>6

IsInstr(e, op, n, t, l) ==
  /\ e \in Seq(ByteType) /\ Len(e) = Size(op)
  /\ e[1].op = op /\ e[1].tok = t /\ e[1].locals = l
  /\ Size(op) # 1 => e[2].n = n
  /\ \A i \in 2 .. Size(op) : e[i].op = "operand"

LEMMA InstrIs ==
  ASSUME NEW op \in Op, NEW n \in Int, NEW t \in Nat, NEW l \in Nat
  PROVE  IsInstr(Instr(op, n, t, l), op, n, t, l)
<1>0. PICK e : e = Instr(op, n, t, l)
  OBVIOUS
<1> SUFFICES IsInstr(e, op, n, t, l)
  BY <1>0
<1>1. PICK b, x, y : b = Byte(op, 0, t, l) /\ x = Byte("operand", n, 0, 0) /\ y = Byte("operand", 0, 0, 0)
  OBVIOUS
<1>2. b \in ByteType /\ x \in ByteType /\ y \in ByteType
  BY <1>1 DEF Byte, ByteType
<1>3. b.op = op /\ b.tok = t /\ b.locals = l /\ x.op = "operand" /\ x.n = n /\ y.op = "operand"
  BY <1>1 DEF Byte
<1>4. e = IF Size(op) = 1 THEN <<b>> ELSE IF Size(op) = 2 THEN <<b>> \o <<x>> ELSE <<b>> \o <<x>> \o <<y>>
  BY <1>0, <1>1 DEF Instr, Operand
<1>5. CASE Size(op) = 1
  <2>1. e = <<b>>
    BY <1>4, <1>5
  <2>2. e \in Seq(ByteType) /\ Len(e) = 1 /\ e[1] = b
    BY <1>2, <2>1, OneByte
  <2>3. QED
    BY <1>3, <1>5, <2>2 DEF IsInstr
<1>6. PICK f : f = <<b>> \o <<x>>
  OBVIOUS
<1>7. f \in Seq(ByteType) /\ Len(f) = 2 /\ f[1] = b /\ f[2] = x
  <2>1. <<b>> \in Seq(ByteType) /\ Len(<<b>>) = 1 /\ <<b>>[1] = b
    BY <1>2, OneByte
  <2>2. f \in Seq(ByteType) /\ Len(f) = 1 + 1 /\ f[1 + 1] = x /\ \A i \in 1 .. 1 : f[i] = <<b>>[i]
    BY <1>2, <1>6, <2>1, Joined
  <2>3. QED
    BY <2>1, <2>2
<1>8. CASE Size(op) = 2
  <2>1. e = f
    BY <1>4, <1>6, <1>8
  <2>2. QED
    BY <1>3, <1>7, <1>8, <2>1 DEF IsInstr
<1>9. CASE Size(op) = 3
  <2>1. e = f \o <<y>>
    BY <1>4, <1>6, <1>9
  <2>2. e \in Seq(ByteType) /\ Len(e) = 2 + 1 /\ e[2 + 1] = y /\ \A i \in 1 .. 2 : e[i] = f[i]
    <3>1. /\ f \o <<y>> \in Seq(ByteType) /\ Len(f \o <<y>>) = Len(f) + 1
          /\ (f \o <<y>>)[Len(f) + 1] = y /\ \A i \in 1 .. Len(f) : (f \o <<y>>)[i] = f[i]
      BY <1>2, <1>7, Joined
    <3>2. Len(f) = 2
      BY <1>7
    <3>3. QED
      BY <2>1, <3>1, <3>2
  <2>3. e[1] = b /\ e[2] = x /\ e[3] = y /\ Len(e) = 3
    BY <1>7, <2>2
  <2>4. QED
    BY <1>3, <1>9, <2>2, <2>3 DEF IsInstr
<1>10. QED
  BY <1>5, <1>8, <1>9, OpFacts

-----------------------------------------------------------------------------
(* One instruction more. *)

IsAppended(d, c, e) ==
  /\ d \in Seq(ByteType) /\ Len(d) = Len(c) + Len(e) /\ Len(c) \in Nat /\ Len(e) \in Nat
  /\ \A i \in 1 .. Len(c) : d[i] = c[i]
  /\ \A i \in 1 .. Len(e) : d[Len(c) + i] = e[i]

LEMMA AppendedIs ==
  ASSUME NEW c \in Seq(ByteType), NEW e \in Seq(ByteType)
  PROVE  IsAppended(c \o e, c, e)
<1>0. PICK d : d = c \o e
  OBVIOUS
<1>1. Len(c) \in Nat /\ Len(e) \in Nat
  BY LenProperties
<1>2. d \in Seq(ByteType) /\ Len(d) = Len(c) + Len(e)
  BY <1>0, ConcatProperties
<1>3. \A i \in 1 .. Len(c) + Len(e) : d[i] = IF i <= Len(c) THEN c[i] ELSE e[i - Len(c)]
  <2>1. \A i \in 1 .. Len(c) + Len(e) : (c \o e)[i] = IF i <= Len(c) THEN c[i] ELSE e[i - Len(c)]
    BY ConcatProperties
  <2>2. QED
    BY <1>0, <2>1
<1>4. PICK k, m \in Nat : k = Len(c) /\ m = Len(e)
  BY <1>1
<1>5. ASSUME NEW i \in 1 .. m PROVE d[k + i] = e[i]
  <2>1. k + i \in 1 .. k + m /\ ~(k + i <= k) /\ (k + i) - k = i
    BY <1>4
  <2>2. d[k + i] = e[(k + i) - k]
    BY <1>3, <1>4, <2>1
  <2>3. QED
    BY <2>1, <2>2
<1>6. \A i \in 1 .. k : d[i] = c[i]
  BY <1>3, <1>4
<1>7. IsAppended(d, c, e)
  BY <1>1, <1>2, <1>4, <1>5, <1>6 DEF IsAppended
<1>8. QED
  BY <1>0, <1>7

\* The same instruction in code that agrees with c up to its end.
LEMMA FlowsStill ==
  ASSUME NEW c \in Seq(ByteType), NEW h \in Heights, NEW H, NEW Z, NEW L \in Nat, L <= Len(c),
         NEW p \in 0 .. Len(c) - 1, c[p + 1].op # "operand", FlowsAt(c, h, H, Z, L, p),
         NEW d \in Seq(ByteType), NEW g \in Heights, NEW G, H \subseteq G, NEW M \in Nat, L <= M, Len(c) <= Len(d),
         \A i \in 1 .. Len(c) : d[i] = c[i], \A q \in 0 .. Len(c) : g[q] = h[q],
         Len(c) < Len(d) => d[Len(c) + 1].op # "operand"
  PROVE  FlowsAt(d, g, G, Z, M, p)
<1>1. PICK k \in Nat : k = Len(c)
  BY LenProperties
<1>2. PICK b \in ByteType : b = c[p + 1]
  BY <1>1, ElementOfSeq
<1>3. d[p + 1] = b /\ Len(d) \in Nat /\ p \in Nat /\ p + 1 <= k
  BY <1>1, <1>2, LenProperties
<1>4. PICK z : z = Size(b.op)
  OBVIOUS
<1>5. z \in 1 .. 3 /\ p + z <= k
  BY <1>1, <1>2, <1>4, OpFacts DEF FlowsAt
<1>6. z >= 2 => d[p + 2] = c[p + 2]
  BY <1>1, <1>3, <1>5
<1>7. b.op \in Words \cup Jumps => z >= 2
  BY <1>4 DEF Size, Jumps, Words
<1>8. PICK w, v : w = c[p + 2].n /\ v = d[p + 2].n
  OBVIOUS
<1>9. z >= 2 => v = w
  BY <1>6, <1>8
<1>10. ASSUME NEW r, Point(c, r, L) PROVE Point(d, r, M) /\ g[r] = h[r]
  <2>1. r \in 0 .. L /\ (r < k => c[r + 1].op # "operand")
    BY <1>1, <1>10 DEF Point
  <2>2. CASE r < k
    <3>1. d[r + 1] = c[r + 1]
      BY <1>1, <2>1, <2>2
    <3>2. QED
      BY <1>1, <2>1, <2>2, <3>1 DEF Point
  <2>3. CASE r = k
    BY <1>1, <2>1, <2>3 DEF Point
  <2>4. QED
    BY <1>1, <2>1, <2>2, <2>3
<1>11. /\ Takes(b.op) > 0 => h[p] - Takes(b.op) >= b.locals
       /\ Falls(b.op) => Point(c, p + z, L) /\ h[p + z] = h[p] + Change(b.op)
       /\ Worded(b.op, w)
       /\ b.op \in Jumps /\ p + 1 \notin H =>
            Point(c, p + 3 + w, L) /\ (Leaving(b, Z) \/ h[p + 3 + w] = h[p] + Change(b.op))
  BY <1>2, <1>4, <1>8 DEF FlowsAt
<1>12. g[p] = h[p]
  BY <1>1, <1>3
<1>13. Falls(b.op) => Point(d, p + z, M) /\ g[p + z] = g[p] + Change(b.op)
  BY <1>10, <1>11, <1>12
<1>14. Worded(b.op, v)
  BY <1>7, <1>9, <1>11 DEF Worded, Words
<1>15. b.op \in Jumps /\ p + 1 \notin G =>
         Point(d, p + 3 + v, M) /\ (Leaving(b, Z) \/ g[p + 3 + v] = g[p] + Change(b.op))
  BY <1>7, <1>9, <1>10, <1>11, <1>12
<1>16. p + z <= Len(d) /\ (Takes(b.op) > 0 => g[p] - Takes(b.op) >= b.locals)
  BY <1>1, <1>3, <1>5, <1>11, <1>12
<1>17. QED
  BY <1>3, <1>4, <1>8, <1>13, <1>14, <1>15, <1>16 DEF FlowsAt

\* The code d, with heights g, is c and more; it ends at height y.
Grown(c, h, d, g, H, Z, L, y) ==
  /\ d \in Seq(ByteType) /\ g \in Heights
  /\ Flows(d, g, H, Z, L) /\ Extended(c, h, d, g) /\ g[Len(d)] = y

\* d is c with the instruction op behind it.
IsMore(d, c, h, op, t, G, Z, L, y) ==
  /\ \E g : Grown(c, h, d, g, G, Z, L, y)
  /\ d \in Seq(ByteType) /\ Len(d) = Len(c) + Size(op)
  /\ d[Len(c) + 1].op = op /\ d[Len(c) + 1].tok = t

LEMMA OneMore ==
  ASSUME NEW c \in Seq(ByteType), NEW h \in Heights, NEW H, NEW Z, Flows(c, h, H, Z, Len(c)),
         NEW op \in Op, NEW n \in Int, NEW t \in Nat, NEW l \in Nat,
         NEW G, H \subseteq G, NEW y \in Int, NEW L \in Nat, Len(c) <= L, L <= Len(c) + Size(op),
         Takes(op) > 0 => h[Len(c)] - Takes(op) >= l,
         Falls(op) => L = Len(c) + Size(op) /\ y = h[Len(c)] + Change(op),
         Worded(op, n),
         op \in Jumps /\ Len(c) + 1 \notin G => Begun(c, h, Len(c) + 3 + n, h[Len(c)] + Change(op))
  PROVE  IsMore(c \o Instr(op, n, t, l), c, h, op, t, G, Z, L, y)
<1>0. PICK d : d = c \o Instr(op, n, t, l)
  OBVIOUS
<1>1. PICK k \in Nat : k = Len(c)
  BY LenProperties
<1>2. PICK z, x : z = Size(op) /\ x = h[k]
  OBVIOUS
<1>3. z \in 1 .. 3 /\ x \in Int /\ op # "operand"
  BY <1>2, OpFacts DEF Heights
<1>4. PICK e : e = Instr(op, n, t, l)
  OBVIOUS
<1>5. /\ e \in Seq(ByteType) /\ Len(e) = z /\ e[1].op = op /\ e[1].tok = t /\ e[1].locals = l
      /\ z # 1 => e[2].n = n
      /\ \A i \in 2 .. z : e[i].op = "operand"
  <2>1. /\ e \in Seq(ByteType) /\ Len(e) = Size(op)
        /\ e[1].op = op /\ e[1].tok = t /\ e[1].locals = l
        /\ Size(op) # 1 => e[2].n = n
        /\ \A i \in 2 .. Size(op) : e[i].op = "operand"
    <3>1. IsInstr(Instr(op, n, t, l), op, n, t, l)
      BY InstrIs
    <3>2. IsInstr(e, op, n, t, l)
      BY <1>4, <3>1
    <3>3. QED
      BY <3>2 DEF IsInstr
  <2>2. QED
    BY <1>2, <2>1
<1>6. /\ d \in Seq(ByteType) /\ Len(d) = k + z
      /\ \A i \in 1 .. k : d[i] = c[i]
      /\ \A i \in 1 .. z : d[k + i] = e[i]
  <2>1. d = c \o e /\ e \in Seq(ByteType)
    BY <1>0, <1>4, <1>5
  <2>2. /\ d \in Seq(ByteType) /\ Len(d) = Len(c) + Len(e)
        /\ \A i \in 1 .. Len(c) : d[i] = c[i]
        /\ \A i \in 1 .. Len(e) : d[Len(c) + i] = e[i]
    <3>1. IsAppended(c \o e, c, e)
      BY <2>1, AppendedIs
    <3>2. IsAppended(d, c, e)
      BY <2>1, <3>1
    <3>3. QED
      BY <3>2 DEF IsAppended
  <2>3. Len(e) = z
    BY <1>5
  <2>4. QED
    BY <1>1, <2>2, <2>3
<1>7. d[k + 1] = e[1] /\ (z # 1 => d[k + 2] = e[2])
  <2>1. \A i \in 1 .. z : d[k + i] = e[i]
    BY <1>6
  <2>2. 1 \in 1 .. z /\ (z # 1 => 2 \in 1 .. z)
    BY <1>3
  <2>3. QED
    BY <2>1, <2>2
<1>8. PICK g : g = [h EXCEPT ![k + z] = y]
  OBVIOUS
<1>9. g \in Heights /\ g[k + z] = y /\ \A q \in 0 .. k : g[q] = h[q]
  BY <1>3, <1>8 DEF Heights
<1>10. Extended(c, h, d, g)
  BY <1>1, <1>3, <1>5, <1>6, <1>7, <1>9 DEF Extended
<1>11. FlowsAt(d, g, G, Z, L, k)
  <2>1. d[k + 1].op = op /\ d[k + 1].locals = l /\ g[k] = x
    BY <1>2, <1>5, <1>7, <1>9
  <2>2. Falls(op) => Point(d, k + z, L) /\ g[k + z] = x + Change(op)
    BY <1>1, <1>2, <1>3, <1>6, <1>9 DEF Point
  <2>3. op \in Words \cup Jumps => z # 1
    BY <1>2 DEF Size, Jumps, Words
  <2>4. Worded(op, d[k + 2].n)
    BY <1>5, <1>7, <2>3 DEF Worded, Words
  <2>5. ASSUME op \in Jumps, k + 1 \notin G
        PROVE  Point(d, k + 3 + d[k + 2].n, L) /\ g[k + 3 + d[k + 2].n] = x + Change(op)
    <3>1. d[k + 2].n = n
      BY <1>5, <1>7, <2>3, <2>5
    <3>2. PICK r : r = k + 3 + n
      OBVIOUS
    <3>3. r \in 0 .. k /\ (r < k => c[r + 1].op # "operand") /\ h[r] = x + Change(op)
      BY <1>1, <1>2, <2>5, <3>2 DEF Begun, Point
    <3>4. g[r] = h[r]
      BY <1>9, <3>3
    <3>5. Point(d, r, L)
      <4>1. CASE r < k
        <5>1. d[r + 1] = c[r + 1]
          <6>1. r + 1 \in 1 .. k
            BY <3>3, <4>1
          <6>2. \A i \in 1 .. k : d[i] = c[i]
            BY <1>6
          <6>3. QED
            BY <6>1, <6>2
        <5>2. QED
          BY <1>1, <3>3, <4>1, <5>1 DEF Point
      <4>2. CASE r = k
        BY <1>1, <1>3, <2>1, <3>3, <4>2 DEF Point
      <4>3. QED
        BY <3>3, <4>1, <4>2
    <3>6. QED
      BY <3>1, <3>2, <3>3, <3>4, <3>5
  <2>6. Takes(op) > 0 => g[k] - Takes(op) >= l
    BY <1>1, <1>2, <2>1
  <2>7. k + Size(op) <= Len(d)
    BY <1>2, <1>6
  <2>8. QED
    BY <1>2, <2>1, <2>2, <2>4, <2>5, <2>6, <2>7 DEF FlowsAt
<1>12. ASSUME NEW p \in 0 .. Len(d) - 1, d[p + 1].op # "operand" PROVE FlowsAt(d, g, G, Z, L, p)
  <2>1. CASE p < k
    <3>1. c[p + 1].op # "operand" /\ p \in 0 .. Len(c) - 1
      <4>1. p \in Nat /\ p + 1 \in 1 .. k /\ \A i \in 1 .. k : d[i] = c[i]
        BY <1>1, <1>6, <2>1
      <4>2. d[p + 1] = c[p + 1]
        BY <4>1
      <4>3. QED
        BY <1>1, <1>12, <4>1, <4>2
    <3>2. FlowsAt(c, h, H, Z, Len(c), p)
      BY <3>1 DEF Flows
    <3>3. Len(c) \in Nat /\ Len(c) <= Len(d) /\ Len(c) <= Len(c) /\ (Len(c) < Len(d) => d[Len(c) + 1].op # "operand")
      BY <1>1, <1>3, <1>5, <1>6, <1>7
    <3>4. /\ \A i \in 1 .. Len(c) : d[i] = c[i]
          /\ \A q \in 0 .. Len(c) : g[q] = h[q]
      BY <1>1, <1>6, <1>9
    <3>5. d \in Seq(ByteType) /\ g \in Heights
      BY <1>6, <1>9
    <3>6. QED
      BY <3>1, <3>2, <3>3, <3>4, <3>5, FlowsStill
  <2>2. CASE p = k
    BY <1>11, <2>2
  <2>3. CASE p > k
    <3>1. PICK i : i = p + 1 - k
      OBVIOUS
    <3>2. i \in 2 .. z /\ i \in 1 .. z /\ p + 1 = k + i
      BY <1>3, <1>6, <2>3, <3>1
    <3>3. d[p + 1].op = "operand"
      <4>1. \A j \in 1 .. z : d[k + j] = e[j]
        BY <1>6
      <4>2. d[k + i] = e[i]
        BY <3>2, <4>1
      <4>3. e[i].op = "operand"
        BY <1>5, <3>2
      <4>4. QED
        BY <3>2, <4>2, <4>3
    <3>4. QED
      BY <1>12, <3>3
  <2>4. QED
    BY <1>6, <2>1, <2>2, <2>3
<1>13. Grown(c, h, d, g, G, Z, L, y)
  BY <1>6, <1>9, <1>10, <1>12 DEF Grown, Flows
<1>14. IsMore(d, c, h, op, t, G, Z, L, y)
  BY <1>1, <1>2, <1>5, <1>6, <1>7, <1>13 DEF IsMore
<1>15. QED
  BY <1>0, <1>14

-----------------------------------------------------------------------------
(* Several values dropped or added, and jumps patched. *)

\* d is c and more, and ends with y values on the stack.
IsLonger(d, c, h, H, Z, y) == \E g : Grown(c, h, d, g, H, Z, Len(d), y)

LEMMA Repeated ==
  ASSUME NEW c \in Seq(ByteType), NEW h \in Heights, NEW H, NEW Z, Flows(c, h, H, Z, Len(c)),
         NEW op \in {"POP", "LOADNIL"}, NEW t \in Nat, NEW l \in Nat, NEW k \in Nat,
         NEW e \in Seq(ByteType), Len(e) = k, \A i \in 1 .. k : e[i] = Byte(op, 0, t, l),
         NEW y, y = IF op = "POP" THEN h[Len(c)] - k ELSE h[Len(c)] + k,
         op = "POP" => y >= l
  PROVE  IsLonger(c \o e, c, h, H, Z, y)
<1>0. PICK d : d = c \o e
  OBVIOUS
<1>1. PICK m \in Nat : m = Len(c)
  BY LenProperties
<1>2. PICK x : x = h[m]
  OBVIOUS
<1>3. x \in Int
  BY <1>2 DEF Heights
<1>4. /\ d \in Seq(ByteType) /\ Len(d) = m + k
      /\ \A i \in 1 .. m : d[i] = c[i]
      /\ \A i \in 1 .. k : d[m + i] = Byte(op, 0, t, l)
  <2>1. /\ d \in Seq(ByteType) /\ Len(d) = Len(c) + Len(e)
        /\ \A i \in 1 .. Len(c) : d[i] = c[i]
        /\ \A i \in 1 .. Len(e) : d[Len(c) + i] = e[i]
    <3>1. IsAppended(c \o e, c, e)
      BY AppendedIs
    <3>2. IsAppended(d, c, e)
      BY <1>0, <3>1
    <3>3. QED
      BY <3>2 DEF IsAppended
  <2>2. QED
    BY <1>1, <2>1
<1>5. PICK g : g = [p \in Nat |-> IF p <= m THEN h[p] ELSE IF op = "POP" THEN x - (p - m) ELSE x + (p - m)]
  OBVIOUS
<1>6. g \in Heights
  BY <1>3, <1>5 DEF Heights
<1>7. \A p \in 0 .. m : g[p] = h[p]
  BY <1>5
<1>8. \A i \in 0 .. k : g[m + i] = IF op = "POP" THEN x - i ELSE x + i
  <2>1. ASSUME NEW i \in 0 .. k PROVE g[m + i] = IF op = "POP" THEN x - i ELSE x + i
    <3>1. CASE i = 0
      BY <1>2, <1>3, <1>7, <3>1
    <3>2. CASE i > 0
      <4>1. PICK p \in Nat : p = m + i
        OBVIOUS
      <4>2. ~(p <= m) /\ p - m = i
        BY <3>2, <4>1
      <4>3. g[p] = IF op = "POP" THEN x - (p - m) ELSE x + (p - m)
        BY <1>5, <4>2
      <4>4. QED
        BY <4>1, <4>2, <4>3
    <3>3. QED
      BY <3>1, <3>2
  <2>2. QED
    BY <2>1
<1>9. ASSUME NEW i \in 1 .. k PROVE d[m + i].op = op /\ d[m + i].locals = l
  <2>1. d[m + i] = Byte(op, 0, t, l)
    <3>1. \A j \in 1 .. k : d[m + j] = Byte(op, 0, t, l)
      BY <1>4
    <3>2. QED
      BY <3>1
  <2>2. QED
    BY <2>1 DEF Byte
<1>10. k >= 1 => d[m + 1].op # "operand"
  <2>1. k >= 1 => 1 \in 1 .. k
    OBVIOUS
  <2>2. k >= 1 => d[m + 1].op = op
    BY <1>9, <2>1
  <2>3. QED
    BY <2>2
<1>11. ASSUME NEW i \in 0 .. k - 1 PROVE FlowsAt(d, g, H, Z, Len(d), m + i)
  <2>1. PICK p \in Nat : p = m + i
    OBVIOUS
  <2>2. i + 1 \in 1 .. k /\ p + 1 = m + (i + 1) /\ i \in 0 .. k /\ i + 1 \in 0 .. k
    BY <2>1
  <2>3. d[p + 1].op = op /\ d[p + 1].locals = l
    BY <1>9, <2>2
  <2>4. g[p] = (IF op = "POP" THEN x - i ELSE x + i) /\ g[p + 1] = IF op = "POP" THEN x - (i + 1) ELSE x + (i + 1)
    BY <1>8, <2>1, <2>2
  <2>5. Size(op) = 1 /\ Falls(op) /\ op \notin Jumps /\ \A w : Worded(op, w)
    BY DEF Size, Falls, Jumps, Worded
  <2>6. p + 1 <= Len(d) /\ Point(d, p + 1, Len(d))
    <3>1. p + 1 <= Len(d) /\ p + 1 \in Nat
      BY <1>4, <2>2
    <3>2. p + 1 < Len(d) => d[p + 2].op = op
      <4>1. ASSUME p + 1 < Len(d) PROVE i + 2 \in 1 .. k /\ p + 2 = m + (i + 2)
        BY <1>4, <2>1, <4>1
      <4>2. QED
        BY <1>9, <4>1
    <3>3. (p + 1) + 1 = p + 2 /\ Len(d) \in Nat
      BY <1>4
    <3>4. QED
      BY <3>1, <3>2, <3>3 DEF Point
  <2>7. g[p + 1] = g[p] + Change(op)
    <3>1. CASE op = "POP"
      BY <1>3, <2>4, <3>1 DEF Change
    <3>2. CASE op = "LOADNIL"
      BY <1>3, <2>4, <3>2 DEF Change
    <3>3. QED
      BY <3>1, <3>2
  <2>8. Takes(op) > 0 => g[p] - Takes(op) >= l
    <3>1. CASE op = "POP"
      <4>1. Takes(op) = 1 /\ g[p] = x - i /\ x - k >= l
        BY <1>1, <1>2, <2>4, <3>1 DEF Takes
      <4>2. QED
        BY <1>3, <4>1
    <3>2. CASE op = "LOADNIL"
      BY <3>2 DEF Takes
    <3>3. QED
      BY <3>1, <3>2
  <2>9. FlowsAt(d, g, H, Z, Len(d), p)
    BY <2>3, <2>5, <2>6, <2>7, <2>8 DEF FlowsAt
  <2>10. QED
    BY <2>1, <2>9
<1>12. ASSUME NEW p \in 0 .. Len(d) - 1, d[p + 1].op # "operand" PROVE FlowsAt(d, g, H, Z, Len(d), p)
  <2>1. CASE p < m
    <3>1. p \in Nat /\ p + 1 \in 1 .. m /\ \A i \in 1 .. m : d[i] = c[i]
      BY <1>4, <2>1
    <3>2. d[p + 1] = c[p + 1]
      BY <3>1
    <3>3. c[p + 1].op # "operand" /\ p \in 0 .. Len(c) - 1
      BY <1>1, <1>12, <3>1, <3>2
    <3>4. FlowsAt(c, h, H, Z, Len(c), p)
      BY <3>3 DEF Flows
    <3>5. Len(c) < Len(d) => d[Len(c) + 1].op # "operand"
      BY <1>1, <1>4, <1>10
    <3>6. /\ Len(c) \in Nat /\ Len(d) \in Nat /\ Len(c) <= Len(d) /\ Len(c) <= Len(c)
          /\ \A i \in 1 .. Len(c) : d[i] = c[i]
          /\ \A q \in 0 .. Len(c) : g[q] = h[q]
      BY <1>1, <1>4, <1>7
    <3>7. d \in Seq(ByteType)
      BY <1>4
    <3>8. QED
      BY <1>6, <3>3, <3>4, <3>5, <3>6, <3>7, FlowsStill
  <2>2. CASE p >= m
    <3>1. PICK i : i = p - m
      OBVIOUS
    <3>2. i \in 0 .. k - 1 /\ p = m + i
      BY <1>4, <2>2, <3>1
    <3>3. FlowsAt(d, g, H, Z, Len(d), m + i)
      BY <1>11, <3>2
    <3>4. QED
      BY <3>2, <3>3
  <2>3. QED
    BY <1>4, <2>1, <2>2
<1>13. g[Len(d)] = y
  <2>1. k \in 0 .. k
    OBVIOUS
  <2>2. g[m + k] = IF op = "POP" THEN x - k ELSE x + k
    BY <1>8, <2>1
  <2>3. QED
    BY <1>1, <1>2, <1>4, <2>2
<1>14. Extended(c, h, d, g)
  BY <1>1, <1>4, <1>7, <1>10 DEF Extended
<1>15. Grown(c, h, d, g, H, Z, Len(d), y)
  BY <1>4, <1>6, <1>12, <1>13, <1>14 DEF Grown, Flows
<1>16. IsLonger(d, c, h, H, Z, y)
  BY <1>15 DEF IsLonger
<1>17. QED
  BY <1>0, <1>16

LEMMA PatchedIs ==
  ASSUME NEW c \in Seq(ByteType), NEW ps, NEW d, d = PatchedAll(c, ps)
  PROVE  /\ d \in Seq(ByteType) /\ Len(d) = Len(c)
         /\ \A i \in 1 .. Len(c) :
              /\ d[i].op = c[i].op /\ d[i].tok = c[i].tok /\ d[i].locals = c[i].locals
              /\ d[i].n = IF i - 1 \in ps THEN Len(c) - (i - 1) - 2 ELSE c[i].n
<1>1. PICK k \in Nat : k = Len(c)
  BY LenProperties
<1>2. DOMAIN c = 1 .. k
  BY <1>1, LenProperties
<1>3. d = [i \in 1 .. k |-> IF i - 1 \in ps THEN [c[i] EXCEPT !.n = k - (i - 1) - 2] ELSE c[i]]
  BY <1>1, <1>2 DEF PatchedAll, Offset
<1>4. ASSUME NEW i \in 1 .. k
      PROVE  /\ d[i] \in ByteType
             /\ d[i].op = c[i].op /\ d[i].tok = c[i].tok /\ d[i].locals = c[i].locals
             /\ d[i].n = IF i - 1 \in ps THEN k - (i - 1) - 2 ELSE c[i].n
  <2>1. PICK b \in ByteType : b = c[i]
    BY <1>1, ElementOfSeq
  <2>2. d[i] = IF i - 1 \in ps THEN [b EXCEPT !.n = k - (i - 1) - 2] ELSE b
    BY <1>3, <2>1
  <2>3. CASE i - 1 \in ps
    <3>1. PICK w \in Int : w = k - (i - 1) - 2
      OBVIOUS
    <3>2. d[i] = [b EXCEPT !.n = w]
      BY <2>2, <2>3, <3>1
    <3>3. d[i] \in ByteType /\ d[i].op = b.op /\ d[i].tok = b.tok /\ d[i].locals = b.locals /\ d[i].n = w
      BY <3>2 DEF ByteType
    <3>4. QED
      BY <2>1, <2>3, <3>1, <3>3
  <2>4. CASE i - 1 \notin ps
    BY <2>1, <2>2, <2>4
  <2>5. QED
    BY <2>3, <2>4
<1>5. d \in Seq(ByteType) /\ Len(d) = k
  <2>1. DOMAIN d = 1 .. k /\ d = [i \in 1 .. k |-> d[i]]
    BY <1>3
  <2>2. d \in [1 .. k -> ByteType]
    BY <1>4, <2>1
  <2>3. QED
    BY <2>2
<1>6. QED
  BY <1>1, <1>4, <1>5

LEMMA PatchedOne ==
  ASSUME NEW c \in Seq(ByteType), NEW x \in 1 .. Len(c) - 1
  PROVE  Patched(c, x, Len(c)) = PatchedAll(c, {x})
<1>1. PICK k \in Nat : k = Len(c)
  BY LenProperties
<1>2. DOMAIN c = 1 .. k
  BY <1>1, LenProperties
<1>3. PICK d, e : d = Patched(c, x, Len(c)) /\ e = PatchedAll(c, {x})
  OBVIOUS
<1>4. d = [c EXCEPT ![x + 1].n = k - x - 2]
  BY <1>1, <1>3 DEF Patched, Offset
<1>5. e = [i \in 1 .. k |-> IF i - 1 \in {x} THEN [c[i] EXCEPT !.n = k - (i - 1) - 2] ELSE c[i]]
  BY <1>1, <1>2, <1>3 DEF PatchedAll, Offset
<1>6. d = [i \in 1 .. k |-> IF i = x + 1 THEN [c[i] EXCEPT !.n = k - x - 2] ELSE c[i]]
  <2>1. d = [c EXCEPT ![x + 1] = [c[x + 1] EXCEPT !.n = k - x - 2]]
    BY <1>4
  <2>2. c = [i \in 1 .. k |-> c[i]]
    BY <1>1, <1>2, LenProperties
  <2>3. QED
    BY <1>2, <2>1, <2>2
<1>7. ASSUME NEW i \in 1 .. k PROVE d[i] = e[i]
  <2>1. CASE i = x + 1
    <3>1. i - 1 = x /\ i - 1 \in {x}
      BY <1>1, <2>1
    <3>2. e[i] = [c[i] EXCEPT !.n = k - (i - 1) - 2]
      BY <1>5, <3>1
    <3>3. d[i] = [c[i] EXCEPT !.n = k - x - 2]
      BY <1>6, <2>1
    <3>4. QED
      BY <3>1, <3>2, <3>3
  <2>2. CASE i # x + 1
    <3>1. i - 1 \notin {x}
      BY <1>1, <2>2
    <3>2. QED
      BY <1>5, <1>6, <2>2, <3>1
  <2>3. QED
    BY <2>1, <2>2
<1>8. d = e
  BY <1>5, <1>6, <1>7
<1>9. QED
  BY <1>3, <1>8

LEMMA Patching ==
  ASSUME NEW c \in Seq(ByteType), NEW h \in Heights, NEW H, NEW Z, Flows(c, h, H, Z, Len(c)),
         NEW ps, \A x \in ps : Waits(c, h, Z, x, h[Len(c)])
  PROVE  Grown(c, h, PatchedAll(c, ps), h, H \ ps, Z, Len(c), h[Len(c)])
<1>1. PICK d : d = PatchedAll(c, ps)
  OBVIOUS
<1>2. PICK k \in Nat : k = Len(c)
  BY LenProperties
<1>3. /\ d \in Seq(ByteType) /\ Len(d) = k
      /\ \A i \in 1 .. k :
           /\ d[i].op = c[i].op /\ d[i].tok = c[i].tok /\ d[i].locals = c[i].locals
           /\ d[i].n = IF i - 1 \in ps THEN k - (i - 1) - 2 ELSE c[i].n
  BY <1>1, <1>2, PatchedIs
<1>4. \A r, L : Point(c, r, L) => Point(d, r, L)
  <2>1. ASSUME NEW r, NEW L, Point(c, r, L) PROVE Point(d, r, L)
    <3>1. CASE r < k
      <4>1. r \in 0 .. L /\ c[r + 1].op # "operand"
        BY <1>2, <2>1, <3>1 DEF Point
      <4>2. r \in Int /\ r >= 0
        BY <4>1
      <4>3. r + 1 \in 1 .. k
        BY <3>1, <4>2
      <4>4. d[r + 1].op = c[r + 1].op
        BY <1>3, <4>3
      <4>5. QED
        BY <4>1, <4>4 DEF Point
    <3>2. CASE ~(r < k)
      BY <1>2, <1>3, <2>1, <3>2 DEF Point
    <3>3. QED
      BY <3>1, <3>2
  <2>2. QED
    BY <2>1
<1>5. ASSUME NEW p \in 0 .. k - 1, d[p + 1].op # "operand" PROVE FlowsAt(d, h, H \ ps, Z, k, p)
  <2>1. p \in Nat /\ p + 1 \in 1 .. k
    OBVIOUS
  <2>2. PICK b : b = c[p + 1]
    OBVIOUS
  <2>3. d[p + 1].op = b.op /\ d[p + 1].tok = b.tok /\ d[p + 1].locals = b.locals
    BY <1>3, <2>1, <2>2
  <2>4. FlowsAt(c, h, H, Z, k, p)
    BY <1>2, <1>5, <2>2, <2>3 DEF Flows
  <2>5. PICK w, v : w = c[p + 2].n /\ v = d[p + 2].n
    OBVIOUS
  <2>6. /\ p + Size(b.op) <= k
        /\ Takes(b.op) > 0 => h[p] - Takes(b.op) >= b.locals
        /\ Falls(b.op) => Point(c, p + Size(b.op), k) /\ h[p + Size(b.op)] = h[p] + Change(b.op)
        /\ Worded(b.op, w)
        /\ b.op \in Jumps /\ p + 1 \notin H =>
             Point(c, p + 3 + w, k) /\ (Leaving(b, Z) \/ h[p + 3 + w] = h[p] + Change(b.op))
    BY <1>2, <2>2, <2>4, <2>5 DEF FlowsAt
  <2>7. Size(b.op) \in 1 .. 3 /\ (b.op \in Words \cup Jumps => Size(b.op) >= 2)
    BY OpFacts DEF Size, Jumps, Words
  <2>8. b.op \in Words \cup Jumps => v = IF p + 1 \in ps THEN k - (p + 1) - 2 ELSE w
    <3>1. ASSUME b.op \in Words \cup Jumps PROVE p + 2 \in 1 .. k /\ (p + 2) - 1 = p + 1
      BY <2>1, <2>6, <2>7, <3>1
    <3>2. ASSUME b.op \in Words \cup Jumps
          PROVE  d[p + 2].n = IF (p + 2) - 1 \in ps THEN k - ((p + 2) - 1) - 2 ELSE c[p + 2].n
      BY <1>3, <3>1, <3>2
    <3>3. QED
      BY <2>5, <3>1, <3>2
  <2>9. p + 1 \in ps => b.op \in Jumps /\ (Leaving(b, Z) \/ h[p] + Change(b.op) = h[k])
    <3>1. ASSUME p + 1 \in ps PROVE b.op \in Jumps /\ (Leaving(b, Z) \/ h[p] + Change(b.op) = h[k])
      <4>1. Waits(c, h, Z, p + 1, h[k])
        BY <1>2, <3>1
      <4>2. (p + 1) - 1 = p
        BY <2>1
      <4>3. QED
        BY <2>2, <4>1, <4>2 DEF Waits
    <3>2. QED
      BY <3>1
  <2>10. Worded(b.op, v)
    <3>1. b.op \in Words => b.op \notin Jumps
      BY DEF Jumps, Words
    <3>2. b.op \in Words => v = w
      BY <2>8, <2>9, <3>1
    <3>3. QED
      BY <2>6, <3>2 DEF Worded, Words
  <2>11. ASSUME b.op \in Jumps, p + 1 \notin H \ ps
         PROVE  Point(d, p + 3 + v, k) /\ (Leaving(b, Z) \/ h[p + 3 + v] = h[p] + Change(b.op))
    <3>1. CASE p + 1 \in ps
      <4>1. v = k - (p + 1) - 2
        BY <2>8, <2>11, <3>1
      <4>2. p + 3 + v = k
        BY <2>1, <4>1
      <4>3. Point(d, k, k)
        BY <1>3 DEF Point
      <4>4. QED
        BY <2>9, <3>1, <4>2, <4>3
    <3>2. CASE p + 1 \notin ps
      <4>1. v = w /\ p + 1 \notin H
        BY <2>8, <2>11, <3>2
      <4>2. QED
        BY <1>4, <2>6, <2>11, <4>1
    <3>3. QED
      BY <3>1, <3>2
  <2>12. Falls(b.op) => Point(d, p + Size(b.op), k)
    BY <1>4, <2>6
  <2>13. Leaving(d[p + 1], Z) <=> Leaving(b, Z)
    BY <2>3 DEF Leaving
  <2>14. QED
    BY <1>3, <2>3, <2>5, <2>6, <2>10, <2>11, <2>12, <2>13 DEF FlowsAt
<1>6. Extended(c, h, d, h)
  BY <1>2, <1>3 DEF Extended
<1>7. Grown(c, h, d, h, H \ ps, Z, k, h[k])
  BY <1>3, <1>5, <1>6 DEF Grown, Flows
<1>8. QED
  BY <1>1, <1>2, <1>7

LEMMA FlowsMore ==
  ASSUME NEW c, NEW h, NEW H, NEW Z, NEW L \in Nat, Flows(c, h, H, Z, L),
         NEW G, H \subseteq G, NEW Y, Z \subseteq Y, NEW M \in Nat, L <= M
  PROVE  Flows(c, h, G, Y, M)
<1>1. \A r : Point(c, r, L) => Point(c, r, M)
  BY DEF Point
<1>2. \A b : Leaving(b, Z) => Leaving(b, Y)
  BY DEF Leaving
<1>3. ASSUME NEW p, FlowsAt(c, h, H, Z, L, p) PROVE FlowsAt(c, h, G, Y, M, p)
  BY <1>1, <1>2, <1>3 DEF FlowsAt
<1>4. QED
  BY <1>3 DEF Flows

LEMMA ExtendedFurther ==
  ASSUME NEW c \in Seq(ByteType), NEW h, NEW d \in Seq(ByteType), NEW g, NEW e \in Seq(ByteType), NEW f,
         Extended(c, h, d, g), Extended(d, g, e, f)
  PROVE  Extended(c, h, e, f)
<1>1. Len(c) \in Nat /\ Len(d) \in Nat /\ Len(e) \in Nat
  BY LenProperties
<1>2. Len(c) <= Len(d) /\ Len(d) <= Len(e)
  BY DEF Extended
<1>3. \A p \in 0 .. Len(c) : f[p] = h[p]
  BY <1>1, <1>2 DEF Extended
<1>4. \A i \in 1 .. Len(c) : e[i].op = c[i].op /\ e[i].tok = c[i].tok
  BY <1>1, <1>2 DEF Extended
<1>5. Len(c) < Len(e) => e[Len(c) + 1].op # "operand"
  <2>1. CASE Len(c) < Len(d)
    <3>1. d[Len(c) + 1].op # "operand" /\ Len(c) + 1 \in 1 .. Len(d)
      BY <1>1, <2>1 DEF Extended
    <3>2. QED
      BY <3>1 DEF Extended
  <2>2. CASE Len(c) = Len(d)
    BY <2>2 DEF Extended
  <2>3. QED
    BY <1>1, <1>2, <2>1, <2>2
<1>6. QED
  BY <1>1, <1>2, <1>3, <1>4, <1>5 DEF Extended

LEMMA ExtendedSame ==
  ASSUME NEW c \in Seq(ByteType), NEW h
  PROVE  Extended(c, h, c, h)
BY LenProperties DEF Extended

LEMMA StillWaits ==
  ASSUME NEW c \in Seq(ByteType), NEW h, NEW d \in Seq(ByteType), NEW g, Extended(c, h, d, g),
         NEW Z, NEW Y, Z \subseteq Y, NEW x, NEW t, Waits(c, h, Z, x, t)
  PROVE  Waits(d, g, Y, x, t)
<1>1. Len(c) \in Nat /\ Len(d) \in Nat /\ Len(c) <= Len(d)
  BY LenProperties DEF Extended
<1>2. x \in 1 .. Len(c) - 2 /\ c[x].op \in Jumps /\ (Leaving(c[x], Z) \/ h[x - 1] + Change(c[x].op) = t)
  BY DEF Waits
<1>3. x \in 1 .. Len(d) - 2 /\ x \in 1 .. Len(c) /\ x - 1 \in 0 .. Len(c)
  BY <1>1, <1>2
<1>4. d[x].op = c[x].op /\ d[x].tok = c[x].tok /\ g[x - 1] = h[x - 1]
  BY <1>3 DEF Extended
<1>5. QED
  BY <1>2, <1>3, <1>4 DEF Waits, Leaving

LEMMA StillBegun ==
  ASSUME NEW c \in Seq(ByteType), NEW h, NEW d \in Seq(ByteType), NEW g, Extended(c, h, d, g),
         NEW r, NEW t, Begun(c, h, r, t)
  PROVE  Begun(d, g, r, t)
<1>1. Len(c) \in Nat /\ Len(d) \in Nat /\ Len(c) <= Len(d)
  BY LenProperties DEF Extended
<1>2. r \in 0 .. Len(c) /\ (r < Len(c) => c[r + 1].op # "operand") /\ h[r] = t
  BY DEF Begun, Point
<1>3. g[r] = t
  BY <1>2 DEF Extended
<1>4. CASE r < Len(c)
  <2>1. r + 1 \in 1 .. Len(c)
    BY <1>1, <1>2, <1>4
  <2>2. d[r + 1].op = c[r + 1].op
    BY <2>1 DEF Extended
  <2>3. QED
    BY <1>1, <1>2, <1>3, <1>4, <2>2 DEF Begun, Point
<1>5. CASE r = Len(c)
  BY <1>1, <1>2, <1>3, <1>5 DEF Begun, Point, Extended
<1>6. QED
  BY <1>1, <1>2, <1>4, <1>5

-----------------------------------------------------------------------------
(* What is left to be compiled.  A view says how things stand before a      *)
(* symbol: the height of the value stack, the active locals, the marks and   *)
(* the bases.                                                               *)

View == [h : Int, a : Nat, m : Nat, b : Nat]
At4(h, a, m, b) == [h |-> h, a |-> a, m |-> m, b |-> b]
MarkType == [start : Nat, exit : Nat, ends : SUBSET Nat, count : Nat]

Pendable ==
  {"Expr", "Block", "More", "Clauses", "Fields", "Target", "value", "and2", "and)", "or2", "or)", "bin)", "call)",
   "print)", "put", "local)", "declare", "eval)", "assign)", "set", "then", "endif", "do", "endwhile", "until",
   "endrepeat", "test", "endfor", "item", "endforin", "return)", "end"}

\* The symbols whose processing, with all that follows from it, gives the mark back.
Closes ==
  {"and2", "and)", "or2", "or)", "More", "then", "Clauses", "endif", "do", "endwhile", "until", "endrepeat", "test",
   "endfor", "item", "endforin"}

Counting == {"test", "endfor", "item", "endforin"}

AfterH(s, v, k, base) ==
  IF s \in {"Expr", "value"} THEN v.h + 1
  ELSE IF s \in {"bin)", "call)", "eval)", "Target", "then", "do", "endrepeat", "return)"} THEN v.h - 1
  ELSE IF s \in {"put", "set"} THEN v.h - 3
  ELSE IF s = "Block" THEN base
  ELSE IF s \in Counting THEN k.count
  ELSE IF s = "More" THEN v.a
  ELSE v.h

AfterA(s, v, k, base) ==
  IF s \in {"local)", "declare"} THEN v.a + 1
  ELSE IF s = "Block" THEN base
  ELSE IF s \in Counting THEN k.count
  ELSE v.a

\* The view after s and all that follows from it.
Afterwards(s, v, k, base) ==
  At4(AfterH(s, v, k, base), AfterA(s, v, k, base), IF s \in Closes THEN v.m - 1 ELSE v.m,
      IF s = "Block" THEN v.b - 1 ELSE v.b)

\* How many values besides the locals are at least on the stack before s.
Temps(s) ==
  IF s = "put" THEN 4
  ELSE IF s = "set" THEN 3
  ELSE IF s \in {"bin)", "call)"} THEN 2
  ELSE IF s \in {"and2", "and)", "or2", "or)", "print)", "Fields", "local)", "declare", "eval)", "Target", "then", "do",
                 "endrepeat", "test", "item", "return)"} THEN 1
  ELSE 0

\* The mark k serves s.
Serves(s, v, k, c, h, Z) ==
  /\ s \in {"and2", "or2", "More", "then", "endif", "do", "until", "endrepeat", "test", "item"} => k.exit = 0
  /\ s \notin {"then", "Clauses", "endif"} => k.ends = {}
  /\ s = "then" => \A x \in k.ends : Waits(c, h, Z, x, v.h - 1)
  /\ s \in {"Clauses", "endif"} => \A x \in k.ends : Waits(c, h, Z, x, v.h)
  /\ s \in {"and)", "or)", "Clauses", "endwhile", "endfor", "endforin"} => Waits(c, h, Z, k.exit, v.h)
  /\ s \in {"endwhile", "until", "endfor", "endforin"} => Begun(c, h, k.start, v.h)
  /\ s \in {"do", "endrepeat"} => Begun(c, h, k.start, v.h - 1)
  /\ s = "More" => v.h = v.a + k.count
  /\ s = "test" => v.a = k.count + 2
  /\ s = "item" => v.a = k.count
  /\ s \in {"endfor", "endforin"} => v.h = k.count + 3

Fits(s, v, w, k, base, c, h, Z) ==
  /\ v \in View
  /\ s # "end" => w = Afterwards(s, v, k, base)
  /\ v.h >= v.a + Temps(s)
  /\ s \in {"Block", "Clauses", "end"} => v.h = v.a
  /\ s \in {"then", "do", "test", "item"} => v.h = v.a + 1
  /\ s \in Closes => v.m >= 1 /\ Serves(s, v, k, c, h, Z)
  /\ s = "Block" => v.b >= 1 /\ base <= v.a
  /\ s = "end" => v.m = 0

Views(td, P, MK, BS, c, h, Z) ==
  /\ \A j \in 1 .. Len(td) : Fits(td[Len(td) + 1 - j], P[j], P[j - 1], MK[P[j].m], BS[P[j].b], c, h, Z)
  /\ \A i, j \in 1 .. Len(td) : i <= j => P[i].m <= P[j].m /\ P[i].b <= P[j].b

\* From the view v on, td can be compiled.
Plan(td, v, MK, BS, c, h, Z) ==
  /\ td \in Seq(Pendable) /\ Len(td) >= 1 /\ td[Len(td)] = "end"
  /\ \E P \in [Nat -> View] : P[Len(td)] = v /\ Views(td, P, MK, BS, c, h, Z)

-----------------------------------------------------------------------------
LEMMA ViewIs ==
  ASSUME NEW h \in Int, NEW a \in Nat, NEW m \in Nat, NEW b \in Nat
  PROVE  /\ At4(h, a, m, b) \in View
         /\ At4(h, a, m, b).h = h /\ At4(h, a, m, b).a = a /\ At4(h, a, m, b).m = m /\ At4(h, a, m, b).b = b
BY DEF At4, View

LEMMA PlanNext ==
  ASSUME NEW td, NEW v, NEW MK, NEW BS, NEW c, NEW h, NEW Z, Plan(td, v, MK, BS, c, h, Z), Head(td) # "end"
  PROVE  \E w \in View : /\ Fits(Head(td), v, w, MK[v.m], BS[v.b], c, h, Z)
                         /\ Plan(Tail(td), w, MK, BS, c, h, Z)
                         /\ w.m <= v.m /\ w.b <= v.b
<1>1. PICK n \in Nat : n = Len(td)
  BY LenProperties DEF Plan
<1>2. td \in Seq(Pendable) /\ n >= 1 /\ td[n] = "end" /\ td # <<>>
  BY <1>1 DEF Plan
<1>3. PICK P \in [Nat -> View] : P[n] = v /\ Views(td, P, MK, BS, c, h, Z)
  BY <1>1 DEF Plan
<1>4. Head(td) = td[1] /\ n # 1
  BY <1>1, <1>2
<1>5. PICK u : u = Tail(td)
  OBVIOUS
<1>6. u \in Seq(Pendable) /\ Len(u) = n - 1 /\ \A i \in 1 .. n - 1 : u[i] = td[i + 1]
  <2>1. Tail(td) \in Seq(Pendable) /\ Len(Tail(td)) = Len(td) - 1 /\ \A i \in 1 .. Len(Tail(td)) : Tail(td)[i] = td[i + 1]
    BY <1>2, HeadTailProperties
  <2>2. QED
    BY <1>1, <1>5, <2>1
<1>7. \A j \in 1 .. n : Fits(td[n + 1 - j], P[j], P[j - 1], MK[P[j].m], BS[P[j].b], c, h, Z)
  BY <1>1, <1>3 DEF Views
<1>8. \A i, j \in 1 .. n : i <= j => P[i].m <= P[j].m /\ P[i].b <= P[j].b
  BY <1>1, <1>3 DEF Views
<1>9. PICK k \in Nat : k = n - 1
  BY <1>2
<1>10. k >= 1 /\ k \in 1 .. n /\ n \in 1 .. n
  BY <1>2, <1>4, <1>9
<1>11. Fits(Head(td), v, P[k], MK[v.m], BS[v.b], c, h, Z)
  <2>1. n + 1 - n = 1 /\ n - 1 = k
    BY <1>9
  <2>2. Fits(td[n + 1 - n], P[n], P[n - 1], MK[P[n].m], BS[P[n].b], c, h, Z)
    BY <1>7, <1>10
  <2>3. QED
    BY <1>3, <1>4, <2>1, <2>2
<1>12. Views(u, P, MK, BS, c, h, Z)
  <2>1. ASSUME NEW j \in 1 .. k PROVE Fits(u[k + 1 - j], P[j], P[j - 1], MK[P[j].m], BS[P[j].b], c, h, Z)
    <3>1. PICK i : i = k + 1 - j
      OBVIOUS
    <3>2. i \in 1 .. n - 1 /\ i + 1 = n + 1 - j /\ j \in 1 .. n
      BY <1>9, <3>1
    <3>3. u[i] = td[n + 1 - j]
      BY <1>6, <3>2
    <3>4. Fits(td[n + 1 - j], P[j], P[j - 1], MK[P[j].m], BS[P[j].b], c, h, Z)
      BY <1>7, <3>2
    <3>5. QED
      BY <3>1, <3>3, <3>4
  <2>2. \A i, j \in 1 .. k : i \in 1 .. n /\ j \in 1 .. n
    BY <1>9
  <2>3. \A i, j \in 1 .. k : i <= j => P[i].m <= P[j].m /\ P[i].b <= P[j].b
    BY <1>8, <2>2
  <2>4. Len(u) = k
    BY <1>6, <1>9
  <2>5. QED
    BY <2>1, <2>3, <2>4 DEF Views
<1>13. u[Len(u)] = "end"
  <2>1. k \in 1 .. n - 1 /\ k + 1 = n /\ Len(u) = k
    BY <1>6, <1>9, <1>10
  <2>2. u[k] = td[k + 1]
    BY <1>6, <2>1
  <2>3. QED
    BY <1>2, <2>1, <2>2
<1>14. Plan(u, P[k], MK, BS, c, h, Z)
  <2>1. Len(u) = k
    BY <1>6, <1>9
  <2>2. QED
    BY <1>6, <1>10, <1>12, <1>13, <2>1 DEF Plan
<1>15. P[k].m <= v.m /\ P[k].b <= v.b
  BY <1>3, <1>8, <1>9, <1>10
<1>16. QED
  BY <1>5, <1>11, <1>14, <1>15

LEMMA PlanPush ==
  ASSUME NEW td, NEW w, NEW MK, NEW BS, NEW c, NEW h, NEW Z, Plan(td, w, MK, BS, c, h, Z),
         NEW s \in Pendable, NEW v \in View, Fits(s, v, w, MK[v.m], BS[v.b], c, h, Z), w.m <= v.m, w.b <= v.b
  PROVE  Plan(<<s>> \o td, v, MK, BS, c, h, Z)
<1>1. PICK n \in Nat : n = Len(td)
  BY LenProperties DEF Plan
<1>2. td \in Seq(Pendable) /\ n >= 1 /\ td[n] = "end"
  BY <1>1 DEF Plan
<1>3. PICK P \in [Nat -> View] : P[n] = w /\ Views(td, P, MK, BS, c, h, Z)
  BY <1>1 DEF Plan
<1>4. PICK u : u = <<s>> \o td
  OBVIOUS
<1>5. u \in Seq(Pendable) /\ Len(u) = n + 1 /\ u[1] = s /\ \A i \in 1 .. n : u[i + 1] = td[i]
  <2>1. <<s>> \in Seq(Pendable) /\ Len(<<s>>) = 1 /\ <<s>>[1] = s
    OBVIOUS
  <2>2. <<s>> \o td \in Seq(Pendable) /\ Len(<<s>> \o td) = Len(<<s>>) + Len(td)
    BY <1>2, <2>1, ConcatProperties
  <2>3. \A i \in 1 .. Len(<<s>>) + Len(td) : (<<s>> \o td)[i] = IF i <= Len(<<s>>) THEN <<s>>[i] ELSE td[i - Len(<<s>>)]
    BY <1>2, <2>1, ConcatProperties
  <2>4. \A i \in 1 .. n + 1 : u[i] = IF i <= 1 THEN <<s>>[i] ELSE td[i - 1]
    BY <1>1, <1>4, <2>1, <2>3
  <2>5. ASSUME NEW i \in 1 .. n PROVE u[i + 1] = td[i]
    <3>1. i + 1 \in 1 .. n + 1 /\ ~(i + 1 <= 1) /\ (i + 1) - 1 = i
      OBVIOUS
    <3>2. u[i + 1] = td[(i + 1) - 1]
      BY <2>4, <3>1
    <3>3. QED
      BY <3>1, <3>2
  <2>6. u[1] = s
    <3>1. 1 \in 1 .. n + 1 /\ 1 <= 1
      OBVIOUS
    <3>2. QED
      BY <2>1, <2>4, <3>1
  <2>7. QED
    BY <1>1, <1>4, <2>1, <2>2, <2>5, <2>6
<1>6. \A j \in 1 .. n : Fits(td[n + 1 - j], P[j], P[j - 1], MK[P[j].m], BS[P[j].b], c, h, Z)
  BY <1>1, <1>3 DEF Views
<1>7. \A i, j \in 1 .. n : i <= j => P[i].m <= P[j].m /\ P[i].b <= P[j].b
  BY <1>1, <1>3 DEF Views
<1>8. PICK k \in Nat : k = n + 1
  OBVIOUS
<1>9. PICK Q : Q = [P EXCEPT ![k] = v]
  OBVIOUS
<1>10. Q \in [Nat -> View] /\ Q[k] = v /\ \A j \in 0 .. n : Q[j] = P[j]
  BY <1>8, <1>9
<1>11. ASSUME NEW j \in 1 .. k PROVE Fits(u[k + 1 - j], Q[j], Q[j - 1], MK[Q[j].m], BS[Q[j].b], c, h, Z)
  <2>1. CASE j = k
    <3>1. k + 1 - j = 1 /\ j - 1 = n /\ n \in 0 .. n
      BY <1>8, <2>1
    <3>2. Q[j] = v /\ Q[j - 1] = w
      BY <1>3, <1>10, <2>1, <3>1
    <3>3. QED
      BY <1>5, <3>1, <3>2
  <2>2. CASE j # k
    <3>1. PICK i : i = n + 1 - j
      OBVIOUS
    <3>2. j \in 1 .. n /\ i \in 1 .. n /\ k + 1 - j = i + 1 /\ j \in 0 .. n /\ j - 1 \in 0 .. n
      BY <1>8, <2>2, <3>1
    <3>3. Q[j] = P[j] /\ Q[j - 1] = P[j - 1] /\ u[k + 1 - j] = td[n + 1 - j]
      BY <1>5, <1>10, <3>1, <3>2
    <3>4. Fits(td[n + 1 - j], P[j], P[j - 1], MK[P[j].m], BS[P[j].b], c, h, Z)
      BY <1>6, <3>2
    <3>5. QED
      BY <3>3, <3>4
  <2>3. QED
    BY <2>1, <2>2
<1>12. ASSUME NEW i \in 1 .. k, NEW j \in 1 .. k, i <= j PROVE Q[i].m <= Q[j].m /\ Q[i].b <= Q[j].b
  <2>1. \A x \in 1 .. n : P[x].m \in Nat /\ P[x].b \in Nat /\ P[x].m <= w.m /\ P[x].b <= w.b
    <3>1. \A x \in 1 .. n : x <= n /\ n \in 1 .. n
      OBVIOUS
    <3>2. \A x \in Nat : P[x].m \in Nat /\ P[x].b \in Nat
      BY DEF View
    <3>3. QED
      BY <1>3, <1>7, <3>1, <3>2
  <2>2. v.m \in Nat /\ v.b \in Nat /\ w.m \in Nat /\ w.b \in Nat
    <3>1. P[n] \in View
      OBVIOUS
    <3>2. QED
      BY <1>3, <3>1 DEF View
  <2>3. CASE j = k /\ i = k
    BY <1>10, <2>2, <2>3
  <2>4. CASE j = k /\ i # k
    <3>1. i \in 1 .. n /\ i \in 0 .. n
      BY <1>8, <2>4
    <3>2. Q[i] = P[i] /\ Q[j] = v
      BY <1>10, <2>4, <3>1
    <3>3. QED
      BY <2>1, <2>2, <3>1, <3>2
  <2>5. CASE j # k
    <3>1. i \in 1 .. n /\ j \in 1 .. n /\ i \in 0 .. n /\ j \in 0 .. n
      BY <1>8, <1>12, <2>5
    <3>2. Q[i] = P[i] /\ Q[j] = P[j]
      BY <1>10, <3>1
    <3>3. QED
      BY <1>7, <1>12, <3>1, <3>2
  <2>6. QED
    BY <2>3, <2>4, <2>5
<1>13. Views(u, Q, MK, BS, c, h, Z)
  <2>1. Len(u) = k
    BY <1>5, <1>8
  <2>2. QED
    BY <1>11, <1>12, <2>1 DEF Views
<1>14. u[k] = "end"
  <2>1. n \in 1 .. n
    BY <1>2
  <2>2. QED
    BY <1>2, <1>5, <1>8, <2>1
<1>15. Plan(u, v, MK, BS, c, h, Z)
  <2>1. Len(u) = k /\ k >= 1
    BY <1>5, <1>8
  <2>2. QED
    BY <1>5, <1>10, <1>13, <1>14, <2>1 DEF Plan
<1>16. QED
  BY <1>4, <1>15

-----------------------------------------------------------------------------
(* A plan for code that goes on, and for other marks above those it uses. *)

LEMMA FitsStill ==
  ASSUME NEW c \in Seq(ByteType), NEW h, NEW d \in Seq(ByteType), NEW g, Extended(c, h, d, g),
         NEW Z, NEW Y, Z \subseteq Y, NEW s, NEW v, NEW w, NEW k, NEW b, Fits(s, v, w, k, b, c, h, Z)
  PROVE  Fits(s, v, w, k, b, d, g, Y)
<1>1. \A x, t : Waits(c, h, Z, x, t) => Waits(d, g, Y, x, t)
  BY StillWaits
<1>2. \A r, t : Begun(c, h, r, t) => Begun(d, g, r, t)
  BY StillBegun
<1>3. Serves(s, v, k, c, h, Z) => Serves(s, v, k, d, g, Y)
  BY <1>1, <1>2 DEF Serves
<1>4. QED
  BY <1>3 DEF Fits

\* What a symbol needs does not depend on a mark or a base that is not there.
LEMMA FitsElsewhere ==
  ASSUME NEW s, NEW v, NEW w, NEW k, NEW b, NEW c, NEW h, NEW Z, Fits(s, v, w, k, b, c, h, Z),
         NEW j, v.m >= 1 => j = k, NEW e, v.b >= 1 => e = b
  PROVE  Fits(s, v, w, j, e, c, h, Z)
<1>1. CASE s \in Closes
  <2>1. j = k /\ (s # "Block")
    BY <1>1 DEF Fits, Closes
  <2>2. Afterwards(s, v, k, e) = Afterwards(s, v, k, b)
    BY <2>1 DEF Afterwards, AfterH, AfterA
  <2>3. QED
    BY <2>1, <2>2 DEF Fits
<1>2. CASE s = "Block"
  <2>1. e = b /\ s \notin Closes
    BY <1>2 DEF Fits, Closes
  <2>2. Afterwards(s, v, j, b) = Afterwards(s, v, k, b)
    BY <1>2 DEF Afterwards, AfterH, AfterA
  <2>3. QED
    BY <2>1, <2>2 DEF Fits
<1>3. CASE s \notin Closes /\ s # "Block"
  <2>1. s \notin Counting
    BY <1>3 DEF Closes, Counting
  <2>2. Afterwards(s, v, j, e) = Afterwards(s, v, k, b)
    BY <1>3, <2>1 DEF Afterwards, AfterH, AfterA
  <2>3. QED
    BY <1>3, <2>2 DEF Fits
<1>4. QED
  BY <1>1, <1>2, <1>3

Agree(E, F, n) == \A i \in 1 .. n : E[i] = F[i]

LEMMA PlanMoves ==
  ASSUME NEW td, NEW v, NEW MK, NEW BS, NEW c \in Seq(ByteType), NEW h, NEW Z, Plan(td, v, MK, BS, c, h, Z),
         NEW d \in Seq(ByteType), NEW g, Extended(c, h, d, g), NEW Y, Z \subseteq Y,
         NEW MK2, Agree(MK2, MK, v.m), NEW BS2, Agree(BS2, BS, v.b)
  PROVE  Plan(td, v, MK2, BS2, d, g, Y)
<1>1. PICK n \in Nat : n = Len(td)
  BY LenProperties DEF Plan
<1>2. td \in Seq(Pendable) /\ n >= 1 /\ td[n] = "end"
  BY <1>1 DEF Plan
<1>3. PICK P \in [Nat -> View] : P[n] = v /\ Views(td, P, MK, BS, c, h, Z)
  BY <1>1 DEF Plan
<1>4. \A j \in 1 .. n : Fits(td[n + 1 - j], P[j], P[j - 1], MK[P[j].m], BS[P[j].b], c, h, Z)
  BY <1>1, <1>3 DEF Views
<1>5. \A i, j \in 1 .. n : i <= j => P[i].m <= P[j].m /\ P[i].b <= P[j].b
  BY <1>1, <1>3 DEF Views
<1>6. ASSUME NEW j \in 1 .. n PROVE Fits(td[n + 1 - j], P[j], P[j - 1], MK2[P[j].m], BS2[P[j].b], d, g, Y)
  <2>1. P[j].m \in Nat /\ P[j].b \in Nat /\ v.m \in Nat /\ v.b \in Nat
    <3>1. P[j] \in View /\ P[n] \in View
      OBVIOUS
    <3>2. QED
      BY <1>3, <3>1 DEF View
  <2>2. P[j].m <= v.m /\ P[j].b <= v.b
    <3>1. n \in 1 .. n /\ j <= n
      BY <1>2
    <3>2. QED
      BY <1>3, <1>5, <3>1
  <2>3. (P[j].m >= 1 => MK2[P[j].m] = MK[P[j].m]) /\ (P[j].b >= 1 => BS2[P[j].b] = BS[P[j].b])
    BY <2>1, <2>2 DEF Agree
  <2>4. Fits(td[n + 1 - j], P[j], P[j - 1], MK[P[j].m], BS[P[j].b], c, h, Z)
    BY <1>4
  <2>5. Fits(td[n + 1 - j], P[j], P[j - 1], MK[P[j].m], BS[P[j].b], d, g, Y)
    BY <2>4, FitsStill
  <2>6. QED
    BY <2>3, <2>5, FitsElsewhere
<1>7. Views(td, P, MK2, BS2, d, g, Y)
  BY <1>1, <1>5, <1>6 DEF Views
<1>8. QED
  BY <1>1, <1>2, <1>3, <1>7 DEF Plan

-----------------------------------------------------------------------------
(* The marks and the bases as a function, the outermost first. *)

Stacked(s, F) == \A k \in 1 .. Len(s) : s[Len(s) + 1 - k] = F[k]

LEMMA TailIs ==
  ASSUME NEW T, NEW s \in Seq(T), s # <<>>
  PROVE  /\ Tail(s) \in Seq(T) /\ Len(Tail(s)) = Len(s) - 1 /\ \A i \in 1 .. Len(s) - 1 : Tail(s)[i] = s[i + 1]
         /\ Len(s) \in Nat /\ Len(s) >= 1 /\ Head(s) = s[1] /\ Head(s) \in T
<1>1. Tail(s) \in Seq(T) /\ Len(Tail(s)) = Len(s) - 1 /\ \A i \in 1 .. Len(Tail(s)) : Tail(s)[i] = s[i + 1]
  BY HeadTailProperties
<1>2. Len(s) \in Nat /\ Len(s) >= 1
  BY EmptySeq, LenProperties
<1>3. Head(s) = s[1] /\ Head(s) \in T
  BY HeadTailProperties
<1>4. QED
  BY <1>1, <1>2, <1>3

LEMMA ConsIs ==
  ASSUME NEW T, NEW s \in Seq(T), NEW m \in T
  PROVE  /\ <<m>> \o s \in Seq(T) /\ Len(<<m>> \o s) = Len(s) + 1 /\ (<<m>> \o s)[1] = m
         /\ \A i \in 1 .. Len(s) : (<<m>> \o s)[i + 1] = s[i]
         /\ Len(s) \in Nat
<1>0. PICK u : u = <<m>> \o s
  OBVIOUS
<1>1. <<m>> \in Seq(T) /\ Len(<<m>>) = 1 /\ <<m>>[1] = m /\ Len(s) \in Nat
  BY LenProperties
<1>2. u \in Seq(T) /\ Len(u) = 1 + Len(s)
  BY <1>0, <1>1, ConcatProperties
<1>3. \A i \in 1 .. 1 + Len(s) : u[i] = IF i <= 1 THEN <<m>>[i] ELSE s[i - 1]
  <2>1. \A i \in 1 .. Len(<<m>>) + Len(s) : (<<m>> \o s)[i] = IF i <= Len(<<m>>) THEN <<m>>[i] ELSE s[i - Len(<<m>>)]
    BY <1>1, ConcatProperties
  <2>2. QED
    BY <1>0, <1>1, <2>1
<1>4. u[1] = m
  <2>1. 1 \in 1 .. 1 + Len(s) /\ 1 <= 1
    BY <1>1
  <2>2. QED
    BY <1>1, <1>3, <2>1
<1>5. ASSUME NEW i \in 1 .. Len(s) PROVE u[i + 1] = s[i]
  <2>1. i + 1 \in 1 .. 1 + Len(s) /\ ~(i + 1 <= 1) /\ (i + 1) - 1 = i
    BY <1>1
  <2>2. u[i + 1] = s[(i + 1) - 1]
    BY <1>3, <2>1
  <2>3. QED
    BY <2>1, <2>2
<1>6. QED
  BY <1>0, <1>1, <1>2, <1>4, <1>5

\* s can be had as a function that has m at n and is F below.
StackedAs(T, s, n, m, F) ==
  /\ s \in Seq(T) /\ Len(s) = n /\ n \in Nat /\ n >= 1
  /\ \E E \in [Nat -> T] : Stacked(s, E) /\ E[n] = m /\ Agree(E, F, n - 1)

LEMMA StackedOver ==
  ASSUME NEW T, NEW s \in Seq(T), NEW F \in [Nat -> T], Stacked(s, F), NEW m \in T
  PROVE  StackedAs(T, <<m>> \o s, Len(s) + 1, m, F)
<1>1. PICK k \in Nat : k = Len(s)
  BY LenProperties
<1>2. PICK E : E = [F EXCEPT ![k + 1] = m]
  OBVIOUS
<1>3. E \in [Nat -> T] /\ E[k + 1] = m /\ \A i \in 1 .. k : E[i] = F[i]
  BY <1>2
<1>4. PICK u : u = <<m>> \o s
  OBVIOUS
<1>5. u \in Seq(T) /\ Len(u) = k + 1 /\ u[1] = m /\ \A i \in 1 .. k : u[i + 1] = s[i]
  BY <1>1, <1>4, ConsIs
<1>6. ASSUME NEW i \in 1 .. k + 1 PROVE u[(k + 1) + 1 - i] = E[i]
  <2>1. CASE i = k + 1
    BY <1>3, <1>5, <2>1
  <2>2. CASE i # k + 1
    <3>1. PICK j : j = k + 1 - i
      OBVIOUS
    <3>2. j \in 1 .. k /\ (k + 1) + 1 - i = j + 1 /\ i \in 1 .. k
      BY <2>2, <3>1
    <3>3. u[j + 1] = s[j]
      BY <1>5, <3>2
    <3>4. s[k + 1 - i] = F[i]
      BY <1>1, <3>2 DEF Stacked
    <3>5. QED
      BY <1>3, <3>1, <3>2, <3>3, <3>4
  <2>3. QED
    BY <2>1, <2>2
<1>7. Stacked(u, E)
  BY <1>5, <1>6 DEF Stacked
<1>8. (k + 1) - 1 = k /\ k + 1 \in Nat /\ k + 1 >= 1 /\ Agree(E, F, k)
  BY <1>3 DEF Agree
<1>9. StackedAs(T, u, k + 1, m, F)
  BY <1>3, <1>5, <1>7, <1>8 DEF StackedAs
<1>10. QED
  BY <1>1, <1>4, <1>9

LEMMA StackedBelow ==
  ASSUME NEW T, NEW s \in Seq(T), s # <<>>, NEW F, Stacked(s, F)
  PROVE  Stacked(Tail(s), F) /\ Head(s) = F[Len(s)]
<1>1. PICK k \in Nat : k = Len(s)
  BY LenProperties
<1>2. PICK u : u = Tail(s)
  OBVIOUS
<1>3. Len(u) = k - 1 /\ k >= 1 /\ Head(s) = s[1] /\ \A i \in 1 .. k - 1 : u[i] = s[i + 1]
  BY <1>1, <1>2, TailIs
<1>4. ASSUME NEW i \in 1 .. k - 1 PROVE u[(k - 1) + 1 - i] = F[i]
  <2>1. PICK j : j = k - i
    OBVIOUS
  <2>2. j \in 1 .. k - 1 /\ (k - 1) + 1 - i = j /\ j + 1 = k + 1 - i /\ i \in 1 .. k
    BY <2>1
  <2>3. u[j] = s[j + 1]
    BY <1>3, <2>2
  <2>4. s[k + 1 - i] = F[i]
    BY <1>1, <2>2 DEF Stacked
  <2>5. QED
    BY <2>2, <2>3, <2>4
<1>5. Stacked(u, F)
  BY <1>3, <1>4 DEF Stacked
<1>6. s[k + 1 - k] = F[k]
  <2>1. k \in 1 .. k
    BY <1>3
  <2>2. QED
    BY <1>1, <2>1 DEF Stacked
<1>7. QED
  BY <1>1, <1>2, <1>3, <1>5, <1>6

LEMMA StackedAgain ==
  ASSUME NEW T, NEW s \in Seq(T), s # <<>>, NEW F \in [Nat -> T], Stacked(s, F), NEW m \in T
  PROVE  StackedAs(T, <<m>> \o Tail(s), Len(s), m, F)
<1>1. Stacked(Tail(s), F) /\ Tail(s) \in Seq(T) /\ Len(Tail(s)) = Len(s) - 1 /\ Len(s) \in Nat
  BY StackedBelow, TailIs
<1>2. PICK u : u = Tail(s)
  OBVIOUS
<1>3. u \in Seq(T) /\ Stacked(u, F)
  BY <1>1, <1>2
<1>4. StackedAs(T, <<m>> \o u, Len(u) + 1, m, F)
  BY <1>3, StackedOver
<1>5. Len(u) + 1 = Len(s)
  BY <1>1, <1>2
<1>6. QED
  BY <1>2, <1>4, <1>5

\* The operands of jumps that the marks still keep.
HolesOf(m) == m.ends \cup ({m.exit} \ {0})
Open(MK, n) == UNION {HolesOf(MK[k]) : k \in 1 .. n}

LEMMA OpenOver ==
  ASSUME NEW n \in Nat, NEW MK, NEW MK2, Agree(MK2, MK, n)
  PROVE  Open(MK2, n + 1) = Open(MK, n) \cup HolesOf(MK2[n + 1])
BY DEF Open, Agree

-----------------------------------------------------------------------------
(* Steps of the emission, each from code that has already grown. *)

LEMMA GrownNone ==
  ASSUME NEW c \in Seq(ByteType), NEW h \in Heights, NEW H, NEW Z, Flows(c, h, H, Z, Len(c))
  PROVE  Grown(c, h, c, h, H, Z, Len(c), h[Len(c)])
BY ExtendedSame DEF Grown

\* e is d with k bytes behind it, which is c and more.
Furthered(e, k, c, h, d, g, H, Z, y) ==
  /\ \E f : Grown(c, h, e, f, H, Z, Len(e), y) /\ Extended(d, g, e, f)
  /\ Len(e) = Len(d) + k /\ e \in Seq(ByteType)

LEMMA FurtherMade ==
  ASSUME NEW c \in Seq(ByteType), NEW h \in Heights, NEW d, NEW g, NEW H, NEW Z, NEW x,
         Grown(c, h, d, g, H, Z, Len(d), x), NEW op, NEW t, NEW G, NEW y, NEW e,
         IsMore(e, d, g, op, t, G, Z, Len(d) + Size(op), y)
  PROVE  Furthered(e, Size(op), c, h, d, g, G, Z, y)
<1>1. d \in Seq(ByteType) /\ Extended(c, h, d, g)
  BY DEF Grown
<1>2. e \in Seq(ByteType) /\ Len(e) = Len(d) + Size(op)
  BY DEF IsMore
<1>3. PICK f : Grown(d, g, e, f, G, Z, Len(d) + Size(op), y)
  BY DEF IsMore
<1>4. Grown(d, g, e, f, G, Z, Len(e), y)
  BY <1>2, <1>3
<1>5. f \in Heights /\ Flows(e, f, G, Z, Len(e)) /\ Extended(d, g, e, f) /\ f[Len(e)] = y
  BY <1>4 DEF Grown
<1>6. Extended(c, h, e, f)
  BY <1>1, <1>2, <1>5, ExtendedFurther
<1>7. Grown(c, h, e, f, G, Z, Len(e), y)
  BY <1>2, <1>5, <1>6 DEF Grown
<1>8. QED
  BY <1>2, <1>5, <1>7 DEF Furthered

LEMMA Further ==
  ASSUME NEW c \in Seq(ByteType), NEW h \in Heights, NEW d, NEW g, NEW H, NEW Z, NEW x \in Int,
         Grown(c, h, d, g, H, Z, Len(d), x),
         NEW op \in Op, NEW n \in Int, NEW t \in Nat, NEW l \in Nat, op \notin Jumps,
         Takes(op) > 0 => x - Takes(op) >= l,
         Worded(op, n)
  PROVE  Furthered(d \o Instr(op, n, t, l), Size(op), c, h, d, g, H, Z, x + Change(op))
<1>1. d \in Seq(ByteType) /\ g \in Heights /\ Flows(d, g, H, Z, Len(d)) /\ g[Len(d)] = x
  BY DEF Grown
<1>2. PICK y, L : y = x + Change(op) /\ L = Len(d) + Size(op)
  OBVIOUS
<1>3. Change(op) \in Int /\ Size(op) \in 1 .. 3 /\ Len(d) \in Nat
  BY <1>1, OpFacts, LenProperties
<1>4. y \in Int /\ L \in Nat /\ Len(d) <= L /\ L <= Len(d) + Size(op) /\ H \subseteq H
  BY <1>2, <1>3
<1>5. Takes(op) > 0 => g[Len(d)] - Takes(op) >= l
  BY <1>1
<1>6. Falls(op) => L = Len(d) + Size(op) /\ y = g[Len(d)] + Change(op)
  BY <1>1, <1>2
<1>7. op \in Jumps /\ Len(d) + 1 \notin H => Begun(d, g, Len(d) + 3 + n, g[Len(d)] + Change(op))
  OBVIOUS
<1>8. IsMore(d \o Instr(op, n, t, l), d, g, op, t, H, Z, L, y)
  BY <1>1, <1>4, <1>5, <1>6, <1>7, OneMore
<1>9. QED
  BY <1>2, <1>8, FurtherMade

\* A jump forward, to be patched later.
LEMMA FurtherHole ==
  ASSUME NEW c \in Seq(ByteType), NEW h \in Heights, NEW d, NEW g, NEW H, NEW Z, NEW x \in Int,
         Grown(c, h, d, g, H, Z, Len(d), x),
         NEW op \in Jumps, NEW t \in Nat, NEW l \in Nat,
         op = "JUMPIFFALSE" => x - 1 >= l
  PROVE  Furthered(d \o Instr(op, 0, t, l), 3, c, h, d, g, H \cup {Len(d) + 1}, Z, x + Change(op))
<1>1. d \in Seq(ByteType) /\ g \in Heights /\ Flows(d, g, H, Z, Len(d)) /\ g[Len(d)] = x
  BY DEF Grown
<1>2. PICK y, L, G : y = x + Change(op) /\ L = Len(d) + Size(op) /\ G = H \cup {Len(d) + 1}
  OBVIOUS
<1>3. op \in Op /\ Size(op) = 3 /\ Change(op) \in Int /\ Len(d) \in Nat
  BY <1>1, OpFacts, LenProperties
<1>4. y \in Int /\ L \in Nat /\ Len(d) <= L /\ L <= Len(d) + Size(op) /\ H \subseteq G
  BY <1>2, <1>3
<1>5. op = "JUMP" \/ op = "JUMPIFFALSE"
  BY DEF Jumps
<1>6. Takes(op) > 0 => g[Len(d)] - Takes(op) >= l
  BY <1>1, <1>5 DEF Takes
<1>7. Falls(op) => L = Len(d) + Size(op) /\ y = g[Len(d)] + Change(op)
  BY <1>1, <1>2
<1>8. op \in Jumps /\ Len(d) + 1 \notin G => Begun(d, g, Len(d) + 3 + 0, g[Len(d)] + Change(op))
  BY <1>2
<1>9. Worded(op, 0) /\ 0 \in Int
  BY <1>5 DEF Worded
<1>10. IsMore(d \o Instr(op, 0, t, l), d, g, op, t, G, Z, L, y)
  BY <1>1, <1>3, <1>4, <1>6, <1>7, <1>8, <1>9, OneMore
<1>11. Furthered(d \o Instr(op, 0, t, l), Size(op), c, h, d, g, G, Z, y)
  BY <1>2, <1>10, FurtherMade
<1>12. QED
  BY <1>2, <1>3, <1>11

\* The operand of a jump that has just been emitted waits.
LEMMA HoleWaits ==
  ASSUME NEW d \in Seq(ByteType), NEW g \in Heights, NEW op \in Jumps, NEW t \in Nat, NEW l \in Nat, NEW e, NEW f,
         IsAppended(e, d, Instr(op, 0, t, l)), Extended(d, g, e, f), NEW Z
  PROVE  /\ Waits(e, f, Z, Len(d) + 1, g[Len(d)] + Change(op))
         /\ op = "JUMPIFFALSE" /\ t \in Z => \A z : Waits(e, f, Z, Len(d) + 1, z)
<1>1. op \in Op /\ Size(op) = 3 /\ Len(d) \in Nat
  BY OpFacts, LenProperties
<1>2. IsInstr(Instr(op, 0, t, l), op, 0, t, l)
  BY <1>1, InstrIs
<1>3. PICK s : s = Instr(op, 0, t, l)
  OBVIOUS
<1>4. Len(s) = 3 /\ s[1].op = op /\ s[1].tok = t
  BY <1>1, <1>2, <1>3 DEF IsInstr
<1>5. IsAppended(e, d, s)
  BY <1>3
<1>6. Len(e) = Len(d) + 3 /\ e[Len(d) + 1] = s[1]
  <2>1. Len(e) = Len(d) + 3 /\ \A i \in 1 .. 3 : e[Len(d) + i] = s[i]
    BY <1>4, <1>5 DEF IsAppended
  <2>2. 1 \in 1 .. 3
    OBVIOUS
  <2>3. QED
    BY <2>1, <2>2
<1>7. Len(d) + 1 \in 1 .. Len(e) - 2 /\ (Len(d) + 1) - 1 = Len(d) /\ Len(d) \in 0 .. Len(d)
  BY <1>1, <1>6
<1>8. f[Len(d)] = g[Len(d)]
  BY <1>7 DEF Extended
<1>9. Waits(e, f, Z, Len(d) + 1, g[Len(d)] + Change(op))
  BY <1>4, <1>6, <1>7, <1>8 DEF Waits
<1>10. ASSUME op = "JUMPIFFALSE", t \in Z, NEW z PROVE Waits(e, f, Z, Len(d) + 1, z)
  BY <1>4, <1>6, <1>7, <1>10 DEF Waits, Leaving
<1>11. QED
  BY <1>9, <1>10

\* A jump back.
LEMMA FurtherBack ==
  ASSUME NEW c \in Seq(ByteType), NEW h \in Heights, NEW d, NEW g, NEW H, NEW Z, NEW x \in Int,
         Grown(c, h, d, g, H, Z, Len(d), x),
         NEW op \in Jumps, NEW t \in Nat, NEW l \in Nat,
         op = "JUMPIFFALSE" => x - 1 >= l,
         NEW r \in Nat, Begun(c, h, r, x + Change(op))
  PROVE  Furthered(d \o Instr(op, Offset(Len(d) + 1, r), t, l), 3, c, h, d, g, H, Z, x + Change(op))
<1>1. d \in Seq(ByteType) /\ g \in Heights /\ Flows(d, g, H, Z, Len(d)) /\ Extended(c, h, d, g) /\ g[Len(d)] = x
  BY DEF Grown
<1>2. PICK y, L, n : y = x + Change(op) /\ L = Len(d) + Size(op) /\ n = Offset(Len(d) + 1, r)
  OBVIOUS
<1>3. op \in Op /\ Size(op) = 3 /\ Change(op) \in Int /\ Len(d) \in Nat
  BY <1>1, OpFacts, LenProperties
<1>4. y \in Int /\ L \in Nat /\ Len(d) <= L /\ L <= Len(d) + Size(op) /\ H \subseteq H
  BY <1>2, <1>3
<1>5. op = "JUMP" \/ op = "JUMPIFFALSE"
  BY DEF Jumps
<1>6. Takes(op) > 0 => g[Len(d)] - Takes(op) >= l
  BY <1>1, <1>5 DEF Takes
<1>7. Falls(op) => L = Len(d) + Size(op) /\ y = g[Len(d)] + Change(op)
  BY <1>1, <1>2
<1>8. n \in Int /\ Len(d) + 3 + n = r
  BY <1>2, <1>3 DEF Offset
<1>9. op \in Jumps /\ Len(d) + 1 \notin H => Begun(d, g, Len(d) + 3 + n, g[Len(d)] + Change(op))
  <2>1. Begun(d, g, r, x + Change(op))
    BY <1>1, StillBegun
  <2>2. QED
    BY <1>1, <1>8, <2>1
<1>10. Worded(op, n)
  BY <1>5 DEF Worded
<1>11. IsMore(d \o Instr(op, n, t, l), d, g, op, t, H, Z, L, y)
  BY <1>1, <1>3, <1>4, <1>6, <1>7, <1>8, <1>9, <1>10, OneMore
<1>12. Furthered(d \o Instr(op, n, t, l), Size(op), c, h, d, g, H, Z, y)
  BY <1>2, <1>11, FurtherMade
<1>13. QED
  BY <1>2, <1>3, <1>12

\* The jumps at ps lead to the end of the code.
LEMMA FurtherPatched ==
  ASSUME NEW c \in Seq(ByteType), NEW h \in Heights, NEW d, NEW g, NEW H, NEW Z, NEW x \in Int,
         Grown(c, h, d, g, H, Z, Len(d), x), NEW ps, \A p \in ps : Waits(d, g, Z, p, x)
  PROVE  Furthered(PatchedAll(d, ps), 0, c, h, d, g, H \ ps, Z, x)
<1>1. d \in Seq(ByteType) /\ g \in Heights /\ Flows(d, g, H, Z, Len(d)) /\ Extended(c, h, d, g) /\ g[Len(d)] = x
  BY DEF Grown
<1>2. PICK e : e = PatchedAll(d, ps)
  OBVIOUS
<1>3. Grown(d, g, e, g, H \ ps, Z, Len(d), x)
  <2>1. Grown(d, g, PatchedAll(d, ps), g, H \ ps, Z, Len(d), g[Len(d)])
    BY <1>1, Patching
  <2>2. QED
    BY <1>1, <1>2, <2>1
<1>4. e \in Seq(ByteType) /\ Flows(e, g, H \ ps, Z, Len(d)) /\ Extended(d, g, e, g)
  BY <1>3 DEF Grown
<1>5. Len(e) = Len(d) /\ Len(d) \in Nat
  BY <1>1, <1>2, PatchedIs, LenProperties
<1>6. Extended(c, h, e, g)
  BY <1>1, <1>4, ExtendedFurther
<1>7. Grown(c, h, e, g, H \ ps, Z, Len(e), x)
  <2>1. g[Len(e)] = x /\ Flows(e, g, H \ ps, Z, Len(e))
    BY <1>1, <1>4, <1>5
  <2>2. QED
    BY <1>1, <1>4, <1>6, <2>1 DEF Grown
<1>8. Len(e) = Len(d) + 0
  BY <1>5
<1>9. Furthered(e, 0, c, h, d, g, H \ ps, Z, x)
  BY <1>4, <1>7, <1>8 DEF Furthered
<1>10. QED
  BY <1>2, <1>9

LEMMA FurtherPatch ==
  ASSUME NEW c \in Seq(ByteType), NEW h \in Heights, NEW d, NEW g, NEW H, NEW Z, NEW x \in Int,
         Grown(c, h, d, g, H, Z, Len(d), x), NEW p, Waits(d, g, Z, p, x)
  PROVE  Furthered(Patched(d, p, Len(d)), 0, c, h, d, g, H \ {p}, Z, x)
<1>1. d \in Seq(ByteType) /\ Len(d) \in Nat
  BY LenProperties DEF Grown
<1>2. p \in 1 .. Len(d) - 1
  BY <1>1 DEF Waits
<1>3. Patched(d, p, Len(d)) = PatchedAll(d, {p})
  BY <1>1, <1>2, PatchedOne
<1>4. \A q \in {p} : Waits(d, g, Z, q, x)
  OBVIOUS
<1>5. Furthered(PatchedAll(d, {p}), 0, c, h, d, g, H \ {p}, Z, x)
  BY <1>4, FurtherPatched
<1>6. QED
  BY <1>3, <1>5

\* Values dropped or added.
Row(op, n, t, l) == [i \in 1 .. n |-> Byte(op, 0, t, l)]
RowChange(op, n) == IF n <= 0 THEN 0 ELSE IF op = "POP" THEN -n ELSE n

LEMMA FurtherMany ==
  ASSUME NEW c \in Seq(ByteType), NEW h \in Heights, NEW d, NEW g, NEW H, NEW Z, NEW x \in Int,
         Grown(c, h, d, g, H, Z, Len(d), x),
         NEW op \in {"POP", "LOADNIL"}, NEW t \in Nat, NEW l \in Nat, NEW n \in Int,
         op = "POP" /\ n > 0 => x - n >= l
  PROVE  Furthered(d \o Row(op, n, t, l), IF n <= 0 THEN 0 ELSE n, c, h, d, g, H, Z, x + RowChange(op, n))
<1>1. d \in Seq(ByteType) /\ g \in Heights /\ Flows(d, g, H, Z, Len(d)) /\ Extended(c, h, d, g) /\ g[Len(d)] = x
  BY DEF Grown
<1>2. PICK k \in Nat : k = IF n <= 0 THEN 0 ELSE n
  OBVIOUS
<1>3. PICK s : s = Row(op, n, t, l)
  OBVIOUS
<1>4. 1 .. n = 1 .. k
  BY <1>2
<1>5. s \in Seq(ByteType) /\ Len(s) = k /\ \A i \in 1 .. k : s[i] = Byte(op, 0, t, l)
  <2>1. Byte(op, 0, t, l) \in ByteType
    BY DEF Byte, ByteType, Op
  <2>2. s = [i \in 1 .. k |-> Byte(op, 0, t, l)]
    BY <1>3, <1>4 DEF Row
  <2>3. s \in [1 .. k -> ByteType]
    BY <2>1, <2>2
  <2>4. s \in Seq(ByteType)
    BY <2>3, SeqDef
  <2>5. Len(s) = k
    BY <2>3, <2>4, LenProperties
  <2>6. QED
    BY <2>2, <2>4, <2>5
<1>6. PICK y \in Int : y = IF op = "POP" THEN x - k ELSE x + k
  <2>1. CASE op = "POP"
    BY <2>1
  <2>2. CASE op # "POP"
    BY <2>2
  <2>3. QED
    BY <2>1, <2>2
<1>7. y = x + RowChange(op, n)
  BY <1>2, <1>6 DEF RowChange
<1>8. PICK e : e = d \o s
  OBVIOUS
<1>9. e \in Seq(ByteType) /\ Len(e) = Len(d) + k
  <2>1. d \o s \in Seq(ByteType) /\ Len(d \o s) = Len(d) + Len(s)
    BY <1>1, <1>5, ConcatProperties
  <2>2. QED
    BY <1>5, <1>8, <2>1
<1>10. \E f : Grown(c, h, e, f, H, Z, Len(e), y) /\ Extended(d, g, e, f)
  <2>1. CASE k = 0
    <3>1. s = <<>>
      BY <1>5, <2>1, EmptySeq
    <3>2. e = d
      BY <1>1, <1>8, <3>1, ConcatEmptySeq
    <3>3. y = x
      BY <1>6, <2>1
    <3>4. Extended(d, g, d, g)
      BY <1>1, ExtendedSame
    <3>5. QED
      BY <3>2, <3>3, <3>4
  <2>2. CASE k > 0
    <3>1. op = "POP" => y >= l
      BY <1>2, <1>6, <2>2
    <3>2. y = IF op = "POP" THEN g[Len(d)] - k ELSE g[Len(d)] + k
      BY <1>1, <1>6
    <3>3. IsLonger(d \o s, d, g, H, Z, y)
      BY <1>1, <1>5, <3>1, <3>2, Repeated
    <3>4. PICK f : Grown(d, g, e, f, H, Z, Len(e), y)
      BY <1>8, <3>3 DEF IsLonger
    <3>5. f \in Heights /\ Flows(e, f, H, Z, Len(e)) /\ Extended(d, g, e, f) /\ f[Len(e)] = y
      BY <3>4 DEF Grown
    <3>6. Extended(c, h, e, f)
      BY <1>1, <1>9, <3>5, ExtendedFurther
    <3>7. Grown(c, h, e, f, H, Z, Len(e), y)
      BY <1>9, <3>5, <3>6 DEF Grown
    <3>8. QED
      BY <3>5, <3>7
  <2>3. QED
    BY <2>1, <2>2
<1>11. Furthered(e, k, c, h, d, g, H, Z, y)
  BY <1>9, <1>10 DEF Furthered
<1>12. QED
  BY <1>2, <1>3, <1>7, <1>8, <1>11

LEMMA GrownMore ==
  ASSUME NEW c, NEW h, NEW d, NEW g, NEW H, NEW Z, NEW x, Grown(c, h, d, g, H, Z, Len(d), x),
         NEW G, H \subseteq G
  PROVE  Grown(c, h, d, g, G, Z, Len(d), x)
<1>1. d \in Seq(ByteType) /\ Flows(d, g, H, Z, Len(d))
  BY DEF Grown
<1>2. Len(d) \in Nat /\ Len(d) <= Len(d) /\ Z \subseteq Z
  BY <1>1, LenProperties
<1>3. Flows(d, g, G, Z, Len(d))
  BY <1>1, <1>2, FlowsMore
<1>4. QED
  BY <1>3 DEF Grown

-----------------------------------------------------------------------------
(* Symbols that use no mark and no base. *)

Easy == Pendable \ (Closes \cup {"Block", "end"})

EasyStep(s, y, a, z, e) ==
  /\ s \in Easy /\ y \in Int /\ a \in Nat /\ z \in Int /\ e \in Nat
  /\ y >= a + Temps(s)
  /\ \A m, b : Afterwards(s, At4(y, a, m, b), 0, 0) = At4(z, e, m, b)

\* From height y and a locals the symbols r lead to z and e.
Leads(r, y, a, z, e) ==
  /\ y \in Int /\ a \in Nat /\ z \in Int /\ e \in Nat
  /\ \A td, MK, BS, c, h, Z : \A m, b \in Nat :
       Plan(td, At4(z, e, m, b), MK, BS, c, h, Z) => Plan(r \o td, At4(y, a, m, b), MK, BS, c, h, Z)

LEMMA EasyAfter ==
  ASSUME NEW s \in Easy, NEW v, NEW k, NEW b
  PROVE  Afterwards(s, v, k, b) = Afterwards(s, v, 0, 0)
<1>1. s \notin Counting /\ s # "Block"
  BY DEF Easy, Closes, Counting
<1>2. QED
  BY <1>1 DEF Afterwards, AfterH, AfterA

LEMMA EasyFits ==
  ASSUME NEW s, NEW y, NEW a, NEW z, NEW e, EasyStep(s, y, a, z, e), NEW m \in Nat, NEW b \in Nat,
         NEW k, NEW base, NEW c, NEW h, NEW Z
  PROVE  Fits(s, At4(y, a, m, b), At4(z, e, m, b), k, base, c, h, Z)
<1>1. s \in Easy /\ y \in Int /\ a \in Nat /\ z \in Int /\ e \in Nat /\ y >= a + Temps(s)
  BY DEF EasyStep
<1>2. PICK v, w : v = At4(y, a, m, b) /\ w = At4(z, e, m, b)
  OBVIOUS
<1>3. v \in View /\ v.h = y /\ v.a = a
  BY <1>1, <1>2, ViewIs
<1>4. w = Afterwards(s, v, k, base)
  BY <1>1, <1>2, EasyAfter DEF EasyStep
<1>5. s \notin Closes /\ s # "Block" /\ s # "end" /\ s \notin {"Block", "Clauses", "end"} /\ s \notin {"then", "do", "test", "item"}
  BY <1>1 DEF Easy, Closes
<1>6. Fits(s, v, w, k, base, c, h, Z)
  BY <1>1, <1>3, <1>4, <1>5 DEF Fits
<1>7. QED
  BY <1>2, <1>6

LEMMA LeadsOne ==
  ASSUME NEW s, NEW y, NEW a, NEW z, NEW e, EasyStep(s, y, a, z, e)
  PROVE  Leads(<<s>>, y, a, z, e)
<1>1. s \in Easy /\ y \in Int /\ a \in Nat /\ z \in Int /\ e \in Nat
  BY DEF EasyStep
<1>2. ASSUME NEW td, NEW MK, NEW BS, NEW c, NEW h, NEW Z, NEW m \in Nat, NEW b \in Nat,
             Plan(td, At4(z, e, m, b), MK, BS, c, h, Z)
      PROVE  Plan(<<s>> \o td, At4(y, a, m, b), MK, BS, c, h, Z)
  <2>1. PICK v, w : v = At4(y, a, m, b) /\ w = At4(z, e, m, b)
    OBVIOUS
  <2>2. v \in View /\ v.m = m /\ v.b = b /\ w.m = m /\ w.b = b
    BY <1>1, <2>1, ViewIs
  <2>3. Fits(s, v, w, MK[v.m], BS[v.b], c, h, Z)
    BY <2>1, EasyFits
  <2>4. Plan(td, w, MK, BS, c, h, Z) /\ s \in Pendable
    BY <1>1, <1>2, <2>1 DEF Easy
  <2>5. w.m <= v.m /\ w.b <= v.b
    BY <2>2
  <2>6. Plan(<<s>> \o td, v, MK, BS, c, h, Z)
    BY <2>2, <2>3, <2>4, <2>5, PlanPush
  <2>7. QED
    BY <2>1, <2>6
<1>3. QED
  BY <1>1, <1>2 DEF Leads

LEMMA LeadsNone ==
  ASSUME NEW y \in Int, NEW a \in Nat
  PROVE  Leads(<<>>, y, a, y, a)
<1>1. ASSUME NEW td, NEW MK, NEW BS, NEW c, NEW h, NEW Z, NEW m \in Nat, NEW b \in Nat,
             Plan(td, At4(y, a, m, b), MK, BS, c, h, Z)
      PROVE  Plan(<<>> \o td, At4(y, a, m, b), MK, BS, c, h, Z)
  <2>1. <<>> \o td = td
    BY <1>1, ConcatEmptySeq DEF Plan
  <2>2. QED
    BY <1>1, <2>1
<1>2. QED
  BY <1>1 DEF Leads

LEMMA LeadsFurther ==
  ASSUME NEW r \in Seq(Pendable), NEW q \in Seq(Pendable), NEW x, NEW i, NEW y, NEW a, NEW z, NEW e,
         Leads(r, x, i, y, a), Leads(q, y, a, z, e)
  PROVE  Leads(r \o q, x, i, z, e)
<1>1. x \in Int /\ i \in Nat /\ y \in Int /\ a \in Nat /\ z \in Int /\ e \in Nat
  BY DEF Leads
<1>2. ASSUME NEW td, NEW MK, NEW BS, NEW c, NEW h, NEW Z, NEW m \in Nat, NEW b \in Nat,
             Plan(td, At4(z, e, m, b), MK, BS, c, h, Z)
      PROVE  Plan((r \o q) \o td, At4(x, i, m, b), MK, BS, c, h, Z)
  <2>1. Plan(q \o td, At4(y, a, m, b), MK, BS, c, h, Z)
    BY <1>2 DEF Leads
  <2>2. Plan(r \o (q \o td), At4(x, i, m, b), MK, BS, c, h, Z)
    BY <2>1 DEF Leads
  <2>3. td \in Seq(Pendable)
    BY <1>2 DEF Plan
  <2>4. (r \o q) \o td = r \o (q \o td)
    BY <2>3, ConcatAssociative
  <2>5. QED
    BY <2>2, <2>4
<1>3. QED
  BY <1>1, <1>2 DEF Leads

LEMMA Pairs ==
  ASSUME NEW a, NEW b
  PROVE  <<a, b>> = <<a>> \o <<b>>
<1>1. PICK Els : Els = {a, b}
  OBVIOUS
<1>2. a \in Els /\ b \in Els
  BY <1>1
<1>3. PICK u, s : u = <<a>> \o <<b>> /\ s = <<b>>
  OBVIOUS
<1>4. s \in Seq(Els) /\ Len(s) = 1 /\ s[1] = b
  BY <1>2, <1>3
<1>5. u \in Seq(Els) /\ Len(u) = 2 /\ u[1] = a /\ u[2] = b
  <2>1. /\ <<a>> \o s \in Seq(Els) /\ Len(<<a>> \o s) = Len(s) + 1 /\ (<<a>> \o s)[1] = a
        /\ \A i \in 1 .. Len(s) : (<<a>> \o s)[i + 1] = s[i]
    BY <1>2, <1>4, ConsIs
  <2>2. u \in Seq(Els) /\ Len(u) = 2 /\ u[1] = a /\ \A i \in 1 .. 1 : u[i + 1] = s[i]
    BY <1>3, <1>4, <2>1
  <2>3. u[1 + 1] = s[1]
    BY <2>2
  <2>4. QED
    BY <1>4, <2>2, <2>3
<1>6. <<a, b>> \in Seq(Els) /\ Len(<<a, b>>) = 2 /\ <<a, b>>[1] = a /\ <<a, b>>[2] = b
  BY <1>2
<1>7. PICK v : v = <<a, b>>
  OBVIOUS
<1>8. v \in Seq(Els) /\ Len(v) = 2 /\ v[1] = a /\ v[2] = b
  BY <1>6, <1>7
<1>9. \A i \in 1 .. Len(v) : v[i] = u[i]
  <2>1. \A i \in 1 .. Len(v) : i = 1 \/ i = 2
    BY <1>8
  <2>2. QED
    BY <1>5, <1>8, <2>1
<1>10. v = u
  BY <1>5, <1>8, <1>9, SeqEqual
<1>11. QED
  BY <1>3, <1>7, <1>10

LEMMA Triples ==
  ASSUME NEW a, NEW b, NEW d
  PROVE  <<a, b, d>> = <<a>> \o <<b, d>>
<1>1. PICK Els : Els = {a, b, d}
  OBVIOUS
<1>2. a \in Els /\ b \in Els /\ d \in Els
  BY <1>1
<1>3. PICK u, s : u = <<a>> \o <<b, d>> /\ s = <<b, d>>
  OBVIOUS
<1>4. s \in Seq(Els) /\ Len(s) = 2 /\ s[1] = b /\ s[2] = d
  BY <1>2, <1>3
<1>5. u \in Seq(Els) /\ Len(u) = 3 /\ u[1] = a /\ u[2] = b /\ u[3] = d
  <2>1. /\ <<a>> \o s \in Seq(Els) /\ Len(<<a>> \o s) = Len(s) + 1 /\ (<<a>> \o s)[1] = a
        /\ \A i \in 1 .. Len(s) : (<<a>> \o s)[i + 1] = s[i]
    <3>1. s \in Seq(Els) /\ a \in Els
      BY <1>2, <1>4
    <3>2. QED
      BY <3>1, ConsIs
  <2>2. u \in Seq(Els) /\ Len(u) = 3 /\ u[1] = a /\ \A i \in 1 .. 2 : u[i + 1] = s[i]
    BY <1>3, <1>4, <2>1
  <2>3. u[1 + 1] = s[1] /\ u[2 + 1] = s[2]
    BY <2>2
  <2>4. QED
    BY <1>4, <2>2, <2>3
<1>6. /\ <<a, b, d>> \in Seq(Els) /\ Len(<<a, b, d>>) = 3
      /\ <<a, b, d>>[1] = a /\ <<a, b, d>>[2] = b /\ <<a, b, d>>[3] = d
  BY <1>2
<1>7. PICK v : v = <<a, b, d>>
  OBVIOUS
<1>8. v \in Seq(Els) /\ Len(v) = 3 /\ v[1] = a /\ v[2] = b /\ v[3] = d
  BY <1>6, <1>7
<1>9. \A i \in 1 .. Len(v) : v[i] = u[i]
  <2>1. \A i \in 1 .. Len(v) : i = 1 \/ i = 2 \/ i = 3
    BY <1>8
  <2>2. QED
    BY <1>5, <1>8, <2>1
<1>10. v = u
  BY <1>5, <1>8, <1>9, SeqEqual
<1>11. QED
  BY <1>3, <1>7, <1>10

-----------------------------------------------------------------------------
(* The state of the compiler: the code so far keeps the stack, and the rest *)
(* can be compiled from here.                                              *)

Draft(td, mk, bs, act, c, ed, h, MK, BS, Z, l) ==
  /\ c \in Seq(ByteType) /\ h \in Heights /\ act \in Nat
  /\ mk \in Seq(MarkType) /\ MK \in [Nat -> MarkType] /\ Stacked(mk, MK)
  /\ bs \in Seq(Nat) /\ BS \in [Nat -> Nat] /\ Stacked(bs, BS)
  /\ Plan(td, At4(h[Len(c)], act, Len(mk), Len(bs)), MK, BS, c, h, Z)
  /\ Flows(c, h, Open(MK, Len(mk)), Z, Len(c))
  /\ Begun(c, h, 0, l)
  /\ \A e \in ed : e \in [at : Nat, locals : Nat] /\ e.at <= Len(c) /\ h[e.at] = e.locals

Drafted(td, mk, bs, act, c, ed, Z, l) ==
  \E h, MK, BS : Draft(td, mk, bs, act, c, ed, h, MK, BS, Z, l)

LEMMA DraftIs ==
  ASSUME NEW td, NEW mk, NEW bs, NEW act, NEW c, NEW ed, NEW h, NEW MK, NEW BS, NEW Z, NEW l,
         Draft(td, mk, bs, act, c, ed, h, MK, BS, Z, l)
  PROVE  /\ c \in Seq(ByteType) /\ h \in Heights /\ act \in Nat
         /\ mk \in Seq(MarkType) /\ MK \in [Nat -> MarkType] /\ Stacked(mk, MK)
         /\ bs \in Seq(Nat) /\ BS \in [Nat -> Nat] /\ Stacked(bs, BS)
         /\ Len(c) \in Nat /\ Len(mk) \in Nat /\ Len(bs) \in Nat /\ h[Len(c)] \in Int
         /\ Grown(c, h, c, h, Open(MK, Len(mk)), Z, Len(c), h[Len(c)])
         /\ td \in Seq(Pendable) /\ td # <<>>
<1>1. /\ c \in Seq(ByteType) /\ h \in Heights /\ act \in Nat
      /\ mk \in Seq(MarkType) /\ MK \in [Nat -> MarkType] /\ Stacked(mk, MK)
      /\ bs \in Seq(Nat) /\ BS \in [Nat -> Nat] /\ Stacked(bs, BS)
      /\ Flows(c, h, Open(MK, Len(mk)), Z, Len(c))
      /\ td \in Seq(Pendable) /\ Len(td) >= 1
  BY DEF Draft, Plan
<1>2. Len(c) \in Nat /\ Len(mk) \in Nat /\ Len(bs) \in Nat
  BY <1>1, LenProperties
<1>3. h[Len(c)] \in Int
  BY <1>1, <1>2 DEF Heights
<1>4. Grown(c, h, c, h, Open(MK, Len(mk)), Z, Len(c), h[Len(c)])
  BY <1>1, GrownNone
<1>5. td # <<>>
  BY <1>1
<1>6. QED
  BY <1>1, <1>2, <1>3, <1>4, <1>5

LEMMA DraftHead ==
  ASSUME NEW td, NEW mk, NEW bs, NEW act, NEW c, NEW ed, NEW h, NEW MK, NEW BS, NEW Z, NEW l,
         Draft(td, mk, bs, act, c, ed, h, MK, BS, Z, l), Head(td) # "end"
  PROVE  \E w \in View : /\ Fits(Head(td), At4(h[Len(c)], act, Len(mk), Len(bs)), w, MK[Len(mk)], BS[Len(bs)], c, h, Z)
                         /\ Plan(Tail(td), w, MK, BS, c, h, Z)
                         /\ w.m <= Len(mk) /\ w.b <= Len(bs)
<1>1. PICK v : v = At4(h[Len(c)], act, Len(mk), Len(bs))
  OBVIOUS
<1>2. v.m = Len(mk) /\ v.b = Len(bs)
  BY <1>1 DEF At4
<1>3. Plan(td, v, MK, BS, c, h, Z)
  BY <1>1 DEF Draft
<1>4. \E w \in View : /\ Fits(Head(td), v, w, MK[v.m], BS[v.b], c, h, Z)
                      /\ Plan(Tail(td), w, MK, BS, c, h, Z)
                      /\ w.m <= v.m /\ w.b <= v.b
  BY <1>3, PlanNext
<1>5. QED
  BY <1>1, <1>2, <1>4

EdgesFrom(ed2, ed, c, h, act) ==
  \A e \in ed2 : e \in ed \/ (e = [at |-> Len(c), locals |-> act] /\ h[Len(c)] = act)

LEMMA Redraft ==
  ASSUME NEW td, NEW mk, NEW bs, NEW act, NEW c, NEW ed, NEW h, NEW MK, NEW BS, NEW Z, NEW l,
         Draft(td, mk, bs, act, c, ed, h, MK, BS, Z, l),
         NEW d, NEW g, NEW G, NEW y, Grown(c, h, d, g, G, Z, Len(d), y),
         NEW mk2 \in Seq(MarkType), NEW MK2 \in [Nat -> MarkType], Stacked(mk2, MK2), G \subseteq Open(MK2, Len(mk2)),
         NEW bs2 \in Seq(Nat), NEW BS2 \in [Nat -> Nat], Stacked(bs2, BS2), NEW act2 \in Nat,
         NEW td2, Plan(td2, At4(y, act2, Len(mk2), Len(bs2)), MK2, BS2, d, g, Z),
         NEW ed2, EdgesFrom(ed2, ed, c, h, act)
  PROVE  Drafted(td2, mk2, bs2, act2, d, ed2, Z, l)
<1>1. c \in Seq(ByteType) /\ Begun(c, h, 0, l) /\ Len(c) \in Nat /\ act \in Nat
  BY LenProperties DEF Draft
<1>2. d \in Seq(ByteType) /\ g \in Heights /\ Flows(d, g, G, Z, Len(d)) /\ Extended(c, h, d, g) /\ g[Len(d)] = y
  BY DEF Grown
<1>3. Len(d) \in Nat /\ Len(c) <= Len(d) /\ \A p \in 0 .. Len(c) : g[p] = h[p]
  BY <1>2, LenProperties DEF Extended
<1>4. Flows(d, g, Open(MK2, Len(mk2)), Z, Len(d))
  <2>1. Z \subseteq Z /\ Len(d) <= Len(d)
    BY <1>3
  <2>2. QED
    BY <1>2, <1>3, <2>1, FlowsMore
<1>5. Begun(d, g, 0, l)
  BY <1>1, <1>2, StillBegun
<1>6. ASSUME NEW e \in ed2 PROVE e \in [at : Nat, locals : Nat] /\ e.at <= Len(d) /\ g[e.at] = e.locals
  <2>1. e \in [at : Nat, locals : Nat] /\ e.at <= Len(c) /\ h[e.at] = e.locals
    <3>1. CASE e \in ed
      BY <3>1 DEF Draft
    <3>2. CASE e = [at |-> Len(c), locals |-> act] /\ h[Len(c)] = act
      BY <1>1, <3>2
    <3>3. QED
      BY <3>1, <3>2 DEF EdgesFrom
  <2>2. PICK i : i = e.at
    OBVIOUS
  <2>3. i \in 0 .. Len(c)
    <3>1. i \in Nat /\ i <= Len(c)
      BY <2>1, <2>2
    <3>2. QED
      BY <1>1, <3>1
  <2>4. g[i] = h[i]
    BY <1>3, <2>3
  <2>5. i <= Len(d)
    BY <1>1, <1>3, <2>3
  <2>6. QED
    BY <2>1, <2>2, <2>4, <2>5
<1>7. Plan(td2, At4(g[Len(d)], act2, Len(mk2), Len(bs2)), MK2, BS2, d, g, Z)
  BY <1>2
<1>8. Draft(td2, mk2, bs2, act2, d, ed2, g, MK2, BS2, Z, l)
  BY <1>2, <1>4, <1>5, <1>6, <1>7 DEF Draft
<1>9. QED
  BY <1>8 DEF Drafted

\* More tokens of for-in loops are known.
LEMMA DraftMore ==
  ASSUME NEW td, NEW mk, NEW bs, NEW act, NEW c, NEW ed, NEW Z, NEW l,
         Drafted(td, mk, bs, act, c, ed, Z, l), NEW Y, Z \subseteq Y
  PROVE  Drafted(td, mk, bs, act, c, ed, Y, l)
<1>1. PICK h, MK, BS : Draft(td, mk, bs, act, c, ed, h, MK, BS, Z, l)
  BY DEF Drafted
<1>2. c \in Seq(ByteType) /\ Len(c) \in Nat /\ Flows(c, h, Open(MK, Len(mk)), Z, Len(c))
      /\ Plan(td, At4(h[Len(c)], act, Len(mk), Len(bs)), MK, BS, c, h, Z)
  BY <1>1, LenProperties DEF Draft
<1>3. Flows(c, h, Open(MK, Len(mk)), Y, Len(c))
  BY <1>2, FlowsMore
<1>4. Plan(td, At4(h[Len(c)], act, Len(mk), Len(bs)), MK, BS, c, h, Y)
  <2>1. Extended(c, h, c, h) /\ (\A n : Agree(MK, MK, n) /\ Agree(BS, BS, n))
    BY <1>2, ExtendedSame DEF Agree
  <2>2. QED
    BY <1>2, <2>1, PlanMoves
<1>5. Draft(td, mk, bs, act, c, ed, h, MK, BS, Y, l)
  BY <1>1, <1>3, <1>4 DEF Draft
<1>6. QED
  BY <1>5 DEF Drafted

-----------------------------------------------------------------------------
(* Lists, split and joined. *)

LEMMA HeadTailIs ==
  ASSUME NEW T, NEW s \in Seq(T), s # <<>>
  PROVE  s = <<Head(s)>> \o Tail(s)
<1>1. PICK u, t : t = Tail(s) /\ u = <<Head(s)>> \o t
  OBVIOUS
<1>2. /\ t \in Seq(T) /\ Len(t) = Len(s) - 1 /\ \A i \in 1 .. Len(s) - 1 : t[i] = s[i + 1]
  BY <1>1, TailIs
<1>3. Len(s) \in Nat /\ Len(s) >= 1 /\ Head(s) = s[1] /\ Head(s) \in T
  BY TailIs
<1>4. u \in Seq(T) /\ Len(u) = Len(t) + 1 /\ u[1] = Head(s) /\ \A i \in 1 .. Len(t) : u[i + 1] = t[i]
  BY <1>1, <1>2, <1>3, ConsIs
<1>5. PICK n \in Nat : n = Len(s)
  BY <1>3
<1>6. Len(u) = n /\ Len(t) = n - 1
  BY <1>2, <1>4, <1>5
<1>7. ASSUME NEW i \in 1 .. Len(s) PROVE s[i] = u[i]
  <2>1. CASE i = 1
    BY <1>3, <1>4, <2>1
  <2>2. CASE i # 1
    <3>1. PICK j : j = i - 1
      OBVIOUS
    <3>2. j \in 1 .. n - 1 /\ i = j + 1
      BY <1>5, <2>2, <3>1
    <3>3. u[j + 1] = t[j] /\ t[j] = s[j + 1]
      BY <1>2, <1>4, <1>5, <1>6, <3>2
    <3>4. QED
      BY <3>2, <3>3
  <2>3. QED
    BY <2>1, <2>2
<1>8. Len(s) = Len(u)
  BY <1>5, <1>6
<1>9. s = u
  BY <1>4, <1>7, <1>8, SeqEqual
<1>10. QED
  BY <1>1, <1>9

LEMMA Quadruples ==
  ASSUME NEW a, NEW b, NEW d, NEW e
  PROVE  <<a, b, d, e>> = <<a>> \o <<b, d, e>>
<1>1. PICK Els : Els = {a, b, d, e}
  OBVIOUS
<1>2. a \in Els /\ b \in Els /\ d \in Els /\ e \in Els
  BY <1>1
<1>3. PICK u, s : u = <<a>> \o <<b, d, e>> /\ s = <<b, d, e>>
  OBVIOUS
<1>4. s \in Seq(Els) /\ Len(s) = 3 /\ s[1] = b /\ s[2] = d /\ s[3] = e
  BY <1>2, <1>3
<1>5. u \in Seq(Els) /\ Len(u) = 4 /\ u[1] = a /\ u[2] = b /\ u[3] = d /\ u[4] = e
  <2>1. /\ <<a>> \o s \in Seq(Els) /\ Len(<<a>> \o s) = Len(s) + 1 /\ (<<a>> \o s)[1] = a
        /\ \A i \in 1 .. Len(s) : (<<a>> \o s)[i + 1] = s[i]
    <3>1. s \in Seq(Els) /\ a \in Els
      BY <1>2, <1>4
    <3>2. QED
      BY <3>1, ConsIs
  <2>2. u \in Seq(Els) /\ Len(u) = 4 /\ u[1] = a /\ \A i \in 1 .. 3 : u[i + 1] = s[i]
    BY <1>3, <1>4, <2>1
  <2>3. u[1 + 1] = s[1] /\ u[2 + 1] = s[2] /\ u[3 + 1] = s[3]
    BY <2>2
  <2>4. QED
    BY <1>4, <2>2, <2>3
<1>6. /\ <<a, b, d, e>> \in Seq(Els) /\ Len(<<a, b, d, e>>) = 4
      /\ <<a, b, d, e>>[1] = a /\ <<a, b, d, e>>[2] = b /\ <<a, b, d, e>>[3] = d /\ <<a, b, d, e>>[4] = e
  BY <1>2
<1>7. PICK v : v = <<a, b, d, e>>
  OBVIOUS
<1>8. v \in Seq(Els) /\ Len(v) = 4 /\ v[1] = a /\ v[2] = b /\ v[3] = d /\ v[4] = e
  BY <1>6, <1>7
<1>9. \A i \in 1 .. Len(v) : v[i] = u[i]
  <2>1. \A i \in 1 .. Len(v) : i = 1 \/ i = 2 \/ i = 3 \/ i = 4
    BY <1>8
  <2>2. QED
    BY <1>5, <1>8, <2>1
<1>10. v = u
  BY <1>5, <1>8, <1>9, SeqEqual
<1>11. QED
  BY <1>3, <1>7, <1>10

-----------------------------------------------------------------------------
(* The steps of the symbols. *)

LEMMA Steps ==
  ASSUME NEW y \in Int, NEW a \in Nat
  PROVE  /\ y >= a => EasyStep("Expr", y, a, y + 1, a) /\ EasyStep("value", y, a, y + 1, a)
         /\ y >= a + 2 => EasyStep("bin)", y, a, y - 1, a) /\ EasyStep("call)", y, a, y - 1, a)
         /\ y >= a + 1 => EasyStep("eval)", y, a, y - 1, a) /\ EasyStep("Target", y, a, y - 1, a)
                          /\ EasyStep("return)", y, a, y - 1, a)
         /\ y >= a + 1 => EasyStep("print)", y, a, y, a) /\ EasyStep("Fields", y, a, y, a)
         /\ y >= a + 1 => EasyStep("local)", y, a, y, a + 1) /\ EasyStep("declare", y, a, y, a + 1)
         /\ y >= a + 4 => EasyStep("put", y, a, y - 3, a)
         /\ y >= a + 3 => EasyStep("set", y, a, y - 3, a)
         /\ y >= a => EasyStep("assign)", y, a, y, a)
<1>1. a + 1 \in Nat /\ y + 1 \in Int /\ y - 1 \in Int /\ y - 3 \in Int
  OBVIOUS
<1>2. \A m, b : /\ At4(y, a, m, b).h = y /\ At4(y, a, m, b).a = a /\ At4(y, a, m, b).m = m /\ At4(y, a, m, b).b = b
  BY DEF At4
<1>3. ASSUME NEW s \in Easy, NEW m, NEW b
      PROVE  Afterwards(s, At4(y, a, m, b), 0, 0) =
               At4(IF s \in {"Expr", "value"} THEN y + 1
                   ELSE IF s \in {"bin)", "call)", "eval)", "Target", "return)"} THEN y - 1
                   ELSE IF s \in {"put", "set"} THEN y - 3 ELSE y,
                   IF s \in {"local)", "declare"} THEN a + 1 ELSE a, m, b)
  <2>1. s \notin Closes /\ s # "Block" /\ s \notin Counting /\ s \notin {"then", "do", "endrepeat", "More"}
    BY DEF Easy, Closes, Counting
  <2>2. QED
    BY <1>2, <2>1 DEF Afterwards, AfterH, AfterA
<1>4. {"Expr", "value", "bin)", "call)", "eval)", "Target", "return)", "print)", "Fields", "local)", "declare", "put",
       "set", "assign)"} \subseteq Easy
  BY DEF Easy, Pendable, Closes
<1>5. /\ Temps("Expr") = 0 /\ Temps("value") = 0 /\ Temps("assign)") = 0
      /\ Temps("bin)") = 2 /\ Temps("call)") = 2 /\ Temps("put") = 4 /\ Temps("set") = 3
      /\ Temps("eval)") = 1 /\ Temps("Target") = 1 /\ Temps("return)") = 1 /\ Temps("print)") = 1 /\ Temps("Fields") = 1
      /\ Temps("local)") = 1 /\ Temps("declare") = 1
  BY DEF Temps
<1>6. y >= a => EasyStep("Expr", y, a, y + 1, a) /\ EasyStep("value", y, a, y + 1, a)
  BY <1>1, <1>3, <1>4, <1>5 DEF EasyStep
<1>7. y >= a + 2 => EasyStep("bin)", y, a, y - 1, a) /\ EasyStep("call)", y, a, y - 1, a)
  BY <1>1, <1>3, <1>4, <1>5 DEF EasyStep
<1>8. y >= a + 1 => EasyStep("eval)", y, a, y - 1, a) /\ EasyStep("Target", y, a, y - 1, a)
                    /\ EasyStep("return)", y, a, y - 1, a)
  BY <1>1, <1>3, <1>4, <1>5 DEF EasyStep
<1>9. y >= a + 1 => EasyStep("print)", y, a, y, a) /\ EasyStep("Fields", y, a, y, a)
  BY <1>1, <1>3, <1>4, <1>5 DEF EasyStep
<1>10. y >= a + 1 => EasyStep("local)", y, a, y, a + 1) /\ EasyStep("declare", y, a, y, a + 1)
  BY <1>1, <1>3, <1>4, <1>5 DEF EasyStep
<1>11. y >= a + 4 => EasyStep("put", y, a, y - 3, a)
  BY <1>1, <1>3, <1>4, <1>5 DEF EasyStep
<1>12. y >= a + 3 => EasyStep("set", y, a, y - 3, a)
  BY <1>1, <1>3, <1>4, <1>5 DEF EasyStep
<1>13. y >= a => EasyStep("assign)", y, a, y, a)
  BY <1>1, <1>3, <1>4, <1>5 DEF EasyStep
<1>14. QED
  BY <1>6, <1>7, <1>8, <1>9, <1>10, <1>11, <1>12, <1>13

LEMMA TempsIs == \A s : Temps(s) \in Int
BY DEF Temps

LEMMA OpNumbers == \A op : Takes(op) \in Int /\ Change(op) \in Int
BY DEF Takes, Change

LEMMA LeadsThen ==
  ASSUME NEW s, NEW y, NEW a, NEW z, NEW e, EasyStep(s, y, a, z, e), NEW r \in Seq(Pendable), NEW w, NEW f,
         Leads(r, z, e, w, f)
  PROVE  Leads(<<s>> \o r, y, a, w, f) /\ <<s>> \o r \in Seq(Pendable)
<1>1. <<s>> \in Seq(Pendable) /\ s \in Pendable
  BY DEF EasyStep, Easy
<1>2. Leads(<<s>>, y, a, z, e)
  BY LeadsOne
<1>3. QED
  BY <1>1, <1>2, LeadsFurther, ConsIs

\* The rest of a symbol s, after code that changes the height by k and with e locals, leads
\* where the symbol leads.
Follows(s, r, k, a, e) ==
  /\ s \in Easy
  /\ \A x \in Int : x >= a + Temps(s) =>
       \E z, f : EasyStep(s, x, a, z, f) /\ Leads(r, x + k, e, z, f)

LEMMA EasyToken ==
  ASSUME NEW td, NEW mk, NEW bs, NEW act, NEW c, NEW ed, NEW h, NEW MK, NEW BS, NEW Z, NEW l,
         Draft(td, mk, bs, act, c, ed, h, MK, BS, Z, l),
         NEW r, NEW k \in Int, NEW act2 \in Nat, Follows(Head(td), r, k, act, act2),
         NEW d, NEW g, Grown(c, h, d, g, Open(MK, Len(mk)), Z, Len(d), h[Len(c)] + k)
  PROVE  Drafted(r \o Tail(td), mk, bs, act2, d, ed, Z, l)
<1>1. /\ c \in Seq(ByteType) /\ h \in Heights /\ act \in Nat
      /\ mk \in Seq(MarkType) /\ MK \in [Nat -> MarkType] /\ Stacked(mk, MK)
      /\ bs \in Seq(Nat) /\ BS \in [Nat -> Nat] /\ Stacked(bs, BS)
      /\ Len(mk) \in Nat /\ Len(bs) \in Nat /\ h[Len(c)] \in Int
  BY DraftIs
<1>2. PICK x, m, b, s : x = h[Len(c)] /\ m = Len(mk) /\ b = Len(bs) /\ s = Head(td)
  OBVIOUS
<1>3. x \in Int /\ m \in Nat /\ b \in Nat
  BY <1>1, <1>2
<1>4. Follows(s, r, k, act, act2) /\ s \in Easy /\ s # "end"
  BY <1>2 DEF Follows, Easy
<1>5. PICK w \in View : /\ Fits(s, At4(x, act, m, b), w, MK[m], BS[b], c, h, Z)
                        /\ Plan(Tail(td), w, MK, BS, c, h, Z)
  BY <1>2, <1>4, DraftHead
<1>6. x >= act + Temps(s) /\ w = Afterwards(s, At4(x, act, m, b), MK[m], BS[b])
  <2>1. At4(x, act, m, b).h = x /\ At4(x, act, m, b).a = act
    BY DEF At4
  <2>2. QED
    BY <1>4, <1>5, <2>1 DEF Fits
<1>7. PICK z, f : EasyStep(s, x, act, z, f) /\ Leads(r, x + k, act2, z, f)
  BY <1>3, <1>4, <1>6 DEF Follows
<1>8. w = At4(z, f, m, b)
  <2>1. Afterwards(s, At4(x, act, m, b), MK[m], BS[b]) = Afterwards(s, At4(x, act, m, b), 0, 0)
    BY <1>4, EasyAfter
  <2>2. QED
    BY <1>6, <1>7, <2>1 DEF EasyStep
<1>9. d \in Seq(ByteType) /\ Extended(c, h, d, g)
  BY DEF Grown
<1>10. Plan(Tail(td), At4(z, f, m, b), MK, BS, d, g, Z)
  <2>1. \A n : Agree(MK, MK, n) /\ Agree(BS, BS, n)
    BY DEF Agree
  <2>2. Z \subseteq Z
    OBVIOUS
  <2>3. QED
    BY <1>1, <1>5, <1>8, <1>9, <2>1, <2>2, PlanMoves
<1>11. Plan(r \o Tail(td), At4(x + k, act2, m, b), MK, BS, d, g, Z)
  BY <1>3, <1>7, <1>10 DEF Leads
<1>12. Plan(r \o Tail(td), At4(h[Len(c)] + k, act2, Len(mk), Len(bs)), MK, BS, d, g, Z)
  BY <1>2, <1>11
<1>13. Open(MK, Len(mk)) \subseteq Open(MK, Len(mk)) /\ EdgesFrom(ed, ed, c, h, act)
  BY DEF EdgesFrom
<1>14. QED
  BY <1>1, <1>12, <1>13, Redraft

LEMMA NoCode ==
  ASSUME NEW td, NEW mk, NEW bs, NEW act, NEW c, NEW ed, NEW Z, NEW l, Drafted(td, mk, bs, act, c, ed, Z, l),
         NEW r, NEW act2 \in Nat, Follows(Head(td), r, 0, act, act2)
  PROVE  Drafted(r \o Tail(td), mk, bs, act2, c, ed, Z, l)
<1>1. PICK h, MK, BS : Draft(td, mk, bs, act, c, ed, h, MK, BS, Z, l)
  BY DEF Drafted
<1>2. Grown(c, h, c, h, Open(MK, Len(mk)), Z, Len(c), h[Len(c)]) /\ h[Len(c)] \in Int
  BY <1>1, DraftIs
<1>3. Grown(c, h, c, h, Open(MK, Len(mk)), Z, Len(c), h[Len(c)] + 0) /\ 0 \in Int
  BY <1>2
<1>4. QED
  BY <1>1, <1>3, EasyToken

LEMMA OneInstruction ==
  ASSUME NEW td, NEW mk, NEW bs, NEW act, NEW c, NEW ed, NEW Z, NEW l, Drafted(td, mk, bs, act, c, ed, Z, l),
         NEW op \in Op, op \notin Jumps, NEW n \in Int, Worded(op, n), NEW t \in Nat,
         NEW r, Follows(Head(td), r, Change(op), act, act), Takes(op) <= Temps(Head(td))
  PROVE  Drafted(r \o Tail(td), mk, bs, act, c \o Instr(op, n, t, act), ed, Z, l)
<1>1. PICK h, MK, BS : Draft(td, mk, bs, act, c, ed, h, MK, BS, Z, l)
  BY DEF Drafted
<1>2. /\ c \in Seq(ByteType) /\ h \in Heights /\ act \in Nat
      /\ h[Len(c)] \in Int
      /\ Grown(c, h, c, h, Open(MK, Len(mk)), Z, Len(c), h[Len(c)])
  BY <1>1, DraftIs
<1>3. h[Len(c)] >= act + Temps(Head(td))
  <2>1. Head(td) # "end"
    BY DEF Follows, Easy
  <2>2. PICK w \in View : Fits(Head(td), At4(h[Len(c)], act, Len(mk), Len(bs)), w, MK[Len(mk)], BS[Len(bs)], c, h, Z)
    BY <1>1, <2>1, DraftHead
  <2>3. At4(h[Len(c)], act, Len(mk), Len(bs)).h = h[Len(c)] /\ At4(h[Len(c)], act, Len(mk), Len(bs)).a = act
    BY DEF At4
  <2>4. QED
    BY <2>2, <2>3 DEF Fits
<1>4. h[Len(c)] - Takes(op) >= act
  <2>1. Takes(op) \in Int /\ Temps(Head(td)) \in Int
    BY OpNumbers, TempsIs
  <2>2. QED
    BY <1>2, <1>3, <2>1
<1>5. Furthered(c \o Instr(op, n, t, act), Size(op), c, h, c, h, Open(MK, Len(mk)), Z, h[Len(c)] + Change(op))
  BY <1>2, <1>4, Further
<1>6. PICK d : d = c \o Instr(op, n, t, act)
  OBVIOUS
<1>7. PICK g : Grown(c, h, d, g, Open(MK, Len(mk)), Z, Len(d), h[Len(c)] + Change(op))
  BY <1>5, <1>6 DEF Furthered
<1>8. Change(op) \in Int
  BY OpFacts
<1>9. Drafted(r \o Tail(td), mk, bs, act, d, ed, Z, l)
  BY <1>1, <1>2, <1>7, <1>8, EasyToken
<1>10. QED
  BY <1>6, <1>9

LEMMA TwoInstructions ==
  ASSUME NEW td, NEW mk, NEW bs, NEW act, NEW c, NEW ed, NEW Z, NEW l, Drafted(td, mk, bs, act, c, ed, Z, l),
         NEW op \in Op, op \notin Jumps, NEW n \in Int, Worded(op, n), NEW t \in Nat,
         NEW oq \in Op, oq \notin Jumps, NEW q \in Int, Worded(oq, q),
         NEW r, Follows(Head(td), r, Change(op) + Change(oq), act, act),
         Takes(op) <= Temps(Head(td)), Takes(oq) <= Temps(Head(td)) + Change(op)
  PROVE  Drafted(r \o Tail(td), mk, bs, act, (c \o Instr(op, n, t, act)) \o Instr(oq, q, t, act), ed, Z, l)
<1>1. PICK h, MK, BS : Draft(td, mk, bs, act, c, ed, h, MK, BS, Z, l)
  BY DEF Drafted
<1>2. /\ c \in Seq(ByteType) /\ h \in Heights /\ act \in Nat
      /\ h[Len(c)] \in Int
      /\ Grown(c, h, c, h, Open(MK, Len(mk)), Z, Len(c), h[Len(c)])
  BY <1>1, DraftIs
<1>3. h[Len(c)] >= act + Temps(Head(td))
  <2>1. Head(td) # "end"
    BY DEF Follows, Easy
  <2>2. PICK w \in View : Fits(Head(td), At4(h[Len(c)], act, Len(mk), Len(bs)), w, MK[Len(mk)], BS[Len(bs)], c, h, Z)
    BY <1>1, <2>1, DraftHead
  <2>3. At4(h[Len(c)], act, Len(mk), Len(bs)).h = h[Len(c)] /\ At4(h[Len(c)], act, Len(mk), Len(bs)).a = act
    BY DEF At4
  <2>4. QED
    BY <2>2, <2>3 DEF Fits
<1>4. /\ Takes(op) \in Int /\ Takes(oq) \in Int /\ Temps(Head(td)) \in Int /\ Change(op) \in Int /\ Change(oq) \in Int
  BY OpNumbers, TempsIs
<1>5. h[Len(c)] - Takes(op) >= act /\ (h[Len(c)] + Change(op)) - Takes(oq) >= act /\ h[Len(c)] + Change(op) \in Int
  BY <1>2, <1>3, <1>4
<1>6. Furthered(c \o Instr(op, n, t, act), Size(op), c, h, c, h, Open(MK, Len(mk)), Z, h[Len(c)] + Change(op))
  BY <1>2, <1>5, Further
<1>7. PICK d : d = c \o Instr(op, n, t, act)
  OBVIOUS
<1>8. PICK g : Grown(c, h, d, g, Open(MK, Len(mk)), Z, Len(d), h[Len(c)] + Change(op))
  BY <1>6, <1>7 DEF Furthered
<1>9. Furthered(d \o Instr(oq, q, t, act), Size(oq), c, h, d, g, Open(MK, Len(mk)), Z, (h[Len(c)] + Change(op)) + Change(oq))
  BY <1>2, <1>5, <1>8, Further
<1>10. PICK e : e = d \o Instr(oq, q, t, act)
  OBVIOUS
<1>11. PICK f : Grown(c, h, e, f, Open(MK, Len(mk)), Z, Len(e), (h[Len(c)] + Change(op)) + Change(oq))
  BY <1>9, <1>10 DEF Furthered
<1>12. (h[Len(c)] + Change(op)) + Change(oq) = h[Len(c)] + (Change(op) + Change(oq)) /\ Change(op) + Change(oq) \in Int
  BY <1>2, <1>4
<1>13. Grown(c, h, e, f, Open(MK, Len(mk)), Z, Len(e), h[Len(c)] + (Change(op) + Change(oq)))
  BY <1>11, <1>12
<1>14. Drafted(r \o Tail(td), mk, bs, act, e, ed, Z, l)
  BY <1>1, <1>2, <1>12, <1>13, EasyToken
<1>15. QED
  BY <1>7, <1>10, <1>14

-----------------------------------------------------------------------------
(* What each token leaves to be compiled leads where its symbol leads. *)

LEMMA FollowsNone ==
  ASSUME NEW a \in Nat
  PROVE  /\ Follows("Expr", <<>>, 1, a, a) /\ Follows("value", <<>>, 1, a, a)
         /\ Follows("bin)", <<>>, -1, a, a) /\ Follows("call)", <<>>, -1, a, a)
         /\ Follows("eval)", <<>>, -1, a, a) /\ Follows("Target", <<>>, -1, a, a) /\ Follows("return)", <<>>, -1, a, a)
         /\ Follows("print)", <<>>, 0, a, a) /\ Follows("Fields", <<>>, 0, a, a) /\ Follows("assign)", <<>>, 0, a, a)
         /\ Follows("local)", <<>>, 0, a, a + 1) /\ Follows("declare", <<>>, 0, a, a + 1)
         /\ Follows("put", <<>>, -3, a, a) /\ Follows("set", <<>>, -3, a, a)
<1>1. ASSUME NEW s, NEW k \in Int, NEW e \in Nat, s \in Easy,
             \A x \in Int : x >= a + Temps(s) => EasyStep(s, x, a, x + k, e)
      PROVE  Follows(s, <<>>, k, a, e)
  <2>1. ASSUME NEW x \in Int, x >= a + Temps(s)
        PROVE  EasyStep(s, x, a, x + k, e) /\ Leads(<<>>, x + k, e, x + k, e)
    BY <1>1, <2>1, LeadsNone
  <2>2. QED
    BY <1>1, <2>1 DEF Follows
<1>2. {"Expr", "value", "bin)", "call)", "eval)", "Target", "return)", "print)", "Fields", "local)", "declare", "put",
       "set", "assign)"} \subseteq Easy
  BY DEF Easy, Pendable, Closes
<1>3. /\ Temps("Expr") = 0 /\ Temps("value") = 0 /\ Temps("assign)") = 0
      /\ Temps("bin)") = 2 /\ Temps("call)") = 2 /\ Temps("put") = 4 /\ Temps("set") = 3
      /\ Temps("eval)") = 1 /\ Temps("Target") = 1 /\ Temps("return)") = 1 /\ Temps("print)") = 1 /\ Temps("Fields") = 1
      /\ Temps("local)") = 1 /\ Temps("declare") = 1
  BY DEF Temps
<1>4. a + 1 \in Nat
  OBVIOUS
<1>5. ASSUME NEW x \in Int PROVE x + 0 = x /\ x + (-1) = x - 1 /\ x + (-3) = x - 3
  OBVIOUS
<1>6. ASSUME NEW s \in {"Expr", "value"} PROVE Follows(s, <<>>, 1, a, a)
  <2>1. \A x \in Int : x >= a + Temps(s) => EasyStep(s, x, a, x + 1, a)
    BY <1>3, Steps
  <2>2. QED
    BY <1>1, <1>2, <2>1
<1>7. ASSUME NEW s \in {"bin)", "call)", "eval)", "Target", "return)"} PROVE Follows(s, <<>>, -1, a, a)
  <2>1. \A x \in Int : x >= a + Temps(s) => EasyStep(s, x, a, x - 1, a)
    BY <1>3, Steps
  <2>2. \A x \in Int : x >= a + Temps(s) => EasyStep(s, x, a, x + (-1), a)
    BY <1>5, <2>1
  <2>3. -1 \in Int /\ s \in Easy
    BY <1>2
  <2>4. QED
    BY <1>1, <2>2, <2>3
<1>8. ASSUME NEW s \in {"print)", "Fields", "assign)"} PROVE Follows(s, <<>>, 0, a, a)
  <2>1. \A x \in Int : x >= a + Temps(s) => EasyStep(s, x, a, x, a)
    BY <1>3, Steps
  <2>2. \A x \in Int : x >= a + Temps(s) => EasyStep(s, x, a, x + 0, a)
    BY <1>5, <2>1
  <2>3. QED
    BY <1>1, <1>2, <2>2
<1>9. ASSUME NEW s \in {"local)", "declare"} PROVE Follows(s, <<>>, 0, a, a + 1)
  <2>1. \A x \in Int : x >= a + Temps(s) => EasyStep(s, x, a, x, a + 1)
    BY <1>3, Steps
  <2>2. \A x \in Int : x >= a + Temps(s) => EasyStep(s, x, a, x + 0, a + 1)
    BY <1>5, <2>1
  <2>3. QED
    BY <1>1, <1>2, <1>4, <2>2
<1>10. ASSUME NEW s \in {"put", "set"} PROVE Follows(s, <<>>, -3, a, a)
  <2>1. \A x \in Int : x >= a + Temps(s) => EasyStep(s, x, a, x - 3, a)
    BY <1>3, Steps
  <2>2. \A x \in Int : x >= a + Temps(s) => EasyStep(s, x, a, x + (-3), a)
    BY <1>5, <2>1
  <2>3. -3 \in Int /\ s \in Easy
    BY <1>2
  <2>4. QED
    BY <1>1, <2>2, <2>3
<1>11. QED
  BY <1>6, <1>7, <1>8, <1>9, <1>10

LEMMA FollowsOperands ==
  ASSUME NEW a \in Nat
  PROVE  /\ Follows("Expr", <<"Expr", "Expr", "bin)">>, 0, a, a)
         /\ Follows("Expr", <<"Expr", "Expr", "call)">>, 0, a, a)
         /\ Follows("Expr", <<"Expr", "print)">>, 0, a, a)
         /\ Follows("Expr", <<"Fields">>, 1, a, a)
         /\ Follows("Target", <<"value", "value", "set">>, 0, a, a)
<1>1. {"Expr", "value", "Target", "Fields", "bin)", "call)", "print)", "set"} \subseteq Easy
  BY DEF Easy, Pendable, Closes
<1>2. Easy \subseteq Pendable
  BY DEF Easy
<1>3. Temps("Expr") = 0 /\ Temps("Target") = 1
  BY DEF Temps
<1>4. ASSUME NEW s \in {"bin)", "call)"} PROVE Follows("Expr", <<"Expr", "Expr", s>>, 0, a, a)
  <2>1. ASSUME NEW x \in Int, x >= a + Temps("Expr")
        PROVE  EasyStep("Expr", x, a, x + 1, a) /\ Leads(<<"Expr", "Expr", s>>, x + 0, a, x + 1, a)
    <3>1. x >= a /\ x + 1 >= a /\ x + 2 >= a + 2 /\ x + 1 \in Int /\ x + 2 \in Int
          /\ (x + 1) + 1 = x + 2 /\ (x + 2) - 1 = x + 1 /\ x + 0 = x
      BY <1>3, <2>1
    <3>2. EasyStep("Expr", x, a, x + 1, a) /\ EasyStep("Expr", x + 1, a, x + 2, a) /\ EasyStep(s, x + 2, a, x + 1, a)
      BY <3>1, Steps
    <3>3. <<s>> \in Seq(Pendable) /\ Leads(<<s>>, x + 2, a, x + 1, a)
      BY <1>1, <1>2, <3>2, LeadsOne
    <3>4. <<"Expr">> \o <<s>> \in Seq(Pendable) /\ Leads(<<"Expr">> \o <<s>>, x + 1, a, x + 1, a)
      BY <3>2, <3>3, LeadsThen
    <3>5. Leads(<<"Expr">> \o (<<"Expr">> \o <<s>>), x, a, x + 1, a)
      BY <3>2, <3>4, LeadsThen
    <3>6. <<"Expr", "Expr", s>> = <<"Expr">> \o (<<"Expr">> \o <<s>>)
      BY Pairs, Triples
    <3>7. QED
      BY <3>1, <3>2, <3>5, <3>6
  <2>2. QED
    BY <1>1, <2>1 DEF Follows
<1>5. Follows("Expr", <<"Expr", "print)">>, 0, a, a)
  <2>1. ASSUME NEW x \in Int, x >= a + Temps("Expr")
        PROVE  EasyStep("Expr", x, a, x + 1, a) /\ Leads(<<"Expr", "print)">>, x + 0, a, x + 1, a)
    <3>1. x >= a /\ x + 1 >= a + 1 /\ x + 1 \in Int /\ x + 0 = x
      BY <1>3, <2>1
    <3>2. EasyStep("Expr", x, a, x + 1, a) /\ EasyStep("print)", x + 1, a, x + 1, a)
      BY <3>1, Steps
    <3>3. <<"print)">> \in Seq(Pendable) /\ Leads(<<"print)">>, x + 1, a, x + 1, a)
      BY <1>1, <1>2, <3>2, LeadsOne
    <3>4. Leads(<<"Expr">> \o <<"print)">>, x, a, x + 1, a)
      BY <3>2, <3>3, LeadsThen
    <3>5. <<"Expr", "print)">> = <<"Expr">> \o <<"print)">>
      BY Pairs
    <3>6. QED
      BY <3>1, <3>2, <3>4, <3>5
  <2>2. QED
    BY <1>1, <2>1 DEF Follows
<1>6. Follows("Expr", <<"Fields">>, 1, a, a)
  <2>1. ASSUME NEW x \in Int, x >= a + Temps("Expr")
        PROVE  EasyStep("Expr", x, a, x + 1, a) /\ Leads(<<"Fields">>, x + 1, a, x + 1, a)
    <3>1. x >= a /\ x + 1 >= a + 1 /\ x + 1 \in Int
      BY <1>3, <2>1
    <3>2. EasyStep("Expr", x, a, x + 1, a) /\ EasyStep("Fields", x + 1, a, x + 1, a)
      BY <3>1, Steps
    <3>3. QED
      BY <3>2, LeadsOne
  <2>2. QED
    BY <1>1, <2>1 DEF Follows
<1>7. Follows("Target", <<"value", "value", "set">>, 0, a, a)
  <2>1. ASSUME NEW x \in Int, x >= a + Temps("Target")
        PROVE  EasyStep("Target", x, a, x - 1, a) /\ Leads(<<"value", "value", "set">>, x + 0, a, x - 1, a)
    <3>1. x >= a + 1 /\ x >= a /\ x + 1 >= a /\ x + 2 >= a + 3 /\ x + 1 \in Int /\ x + 2 \in Int
          /\ (x + 1) + 1 = x + 2 /\ (x + 2) - 3 = x - 1 /\ x + 0 = x
      BY <1>3, <2>1
    <3>2. /\ EasyStep("Target", x, a, x - 1, a) /\ EasyStep("value", x, a, x + 1, a)
          /\ EasyStep("value", x + 1, a, x + 2, a) /\ EasyStep("set", x + 2, a, x - 1, a)
      BY <3>1, Steps
    <3>3. <<"set">> \in Seq(Pendable) /\ Leads(<<"set">>, x + 2, a, x - 1, a)
      BY <1>1, <1>2, <3>2, LeadsOne
    <3>4. <<"value">> \o <<"set">> \in Seq(Pendable) /\ Leads(<<"value">> \o <<"set">>, x + 1, a, x - 1, a)
      BY <3>2, <3>3, LeadsThen
    <3>5. Leads(<<"value">> \o (<<"value">> \o <<"set">>), x, a, x - 1, a)
      BY <3>2, <3>4, LeadsThen
    <3>6. <<"value", "value", "set">> = <<"value">> \o (<<"value">> \o <<"set">>)
      BY Pairs, Triples
    <3>7. QED
      BY <3>1, <3>2, <3>5, <3>6
  <2>2. QED
    BY <1>1, <2>1 DEF Follows
<1>8. QED
  BY <1>4, <1>5, <1>6, <1>7

LEMMA FollowsFields ==
  ASSUME NEW a \in Nat
  PROVE  /\ Follows("Fields", <<"Expr", "put", "Fields">>, 2, a, a)
         /\ Follows("Fields", <<"Expr", "Expr", "put", "Fields">>, 1, a, a)
<1>1. {"Expr", "Fields", "put"} \subseteq Easy
  BY DEF Easy, Pendable, Closes
<1>2. Easy \subseteq Pendable
  BY DEF Easy
<1>3. Temps("Fields") = 1
  BY DEF Temps
<1>4. ASSUME NEW x \in Int, x >= a + Temps("Fields")
      PROVE  /\ EasyStep("Fields", x, a, x, a) /\ EasyStep("Expr", x + 1, a, x + 2, a)
             /\ <<"Expr">> \o (<<"put">> \o <<"Fields">>) \in Seq(Pendable)
             /\ Leads(<<"Expr">> \o (<<"put">> \o <<"Fields">>), x + 2, a, x, a)
  <2>1. x >= a + 1 /\ x + 1 >= a /\ x + 2 >= a /\ x + 3 >= a + 4 /\ x + 1 \in Int /\ x + 2 \in Int /\ x + 3 \in Int
        /\ (x + 1) + 1 = x + 2 /\ (x + 2) + 1 = x + 3 /\ (x + 3) - 3 = x
    BY <1>3, <1>4
  <2>2. /\ EasyStep("Fields", x, a, x, a) /\ EasyStep("Expr", x + 1, a, x + 2, a)
        /\ EasyStep("Expr", x + 2, a, x + 3, a) /\ EasyStep("put", x + 3, a, x, a)
    BY <2>1, Steps
  <2>3. <<"Fields">> \in Seq(Pendable) /\ Leads(<<"Fields">>, x, a, x, a)
    BY <1>1, <1>2, <2>2, LeadsOne
  <2>4. <<"put">> \o <<"Fields">> \in Seq(Pendable) /\ Leads(<<"put">> \o <<"Fields">>, x + 3, a, x, a)
    BY <2>2, <2>3, LeadsThen
  <2>5. <<"Expr">> \o (<<"put">> \o <<"Fields">>) \in Seq(Pendable) /\ Leads(<<"Expr">> \o (<<"put">> \o <<"Fields">>), x + 2, a, x, a)
    <3>1. PICK r : r = <<"put">> \o <<"Fields">>
      OBVIOUS
    <3>2. r \in Seq(Pendable) /\ Leads(r, x + 3, a, x, a) /\ EasyStep("Expr", x + 2, a, x + 3, a)
      BY <2>2, <2>4, <3>1
    <3>3. <<"Expr">> \o r \in Seq(Pendable) /\ Leads(<<"Expr">> \o r, x + 2, a, x, a)
      BY <3>2, LeadsThen
    <3>4. QED
      BY <3>1, <3>3
  <2>6. QED
    BY <2>2, <2>5
<1>5. <<"Expr", "put", "Fields">> = <<"Expr">> \o (<<"put">> \o <<"Fields">>)
  BY Pairs, Triples
<1>6. <<"Expr", "Expr", "put", "Fields">> = <<"Expr">> \o (<<"Expr">> \o (<<"put">> \o <<"Fields">>))
  BY Pairs, Triples, Quadruples
<1>7. Follows("Fields", <<"Expr", "put", "Fields">>, 2, a, a)
  BY <1>1, <1>4, <1>5 DEF Follows
<1>8. Follows("Fields", <<"Expr", "Expr", "put", "Fields">>, 1, a, a)
  <2>1. ASSUME NEW x \in Int, x >= a + Temps("Fields")
        PROVE  EasyStep("Fields", x, a, x, a) /\ Leads(<<"Expr">> \o (<<"Expr">> \o (<<"put">> \o <<"Fields">>)), x + 1, a, x, a)
    BY <1>4, <2>1, LeadsThen
  <2>2. QED
    BY <1>1, <1>6, <2>1 DEF Follows
<1>9. QED
  BY <1>7, <1>8

-----------------------------------------------------------------------------
(* Statements: the block goes on after them. *)

LEMMA BlockHead ==
  ASSUME NEW td, NEW mk, NEW bs, NEW act, NEW c, NEW ed, NEW h, NEW MK, NEW BS, NEW Z, NEW l,
         Draft(td, mk, bs, act, c, ed, h, MK, BS, Z, l), Head(td) = "Block"
  PROVE  /\ h[Len(c)] = act /\ Len(bs) >= 1 /\ BS[Len(bs)] <= act
         /\ Plan(Tail(td), At4(BS[Len(bs)], BS[Len(bs)], Len(mk), Len(bs) - 1), MK, BS, c, h, Z)
         /\ \A n \in Nat : n >= act => Plan(td, At4(n, n, Len(mk), Len(bs)), MK, BS, c, h, Z)
<1>1. /\ act \in Nat /\ BS \in [Nat -> Nat] /\ Len(mk) \in Nat /\ Len(bs) \in Nat /\ h[Len(c)] \in Int
      /\ td \in Seq(Pendable) /\ td # <<>>
  BY DraftIs
<1>2. PICK x, m, b, base : x = h[Len(c)] /\ m = Len(mk) /\ b = Len(bs) /\ base = BS[b]
  OBVIOUS
<1>3. x \in Int /\ m \in Nat /\ b \in Nat /\ base \in Nat
  BY <1>1, <1>2
<1>4. PICK w \in View : /\ Fits("Block", At4(x, act, m, b), w, MK[m], base, c, h, Z)
                        /\ Plan(Tail(td), w, MK, BS, c, h, Z)
  BY <1>2, DraftHead
<1>5. \A y, a : /\ At4(y, a, m, b).h = y /\ At4(y, a, m, b).a = a /\ At4(y, a, m, b).m = m /\ At4(y, a, m, b).b = b
  BY DEF At4
<1>6. x = act /\ b >= 1 /\ base <= act /\ w = Afterwards("Block", At4(x, act, m, b), MK[m], base)
  BY <1>4, <1>5 DEF Fits
<1>7. \A y, a : Afterwards("Block", At4(y, a, m, b), MK[m], base) = At4(base, base, m, b - 1)
  BY <1>5 DEF Afterwards, AfterH, AfterA, Closes
<1>8. w = At4(base, base, m, b - 1) /\ b - 1 \in Nat
  BY <1>3, <1>6, <1>7
<1>9. ASSUME NEW n \in Nat, n >= act PROVE Plan(td, At4(n, n, m, b), MK, BS, c, h, Z)
  <2>1. PICK v : v = At4(n, n, m, b)
    OBVIOUS
  <2>2. v \in View /\ v.h = n /\ v.a = n /\ v.m = m /\ v.b = b
    BY <1>3, <2>1, ViewIs
  <2>3. w = Afterwards("Block", v, MK[m], base)
    BY <1>7, <1>8, <2>1
  <2>4. Temps("Block") = 0 /\ "Block" \notin Closes
    BY DEF Temps, Closes
  <2>5. Fits("Block", v, w, MK[v.m], BS[v.b], c, h, Z)
    <3>1. base <= n
      BY <1>1, <1>3, <1>6, <1>9
    <3>2. Fits("Block", v, w, MK[m], base, c, h, Z)
      BY <1>6, <2>2, <2>3, <2>4, <3>1 DEF Fits
    <3>3. QED
      BY <1>2, <2>2, <3>2
  <2>6. w.m = m /\ w.b = b - 1
    BY <1>8 DEF At4
  <2>7. w.m <= v.m /\ w.b <= v.b /\ "Block" \in Pendable
    BY <1>3, <2>2, <2>6 DEF Pendable
  <2>8. Plan(<<"Block">> \o Tail(td), v, MK, BS, c, h, Z)
    BY <1>4, <2>2, <2>5, <2>7, PlanPush
  <2>9. td = <<"Block">> \o Tail(td)
    BY <1>1, HeadTailIs
  <2>10. QED
    BY <2>1, <2>8, <2>9
<1>10. QED
  BY <1>2, <1>4, <1>6, <1>8, <1>9

-----------------------------------------------------------------------------
(* Symbols that give a mark back, and blocks. *)

CloseH(s, y, a, k) ==
  IF s \in {"then", "do", "endrepeat"} THEN y - 1
  ELSE IF s \in Counting THEN k.count
  ELSE IF s = "More" THEN a
  ELSE y

CloseA(s, a, k) == IF s \in Counting THEN k.count ELSE a

CanClose(s, y, a, m, b, k, c, h, Z) ==
  /\ s \in Closes
  /\ y >= a + Temps(s)
  /\ s = "Clauses" => y = a
  /\ s \in {"then", "do", "test", "item"} => y = a + 1
  /\ Serves(s, At4(y, a, m, b), k, c, h, Z)

LEMMA ClosesIs == /\ Closes \subseteq Pendable /\ "Block" \notin Closes /\ "end" \notin Closes /\ Counting \subseteq Closes
BY DEF Closes, Pendable, Counting

LEMMA CloseAfter ==
  ASSUME NEW s \in Closes, NEW y, NEW a, NEW m, NEW b, NEW k, NEW base
  PROVE  Afterwards(s, At4(y, a, m, b), k, base) = At4(CloseH(s, y, a, k), CloseA(s, a, k), m - 1, b)
<1>1. PICK v : v = At4(y, a, m, b)
  OBVIOUS
<1>2. v.h = y /\ v.a = a /\ v.m = m /\ v.b = b
  BY <1>1 DEF At4
<1>3. s # "Block" /\ s \notin {"Expr", "value"} /\ s \notin {"bin)", "call)", "eval)", "Target", "return)"} /\ s \notin {"put", "set"}
      /\ s \notin {"local)", "declare"}
  BY DEF Closes
<1>4. AfterH(s, v, k, base) = CloseH(s, y, a, k)
  BY <1>2, <1>3 DEF AfterH, CloseH, Counting
<1>5. AfterA(s, v, k, base) = CloseA(s, a, k)
  BY <1>2, <1>3 DEF AfterA, CloseA
<1>6. Afterwards(s, v, k, base) = At4(CloseH(s, y, a, k), CloseA(s, a, k), m - 1, b)
  BY <1>2, <1>3, <1>4, <1>5 DEF Afterwards
<1>7. QED
  BY <1>1, <1>6

LEMMA PushCloser ==
  ASSUME NEW s, NEW y \in Int, NEW a \in Nat, NEW m \in Nat, m >= 1, NEW b \in Nat,
         NEW td, NEW MK, NEW BS, NEW c, NEW h, NEW Z, CanClose(s, y, a, m, b, MK[m], c, h, Z),
         Plan(td, At4(CloseH(s, y, a, MK[m]), CloseA(s, a, MK[m]), m - 1, b), MK, BS, c, h, Z)
  PROVE  Plan(<<s>> \o td, At4(y, a, m, b), MK, BS, c, h, Z)
<1>1. PICK v, w : v = At4(y, a, m, b) /\ w = At4(CloseH(s, y, a, MK[m]), CloseA(s, a, MK[m]), m - 1, b)
  OBVIOUS
<1>2. v \in View /\ v.h = y /\ v.a = a /\ v.m = m /\ v.b = b
  BY <1>1, ViewIs
<1>3. w.m = m - 1 /\ w.b = b
  BY <1>1 DEF At4
<1>4. s \in Closes /\ s \in Pendable /\ s # "Block" /\ s # "end"
  BY ClosesIs DEF CanClose
<1>5. w = Afterwards(s, v, MK[v.m], BS[v.b])
  BY <1>1, <1>2, <1>4, CloseAfter
<1>6. Fits(s, v, w, MK[v.m], BS[v.b], c, h, Z)
  <2>1. /\ y >= a + Temps(s)
        /\ s = "Clauses" => y = a
        /\ s \in {"then", "do", "test", "item"} => y = a + 1
        /\ Serves(s, v, MK[v.m], c, h, Z)
    BY <1>1, <1>2 DEF CanClose
  <2>2. QED
    BY <1>2, <1>4, <1>5, <2>1 DEF Fits
<1>7. w.m <= v.m /\ w.b <= v.b
  BY <1>2, <1>3
<1>8. Plan(<<s>> \o td, v, MK, BS, c, h, Z)
  BY <1>1, <1>2, <1>4, <1>6, <1>7, PlanPush
<1>9. QED
  BY <1>1, <1>8

LEMMA PushBlock ==
  ASSUME NEW n \in Nat, NEW m \in Nat, NEW b \in Nat, b >= 1,
         NEW td, NEW MK, NEW BS, NEW c, NEW h, NEW Z, BS[b] = n,
         Plan(td, At4(n, n, m, b - 1), MK, BS, c, h, Z)
  PROVE  Plan(<<"Block">> \o td, At4(n, n, m, b), MK, BS, c, h, Z)
<1>1. PICK v, w : v = At4(n, n, m, b) /\ w = At4(n, n, m, b - 1)
  OBVIOUS
<1>2. v \in View /\ v.h = n /\ v.a = n /\ v.m = m /\ v.b = b
  BY <1>1, ViewIs
<1>3. w.m = m /\ w.b = b - 1
  BY <1>1 DEF At4
<1>4. w = Afterwards("Block", v, MK[v.m], n)
  BY <1>1, <1>2 DEF Afterwards, AfterH, AfterA, Closes, Counting
<1>5. Temps("Block") = 0 /\ "Block" \notin Closes
  BY DEF Temps, Closes
<1>6. Fits("Block", v, w, MK[v.m], n, c, h, Z)
  BY <1>2, <1>4, <1>5 DEF Fits
<1>7. w.m <= v.m /\ w.b <= v.b /\ "Block" \in Pendable
  BY <1>2, <1>3 DEF Pendable
<1>8. Plan(<<"Block">> \o td, v, MK, BS, c, h, Z)
  BY <1>1, <1>2, <1>6, <1>7, PlanPush
<1>9. QED
  BY <1>1, <1>8

\* The compiler is at a symbol that gives a mark back.
LEMMA CloserHead ==
  ASSUME NEW td, NEW mk, NEW bs, NEW act, NEW c, NEW ed, NEW h, NEW MK, NEW BS, NEW Z, NEW l,
         Draft(td, mk, bs, act, c, ed, h, MK, BS, Z, l), Head(td) \in Closes
  PROVE  /\ Len(mk) >= 1 /\ mk # <<>> /\ Head(mk) \in MarkType /\ MK[Len(mk)] = Head(mk)
         /\ CanClose(Head(td), h[Len(c)], act, Len(mk), Len(bs), Head(mk), c, h, Z)
         /\ Plan(Tail(td), At4(CloseH(Head(td), h[Len(c)], act, Head(mk)), CloseA(Head(td), act, Head(mk)), Len(mk) - 1, Len(bs)),
                 MK, BS, c, h, Z)
<1>1. mk \in Seq(MarkType) /\ Stacked(mk, MK) /\ Len(mk) \in Nat /\ act \in Nat
  BY DraftIs
<1>2. PICK x, m, b, s, k : x = h[Len(c)] /\ m = Len(mk) /\ b = Len(bs) /\ s = Head(td) /\ k = MK[m]
  OBVIOUS
<1>3. s \in Closes /\ s # "end"
  BY <1>2, ClosesIs
<1>4. PICK w : Fits(s, At4(x, act, m, b), w, k, BS[b], c, h, Z) /\ Plan(Tail(td), w, MK, BS, c, h, Z)
  BY <1>2, <1>3, DraftHead
<1>5. At4(x, act, m, b).h = x /\ At4(x, act, m, b).a = act /\ At4(x, act, m, b).m = m
  BY DEF At4
<1>6. CanClose(s, x, act, m, b, k, c, h, Z) /\ m >= 1
  BY <1>3, <1>4, <1>5 DEF Fits, CanClose
<1>7. w = At4(CloseH(s, x, act, k), CloseA(s, act, k), m - 1, b)
  <2>1. w = Afterwards(s, At4(x, act, m, b), k, BS[b])
    BY <1>3, <1>4 DEF Fits
  <2>2. QED
    BY <1>3, <2>1, CloseAfter
<1>8. mk # <<>>
  BY <1>1, <1>2, <1>6
<1>9. Head(mk) \in MarkType /\ Head(mk) = k
  <2>1. Head(mk) = MK[Len(mk)]
    BY <1>1, <1>8, StackedBelow
  <2>2. QED
    BY <1>1, <1>2, <1>8, <2>1, TailIs
<1>10. QED
  BY <1>2, <1>4, <1>6, <1>7, <1>8, <1>9

-----------------------------------------------------------------------------
(* Marks entered, replaced and left. *)

NewTop(mk2, n, k, MK, MK2) ==
  /\ mk2 \in Seq(MarkType) /\ Len(mk2) = n /\ n \in Nat /\ n >= 1
  /\ MK2 \in [Nat -> MarkType] /\ Stacked(mk2, MK2)
  /\ MK2[n] = k /\ Agree(MK2, MK, n - 1)
  /\ Open(MK2, n) = Open(MK, n - 1) \cup HolesOf(k)

NewBase(bs2, n, a, BS, BS2) ==
  /\ bs2 \in Seq(Nat) /\ Len(bs2) = n /\ n \in Nat /\ n >= 1
  /\ BS2 \in [Nat -> Nat] /\ Stacked(bs2, BS2)
  /\ BS2[n] = a /\ Agree(BS2, BS, n - 1)

LEMMA TopIs ==
  ASSUME NEW mk2, NEW n, NEW k, NEW MK, StackedAs(MarkType, mk2, n, k, MK)
  PROVE  \E MK2 : NewTop(mk2, n, k, MK, MK2)
<1>1. mk2 \in Seq(MarkType) /\ Len(mk2) = n /\ n \in Nat /\ n >= 1
  BY DEF StackedAs
<1>2. PICK E \in [Nat -> MarkType] : Stacked(mk2, E) /\ E[n] = k /\ Agree(E, MK, n - 1)
  BY DEF StackedAs
<1>3. PICK i \in Nat : i = n - 1
  BY <1>1
<1>4. Agree(E, MK, i) /\ i + 1 = n
  BY <1>1, <1>2, <1>3
<1>5. Open(E, i + 1) = Open(MK, i) \cup HolesOf(E[i + 1])
  BY <1>4, OpenOver
<1>6. Open(E, n) = Open(MK, n - 1) \cup HolesOf(k)
  BY <1>2, <1>3, <1>4, <1>5
<1>7. NewTop(mk2, n, k, MK, E)
  BY <1>1, <1>2, <1>6 DEF NewTop
<1>8. QED
  BY <1>7

LEMMA Entering ==
  ASSUME NEW mk \in Seq(MarkType), NEW MK \in [Nat -> MarkType], Stacked(mk, MK), NEW k \in MarkType
  PROVE  \E MK2 : NewTop(<<k>> \o mk, Len(mk) + 1, k, MK, MK2)
<1>1. StackedAs(MarkType, <<k>> \o mk, Len(mk) + 1, k, MK)
  BY StackedOver
<1>2. QED
  BY <1>1, TopIs

LEMMA Updating ==
  ASSUME NEW mk \in Seq(MarkType), mk # <<>>, NEW MK \in [Nat -> MarkType], Stacked(mk, MK), NEW k \in MarkType
  PROVE  \E MK2 : NewTop(<<k>> \o Tail(mk), Len(mk), k, MK, MK2)
<1>1. StackedAs(MarkType, <<k>> \o Tail(mk), Len(mk), k, MK)
  BY StackedAgain
<1>2. QED
  BY <1>1, TopIs

LEMMA OpenTop ==
  ASSUME NEW MK, NEW n \in Nat, n >= 1
  PROVE  Open(MK, n) = Open(MK, n - 1) \cup HolesOf(MK[n])
<1>1. PICK i \in Nat : i = n - 1
  OBVIOUS
<1>2. Agree(MK, MK, i) /\ i + 1 = n
  BY <1>1 DEF Agree
<1>3. Open(MK, i + 1) = Open(MK, i) \cup HolesOf(MK[i + 1])
  BY <1>2, OpenOver
<1>4. QED
  BY <1>1, <1>2, <1>3

LEMMA OpeningBase ==
  ASSUME NEW bs \in Seq(Nat), NEW BS \in [Nat -> Nat], Stacked(bs, BS), NEW a \in Nat
  PROVE  \E BS2 : NewBase(<<a>> \o bs, Len(bs) + 1, a, BS, BS2)
<1>1. StackedAs(Nat, <<a>> \o bs, Len(bs) + 1, a, BS)
  BY StackedOver
<1>2. PICK u, n : u = <<a>> \o bs /\ n = Len(bs) + 1
  OBVIOUS
<1>3. StackedAs(Nat, u, n, a, BS)
  BY <1>1, <1>2
<1>4. PICK E : E \in [Nat -> Nat] /\ Stacked(u, E) /\ E[n] = a /\ Agree(E, BS, n - 1)
  BY <1>3 DEF StackedAs
<1>5. NewBase(u, n, a, BS, E)
  BY <1>3, <1>4 DEF StackedAs, NewBase
<1>6. QED
  BY <1>2, <1>5

\* A new mark on top, entered or replaced.
LEMMA RedraftTop ==
  ASSUME NEW td, NEW mk, NEW bs, NEW act, NEW c, NEW ed, NEW h, NEW MK, NEW BS, NEW Z, NEW l,
         Draft(td, mk, bs, act, c, ed, h, MK, BS, Z, l),
         NEW mk2, NEW n, NEW k, NEW MK2, NewTop(mk2, n, k, MK, MK2),
         NEW d, NEW g, NEW G, NEW y, Grown(c, h, d, g, G, Z, Len(d), y), G \subseteq Open(MK, n - 1) \cup HolesOf(k),
         NEW act2 \in Nat, NEW td2, Plan(td2, At4(y, act2, n, Len(bs)), MK2, BS, d, g, Z),
         NEW ed2, EdgesFrom(ed2, ed, c, h, act)
  PROVE  Drafted(td2, mk2, bs, act2, d, ed2, Z, l)
<1>1. mk2 \in Seq(MarkType) /\ Len(mk2) = n /\ MK2 \in [Nat -> MarkType] /\ Stacked(mk2, MK2) /\ G \subseteq Open(MK2, Len(mk2))
  BY DEF NewTop
<1>2. bs \in Seq(Nat) /\ BS \in [Nat -> Nat] /\ Stacked(bs, BS)
  BY DraftIs
<1>3. Plan(td2, At4(y, act2, Len(mk2), Len(bs)), MK2, BS, d, g, Z)
  BY <1>1
<1>4. QED
  BY <1>1, <1>2, <1>3, Redraft

LEMMA RedraftBase ==
  ASSUME NEW td, NEW mk, NEW bs, NEW act, NEW c, NEW ed, NEW h, NEW MK, NEW BS, NEW Z, NEW l,
         Draft(td, mk, bs, act, c, ed, h, MK, BS, Z, l),
         NEW mk2, NEW n, NEW k, NEW MK2, NewTop(mk2, n, k, MK, MK2),
         NEW d, NEW g, NEW G, NEW y, Grown(c, h, d, g, G, Z, Len(d), y), G \subseteq Open(MK, n - 1) \cup HolesOf(k),
         NEW act2 \in Nat, NEW bs2, NEW j, NEW BS2, NewBase(bs2, j, act2, BS, BS2),
         NEW td2, Plan(td2, At4(y, act2, n, j), MK2, BS2, d, g, Z),
         NEW ed2, EdgesFrom(ed2, ed, c, h, act)
  PROVE  Drafted(td2, mk2, bs2, act2, d, ed2, Z, l)
<1>1. mk2 \in Seq(MarkType) /\ Len(mk2) = n /\ MK2 \in [Nat -> MarkType] /\ Stacked(mk2, MK2) /\ G \subseteq Open(MK2, Len(mk2))
  BY DEF NewTop
<1>2. bs2 \in Seq(Nat) /\ Len(bs2) = j /\ BS2 \in [Nat -> Nat] /\ Stacked(bs2, BS2)
  BY DEF NewBase
<1>3. Plan(td2, At4(y, act2, Len(mk2), Len(bs2)), MK2, BS2, d, g, Z)
  BY <1>1, <1>2
<1>4. QED
  BY <1>1, <1>2, <1>3, Redraft

\* The mark is given back.
LEMMA RedraftLeave ==
  ASSUME NEW td, NEW mk, NEW bs, NEW act, NEW c, NEW ed, NEW h, NEW MK, NEW BS, NEW Z, NEW l,
         Draft(td, mk, bs, act, c, ed, h, MK, BS, Z, l), mk # <<>>,
         NEW d, NEW g, NEW G, NEW y, Grown(c, h, d, g, G, Z, Len(d), y), G \subseteq Open(MK, Len(mk) - 1),
         NEW act2 \in Nat, NEW td2, Plan(td2, At4(y, act2, Len(mk) - 1, Len(bs)), MK, BS, d, g, Z)
  PROVE  Drafted(td2, Tail(mk), bs, act2, d, ed, Z, l)
<1>1. mk \in Seq(MarkType) /\ MK \in [Nat -> MarkType] /\ Stacked(mk, MK) /\ bs \in Seq(Nat) /\ BS \in [Nat -> Nat] /\ Stacked(bs, BS)
  BY DraftIs
<1>2. PICK mk2 : mk2 = Tail(mk)
  OBVIOUS
<1>3. mk2 \in Seq(MarkType) /\ Len(mk2) = Len(mk) - 1 /\ Stacked(mk2, MK)
  BY <1>1, <1>2, TailIs, StackedBelow
<1>4. G \subseteq Open(MK, Len(mk2)) /\ Plan(td2, At4(y, act2, Len(mk2), Len(bs)), MK, BS, d, g, Z)
  BY <1>3
<1>5. EdgesFrom(ed, ed, c, h, act)
  BY DEF EdgesFrom
<1>6. Drafted(td2, mk2, bs, act2, d, ed, Z, l)
  BY <1>1, <1>3, <1>4, <1>5, Redraft
<1>7. QED
  BY <1>2, <1>6

-----------------------------------------------------------------------------
(* Lists of several symbols. *)

LEMMA Quintuples ==
  ASSUME NEW a, NEW b, NEW d, NEW e, NEW f
  PROVE  <<a, b, d, e, f>> = <<a>> \o <<b, d, e, f>>
<1>1. PICK Els : Els = {a, b, d, e, f}
  OBVIOUS
<1>2. a \in Els /\ b \in Els /\ d \in Els /\ e \in Els /\ f \in Els
  BY <1>1
<1>3. PICK u, s : u = <<a>> \o <<b, d, e, f>> /\ s = <<b, d, e, f>>
  OBVIOUS
<1>4. s \in Seq(Els) /\ Len(s) = 4 /\ s[1] = b /\ s[2] = d /\ s[3] = e /\ s[4] = f
  BY <1>2, <1>3
<1>5. u \in Seq(Els) /\ Len(u) = 5 /\ u[1] = a /\ u[2] = b /\ u[3] = d /\ u[4] = e /\ u[5] = f
  <2>1. /\ <<a>> \o s \in Seq(Els) /\ Len(<<a>> \o s) = Len(s) + 1 /\ (<<a>> \o s)[1] = a
        /\ \A i \in 1 .. Len(s) : (<<a>> \o s)[i + 1] = s[i]
    <3>1. s \in Seq(Els) /\ a \in Els
      BY <1>2, <1>4
    <3>2. QED
      BY <3>1, ConsIs
  <2>2. u \in Seq(Els) /\ Len(u) = 5 /\ u[1] = a /\ \A i \in 1 .. 4 : u[i + 1] = s[i]
    BY <1>3, <1>4, <2>1
  <2>3. u[1 + 1] = s[1] /\ u[2 + 1] = s[2] /\ u[3 + 1] = s[3] /\ u[4 + 1] = s[4]
    BY <2>2
  <2>4. QED
    BY <1>4, <2>2, <2>3
<1>6. PICK v : v = <<a, b, d, e, f>>
  OBVIOUS
<1>7. v \in Seq(Els) /\ Len(v) = 5 /\ v[1] = a /\ v[2] = b /\ v[3] = d /\ v[4] = e /\ v[5] = f
  BY <1>2, <1>6
<1>8. \A i \in 1 .. Len(v) : v[i] = u[i]
  <2>1. \A i \in 1 .. Len(v) : i = 1 \/ i = 2 \/ i = 3 \/ i = 4 \/ i = 5
    BY <1>7
  <2>2. QED
    BY <1>5, <1>7, <2>1
<1>9. v = u
  BY <1>5, <1>7, <1>8, SeqEqual
<1>10. QED
  BY <1>3, <1>6, <1>9

LEMMA Sextuples ==
  ASSUME NEW a, NEW b, NEW d, NEW e, NEW f, NEW g
  PROVE  <<a, b, d, e, f, g>> = <<a>> \o <<b, d, e, f, g>>
<1>1. PICK Els : Els = {a, b, d, e, f, g}
  OBVIOUS
<1>2. a \in Els /\ b \in Els /\ d \in Els /\ e \in Els /\ f \in Els /\ g \in Els
  BY <1>1
<1>3. PICK u, s : u = <<a>> \o <<b, d, e, f, g>> /\ s = <<b, d, e, f, g>>
  OBVIOUS
<1>4. s \in Seq(Els) /\ Len(s) = 5 /\ s[1] = b /\ s[2] = d /\ s[3] = e /\ s[4] = f /\ s[5] = g
  BY <1>2, <1>3
<1>5. u \in Seq(Els) /\ Len(u) = 6 /\ u[1] = a /\ u[2] = b /\ u[3] = d /\ u[4] = e /\ u[5] = f /\ u[6] = g
  <2>1. /\ <<a>> \o s \in Seq(Els) /\ Len(<<a>> \o s) = Len(s) + 1 /\ (<<a>> \o s)[1] = a
        /\ \A i \in 1 .. Len(s) : (<<a>> \o s)[i + 1] = s[i]
    <3>1. s \in Seq(Els) /\ a \in Els
      BY <1>2, <1>4
    <3>2. QED
      BY <3>1, ConsIs
  <2>2. u \in Seq(Els) /\ Len(u) = 6 /\ u[1] = a /\ \A i \in 1 .. 5 : u[i + 1] = s[i]
    BY <1>3, <1>4, <2>1
  <2>3. u[1 + 1] = s[1] /\ u[2 + 1] = s[2] /\ u[3 + 1] = s[3] /\ u[4 + 1] = s[4] /\ u[5 + 1] = s[5]
    BY <2>2
  <2>4. QED
    BY <1>4, <2>2, <2>3
<1>6. PICK v : v = <<a, b, d, e, f, g>>
  OBVIOUS
<1>7. v \in Seq(Els) /\ Len(v) = 6 /\ v[1] = a /\ v[2] = b /\ v[3] = d /\ v[4] = e /\ v[5] = f /\ v[6] = g
  BY <1>2, <1>6
<1>8. \A i \in 1 .. Len(v) : v[i] = u[i]
  <2>1. \A i \in 1 .. Len(v) : i = 1 \/ i = 2 \/ i = 3 \/ i = 4 \/ i = 5 \/ i = 6
    BY <1>7
  <2>2. QED
    BY <1>5, <1>7, <2>1
<1>9. v = u
  BY <1>5, <1>7, <1>8, SeqEqual
<1>10. QED
  BY <1>3, <1>6, <1>9

-----------------------------------------------------------------------------
(* Statements that begin. *)

LEMMA RestOnce ==
  ASSUME NEW td \in Seq(Pendable), NEW r \in Seq(Pendable), NEW s \in Pendable
  PROVE  (r \o <<s>>) \o td = r \o (<<s>> \o td)
<1>1. <<s>> \in Seq(Pendable)
  OBVIOUS
<1>2. QED
  BY <1>1, ConcatAssociative

LEMMA EdgesSame ==
  ASSUME NEW ed, NEW c, NEW h, NEW act
  PROVE  EdgesFrom(ed, ed, c, h, act)
BY DEF EdgesFrom

LEMMA EdgesMore ==
  ASSUME NEW ed, NEW c, NEW h, NEW act, h[Len(c)] = act
  PROVE  EdgesFrom(ed \cup {[at |-> Len(c), locals |-> act]}, ed, c, h, act)
BY DEF EdgesFrom

LEMMA AgreeSame == \A F, n : Agree(F, F, n)
BY DEF Agree

LEMMA PlainStatement ==
  ASSUME NEW td, NEW mk, NEW bs, NEW act, NEW c, NEW ed, NEW Z, NEW l, Drafted(td, mk, bs, act, c, ed, Z, l),
         Head(td) = "Block", NEW r, NEW n \in Nat, n >= act, Leads(r, act, act, n, n)
  PROVE  Drafted(r \o td, mk, bs, act, c, ed \cup {[at |-> Len(c), locals |-> act]}, Z, l)
<1>1. PICK h, MK, BS : Draft(td, mk, bs, act, c, ed, h, MK, BS, Z, l)
  BY DEF Drafted
<1>2. /\ act \in Nat /\ mk \in Seq(MarkType) /\ MK \in [Nat -> MarkType] /\ Stacked(mk, MK)
      /\ bs \in Seq(Nat) /\ BS \in [Nat -> Nat] /\ Stacked(bs, BS)
      /\ Len(mk) \in Nat /\ Len(bs) \in Nat
      /\ Grown(c, h, c, h, Open(MK, Len(mk)), Z, Len(c), h[Len(c)])
  BY <1>1, DraftIs
<1>3. h[Len(c)] = act /\ Plan(td, At4(n, n, Len(mk), Len(bs)), MK, BS, c, h, Z)
  <2>1. h[Len(c)] = act /\ \A i \in Nat : i >= act => Plan(td, At4(i, i, Len(mk), Len(bs)), MK, BS, c, h, Z)
    BY <1>1, BlockHead
  <2>2. QED
    BY <2>1
<1>4. Plan(r \o td, At4(act, act, Len(mk), Len(bs)), MK, BS, c, h, Z)
  BY <1>2, <1>3 DEF Leads
<1>5. PICK ed2 : ed2 = ed \cup {[at |-> Len(c), locals |-> act]}
  OBVIOUS
<1>6. EdgesFrom(ed2, ed, c, h, act)
  BY <1>3, <1>5, EdgesMore
<1>7. Grown(c, h, c, h, Open(MK, Len(mk)), Z, Len(c), act) /\ Open(MK, Len(mk)) \subseteq Open(MK, Len(mk))
  BY <1>2, <1>3
<1>8. Drafted(r \o td, mk, bs, act, c, ed2, Z, l)
  BY <1>1, <1>2, <1>4, <1>6, <1>7, Redraft
<1>9. QED
  BY <1>5, <1>8

\* What a mark made at the start of a statement or an operator is good for.
Ready(s, y, a, k, c, act) ==
  /\ s \in Closes /\ y \in Int /\ a \in Nat /\ k \in MarkType
  /\ \A h, Z, m, b : Begun(c, h, Len(c), act) => CanClose(s, y, a, m, b, k, c, h, Z)

LEMMA EnterStatement ==
  ASSUME NEW td, NEW mk, NEW bs, NEW act, NEW c, NEW ed, NEW Z, NEW l, Drafted(td, mk, bs, act, c, ed, Z, l),
         Head(td) = "Block", NEW r \in Seq(Pendable), NEW s, NEW y, NEW a, NEW k, Ready(s, y, a, k, c, act),
         CloseH(s, y, a, k) = act, CloseA(s, a, k) = act, Leads(r, act, act, y, a)
  PROVE  Drafted((r \o <<s>>) \o td, <<k>> \o mk, bs, act, c, ed \cup {[at |-> Len(c), locals |-> act]}, Z, l)
<1>1. PICK h, MK, BS : Draft(td, mk, bs, act, c, ed, h, MK, BS, Z, l)
  BY DEF Drafted
<1>2. /\ act \in Nat /\ mk \in Seq(MarkType) /\ MK \in [Nat -> MarkType] /\ Stacked(mk, MK)
      /\ bs \in Seq(Nat) /\ BS \in [Nat -> Nat] /\ Stacked(bs, BS)
      /\ c \in Seq(ByteType) /\ Len(c) \in Nat /\ Len(mk) \in Nat /\ Len(bs) \in Nat
      /\ Grown(c, h, c, h, Open(MK, Len(mk)), Z, Len(c), h[Len(c)])
      /\ td \in Seq(Pendable)
  BY <1>1, DraftIs
<1>3. h[Len(c)] = act /\ Plan(td, At4(act, act, Len(mk), Len(bs)), MK, BS, c, h, Z)
  <2>1. h[Len(c)] = act /\ \A i \in Nat : i >= act => Plan(td, At4(i, i, Len(mk), Len(bs)), MK, BS, c, h, Z)
    BY <1>1, BlockHead
  <2>2. act \in Nat /\ act >= act
    BY <1>2
  <2>3. QED
    BY <2>1, <2>2
<1>4. s \in Closes /\ y \in Int /\ a \in Nat /\ k \in MarkType /\ s \in Pendable
  BY ClosesIs DEF Ready
<1>5. PICK n, mk2 : n = Len(mk) + 1 /\ mk2 = <<k>> \o mk
  OBVIOUS
<1>6. PICK MK2 : NewTop(mk2, n, k, MK, MK2)
  <2>1. \E MK2 : NewTop(<<k>> \o mk, Len(mk) + 1, k, MK, MK2)
    BY <1>2, <1>4, Entering
  <2>2. QED
    BY <1>5, <2>1
<1>7. n \in Nat /\ n >= 1 /\ n - 1 = Len(mk)
  BY <1>2, <1>5
<1>8. MK2[n] = k /\ Agree(MK2, MK, Len(mk))
  BY <1>6, <1>7 DEF NewTop
<1>9. Plan(td, At4(act, act, n - 1, Len(bs)), MK2, BS, c, h, Z)
  <2>1. PICK v : v = At4(act, act, Len(mk), Len(bs))
    OBVIOUS
  <2>2. v.m = Len(mk) /\ Plan(td, v, MK, BS, c, h, Z)
    BY <1>3, <2>1 DEF At4
  <2>3. Agree(MK2, MK, v.m) /\ Agree(BS, BS, v.b) /\ Z \subseteq Z /\ Extended(c, h, c, h)
    BY <1>2, <1>8, <2>2, AgreeSame, ExtendedSame
  <2>4. Plan(td, v, MK2, BS, c, h, Z)
    BY <1>2, <2>2, <2>3, PlanMoves
  <2>5. QED
    BY <1>7, <2>1, <2>4
<1>10. CanClose(s, y, a, n, Len(bs), MK2[n], c, h, Z)
  <2>1. Begun(c, h, Len(c), act)
    BY <1>2, <1>3 DEF Begun, Point
  <2>2. QED
    BY <1>8, <2>1 DEF Ready
<1>11. Plan(<<s>> \o td, At4(y, a, n, Len(bs)), MK2, BS, c, h, Z)
  <2>1. Plan(td, At4(CloseH(s, y, a, MK2[n]), CloseA(s, a, MK2[n]), n - 1, Len(bs)), MK2, BS, c, h, Z)
    BY <1>8, <1>9
  <2>2. QED
    BY <1>2, <1>4, <1>7, <1>10, <2>1, PushCloser
<1>12. Plan(r \o (<<s>> \o td), At4(act, act, n, Len(bs)), MK2, BS, c, h, Z)
  BY <1>2, <1>7, <1>11 DEF Leads
<1>13. PICK td2 : td2 = (r \o <<s>>) \o td
  OBVIOUS
<1>14. Plan(td2, At4(act, act, n, Len(bs)), MK2, BS, c, h, Z)
  BY <1>2, <1>4, <1>12, <1>13, RestOnce
<1>15. PICK ed2 : ed2 = ed \cup {[at |-> Len(c), locals |-> act]}
  OBVIOUS
<1>16. EdgesFrom(ed2, ed, c, h, act)
  BY <1>3, <1>15, EdgesMore
<1>17. Grown(c, h, c, h, Open(MK, Len(mk)), Z, Len(c), act) /\ Open(MK, Len(mk)) \subseteq Open(MK, n - 1) \cup HolesOf(k)
  BY <1>2, <1>3, <1>7
<1>18. Drafted(td2, mk2, bs, act, c, ed2, Z, l)
  BY <1>1, <1>2, <1>6, <1>14, <1>16, <1>17, RedraftTop
<1>19. QED
  BY <1>5, <1>13, <1>15, <1>18

LEMMA RepeatBegins ==
  ASSUME NEW td, NEW mk, NEW bs, NEW act, NEW c, NEW ed, NEW Z, NEW l, Drafted(td, mk, bs, act, c, ed, Z, l),
         Head(td) = "Block", NEW k \in MarkType, k.exit = 0, k.ends = {}, k.start = Len(c)
  PROVE  Drafted(<<"Block", "until">> \o td, <<k>> \o mk, <<act>> \o bs, act, c, ed \cup {[at |-> Len(c), locals |-> act]}, Z, l)
<1>1. PICK h, MK, BS : Draft(td, mk, bs, act, c, ed, h, MK, BS, Z, l)
  BY DEF Drafted
<1>2. /\ act \in Nat /\ mk \in Seq(MarkType) /\ MK \in [Nat -> MarkType] /\ Stacked(mk, MK)
      /\ bs \in Seq(Nat) /\ BS \in [Nat -> Nat] /\ Stacked(bs, BS)
      /\ c \in Seq(ByteType) /\ Len(c) \in Nat /\ Len(mk) \in Nat /\ Len(bs) \in Nat
      /\ Grown(c, h, c, h, Open(MK, Len(mk)), Z, Len(c), h[Len(c)])
      /\ td \in Seq(Pendable)
  BY <1>1, DraftIs
<1>3. h[Len(c)] = act /\ Plan(td, At4(act, act, Len(mk), Len(bs)), MK, BS, c, h, Z)
  <2>1. h[Len(c)] = act /\ \A i \in Nat : i >= act => Plan(td, At4(i, i, Len(mk), Len(bs)), MK, BS, c, h, Z)
    BY <1>1, BlockHead
  <2>2. act \in Nat /\ act >= act
    BY <1>2
  <2>3. QED
    BY <2>1, <2>2
<1>4. PICK n, mk2, j, bs2 : n = Len(mk) + 1 /\ mk2 = <<k>> \o mk /\ j = Len(bs) + 1 /\ bs2 = <<act>> \o bs
  OBVIOUS
<1>5. PICK MK2 : NewTop(mk2, n, k, MK, MK2)
  <2>1. \E MK2 : NewTop(<<k>> \o mk, Len(mk) + 1, k, MK, MK2)
    BY <1>2, Entering
  <2>2. QED
    BY <1>4, <2>1
<1>6. PICK BS2 : NewBase(bs2, j, act, BS, BS2)
  <2>1. \E BS2 : NewBase(<<act>> \o bs, Len(bs) + 1, act, BS, BS2)
    BY <1>2, OpeningBase
  <2>2. QED
    BY <1>4, <2>1
<1>7. n \in Nat /\ n >= 1 /\ n - 1 = Len(mk) /\ j \in Nat /\ j >= 1 /\ j - 1 = Len(bs)
  <2>1. n = Len(mk) + 1 /\ j = Len(bs) + 1
    BY <1>4
  <2>2. Len(mk) \in Nat /\ Len(bs) \in Nat
    BY <1>2
  <2>3. QED
    BY <2>1, <2>2
<1>8. MK2[n] = k /\ Agree(MK2, MK, Len(mk)) /\ BS2[j] = act /\ Agree(BS2, BS, Len(bs))
  BY <1>5, <1>6, <1>7 DEF NewTop, NewBase
<1>9. Plan(td, At4(act, act, n - 1, Len(bs)), MK2, BS2, c, h, Z)
  <2>1. PICK v : v = At4(act, act, Len(mk), Len(bs))
    OBVIOUS
  <2>2. v.m = Len(mk) /\ v.b = Len(bs) /\ Plan(td, v, MK, BS, c, h, Z)
    BY <1>3, <2>1 DEF At4
  <2>3. Agree(MK2, MK, v.m) /\ Agree(BS2, BS, v.b) /\ Z \subseteq Z /\ Extended(c, h, c, h)
    BY <1>2, <1>8, <2>2, ExtendedSame
  <2>4. Plan(td, v, MK2, BS2, c, h, Z)
    BY <1>2, <2>2, <2>3, PlanMoves
  <2>5. QED
    BY <1>7, <2>1, <2>4
<1>10. CanClose("until", act, act, n, Len(bs), k, c, h, Z)
  <2>1. Begun(c, h, Len(c), act)
    BY <1>2, <1>3 DEF Begun, Point
  <2>2. At4(act, act, n, Len(bs)).h = act
    BY DEF At4
  <2>3. Serves("until", At4(act, act, n, Len(bs)), k, c, h, Z)
    BY <2>1, <2>2 DEF Serves
  <2>4. "until" \in Closes /\ Temps("until") = 0
    BY DEF Closes, Temps
  <2>5. QED
    BY <1>2, <2>3, <2>4 DEF CanClose
<1>11. Plan(<<"until">> \o td, At4(act, act, n, Len(bs)), MK2, BS2, c, h, Z)
  <2>1. CloseH("until", act, act, k) = act /\ CloseA("until", act, k) = act
    BY DEF CloseH, CloseA, Counting
  <2>2. Plan(td, At4(CloseH("until", act, act, MK2[n]), CloseA("until", act, MK2[n]), n - 1, Len(bs)), MK2, BS2, c, h, Z)
    BY <1>8, <1>9, <2>1
  <2>3. act \in Int
    BY <1>2
  <2>4. CanClose("until", act, act, n, Len(bs), MK2[n], c, h, Z)
    BY <1>8, <1>10
  <2>5. QED
    BY <1>2, <1>7, <2>2, <2>3, <2>4, PushCloser
<1>12. Plan(<<"Block">> \o (<<"until">> \o td), At4(act, act, n, j), MK2, BS2, c, h, Z)
  <2>1. Plan(<<"until">> \o td, At4(act, act, n, j - 1), MK2, BS2, c, h, Z)
    BY <1>7, <1>11
  <2>2. QED
    BY <1>2, <1>7, <1>8, <2>1, PushBlock
<1>13. PICK td2 : td2 = <<"Block", "until">> \o td
  OBVIOUS
<1>14. Plan(td2, At4(act, act, n, j), MK2, BS2, c, h, Z)
  <2>1. "until" \in Pendable /\ <<"Block">> \in Seq(Pendable)
    BY DEF Pendable
  <2>2. (<<"Block">> \o <<"until">>) \o td = <<"Block">> \o (<<"until">> \o td)
    BY <1>2, <2>1, RestOnce
  <2>3. QED
    BY <1>12, <1>13, <2>2, Pairs
<1>15. PICK ed2 : ed2 = ed \cup {[at |-> Len(c), locals |-> act]}
  OBVIOUS
<1>16. EdgesFrom(ed2, ed, c, h, act)
  BY <1>3, <1>15, EdgesMore
<1>17. Grown(c, h, c, h, Open(MK, Len(mk)), Z, Len(c), act) /\ Open(MK, Len(mk)) \subseteq Open(MK, n - 1) \cup HolesOf(k)
  BY <1>2, <1>3, <1>7
<1>18. Drafted(td2, mk2, bs2, act, c, ed2, Z, l)
  BY <1>1, <1>2, <1>5, <1>6, <1>14, <1>16, <1>17, RedraftBase
<1>19. QED
  BY <1>4, <1>13, <1>15, <1>18

-----------------------------------------------------------------------------
(* A symbol that gives a mark back is processed. *)

LEMMA AtCloser ==
  ASSUME NEW td, NEW mk, NEW bs, NEW act, NEW c, NEW ed, NEW h, NEW MK, NEW BS, NEW Z, NEW l,
         Draft(td, mk, bs, act, c, ed, h, MK, BS, Z, l), Head(td) \in Closes
  PROVE  /\ c \in Seq(ByteType) /\ h \in Heights /\ act \in Nat /\ h[Len(c)] \in Int /\ Len(c) \in Nat
         /\ Len(mk) \in Nat /\ Len(mk) >= 1 /\ Len(bs) \in Nat
         /\ mk # <<>> /\ mk \in Seq(MarkType) /\ Head(mk) \in MarkType
         /\ CanClose(Head(td), h[Len(c)], act, Len(mk), Len(bs), Head(mk), c, h, Z)
         /\ Grown(c, h, c, h, Open(MK, Len(mk) - 1) \cup HolesOf(Head(mk)), Z, Len(c), h[Len(c)])
<1>1. /\ c \in Seq(ByteType) /\ h \in Heights /\ act \in Nat /\ Len(c) \in Nat /\ h[Len(c)] \in Int
      /\ mk \in Seq(MarkType) /\ Len(mk) \in Nat /\ Len(bs) \in Nat
      /\ Grown(c, h, c, h, Open(MK, Len(mk)), Z, Len(c), h[Len(c)])
  BY DraftIs
<1>2. /\ Len(mk) >= 1 /\ mk # <<>> /\ Head(mk) \in MarkType /\ MK[Len(mk)] = Head(mk)
      /\ CanClose(Head(td), h[Len(c)], act, Len(mk), Len(bs), Head(mk), c, h, Z)
  BY CloserHead
<1>3. Open(MK, Len(mk)) = Open(MK, Len(mk) - 1) \cup HolesOf(MK[Len(mk)])
  BY <1>1, <1>2, OpenTop
<1>4. QED
  BY <1>1, <1>2, <1>3

\* The symbol s2 with mark k2 leads where s with mark k does.
Goes(s, y, a, k, s2, y2, a2, k2) ==
  CloseH(s2, y2, a2, k2) = CloseH(s, y, a, k) /\ CloseA(s2, a2, k2) = CloseA(s, a, k)

\* The plan for what is behind the symbol, with more code and another mark on top.
LEMMA BehindCloser ==
  ASSUME NEW td, NEW mk, NEW bs, NEW act, NEW c, NEW ed, NEW h, NEW MK, NEW BS, NEW Z, NEW l,
         Draft(td, mk, bs, act, c, ed, h, MK, BS, Z, l), Head(td) \in Closes,
         NEW d \in Seq(ByteType), NEW g, Extended(c, h, d, g),
         NEW MK2, Agree(MK2, MK, Len(mk) - 1), NEW BS2, Agree(BS2, BS, Len(bs)),
         NEW y, y = CloseH(Head(td), h[Len(c)], act, Head(mk)), NEW a, a = CloseA(Head(td), act, Head(mk))
  PROVE  Plan(Tail(td), At4(y, a, Len(mk) - 1, Len(bs)), MK2, BS2, d, g, Z)
<1>1. PICK v : v = At4(y, a, Len(mk) - 1, Len(bs))
  OBVIOUS
<1>2. v.m = Len(mk) - 1 /\ v.b = Len(bs)
  BY <1>1 DEF At4
<1>3. Plan(Tail(td), At4(CloseH(Head(td), h[Len(c)], act, Head(mk)), CloseA(Head(td), act, Head(mk)), Len(mk) - 1, Len(bs)),
           MK, BS, c, h, Z)
  BY CloserHead
<1>4. Plan(Tail(td), v, MK, BS, c, h, Z) /\ c \in Seq(ByteType)
  BY <1>1, <1>3, DraftIs
<1>5. Agree(MK2, MK, v.m) /\ Agree(BS2, BS, v.b) /\ Z \subseteq Z
  BY <1>2
<1>6. Plan(Tail(td), v, MK2, BS2, d, g, Z)
  BY <1>4, <1>5, PlanMoves
<1>7. QED
  BY <1>1, <1>6

LEMMA LeaveMark ==
  ASSUME NEW td, NEW mk, NEW bs, NEW act, NEW c, NEW ed, NEW h, NEW MK, NEW BS, NEW Z, NEW l,
         Draft(td, mk, bs, act, c, ed, h, MK, BS, Z, l), Head(td) \in Closes,
         NEW d, NEW g, NEW G, NEW y, Grown(c, h, d, g, G, Z, Len(d), y), G \subseteq Open(MK, Len(mk) - 1),
         NEW act2 \in Nat, NEW r,
         Leads(r, y, act2, CloseH(Head(td), h[Len(c)], act, Head(mk)), CloseA(Head(td), act, Head(mk)))
  PROVE  Drafted(r \o Tail(td), Tail(mk), bs, act2, d, ed, Z, l)
<1>1. PICK z, e : z = CloseH(Head(td), h[Len(c)], act, Head(mk)) /\ e = CloseA(Head(td), act, Head(mk))
  OBVIOUS
<1>2. d \in Seq(ByteType) /\ Extended(c, h, d, g)
  BY DEF Grown
<1>3. Plan(Tail(td), At4(z, e, Len(mk) - 1, Len(bs)), MK, BS, d, g, Z)
  BY <1>1, <1>2, AgreeSame, BehindCloser
<1>4. Len(mk) \in Nat /\ Len(mk) >= 1 /\ Len(bs) \in Nat /\ mk # <<>>
  BY AtCloser
<1>5. PICK m \in Nat : m = Len(mk) - 1
  BY <1>4
<1>6. Plan(Tail(td), At4(z, e, m, Len(bs)), MK, BS, d, g, Z) /\ Leads(r, y, act2, z, e)
  BY <1>1, <1>3, <1>5
<1>7. Plan(r \o Tail(td), At4(y, act2, m, Len(bs)), MK, BS, d, g, Z)
  BY <1>4, <1>6 DEF Leads
<1>8. PICK td2 : td2 = r \o Tail(td)
  OBVIOUS
<1>9. Plan(td2, At4(y, act2, Len(mk) - 1, Len(bs)), MK, BS, d, g, Z)
  BY <1>5, <1>7, <1>8
<1>10. Drafted(td2, Tail(mk), bs, act2, d, ed, Z, l)
  BY <1>4, <1>9, RedraftLeave
<1>11. QED
  BY <1>8, <1>10

LEMMA ReplaceMark ==
  ASSUME NEW td, NEW mk, NEW bs, NEW act, NEW c, NEW ed, NEW h, NEW MK, NEW BS, NEW Z, NEW l,
         Draft(td, mk, bs, act, c, ed, h, MK, BS, Z, l), Head(td) \in Closes,
         NEW d, NEW g, NEW G, NEW y, Grown(c, h, d, g, G, Z, Len(d), y),
         NEW k \in MarkType, G \subseteq Open(MK, Len(mk) - 1) \cup HolesOf(k),
         NEW act2 \in Nat, NEW r \in Seq(Pendable), NEW s, NEW z \in Int, NEW e \in Nat,
         Leads(r, y, act2, z, e),
         CanClose(s, z, e, Len(mk), Len(bs), k, d, g, Z),
         Goes(Head(td), h[Len(c)], act, Head(mk), s, z, e, k)
  PROVE  Drafted((r \o <<s>>) \o Tail(td), <<k>> \o Tail(mk), bs, act2, d, ed, Z, l)
<1>1. /\ mk \in Seq(MarkType) /\ MK \in [Nat -> MarkType] /\ Stacked(mk, MK)
      /\ Len(mk) \in Nat /\ Len(bs) \in Nat /\ td \in Seq(Pendable) /\ td # <<>>
  BY DraftIs
<1>2. Len(mk) >= 1 /\ mk # <<>>
  BY AtCloser
<1>3. PICK n, mk2 : n = Len(mk) /\ mk2 = <<k>> \o Tail(mk)
  OBVIOUS
<1>4. PICK MK2 : NewTop(mk2, n, k, MK, MK2)
  <2>1. \E MK2 : NewTop(<<k>> \o Tail(mk), Len(mk), k, MK, MK2)
    BY <1>1, <1>2, Updating
  <2>2. QED
    BY <1>3, <2>1
<1>5. MK2[n] = k /\ Agree(MK2, MK, Len(mk) - 1) /\ n \in Nat /\ n >= 1
  BY <1>3, <1>4 DEF NewTop
<1>6. PICK zz, ee : zz = CloseH(Head(td), h[Len(c)], act, Head(mk)) /\ ee = CloseA(Head(td), act, Head(mk))
  OBVIOUS
<1>7. d \in Seq(ByteType) /\ Extended(c, h, d, g)
  BY DEF Grown
<1>8. Plan(Tail(td), At4(zz, ee, n - 1, Len(bs)), MK2, BS, d, g, Z)
  <2>1. Plan(Tail(td), At4(zz, ee, Len(mk) - 1, Len(bs)), MK2, BS, d, g, Z)
    BY <1>5, <1>6, <1>7, AgreeSame, BehindCloser
  <2>2. QED
    BY <1>3, <2>1
<1>9. CloseH(s, z, e, MK2[n]) = zz /\ CloseA(s, e, MK2[n]) = ee /\ CanClose(s, z, e, n, Len(bs), MK2[n], d, g, Z)
  BY <1>3, <1>5, <1>6 DEF Goes
<1>10. Plan(<<s>> \o Tail(td), At4(z, e, n, Len(bs)), MK2, BS, d, g, Z)
  <2>1. Plan(Tail(td), At4(CloseH(s, z, e, MK2[n]), CloseA(s, e, MK2[n]), n - 1, Len(bs)), MK2, BS, d, g, Z)
    BY <1>8, <1>9
  <2>2. QED
    BY <1>1, <1>5, <1>9, <2>1, PushCloser
<1>11. Plan(r \o (<<s>> \o Tail(td)), At4(y, act2, n, Len(bs)), MK2, BS, d, g, Z)
  BY <1>1, <1>5, <1>10 DEF Leads
<1>12. PICK td2 : td2 = (r \o <<s>>) \o Tail(td)
  OBVIOUS
<1>13. Plan(td2, At4(y, act2, n, Len(bs)), MK2, BS, d, g, Z)
  <2>1. s \in Pendable
    BY ClosesIs DEF CanClose
  <2>2. Tail(td) \in Seq(Pendable)
    BY <1>1, TailIs
  <2>3. QED
    BY <1>11, <1>12, <2>1, <2>2, RestOnce
<1>14. EdgesFrom(ed, ed, c, h, act) /\ G \subseteq Open(MK, n - 1) \cup HolesOf(k)
  BY <1>3, EdgesSame
<1>15. Drafted(td2, mk2, bs, act2, d, ed, Z, l)
  BY <1>4, <1>13, <1>14, RedraftTop
<1>16. QED
  BY <1>3, <1>12, <1>15

\* The same, and a block opens.
LEMMA ReplaceOpening ==
  ASSUME NEW td, NEW mk, NEW bs, NEW act, NEW c, NEW ed, NEW h, NEW MK, NEW BS, NEW Z, NEW l,
         Draft(td, mk, bs, act, c, ed, h, MK, BS, Z, l), Head(td) \in Closes,
         NEW d, NEW g, NEW G, NEW y \in Nat, Grown(c, h, d, g, G, Z, Len(d), y),
         NEW k \in MarkType, G \subseteq Open(MK, Len(mk) - 1) \cup HolesOf(k),
         NEW s, CanClose(s, y, y, Len(mk), Len(bs), k, d, g, Z),
         Goes(Head(td), h[Len(c)], act, Head(mk), s, y, y, k)
  PROVE  Drafted(<<"Block", s>> \o Tail(td), <<k>> \o Tail(mk), <<y>> \o bs, y, d, ed, Z, l)
<1>1. /\ mk \in Seq(MarkType) /\ MK \in [Nat -> MarkType] /\ Stacked(mk, MK)
      /\ bs \in Seq(Nat) /\ BS \in [Nat -> Nat] /\ Stacked(bs, BS)
      /\ Len(mk) \in Nat /\ Len(bs) \in Nat /\ td \in Seq(Pendable) /\ td # <<>>
  BY DraftIs
<1>2. Len(mk) >= 1 /\ mk # <<>>
  BY AtCloser
<1>3. PICK n, mk2 : n = Len(mk) /\ mk2 = <<k>> \o Tail(mk)
  OBVIOUS
<1>4. PICK MK2 : NewTop(mk2, n, k, MK, MK2)
  <2>1. \E MK2 : NewTop(<<k>> \o Tail(mk), Len(mk), k, MK, MK2)
    BY <1>1, <1>2, Updating
  <2>2. QED
    BY <1>3, <2>1
<1>5. MK2[n] = k /\ Agree(MK2, MK, Len(mk) - 1) /\ n \in Nat /\ n >= 1
  BY <1>3, <1>4 DEF NewTop
<1>21. PICK j, bs2 : j = Len(bs) + 1 /\ bs2 = <<y>> \o bs
  OBVIOUS
<1>22. PICK BS2 : NewBase(bs2, j, y, BS, BS2)
  <2>1. \E BS2 : NewBase(<<y>> \o bs, Len(bs) + 1, y, BS, BS2)
    BY <1>1, OpeningBase
  <2>2. QED
    BY <1>21, <2>1
<1>23. j \in Nat /\ j >= 1 /\ j - 1 = Len(bs)
  <2>1. Len(bs) \in Nat
    BY <1>1
  <2>2. QED
    BY <1>21, <2>1
<1>24. BS2[j] = y /\ Agree(BS2, BS, Len(bs))
  BY <1>22, <1>23 DEF NewBase
<1>6. PICK zz, ee : zz = CloseH(Head(td), h[Len(c)], act, Head(mk)) /\ ee = CloseA(Head(td), act, Head(mk))
  OBVIOUS
<1>7. d \in Seq(ByteType) /\ Extended(c, h, d, g)
  BY DEF Grown
<1>8. Plan(Tail(td), At4(zz, ee, n - 1, Len(bs)), MK2, BS2, d, g, Z)
  <2>1. Plan(Tail(td), At4(zz, ee, Len(mk) - 1, Len(bs)), MK2, BS2, d, g, Z)
    BY <1>5, <1>6, <1>7, <1>24, BehindCloser
  <2>2. QED
    BY <1>3, <2>1
<1>9. CloseH(s, y, y, MK2[n]) = zz /\ CloseA(s, y, MK2[n]) = ee /\ CanClose(s, y, y, n, Len(bs), MK2[n], d, g, Z)
  BY <1>3, <1>5, <1>6 DEF Goes
<1>10. Plan(<<s>> \o Tail(td), At4(y, y, n, Len(bs)), MK2, BS2, d, g, Z)
  <2>1. Plan(Tail(td), At4(CloseH(s, y, y, MK2[n]), CloseA(s, y, MK2[n]), n - 1, Len(bs)), MK2, BS2, d, g, Z)
    BY <1>8, <1>9
  <2>2. y \in Int
    OBVIOUS
  <2>3. QED
    BY <1>1, <1>5, <1>9, <2>1, <2>2, PushCloser
<1>11. Plan(<<"Block">> \o (<<s>> \o Tail(td)), At4(y, y, n, j), MK2, BS2, d, g, Z)
  <2>1. Plan(<<s>> \o Tail(td), At4(y, y, n, j - 1), MK2, BS2, d, g, Z)
    BY <1>10, <1>23
  <2>2. QED
    BY <1>5, <1>23, <1>24, <2>1, PushBlock
<1>12. PICK td2 : td2 = <<"Block", s>> \o Tail(td)
  OBVIOUS
<1>13. Plan(td2, At4(y, y, n, j), MK2, BS2, d, g, Z)
  <2>1. s \in Pendable /\ <<"Block">> \in Seq(Pendable)
    <3>1. s \in Pendable
      BY ClosesIs DEF CanClose
    <3>2. "Block" \in Pendable
      BY DEF Pendable
    <3>3. QED
      BY <3>1, <3>2
  <2>2. Tail(td) \in Seq(Pendable)
    BY <1>1, TailIs
  <2>3. (<<"Block">> \o <<s>>) \o Tail(td) = <<"Block">> \o (<<s>> \o Tail(td))
    BY <2>1, <2>2, RestOnce
  <2>4. QED
    BY <1>11, <1>12, <2>3, Pairs
<1>14. EdgesFrom(ed, ed, c, h, act) /\ G \subseteq Open(MK, n - 1) \cup HolesOf(k)
  BY <1>3, EdgesSame
<1>15. Drafted(td2, mk2, bs2, y, d, ed, Z, l)
  BY <1>4, <1>13, <1>14, <1>22, RedraftBase
<1>16. QED
  BY <1>3, <1>12, <1>15, <1>21

-----------------------------------------------------------------------------
(* and, or. *)

LEMMA HolesNone ==
  ASSUME NEW k, k.exit = 0, k.ends = {}
  PROVE  HolesOf(k) = {}
BY DEF HolesOf

LEMMA HolesExit ==
  ASSUME NEW k, k.ends = {}, NEW x, k.exit = x, x # 0
  PROVE  HolesOf(k) = {x}
BY DEF HolesOf

LEMMA EnterOperator ==
  ASSUME NEW td, NEW mk, NEW bs, NEW act, NEW c, NEW ed, NEW Z, NEW l, Drafted(td, mk, bs, act, c, ed, Z, l),
         Head(td) = "Expr", NEW s \in {"and2", "or2"}, NEW k \in MarkType, k.exit = 0, k.ends = {}
  PROVE  Drafted(<<"Expr", s>> \o Tail(td), <<k>> \o mk, bs, act, c, ed, Z, l)
<1>1. PICK h, MK, BS : Draft(td, mk, bs, act, c, ed, h, MK, BS, Z, l)
  BY DEF Drafted
<1>2. /\ act \in Nat /\ mk \in Seq(MarkType) /\ MK \in [Nat -> MarkType] /\ Stacked(mk, MK)
      /\ bs \in Seq(Nat) /\ BS \in [Nat -> Nat] /\ Stacked(bs, BS)
      /\ c \in Seq(ByteType) /\ Len(c) \in Nat /\ Len(mk) \in Nat /\ Len(bs) \in Nat /\ h[Len(c)] \in Int
      /\ Grown(c, h, c, h, Open(MK, Len(mk)), Z, Len(c), h[Len(c)])
      /\ td \in Seq(Pendable) /\ td # <<>>
  BY <1>1, DraftIs
<1>3. PICK x : x = h[Len(c)]
  OBVIOUS
<1>20. x \in Int /\ act \in Nat /\ Len(mk) \in Nat /\ Len(bs) \in Nat
  BY <1>2, <1>3
<1>4. PICK w \in View : /\ Fits("Expr", At4(x, act, Len(mk), Len(bs)), w, MK[Len(mk)], BS[Len(bs)], c, h, Z)
                        /\ Plan(Tail(td), w, MK, BS, c, h, Z)
  <2>1. Head(td) # "end"
    OBVIOUS
  <2>2. \E w \in View : /\ Fits(Head(td), At4(h[Len(c)], act, Len(mk), Len(bs)), w, MK[Len(mk)], BS[Len(bs)], c, h, Z)
                        /\ Plan(Tail(td), w, MK, BS, c, h, Z)
    BY <1>1, <2>1, DraftHead
  <2>3. QED
    BY <1>3, <2>2
<1>5. x >= act /\ w = At4(x + 1, act, Len(mk), Len(bs))
  <2>1. PICK v : v = At4(x, act, Len(mk), Len(bs))
    OBVIOUS
  <2>2. v.h = x /\ v.a = act /\ v.m = Len(mk) /\ v.b = Len(bs)
    BY <2>1 DEF At4
  <2>3. v.h >= v.a + Temps("Expr") /\ w = Afterwards("Expr", v, MK[Len(mk)], BS[Len(bs)])
    BY <1>4, <2>1 DEF Fits
  <2>4. Temps("Expr") = 0
    BY DEF Temps
  <2>5. Afterwards("Expr", v, MK[Len(mk)], BS[Len(bs)]) = At4(v.h + 1, v.a, v.m, v.b)
    BY DEF Afterwards, AfterH, AfterA, Closes, Counting
  <2>6. QED
    <3>1. v.h >= v.a + 0 /\ w = At4(v.h + 1, v.a, v.m, v.b)
      BY <2>3, <2>4, <2>5
    <3>2. x >= act + 0 /\ w = At4(x + 1, act, Len(mk), Len(bs))
      BY <2>2, <3>1
    <3>3. QED
      BY <1>20, <3>2
<1>6. PICK n, mk2 : n = Len(mk) + 1 /\ mk2 = <<k>> \o mk
  OBVIOUS
<1>7. PICK MK2 : NewTop(mk2, n, k, MK, MK2)
  <2>1. \E MK2 : NewTop(<<k>> \o mk, Len(mk) + 1, k, MK, MK2)
    BY <1>2, Entering
  <2>2. QED
    BY <1>6, <2>1
<1>8. n \in Nat /\ n >= 1 /\ n - 1 = Len(mk)
  <2>1. n = Len(mk) + 1
    BY <1>6
  <2>2. QED
    BY <1>20, <2>1
<1>9. MK2[n] = k /\ Agree(MK2, MK, Len(mk))
  BY <1>7, <1>8 DEF NewTop
<1>10. PICK y \in Int : y = x + 1
  BY <1>20
<1>11. Plan(Tail(td), At4(y, act, n - 1, Len(bs)), MK2, BS, c, h, Z)
  <2>1. PICK v : v = At4(y, act, Len(mk), Len(bs))
    OBVIOUS
  <2>2. v.m = Len(mk) /\ Plan(Tail(td), v, MK, BS, c, h, Z)
    BY <1>4, <1>5, <1>10, <2>1 DEF At4
  <2>3. Agree(MK2, MK, v.m) /\ Agree(BS, BS, v.b) /\ Z \subseteq Z /\ Extended(c, h, c, h)
    BY <1>2, <1>9, <2>2, AgreeSame, ExtendedSame
  <2>4. Plan(Tail(td), v, MK2, BS, c, h, Z)
    BY <1>2, <2>2, <2>3, PlanMoves
  <2>5. QED
    BY <1>8, <2>1, <2>4
<1>12. CanClose(s, y, act, n, Len(bs), MK2[n], c, h, Z)
  <2>1. Serves(s, At4(y, act, n, Len(bs)), k, c, h, Z)
    BY DEF Serves
  <2>2. s \in Closes /\ Temps(s) = 1
    BY DEF Closes, Temps
  <2>3. y >= act + Temps(s)
    <3>1. x >= act /\ y = x + 1
      BY <1>5, <1>10
    <3>2. QED
      BY <1>20, <2>2, <3>1
  <2>4. QED
    BY <1>9, <2>1, <2>2, <2>3 DEF CanClose
<1>13. Plan(<<s>> \o Tail(td), At4(y, act, n, Len(bs)), MK2, BS, c, h, Z)
  <2>1. CloseH(s, y, act, MK2[n]) = y /\ CloseA(s, act, MK2[n]) = act
    BY DEF CloseH, CloseA, Counting
  <2>2. Plan(Tail(td), At4(CloseH(s, y, act, MK2[n]), CloseA(s, act, MK2[n]), n - 1, Len(bs)), MK2, BS, c, h, Z)
    BY <1>11, <2>1
  <2>3. QED
    BY <1>2, <1>8, <1>12, <2>2, PushCloser
<1>14. Plan(<<"Expr">> \o (<<s>> \o Tail(td)), At4(x, act, n, Len(bs)), MK2, BS, c, h, Z)
  <2>1. EasyStep("Expr", x, act, y, act)
    <3>1. x >= act => EasyStep("Expr", x, act, x + 1, act)
      BY <1>20, Steps
    <3>2. QED
      BY <1>5, <1>10, <3>1
  <2>2. Leads(<<"Expr">>, x, act, y, act)
    BY <2>1, LeadsOne
  <2>3. QED
    BY <1>2, <1>8, <1>13, <2>2 DEF Leads
<1>15. PICK td2 : td2 = <<"Expr", s>> \o Tail(td)
  OBVIOUS
<1>16. Plan(td2, At4(x, act, n, Len(bs)), MK2, BS, c, h, Z)
  <2>1. s \in Pendable /\ <<"Expr">> \in Seq(Pendable)
    <3>1. s \in Pendable /\ "Expr" \in Pendable
      BY DEF Pendable
    <3>2. QED
      BY <3>1
  <2>2. Tail(td) \in Seq(Pendable)
    BY <1>2, TailIs
  <2>3. (<<"Expr">> \o <<s>>) \o Tail(td) = <<"Expr">> \o (<<s>> \o Tail(td))
    BY <2>1, <2>2, RestOnce
  <2>4. QED
    BY <1>14, <1>15, <2>3, Pairs
<1>17. Grown(c, h, c, h, Open(MK, Len(mk)), Z, Len(c), x) /\ Open(MK, Len(mk)) \subseteq Open(MK, n - 1) \cup HolesOf(k)
  BY <1>2, <1>3, <1>8
<1>18. Drafted(td2, mk2, bs, act, c, ed, Z, l)
  BY <1>1, <1>2, <1>7, <1>16, <1>17, EdgesSame, RedraftTop
<1>19. QED
  BY <1>6, <1>15, <1>18

-----------------------------------------------------------------------------
(* The emission, one piece at a time: e, with heights f and y values at its  *)
(* end, is d and more, and both go on from c.                               *)

Onward(e, f, y, d, g, c, h, G, Z) ==
  /\ Grown(c, h, e, f, G, Z, Len(e), y) /\ Extended(d, g, e, f)
  /\ e \in Seq(ByteType) /\ f \in Heights /\ d \in Seq(ByteType) /\ Len(d) \in Nat

LEMMA OnwardOf ==
  ASSUME NEW c, NEW h, NEW d, NEW g, NEW H, NEW Z, NEW x, Grown(c, h, d, g, H, Z, Len(d), x),
         NEW e, NEW k, NEW G, NEW y, Furthered(e, k, c, h, d, g, G, Z, y)
  PROVE  \E f : Onward(e, f, y, d, g, c, h, G, Z)
<1>1. PICK f : Grown(c, h, e, f, G, Z, Len(e), y) /\ Extended(d, g, e, f)
  BY DEF Furthered
<1>2. d \in Seq(ByteType) /\ e \in Seq(ByteType) /\ f \in Heights
  BY <1>1 DEF Grown
<1>3. Len(d) \in Nat
  BY <1>2, LenProperties
<1>4. Onward(e, f, y, d, g, c, h, G, Z)
  BY <1>1, <1>2, <1>3 DEF Onward
<1>5. QED
  BY <1>4

LEMMA AddOne ==
  ASSUME NEW c \in Seq(ByteType), NEW h \in Heights, NEW d, NEW g, NEW G, NEW Z, NEW x \in Int,
         Grown(c, h, d, g, G, Z, Len(d), x),
         NEW op \in Op, op \notin Jumps, NEW n \in Int, Worded(op, n), NEW t \in Nat, NEW l \in Nat,
         Takes(op) > 0 => x - Takes(op) >= l,
         NEW y, y = x + Change(op), NEW e, e = d \o Instr(op, n, t, l)
  PROVE  \E f : Onward(e, f, y, d, g, c, h, G, Z)
<1>1. Furthered(d \o Instr(op, n, t, l), Size(op), c, h, d, g, G, Z, x + Change(op))
  BY Further
<1>2. Furthered(e, Size(op), c, h, d, g, G, Z, y)
  BY <1>1
<1>3. QED
  BY <1>2, OnwardOf

\* A jump forward, whose operand is at p.
Holed(e, f, y, d, g, c, h, G, Z, p) ==
  Onward(e, f, y, d, g, c, h, G \cup {p}, Z) /\ Waits(e, f, Z, p, y) /\ p \in Nat /\ p >= 1 /\ p = Len(d) + 1 /\ Len(e) = p + 2

LEMMA AddHole ==
  ASSUME NEW c \in Seq(ByteType), NEW h \in Heights, NEW d, NEW g, NEW G, NEW Z, NEW x \in Int,
         Grown(c, h, d, g, G, Z, Len(d), x),
         NEW op \in Jumps, NEW t \in Nat, NEW l \in Nat, op = "JUMPIFFALSE" => x - 1 >= l,
         NEW y, y = x + Change(op), NEW e, e = d \o Instr(op, 0, t, l), NEW p, p = Len(d) + 1
  PROVE  \E f : /\ Holed(e, f, y, d, g, c, h, G, Z, p)
                /\ op = "JUMPIFFALSE" /\ t \in Z => \A z : Waits(e, f, Z, p, z)
<1>1. Furthered(d \o Instr(op, 0, t, l), 3, c, h, d, g, G \cup {Len(d) + 1}, Z, x + Change(op))
  BY FurtherHole
<1>2. Furthered(e, 3, c, h, d, g, G \cup {p}, Z, y)
  BY <1>1
<1>3. PICK f : Onward(e, f, y, d, g, c, h, G \cup {p}, Z)
  BY <1>2, OnwardOf
<1>4. d \in Seq(ByteType) /\ g \in Heights /\ g[Len(d)] = x /\ Extended(d, g, e, f) /\ Len(d) \in Nat
  BY <1>3 DEF Grown, Onward
<1>5. op \in Op /\ Instr(op, 0, t, l) \in Seq(ByteType)
  <2>1. op \in Op
    BY OpFacts
  <2>2. IsInstr(Instr(op, 0, t, l), op, 0, t, l)
    BY <2>1, InstrIs
  <2>3. QED
    BY <2>1, <2>2 DEF IsInstr
<1>6. IsAppended(e, d, Instr(op, 0, t, l))
  BY <1>4, <1>5, AppendedIs
<1>7. /\ Waits(e, f, Z, Len(d) + 1, g[Len(d)] + Change(op))
      /\ op = "JUMPIFFALSE" /\ t \in Z => \A z : Waits(e, f, Z, Len(d) + 1, z)
  BY <1>4, <1>6, HoleWaits
<1>8. Waits(e, f, Z, p, y) /\ (op = "JUMPIFFALSE" /\ t \in Z => \A z : Waits(e, f, Z, p, z))
  BY <1>4, <1>7
<1>9. p \in Nat /\ p >= 1
  BY <1>4
<1>10. Len(e) = p + 2
  <2>1. Len(e) = Len(d) + 3
    BY <1>2 DEF Furthered
  <2>2. QED
    BY <1>4, <2>1
<1>11. Holed(e, f, y, d, g, c, h, G, Z, p)
  BY <1>3, <1>8, <1>9, <1>10 DEF Holed
<1>12. QED
  BY <1>8, <1>11

LEMMA AddPatch ==
  ASSUME NEW c \in Seq(ByteType), NEW h \in Heights, NEW d, NEW g, NEW G, NEW Z, NEW x \in Int,
         Grown(c, h, d, g, G, Z, Len(d), x), NEW p, Waits(d, g, Z, p, x), NEW e, e = Patched(d, p, Len(d))
  PROVE  \E f : Onward(e, f, x, d, g, c, h, G \ {p}, Z)
<1>1. Furthered(e, 0, c, h, d, g, G \ {p}, Z, x)
  BY FurtherPatch
<1>2. QED
  BY <1>1, OnwardOf

LEMMA AddPatches ==
  ASSUME NEW c \in Seq(ByteType), NEW h \in Heights, NEW d, NEW g, NEW G, NEW Z, NEW x \in Int,
         Grown(c, h, d, g, G, Z, Len(d), x), NEW ps, \A p \in ps : Waits(d, g, Z, p, x), NEW e, e = PatchedAll(d, ps)
  PROVE  \E f : Onward(e, f, x, d, g, c, h, G \ ps, Z)
<1>1. Furthered(e, 0, c, h, d, g, G \ ps, Z, x)
  BY FurtherPatched
<1>2. QED
  BY <1>1, OnwardOf

LEMMA AddBack ==
  ASSUME NEW c \in Seq(ByteType), NEW h \in Heights, NEW d, NEW g, NEW G, NEW Z, NEW x \in Int,
         Grown(c, h, d, g, G, Z, Len(d), x),
         NEW op \in Jumps, NEW t \in Nat, NEW l \in Nat, op = "JUMPIFFALSE" => x - 1 >= l,
         NEW y, y = x + Change(op), NEW r \in Nat, Begun(c, h, r, y),
         NEW e, e = d \o Instr(op, Offset(Len(d) + 1, r), t, l)
  PROVE  \E f : Onward(e, f, y, d, g, c, h, G, Z)
<1>1. Begun(c, h, r, x + Change(op))
  OBVIOUS
<1>2. Furthered(d \o Instr(op, Offset(Len(d) + 1, r), t, l), 3, c, h, d, g, G, Z, x + Change(op))
  BY <1>1, FurtherBack
<1>3. Furthered(e, 3, c, h, d, g, G, Z, y)
  BY <1>2
<1>4. QED
  BY <1>3, OnwardOf

LEMMA AddMany ==
  ASSUME NEW c \in Seq(ByteType), NEW h \in Heights, NEW d, NEW g, NEW G, NEW Z, NEW x \in Int,
         Grown(c, h, d, g, G, Z, Len(d), x),
         NEW op \in {"POP", "LOADNIL"}, NEW t \in Nat, NEW l \in Nat, NEW n \in Int,
         op = "POP" /\ n > 0 => x - n >= l,
         NEW y, y = x + RowChange(op, n), NEW e, e = d \o Row(op, n, t, l)
  PROVE  \E f : Onward(e, f, y, d, g, c, h, G, Z)
<1>1. Furthered(d \o Row(op, n, t, l), IF n <= 0 THEN 0 ELSE n, c, h, d, g, G, Z, x + RowChange(op, n))
  BY FurtherMany
<1>2. Furthered(e, IF n <= 0 THEN 0 ELSE n, c, h, d, g, G, Z, y)
  BY <1>1
<1>3. QED
  BY <1>2, OnwardOf

\* What waits or has begun in d does so in e.
LEMMA OnwardKeeps ==
  ASSUME NEW e, NEW f, NEW y, NEW d, NEW g, NEW c, NEW h, NEW G, NEW Z, Onward(e, f, y, d, g, c, h, G, Z)
  PROVE  /\ \A p, t : Waits(d, g, Z, p, t) => Waits(e, f, Z, p, t)
         /\ \A r, t : Begun(d, g, r, t) => Begun(e, f, r, t)
<1>1. d \in Seq(ByteType) /\ e \in Seq(ByteType) /\ Extended(d, g, e, f) /\ Z \subseteq Z
  BY DEF Onward
<1>2. \A p, t : Waits(d, g, Z, p, t) => Waits(e, f, Z, p, t)
  BY <1>1, StillWaits
<1>3. \A r, t : Begun(d, g, r, t) => Begun(e, f, r, t)
  BY <1>1, StillBegun
<1>4. QED
  BY <1>2, <1>3

\* What waits or has begun in c does so in e.
LEMMA OnwardFrom ==
  ASSUME NEW c \in Seq(ByteType), NEW h, NEW e, NEW f, NEW y, NEW d, NEW g, NEW G, NEW Z,
         Onward(e, f, y, d, g, c, h, G, Z)
  PROVE  /\ \A p, t : Waits(c, h, Z, p, t) => Waits(e, f, Z, p, t)
         /\ \A r, t : Begun(c, h, r, t) => Begun(e, f, r, t)
<1>1. e \in Seq(ByteType) /\ Extended(c, h, e, f) /\ Z \subseteq Z
  BY DEF Onward, Grown
<1>2. \A p, t : Waits(c, h, Z, p, t) => Waits(e, f, Z, p, t)
  BY <1>1, StillWaits
<1>3. \A r, t : Begun(c, h, r, t) => Begun(e, f, r, t)
  BY <1>1, StillBegun
<1>4. QED
  BY <1>2, <1>3

\* The end of e is where the machine comes with y values.
LEMMA OnwardEnds ==
  ASSUME NEW e, NEW f, NEW y, NEW d, NEW g, NEW c, NEW h, NEW G, NEW Z, Onward(e, f, y, d, g, c, h, G, Z)
  PROVE  Begun(e, f, Len(e), y) /\ Grown(c, h, e, f, G, Z, Len(e), y)
<1>1. Grown(c, h, e, f, G, Z, Len(e), y) /\ e \in Seq(ByteType)
  BY DEF Onward
<1>2. f[Len(e)] = y /\ Len(e) \in Nat
  BY <1>1, LenProperties DEF Grown
<1>3. Begun(e, f, Len(e), y)
  BY <1>2 DEF Begun, Point
<1>4. QED
  BY <1>1, <1>3

LEMMA OpTable ==
  /\ Size("DUP") = 1 /\ Change("DUP") = 1 /\ Takes("DUP") = 1
  /\ Size("POP") = 1 /\ Change("POP") = -1 /\ Takes("POP") = 1
  /\ Size("JUMPIFFALSE") = 3 /\ Change("JUMPIFFALSE") = -1 /\ Size("JUMP") = 3 /\ Change("JUMP") = 0
  /\ Size("GETLOCAL") = 2 /\ Change("GETLOCAL") = 1 /\ Takes("GETLOCAL") = 0
  /\ Size("SETLOCAL") = 2 /\ Change("SETLOCAL") = -1 /\ Takes("SETLOCAL") = 1
  /\ Size("COMPARE") = 1 /\ Change("COMPARE") = -1 /\ Takes("COMPARE") = 2
  /\ Size("ADD") = 1 /\ Change("ADD") = -1 /\ Takes("ADD") = 2
  /\ Size("GETTABLE") = 1 /\ Change("GETTABLE") = -1 /\ Takes("GETTABLE") = 2
  /\ Size("LOADCONST") = 2 /\ Change("LOADCONST") = 1 /\ Takes("LOADCONST") = 0
  /\ Size("LOADNIL") = 1 /\ Change("LOADNIL") = 1 /\ Takes("LOADNIL") = 0
BY DEF Size, Change, Takes, Jumps

LEMMA OpMembers ==
  /\ {"DUP", "POP", "GETLOCAL", "SETLOCAL", "COMPARE", "ADD", "GETTABLE", "LOADCONST", "LOADNIL", "JUMP", "JUMPIFFALSE"} \subseteq Op
  /\ {"JUMP", "JUMPIFFALSE"} \subseteq Jumps
  /\ \A op \in {"DUP", "POP", "GETLOCAL", "SETLOCAL", "COMPARE", "ADD", "GETTABLE", "LOADCONST", "LOADNIL"} :
       op \notin Jumps /\ (op \notin {"GETLOCAL", "SETLOCAL"} => \A n : Worded(op, n)) /\ \A n \in Nat : Worded(op, n)
BY DEF Op, Jumps, Worded

-----------------------------------------------------------------------------
(* Marks. *)

LEMMA MarkExit ==
  ASSUME NEW k \in MarkType, NEW p \in Nat, NEW k2, k2 = [k EXCEPT !.exit = p]
  PROVE  /\ k2 \in MarkType /\ k2.exit = p /\ k2.ends = k.ends /\ k2.start = k.start /\ k2.count = k.count
BY DEF MarkType

\* What the symbols ask of their marks, where there is no if.
LEMMA ServesIs ==
  ASSUME NEW s, NEW y, NEW a, NEW m, NEW b, NEW k, NEW c, NEW h, NEW Z
  PROVE  Serves(s, At4(y, a, m, b), k, c, h, Z) <=>
         /\ s \in {"and2", "or2", "More", "then", "endif", "do", "until", "endrepeat", "test", "item"} => k.exit = 0
         /\ s \notin {"then", "Clauses", "endif"} => k.ends = {}
         /\ s = "then" => \A x \in k.ends : Waits(c, h, Z, x, y - 1)
         /\ s \in {"Clauses", "endif"} => \A x \in k.ends : Waits(c, h, Z, x, y)
         /\ s \in {"and)", "or)", "Clauses", "endwhile", "endfor", "endforin"} => Waits(c, h, Z, k.exit, y)
         /\ s \in {"endwhile", "until", "endfor", "endforin"} => Begun(c, h, k.start, y)
         /\ s \in {"do", "endrepeat"} => Begun(c, h, k.start, y - 1)
         /\ s = "More" => y = a + k.count
         /\ s = "test" => a = k.count + 2
         /\ s = "item" => a = k.count
         /\ s \in {"endfor", "endforin"} => y = k.count + 3
<1>1. PICK v : v = At4(y, a, m, b)
  OBVIOUS
<1>2. v.h = y /\ v.a = a
  BY <1>1 DEF At4
<1>3. QED
  BY <1>1, <1>2 DEF Serves

\* The left operand of an and: a copy is tested and, when it is true, dropped.
And2(c, t, l) == ((c \o Instr("DUP", 0, t, l)) \o Instr("JUMPIFFALSE", 0, t, l)) \o Instr("POP", 0, t, l)

LEMMA AndGoesOn ==
  ASSUME NEW td, NEW mk, NEW bs, NEW act, NEW c, NEW ed, NEW Z, NEW l, Drafted(td, mk, bs, act, c, ed, Z, l),
         Head(td) = "and2", NEW t \in Nat
  PROVE  Drafted(<<"Expr", "and)">> \o Tail(td),
                 <<[Head(mk) EXCEPT !.exit = Len((c \o Instr("DUP", 0, t, act)) \o Instr("JUMPIFFALSE", 0, t, act)) - 2]>> \o Tail(mk),
                 bs, act, And2(c, t, act), ed, Z, l)
<1>1. PICK h, MK, BS : Draft(td, mk, bs, act, c, ed, h, MK, BS, Z, l)
  BY DEF Drafted
<1>2. "and2" \in Closes
  BY DEF Closes
<1>3. /\ c \in Seq(ByteType) /\ h \in Heights /\ act \in Nat /\ h[Len(c)] \in Int
      /\ Len(mk) \in Nat /\ Len(bs) \in Nat /\ Head(mk) \in MarkType
      /\ CanClose("and2", h[Len(c)], act, Len(mk), Len(bs), Head(mk), c, h, Z)
      /\ Grown(c, h, c, h, Open(MK, Len(mk) - 1) \cup HolesOf(Head(mk)), Z, Len(c), h[Len(c)])
  <2>1. Head(td) \in Closes
    BY <1>2
  <2>2. QED
    BY <1>1, <2>1, AtCloser
<1>4. PICK x, k, G : x = h[Len(c)] /\ k = Head(mk) /\ G = Open(MK, Len(mk) - 1)
  OBVIOUS
<1>5. x \in Int /\ act \in Nat /\ k \in MarkType
  BY <1>3, <1>4
<1>6. x >= act + 1 /\ k.exit = 0 /\ k.ends = {}
  <2>1. x >= act + Temps("and2") /\ Serves("and2", At4(x, act, Len(mk), Len(bs)), k, c, h, Z)
    BY <1>3, <1>4 DEF CanClose
  <2>2. Temps("and2") = 1
    BY DEF Temps
  <2>3. QED
    BY <2>1, <2>2, ServesIs
<1>7. Grown(c, h, c, h, G, Z, Len(c), x)
  <2>1. HolesOf(k) = {}
    BY <1>6, HolesNone
  <2>2. Grown(c, h, c, h, G \cup HolesOf(k), Z, Len(c), x)
    BY <1>3, <1>4
  <2>3. QED
    BY <2>1, <2>2
<1>8. PICK c1, c2, c3, p : /\ c1 = c \o Instr("DUP", 0, t, act) /\ c2 = c1 \o Instr("JUMPIFFALSE", 0, t, act)
                           /\ c3 = c2 \o Instr("POP", 0, t, act) /\ p = Len(c1) + 1
  OBVIOUS
<1>9. PICK y \in Int : y = x + 1
  BY <1>5
<1>10. PICK g1 : Onward(c1, g1, y, c, h, c, h, G, Z)
  <2>1. x - Takes("DUP") >= act /\ y = x + Change("DUP")
    BY <1>5, <1>6, <1>9, OpTable
  <2>2. "DUP" \in Op /\ "DUP" \notin Jumps /\ Worded("DUP", 0) /\ 0 \in Int
    BY OpMembers
  <2>3. c1 = c \o Instr("DUP", 0, t, act)
    BY <1>8
  <2>4. QED
    BY <1>3, <1>5, <1>7, <2>1, <2>2, <2>3, AddOne
<1>11. PICK g2 : Holed(c2, g2, x, c1, g1, c, h, G, Z, p)
  <2>1. y - 1 >= act /\ x = y + Change("JUMPIFFALSE")
    BY <1>5, <1>6, <1>9, OpTable
  <2>2. "JUMPIFFALSE" \in Jumps /\ Grown(c, h, c1, g1, G, Z, Len(c1), y)
    BY <1>10, OpMembers, OnwardEnds
  <2>3. c2 = c1 \o Instr("JUMPIFFALSE", 0, t, act) /\ p = Len(c1) + 1
    BY <1>8
  <2>4. QED
    BY <1>3, <1>5, <1>9, <2>1, <2>2, <2>3, AddHole
<1>12. /\ Onward(c2, g2, x, c1, g1, c, h, G \cup {p}, Z) /\ Waits(c2, g2, Z, p, x)
       /\ p \in Nat /\ p >= 1 /\ Len(c2) = p + 2
  BY <1>11 DEF Holed
<1>13. PICK z \in Int : z = x - 1
  BY <1>5
<1>14. PICK g3 : Onward(c3, g3, z, c2, g2, c, h, G \cup {p}, Z)
  <2>1. x - Takes("POP") >= act /\ z = x + Change("POP")
    BY <1>5, <1>6, <1>13, OpTable
  <2>2. "POP" \in Op /\ "POP" \notin Jumps /\ Worded("POP", 0) /\ 0 \in Int
    BY OpMembers
  <2>3. c3 = c2 \o Instr("POP", 0, t, act) /\ Grown(c, h, c2, g2, G \cup {p}, Z, Len(c2), x)
    BY <1>8, <1>12, OnwardEnds
  <2>4. QED
    BY <1>3, <1>5, <2>1, <2>2, <2>3, AddOne
<1>15. Waits(c3, g3, Z, p, x) /\ Grown(c, h, c3, g3, G \cup {p}, Z, Len(c3), z)
  BY <1>12, <1>14, OnwardKeeps, OnwardEnds
<1>16. PICK k2 : k2 = [k EXCEPT !.exit = p]
  OBVIOUS
<1>17. k2 \in MarkType /\ k2.exit = p /\ k2.ends = {}
  BY <1>5, <1>6, <1>12, <1>16, MarkExit
<1>18. HolesOf(k2) = {p}
  BY <1>12, <1>17, HolesExit
<1>19. CanClose("and)", x, act, Len(mk), Len(bs), k2, c3, g3, Z)
  <2>1. Serves("and)", At4(x, act, Len(mk), Len(bs)), k2, c3, g3, Z)
    BY <1>15, <1>17, ServesIs
  <2>2. "and)" \in Closes /\ Temps("and)") = 1
    BY DEF Closes, Temps
  <2>3. QED
    BY <1>6, <2>1, <2>2 DEF CanClose
<1>20. Goes("and2", x, act, k, "and)", x, act, k2)
  BY DEF Goes, CloseH, CloseA, Counting
<1>21. Leads(<<"Expr">>, z, act, x, act)
  <2>1. z >= act => EasyStep("Expr", z, act, z + 1, act)
    BY <1>5, <1>13, Steps
  <2>2. z >= act /\ z + 1 = x
    BY <1>5, <1>6, <1>13
  <2>3. QED
    BY <2>1, <2>2, LeadsOne
<1>22. Drafted((<<"Expr">> \o <<"and)">>) \o Tail(td), <<k2>> \o Tail(mk), bs, act, c3, ed, Z, l)
  <2>1. Head(td) \in Closes /\ <<"Expr">> \in Seq(Pendable)
    <3>1. "Expr" \in Pendable
      BY DEF Pendable
    <3>2. QED
      BY <1>2, <3>1
  <2>2. G \cup {p} \subseteq Open(MK, Len(mk) - 1) \cup HolesOf(k2)
    BY <1>4, <1>18
  <2>3. Goes(Head(td), h[Len(c)], act, Head(mk), "and)", x, act, k2)
    BY <1>4, <1>20
  <2>4. x \in Int /\ act \in Nat /\ k2 \in MarkType
    BY <1>5, <1>17
  <2>5. QED
    BY <1>1, <1>15, <1>19, <1>21, <2>1, <2>2, <2>3, <2>4, ReplaceMark
<1>23. p = Len(c2) - 2
  BY <1>12
<1>24. <<"Expr", "and)">> = <<"Expr">> \o <<"and)">>
  BY Pairs
<1>25. c3 = And2(c, t, act) /\ c2 = (c \o Instr("DUP", 0, t, act)) \o Instr("JUMPIFFALSE", 0, t, act)
  BY <1>8 DEF And2
<1>26. QED
  BY <1>4, <1>16, <1>22, <1>23, <1>24, <1>25

-----------------------------------------------------------------------------
(* What closes a mark. *)

\* What a symbol finds that gives a mark back: its height, its mark and the other marks' holes.
Finds(td, mk, bs, act, c, h, MK, Z, s, x, k, G) ==
  /\ Head(td) = s /\ s \in Closes
  /\ c \in Seq(ByteType) /\ h \in Heights /\ x = h[Len(c)] /\ k = Head(mk) /\ G = Open(MK, Len(mk) - 1)
  /\ x \in Int /\ act \in Nat /\ k \in MarkType /\ x >= act + Temps(s)
  /\ s = "Clauses" => x = act
  /\ s \in {"then", "do", "test", "item"} => x = act + 1
  /\ s \in {"and2", "or2", "More", "then", "endif", "do", "until", "endrepeat", "test", "item"} => k.exit = 0
  /\ s \notin {"then", "Clauses", "endif"} => k.ends = {}
  /\ s = "then" => \A p \in k.ends : Waits(c, h, Z, p, x - 1)
  /\ s \in {"Clauses", "endif"} => \A p \in k.ends : Waits(c, h, Z, p, x)
  /\ s \in {"and)", "or)", "Clauses", "endwhile", "endfor", "endforin"} => Waits(c, h, Z, k.exit, x)
  /\ s \in {"endwhile", "until", "endfor", "endforin"} => Begun(c, h, k.start, x)
  /\ s \in {"do", "endrepeat"} => Begun(c, h, k.start, x - 1)
  /\ s = "More" => x = act + k.count
  /\ s = "test" => act = k.count + 2
  /\ s = "item" => act = k.count
  /\ s \in {"endfor", "endforin"} => x = k.count + 3
  /\ Grown(c, h, c, h, G \cup HolesOf(k), Z, Len(c), x)
  /\ mk # <<>> /\ mk \in Seq(MarkType)

LEMMA Found ==
  ASSUME NEW td, NEW mk, NEW bs, NEW act, NEW c, NEW ed, NEW h, NEW MK, NEW BS, NEW Z, NEW l,
         Draft(td, mk, bs, act, c, ed, h, MK, BS, Z, l), Head(td) \in Closes
  PROVE  \E x, k, G : Finds(td, mk, bs, act, c, h, MK, Z, Head(td), x, k, G)
<1>1. PICK s, x, k, G : s = Head(td) /\ x = h[Len(c)] /\ k = Head(mk) /\ G = Open(MK, Len(mk) - 1)
  OBVIOUS
<1>2. /\ c \in Seq(ByteType) /\ h \in Heights /\ act \in Nat /\ h[Len(c)] \in Int
      /\ Head(mk) \in MarkType /\ mk # <<>> /\ mk \in Seq(MarkType)
      /\ CanClose(Head(td), h[Len(c)], act, Len(mk), Len(bs), Head(mk), c, h, Z)
      /\ Grown(c, h, c, h, Open(MK, Len(mk) - 1) \cup HolesOf(Head(mk)), Z, Len(c), h[Len(c)])
  BY AtCloser
<1>3. /\ s \in Closes /\ x \in Int /\ act \in Nat /\ k \in MarkType
      /\ CanClose(s, x, act, Len(mk), Len(bs), k, c, h, Z)
      /\ Grown(c, h, c, h, G \cup HolesOf(k), Z, Len(c), x)
  BY <1>1, <1>2
<1>4. /\ x >= act + Temps(s) /\ (s = "Clauses" => x = act) /\ (s \in {"then", "do", "test", "item"} => x = act + 1)
      /\ Serves(s, At4(x, act, Len(mk), Len(bs)), k, c, h, Z)
  BY <1>3 DEF CanClose
<1>5. /\ s \in {"and2", "or2", "More", "then", "endif", "do", "until", "endrepeat", "test", "item"} => k.exit = 0
      /\ s \notin {"then", "Clauses", "endif"} => k.ends = {}
      /\ s = "then" => \A p \in k.ends : Waits(c, h, Z, p, x - 1)
      /\ s \in {"Clauses", "endif"} => \A p \in k.ends : Waits(c, h, Z, p, x)
      /\ s \in {"and)", "or)", "Clauses", "endwhile", "endfor", "endforin"} => Waits(c, h, Z, k.exit, x)
      /\ s \in {"endwhile", "until", "endfor", "endforin"} => Begun(c, h, k.start, x)
      /\ s \in {"do", "endrepeat"} => Begun(c, h, k.start, x - 1)
      /\ s = "More" => x = act + k.count
      /\ s = "test" => act = k.count + 2
      /\ s = "item" => act = k.count
      /\ s \in {"endfor", "endforin"} => x = k.count + 3
  BY <1>4, ServesIs
<1>6. Finds(td, mk, bs, act, c, h, MK, Z, s, x, k, G)
  BY <1>1, <1>2, <1>3, <1>4, <1>5 DEF Finds
<1>7. QED
  BY <1>1, <1>6

\* The right operand is there, and the jump past it leads here.
LEMMA OperatorEnds ==
  ASSUME NEW td, NEW mk, NEW bs, NEW act, NEW c, NEW ed, NEW Z, NEW l, Drafted(td, mk, bs, act, c, ed, Z, l),
         Head(td) \in {"and)", "or)"}
  PROVE  Drafted(<<>> \o Tail(td), Tail(mk), bs, act, Patched(c, Head(mk).exit, Len(c)), ed, Z, l)
<1>1. PICK h, MK, BS : Draft(td, mk, bs, act, c, ed, h, MK, BS, Z, l)
  BY DEF Drafted
<1>2. Head(td) \in Closes
  BY DEF Closes
<1>3. PICK s, x, k, G : Finds(td, mk, bs, act, c, h, MK, Z, s, x, k, G) /\ s = Head(td)
  BY <1>1, <1>2, Found
<1>4. /\ c \in Seq(ByteType) /\ h \in Heights /\ x \in Int /\ act \in Nat /\ x = h[Len(c)] /\ k = Head(mk) /\ G = Open(MK, Len(mk) - 1)
      /\ k.ends = {} /\ Waits(c, h, Z, k.exit, x) /\ Grown(c, h, c, h, G \cup HolesOf(k), Z, Len(c), x)
  BY <1>3 DEF Finds
<1>5. PICK d, p : d = Patched(c, p, Len(c)) /\ p = k.exit
  OBVIOUS
<1>6. PICK g : Onward(d, g, x, c, h, c, h, (G \cup HolesOf(k)) \ {p}, Z)
  <2>1. Waits(c, h, Z, p, x) /\ Grown(c, h, c, h, G \cup HolesOf(k), Z, Len(c), x) /\ d = Patched(c, p, Len(c))
    BY <1>4, <1>5
  <2>2. c \in Seq(ByteType) /\ h \in Heights /\ x \in Int
    BY <1>4
  <2>3. QED
    BY <2>1, <2>2, AddPatch
<1>7. (G \cup HolesOf(k)) \ {p} \subseteq G
  BY <1>4, <1>5 DEF HolesOf
<1>8. Grown(c, h, d, g, (G \cup HolesOf(k)) \ {p}, Z, Len(d), x)
  BY <1>6, OnwardEnds
<1>9. Leads(<<>>, x, act, CloseH(Head(td), h[Len(c)], act, Head(mk)), CloseA(Head(td), act, Head(mk)))
  <2>1. CloseH(Head(td), h[Len(c)], act, Head(mk)) = x /\ CloseA(Head(td), act, Head(mk)) = act
    BY <1>4 DEF CloseH, CloseA, Counting
  <2>2. QED
    BY <1>4, <2>1, LeadsNone
<1>10. Drafted(<<>> \o Tail(td), Tail(mk), bs, act, d, ed, Z, l)
  <2>1. (G \cup HolesOf(k)) \ {p} \subseteq Open(MK, Len(mk) - 1)
    BY <1>4, <1>7
  <2>2. QED
    BY <1>1, <1>2, <1>4, <1>8, <1>9, <2>1, LeaveMark
<1>11. QED
  BY <1>4, <1>5, <1>10

\* The left operand of an or: when it is false it is dropped, otherwise a jump skips the right one.
Or1(c, t, l) == (c \o Instr("DUP", 0, t, l)) \o Instr("JUMPIFFALSE", 0, t, l)
Or2(c, t, l) == Or1(c, t, l) \o Instr("JUMP", 0, t, l)
Or3(c, t, l) == Patched(Or2(c, t, l), Len(Or1(c, t, l)) - 2, Len(Or2(c, t, l))) \o Instr("POP", 0, t, l)

LEMMA OrGoesOn ==
  ASSUME NEW td, NEW mk, NEW bs, NEW act, NEW c, NEW ed, NEW Z, NEW l, Drafted(td, mk, bs, act, c, ed, Z, l),
         Head(td) = "or2", NEW t \in Nat
  PROVE  Drafted(<<"Expr", "or)">> \o Tail(td), <<[Head(mk) EXCEPT !.exit = Len(Or2(c, t, act)) - 2]>> \o Tail(mk),
                 bs, act, Or3(c, t, act), ed, Z, l)
<1>1. PICK h, MK, BS : Draft(td, mk, bs, act, c, ed, h, MK, BS, Z, l)
  BY DEF Drafted
<1>2. Head(td) \in Closes
  BY DEF Closes
<1>3. PICK x, k, G : Finds(td, mk, bs, act, c, h, MK, Z, "or2", x, k, G)
  BY <1>1, <1>2, Found
<1>4. /\ c \in Seq(ByteType) /\ h \in Heights /\ x = h[Len(c)] /\ k = Head(mk) /\ G = Open(MK, Len(mk) - 1)
      /\ Grown(c, h, c, h, G \cup HolesOf(k), Z, Len(c), x)
  BY <1>3 DEF Finds
<1>5. x \in Int /\ act \in Nat /\ k \in MarkType
  BY <1>3 DEF Finds
<1>6. x >= act + 1 /\ k.exit = 0 /\ k.ends = {}
  <2>1. x >= act + Temps("or2") /\ k.exit = 0 /\ k.ends = {}
    BY <1>3 DEF Finds
  <2>2. Temps("or2") = 1
    BY DEF Temps
  <2>3. QED
    BY <2>1, <2>2
<1>7. Grown(c, h, c, h, G, Z, Len(c), x)
  <2>1. HolesOf(k) = {}
    BY <1>6, HolesNone
  <2>2. QED
    BY <1>4, <2>1
<1>8. PICK c1, c2, c3, c4, c5, p, q :
           /\ c1 = c \o Instr("DUP", 0, t, act) /\ c2 = c1 \o Instr("JUMPIFFALSE", 0, t, act)
           /\ c3 = c2 \o Instr("JUMP", 0, t, act) /\ c4 = Patched(c3, p, Len(c3)) /\ c5 = c4 \o Instr("POP", 0, t, act)
           /\ p = Len(c1) + 1 /\ q = Len(c2) + 1
  OBVIOUS
<1>9. PICK y \in Int : y = x + 1
  BY <1>5
<1>10. PICK g1 : Onward(c1, g1, y, c, h, c, h, G, Z)
  <2>1. x - Takes("DUP") >= act /\ y = x + Change("DUP")
    BY <1>5, <1>6, <1>9, OpTable
  <2>2. "DUP" \in Op /\ "DUP" \notin Jumps /\ Worded("DUP", 0) /\ 0 \in Int
    BY OpMembers
  <2>3. c1 = c \o Instr("DUP", 0, t, act)
    BY <1>8
  <2>4. QED
    BY <1>4, <1>5, <1>7, <2>1, <2>2, <2>3, AddOne
<1>11. PICK g2 : Holed(c2, g2, x, c1, g1, c, h, G, Z, p)
  <2>1. y - 1 >= act /\ x = y + Change("JUMPIFFALSE")
    BY <1>5, <1>6, <1>9, OpTable
  <2>2. "JUMPIFFALSE" \in Jumps /\ Grown(c, h, c1, g1, G, Z, Len(c1), y)
    BY <1>10, OpMembers, OnwardEnds
  <2>3. c2 = c1 \o Instr("JUMPIFFALSE", 0, t, act) /\ p = Len(c1) + 1
    BY <1>8
  <2>4. QED
    BY <1>4, <1>5, <1>9, <2>1, <2>2, <2>3, AddHole
<1>12. /\ Onward(c2, g2, x, c1, g1, c, h, G \cup {p}, Z) /\ Waits(c2, g2, Z, p, x)
       /\ p \in Nat /\ p >= 1 /\ Len(c2) = p + 2
  BY <1>11 DEF Holed
<1>13. PICK g3 : Holed(c3, g3, x, c2, g2, c, h, G \cup {p}, Z, q)
  <2>1. x = x + Change("JUMP") /\ "JUMP" # "JUMPIFFALSE"
    BY <1>5, OpTable
  <2>2. "JUMP" \in Jumps /\ Grown(c, h, c2, g2, G \cup {p}, Z, Len(c2), x)
    BY <1>12, OpMembers, OnwardEnds
  <2>3. c3 = c2 \o Instr("JUMP", 0, t, act) /\ q = Len(c2) + 1
    BY <1>8
  <2>4. QED
    BY <1>4, <1>5, <2>1, <2>2, <2>3, AddHole
<1>14. /\ Onward(c3, g3, x, c2, g2, c, h, (G \cup {p}) \cup {q}, Z) /\ Waits(c3, g3, Z, q, x)
       /\ q \in Nat /\ q >= 1 /\ Len(c3) = q + 2
  BY <1>13 DEF Holed
<1>15. Waits(c3, g3, Z, p, x)
  BY <1>12, <1>14, OnwardKeeps
<1>16. PICK g4 : Onward(c4, g4, x, c3, g3, c, h, ((G \cup {p}) \cup {q}) \ {p}, Z)
  <2>1. Grown(c, h, c3, g3, (G \cup {p}) \cup {q}, Z, Len(c3), x) /\ c4 = Patched(c3, p, Len(c3))
    BY <1>8, <1>14, OnwardEnds
  <2>2. QED
    BY <1>4, <1>5, <1>15, <2>1, AddPatch
<1>17. PICK z \in Int : z = x - 1
  BY <1>5
<1>18. PICK H : H = ((G \cup {p}) \cup {q}) \ {p}
  OBVIOUS
<1>19. PICK g5 : Onward(c5, g5, z, c4, g4, c, h, H, Z)
  <2>1. x - Takes("POP") >= act /\ z = x + Change("POP")
    BY <1>5, <1>6, <1>17, OpTable
  <2>2. "POP" \in Op /\ "POP" \notin Jumps /\ Worded("POP", 0) /\ 0 \in Int
    BY OpMembers
  <2>3. c5 = c4 \o Instr("POP", 0, t, act) /\ Grown(c, h, c4, g4, H, Z, Len(c4), x)
    BY <1>8, <1>16, <1>18, OnwardEnds
  <2>4. QED
    BY <1>4, <1>5, <2>1, <2>2, <2>3, AddOne
<1>20. Waits(c5, g5, Z, q, x) /\ Grown(c, h, c5, g5, H, Z, Len(c5), z)
  <2>1. Waits(c4, g4, Z, q, x)
    BY <1>14, <1>16, OnwardKeeps
  <2>2. QED
    BY <1>19, <2>1, OnwardKeeps, OnwardEnds
<1>21. PICK k2 : k2 = [k EXCEPT !.exit = q]
  OBVIOUS
<1>22. k2 \in MarkType /\ k2.exit = q /\ k2.ends = {}
  BY <1>5, <1>6, <1>14, <1>21, MarkExit
<1>23. HolesOf(k2) = {q}
  BY <1>14, <1>22, HolesExit
<1>24. CanClose("or)", x, act, Len(mk), Len(bs), k2, c5, g5, Z)
  <2>1. Serves("or)", At4(x, act, Len(mk), Len(bs)), k2, c5, g5, Z)
    BY <1>20, <1>22, ServesIs
  <2>2. "or)" \in Closes /\ Temps("or)") = 1
    BY DEF Closes, Temps
  <2>3. QED
    BY <1>6, <2>1, <2>2 DEF CanClose
<1>25. Goes("or2", x, act, k, "or)", x, act, k2)
  BY DEF Goes, CloseH, CloseA, Counting
<1>26. Leads(<<"Expr">>, z, act, x, act)
  <2>1. z >= act => EasyStep("Expr", z, act, z + 1, act)
    BY <1>5, <1>17, Steps
  <2>2. z >= act /\ z + 1 = x
    BY <1>5, <1>6, <1>17
  <2>3. QED
    BY <2>1, <2>2, LeadsOne
<1>27. Drafted((<<"Expr">> \o <<"or)">>) \o Tail(td), <<k2>> \o Tail(mk), bs, act, c5, ed, Z, l)
  <2>1. Head(td) \in Closes /\ <<"Expr">> \in Seq(Pendable)
    <3>1. "Expr" \in Pendable
      BY DEF Pendable
    <3>2. QED
      BY <1>2, <3>1
  <2>2. H \subseteq Open(MK, Len(mk) - 1) \cup HolesOf(k2)
    BY <1>4, <1>18, <1>23
  <2>3. Goes(Head(td), h[Len(c)], act, Head(mk), "or)", x, act, k2)
    BY <1>4, <1>25
  <2>4. x \in Int /\ act \in Nat /\ k2 \in MarkType
    BY <1>5, <1>22
  <2>5. QED
    BY <1>1, <1>20, <1>24, <1>26, <2>1, <2>2, <2>3, <2>4, ReplaceMark
<1>28. p = Len(c2) - 2 /\ q = Len(c3) - 2
  BY <1>12, <1>14
<1>29. <<"Expr", "or)">> = <<"Expr">> \o <<"or)">>
  BY Pairs
<1>30. c2 = Or1(c, t, act) /\ c3 = Or2(c, t, act) /\ c5 = c4 \o Instr("POP", 0, t, act)
  BY <1>8 DEF Or1, Or2
<1>31. c5 = Or3(c, t, act)
  BY <1>8, <1>28, <1>30 DEF Or3
<1>32. QED
  BY <1>4, <1>21, <1>27, <1>28, <1>29, <1>30, <1>31

-----------------------------------------------------------------------------
(* The parts of an if. *)

\* The mark of an if, while the condition's jump is open and when it has been patched.
LEMMA MarkEnds ==
  ASSUME NEW k \in MarkType, NEW p \in Nat, NEW k2, k2 = [k EXCEPT !.exit = 0, !.ends = @ \cup {p}]
  PROVE  /\ k2 \in MarkType /\ k2.exit = 0 /\ k2.ends = k.ends \cup {p} /\ k2.start = k.start /\ k2.count = k.count
BY DEF MarkType

LEMMA HolesAre ==
  ASSUME NEW k
  PROVE  /\ k.exit = 0 => HolesOf(k) = k.ends
         /\ k.exit # 0 => HolesOf(k) = k.ends \cup {k.exit}
BY DEF HolesOf

\* A condition is tested: the jump out waits, and a block opens.
LEMMA ConditionTested ==
  ASSUME NEW td, NEW mk, NEW bs, NEW act, NEW c, NEW ed, NEW Z, NEW l, Drafted(td, mk, bs, act, c, ed, Z, l),
         NEW s, NEW s2, Head(td) = s, <<s, s2>> \in {<<"then", "Clauses">>, <<"do", "endwhile">>}, NEW t \in Nat
  PROVE  Drafted(<<"Block", s2>> \o Tail(td), <<[Head(mk) EXCEPT !.exit = Len(c) + 1]>> \o Tail(mk),
                 <<act>> \o bs, act, c \o Instr("JUMPIFFALSE", 0, t, act), ed, Z, l)
<1>0. (s = "then" /\ s2 = "Clauses") \/ (s = "do" /\ s2 = "endwhile")
  OBVIOUS
<1>1. PICK h, MK, BS : Draft(td, mk, bs, act, c, ed, h, MK, BS, Z, l)
  BY DEF Drafted
<1>2. Head(td) \in Closes
  BY <1>0 DEF Closes
<1>3. PICK x, k, G : Finds(td, mk, bs, act, c, h, MK, Z, s, x, k, G)
  BY <1>1, <1>2, Found
<1>4. /\ c \in Seq(ByteType) /\ h \in Heights /\ x = h[Len(c)] /\ k = Head(mk) /\ G = Open(MK, Len(mk) - 1)
      /\ Grown(c, h, c, h, G \cup HolesOf(k), Z, Len(c), x)
  BY <1>3 DEF Finds
<1>5. x \in Int /\ act \in Nat /\ k \in MarkType
  BY <1>3 DEF Finds
<1>6. x = act + 1 /\ k.exit = 0
  BY <1>0, <1>3 DEF Finds
<1>7. /\ s = "then" => \A p \in k.ends : Waits(c, h, Z, p, x - 1)
      /\ s = "do" => k.ends = {} /\ Begun(c, h, k.start, x - 1)
  BY <1>3 DEF Finds
<1>8. x - 1 = act
  BY <1>5, <1>6
<1>9. PICK d, p : d = c \o Instr("JUMPIFFALSE", 0, t, act) /\ p = Len(c) + 1
  OBVIOUS
<1>10. PICK g : Holed(d, g, act, c, h, c, h, G \cup HolesOf(k), Z, p)
  <2>1. x - 1 >= act /\ act = x + Change("JUMPIFFALSE") /\ "JUMPIFFALSE" \in Jumps
    BY <1>5, <1>6, OpTable, OpMembers
  <2>2. d = c \o Instr("JUMPIFFALSE", 0, t, act) /\ p = Len(c) + 1
    BY <1>9
  <2>3. Grown(c, h, c, h, G \cup HolesOf(k), Z, Len(c), x) /\ c \in Seq(ByteType) /\ h \in Heights
    BY <1>4
  <2>4. QED
    BY <1>5, <2>1, <2>2, <2>3, AddHole
<1>11. Onward(d, g, act, c, h, c, h, (G \cup HolesOf(k)) \cup {p}, Z) /\ Waits(d, g, Z, p, act) /\ p \in Nat /\ p >= 1
  BY <1>10 DEF Holed
<1>12. PICK k2 : k2 = [k EXCEPT !.exit = p]
  OBVIOUS
<1>13. k2 \in MarkType /\ k2.exit = p /\ k2.ends = k.ends /\ k2.start = k.start
  BY <1>5, <1>11, <1>12, MarkExit
<1>14. (G \cup HolesOf(k)) \cup {p} \subseteq G \cup HolesOf(k2)
  BY <1>6, <1>11, <1>13, HolesAre
<1>15. CanClose(s2, act, act, Len(mk), Len(bs), k2, d, g, Z)
  <2>1. /\ s = "then" => \A q \in k2.ends : Waits(d, g, Z, q, act)
        /\ s = "do" => k2.ends = {} /\ Begun(d, g, k2.start, act)
    <3>1. /\ s = "then" => \A q \in k2.ends : Waits(c, h, Z, q, act)
          /\ s = "do" => k2.ends = {} /\ Begun(c, h, k2.start, act)
      BY <1>7, <1>8, <1>13
    <3>2. QED
      BY <1>11, <3>1, OnwardKeeps
  <2>2. Serves(s2, At4(act, act, Len(mk), Len(bs)), k2, d, g, Z)
    <3>1. Waits(d, g, Z, k2.exit, act)
      BY <1>11, <1>13
    <3>2. CASE s2 = "Clauses"
      BY <1>0, <2>1, <3>1, <3>2, ServesIs
    <3>3. CASE s2 = "endwhile"
      BY <1>0, <2>1, <3>1, <3>3, ServesIs
    <3>4. QED
      BY <1>0, <3>2, <3>3
  <2>3. s2 \in Closes /\ Temps(s2) = 0 /\ s2 \notin {"then", "do", "test", "item"}
    BY <1>0 DEF Closes, Temps
  <2>4. act >= act + Temps(s2)
    BY <1>5, <2>3
  <2>5. QED
    BY <2>2, <2>3, <2>4 DEF CanClose
<1>16. Goes(s, x, act, k, s2, act, act, k2)
  BY <1>0, <1>8 DEF Goes, CloseH, CloseA, Counting
<1>17. Drafted(<<"Block", s2>> \o Tail(td), <<k2>> \o Tail(mk), <<act>> \o bs, act, d, ed, Z, l)
  <2>1. Grown(c, h, d, g, (G \cup HolesOf(k)) \cup {p}, Z, Len(d), act)
    BY <1>11, OnwardEnds
  <2>2. (G \cup HolesOf(k)) \cup {p} \subseteq Open(MK, Len(mk) - 1) \cup HolesOf(k2)
    BY <1>4, <1>14
  <2>3. Goes(Head(td), h[Len(c)], act, Head(mk), s2, act, act, k2)
    BY <1>4, <1>16
  <2>4. act \in Nat /\ k2 \in MarkType
    BY <1>5, <1>13
  <2>5. QED
    BY <1>1, <1>2, <1>15, <2>1, <2>2, <2>3, <2>4, ReplaceOpening
<1>18. QED
  BY <1>4, <1>9, <1>12, <1>17

\* A clause ends: a jump to the end of the if, behind which the condition's jump leads.
ClauseEnds(c, k, t, l) == Patched(c \o Instr("JUMP", 0, t, l), k.exit, Len(c \o Instr("JUMP", 0, t, l)))

ClauseMark(c, k) == [k EXCEPT !.exit = 0, !.ends = @ \cup {Len(c) + 1}]

\* What a clause that ends leaves: code, heights and holes.
AfterClause(d, g, k2, c, h, G, Z, act) ==
  /\ Grown(c, h, d, g, G \cup HolesOf(k2), Z, Len(d), act)
  /\ k2 \in MarkType /\ k2.exit = 0 /\ \A q \in k2.ends : Waits(d, g, Z, q, act)

LEMMA ClauseLeaves ==
  ASSUME NEW td, NEW mk, NEW bs, NEW act, NEW c, NEW h, NEW MK, NEW Z, NEW x, NEW k, NEW G,
         Finds(td, mk, bs, act, c, h, MK, Z, "Clauses", x, k, G), NEW t \in Nat
  PROVE  \E g : AfterClause(ClauseEnds(c, k, t, act), g, ClauseMark(c, k), c, h, G, Z, act)
<1>4. /\ c \in Seq(ByteType) /\ h \in Heights
      /\ Grown(c, h, c, h, G \cup HolesOf(k), Z, Len(c), x)
  BY DEF Finds
<1>5. x \in Int /\ act \in Nat /\ k \in MarkType /\ x = act
  BY DEF Finds
<1>6. Waits(c, h, Z, k.exit, x) /\ \A p \in k.ends : Waits(c, h, Z, p, x)
  BY DEF Finds
<1>7. PICK d, e, p, r : d = c \o Instr("JUMP", 0, t, act) /\ p = Len(c) + 1 /\ r = k.exit /\ e = Patched(d, r, Len(d))
  OBVIOUS
<1>8. PICK g : Holed(d, g, x, c, h, c, h, G \cup HolesOf(k), Z, p)
  <2>1. "JUMP" \in Jumps /\ "JUMP" # "JUMPIFFALSE" /\ x = x + Change("JUMP")
    BY <1>5, OpTable, OpMembers
  <2>2. d = c \o Instr("JUMP", 0, t, act) /\ p = Len(c) + 1
    BY <1>7
  <2>3. QED
    BY <1>4, <1>5, <2>1, <2>2, AddHole
<1>9. Onward(d, g, x, c, h, c, h, (G \cup HolesOf(k)) \cup {p}, Z) /\ Waits(d, g, Z, p, x) /\ p \in Nat /\ p >= 1
  BY <1>8 DEF Holed
<1>10. PICK H : H = ((G \cup HolesOf(k)) \cup {p}) \ {r}
  OBVIOUS
<1>11. PICK f : Onward(e, f, x, d, g, c, h, H, Z)
  <2>1. Waits(d, g, Z, r, x)
    BY <1>6, <1>7, <1>9, OnwardKeeps
  <2>2. Grown(c, h, d, g, (G \cup HolesOf(k)) \cup {p}, Z, Len(d), x) /\ e = Patched(d, r, Len(d))
    BY <1>7, <1>9, OnwardEnds
  <2>3. QED
    BY <1>4, <1>5, <1>10, <2>1, <2>2, AddPatch
<1>12. PICK k2 : k2 = [k EXCEPT !.exit = 0, !.ends = @ \cup {p}]
  OBVIOUS
<1>13. k2 \in MarkType /\ k2.exit = 0 /\ k2.ends = k.ends \cup {p}
  BY <1>5, <1>9, <1>12, MarkEnds
<1>14. \A q \in k2.ends : Waits(e, f, Z, q, act)
  <2>1. \A q \in k.ends : Waits(d, g, Z, q, x)
    BY <1>6, <1>9, OnwardKeeps
  <2>2. \A q \in k2.ends : Waits(d, g, Z, q, x)
    BY <1>9, <1>13, <2>1
  <2>3. QED
    BY <1>5, <1>11, <2>2, OnwardKeeps
<1>15. H \subseteq G \cup HolesOf(k2)
  <2>1. HolesOf(k2) = k.ends \cup {p}
    BY <1>13, HolesAre
  <2>2. HolesOf(k) \subseteq k.ends \cup {r}
    BY <1>7, HolesAre
  <2>3. QED
    BY <1>10, <2>1, <2>2
<1>16. Grown(c, h, e, f, G \cup HolesOf(k2), Z, Len(e), act)
  <2>1. Grown(c, h, e, f, H, Z, Len(e), act)
    BY <1>5, <1>11, OnwardEnds
  <2>2. QED
    BY <1>15, <2>1, GrownMore
<1>17. AfterClause(e, f, k2, c, h, G, Z, act)
  BY <1>13, <1>14, <1>16 DEF AfterClause
<1>18. e = ClauseEnds(c, k, t, act) /\ k2 = ClauseMark(c, k)
  BY <1>7, <1>12 DEF ClauseEnds, ClauseMark
<1>19. QED
  BY <1>17, <1>18

LEMMA ElseIf ==
  ASSUME NEW td, NEW mk, NEW bs, NEW act, NEW c, NEW ed, NEW Z, NEW l, Drafted(td, mk, bs, act, c, ed, Z, l),
         Head(td) = "Clauses", NEW t \in Nat
  PROVE  Drafted(<<"Expr", "then">> \o Tail(td), <<ClauseMark(c, Head(mk))>> \o Tail(mk), bs, act,
                 ClauseEnds(c, Head(mk), t, act), ed, Z, l)
<1>1. PICK h, MK, BS : Draft(td, mk, bs, act, c, ed, h, MK, BS, Z, l)
  BY DEF Drafted
<1>2. Head(td) \in Closes
  BY DEF Closes
<1>3. PICK x, k, G : Finds(td, mk, bs, act, c, h, MK, Z, "Clauses", x, k, G)
  BY <1>1, <1>2, Found
<1>4. x = h[Len(c)] /\ k = Head(mk) /\ G = Open(MK, Len(mk) - 1) /\ act \in Nat /\ x = act
  BY <1>3 DEF Finds
<1>5. PICK d, k2 : d = ClauseEnds(c, k, t, act) /\ k2 = ClauseMark(c, k)
  OBVIOUS
<1>6. PICK g : AfterClause(d, g, k2, c, h, G, Z, act)
  BY <1>3, <1>5, ClauseLeaves
<1>7. /\ Grown(c, h, d, g, G \cup HolesOf(k2), Z, Len(d), act)
      /\ k2 \in MarkType /\ k2.exit = 0 /\ \A q \in k2.ends : Waits(d, g, Z, q, act)
  BY <1>6 DEF AfterClause
<1>8. PICK z : z = act + 1
  OBVIOUS
<1>9. z \in Int /\ z - 1 = act /\ act >= act /\ z >= act + 1
  BY <1>4, <1>8
<1>10. CanClose("then", z, act, Len(mk), Len(bs), k2, d, g, Z)
  <2>1. \A q \in k2.ends : Waits(d, g, Z, q, z - 1)
    BY <1>7, <1>9
  <2>2. Serves("then", At4(z, act, Len(mk), Len(bs)), k2, d, g, Z)
    BY <1>7, <2>1, ServesIs
  <2>3. "then" \in Closes /\ Temps("then") = 1
    BY DEF Closes, Temps
  <2>4. QED
    BY <1>8, <1>9, <2>2, <2>3 DEF CanClose
<1>11. Goes("Clauses", x, act, k, "then", z, act, k2)
  BY <1>4, <1>9 DEF Goes, CloseH, CloseA, Counting
<1>12. Leads(<<"Expr">>, act, act, z, act)
  <2>1. act >= act => EasyStep("Expr", act, act, act + 1, act)
    <3>1. act \in Int
      BY <1>4
    <3>2. QED
      BY <1>4, <3>1, Steps
  <2>2. QED
    BY <1>8, <1>9, <2>1, LeadsOne
<1>13. Drafted((<<"Expr">> \o <<"then">>) \o Tail(td), <<k2>> \o Tail(mk), bs, act, d, ed, Z, l)
  <2>1. <<"Expr">> \in Seq(Pendable)
    <3>1. "Expr" \in Pendable
      BY DEF Pendable
    <3>2. QED
      BY <3>1
  <2>2. G \cup HolesOf(k2) \subseteq Open(MK, Len(mk) - 1) \cup HolesOf(k2)
    BY <1>4
  <2>3. Goes(Head(td), h[Len(c)], act, Head(mk), "then", z, act, k2)
    BY <1>4, <1>11
  <2>4. QED
    BY <1>1, <1>2, <1>4, <1>7, <1>9, <1>10, <1>12, <2>1, <2>2, <2>3, ReplaceMark
<1>14. QED
  BY <1>4, <1>5, <1>13, Pairs

LEMMA Else ==
  ASSUME NEW td, NEW mk, NEW bs, NEW act, NEW c, NEW ed, NEW Z, NEW l, Drafted(td, mk, bs, act, c, ed, Z, l),
         Head(td) = "Clauses", NEW t \in Nat
  PROVE  Drafted(<<"Block", "endif">> \o Tail(td), <<ClauseMark(c, Head(mk))>> \o Tail(mk), <<act>> \o bs, act,
                 ClauseEnds(c, Head(mk), t, act), ed, Z, l)
<1>1. PICK h, MK, BS : Draft(td, mk, bs, act, c, ed, h, MK, BS, Z, l)
  BY DEF Drafted
<1>2. Head(td) \in Closes
  BY DEF Closes
<1>3. PICK x, k, G : Finds(td, mk, bs, act, c, h, MK, Z, "Clauses", x, k, G)
  BY <1>1, <1>2, Found
<1>4. x = h[Len(c)] /\ k = Head(mk) /\ G = Open(MK, Len(mk) - 1) /\ act \in Nat /\ x = act
  BY <1>3 DEF Finds
<1>5. PICK d, k2 : d = ClauseEnds(c, k, t, act) /\ k2 = ClauseMark(c, k)
  OBVIOUS
<1>6. PICK g : AfterClause(d, g, k2, c, h, G, Z, act)
  BY <1>3, <1>5, ClauseLeaves
<1>7. /\ Grown(c, h, d, g, G \cup HolesOf(k2), Z, Len(d), act)
      /\ k2 \in MarkType /\ k2.exit = 0 /\ \A q \in k2.ends : Waits(d, g, Z, q, act)
  BY <1>6 DEF AfterClause
<1>8. CanClose("endif", act, act, Len(mk), Len(bs), k2, d, g, Z)
  <2>1. Serves("endif", At4(act, act, Len(mk), Len(bs)), k2, d, g, Z)
    BY <1>7, ServesIs
  <2>2. "endif" \in Closes /\ Temps("endif") = 0
    BY DEF Closes, Temps
  <2>3. act >= act + 0
    BY <1>4
  <2>4. QED
    BY <2>1, <2>2, <2>3 DEF CanClose
<1>9. Goes("Clauses", x, act, k, "endif", act, act, k2)
  BY <1>4 DEF Goes, CloseH, CloseA, Counting
<1>10. Drafted(<<"Block", "endif">> \o Tail(td), <<k2>> \o Tail(mk), <<act>> \o bs, act, d, ed, Z, l)
  <2>1. G \cup HolesOf(k2) \subseteq Open(MK, Len(mk) - 1) \cup HolesOf(k2)
    BY <1>4
  <2>2. Goes(Head(td), h[Len(c)], act, Head(mk), "endif", act, act, k2)
    BY <1>4, <1>9
  <2>3. QED
    BY <1>1, <1>2, <1>4, <1>7, <1>8, <2>1, <2>2, ReplaceOpening
<1>11. QED
  BY <1>4, <1>5, <1>10

\* Every jump to the end of the if leads here.
LEMMA IfEnds ==
  ASSUME NEW td, NEW mk, NEW bs, NEW act, NEW c, NEW ed, NEW Z, NEW l, Drafted(td, mk, bs, act, c, ed, Z, l),
         Head(td) \in {"Clauses", "endif"}
  PROVE  Drafted(<<>> \o Tail(td), Tail(mk), bs, act, PatchedAll(c, Head(mk).ends \cup ({Head(mk).exit} \ {0})), ed, Z, l)
<1>1. PICK h, MK, BS : Draft(td, mk, bs, act, c, ed, h, MK, BS, Z, l)
  BY DEF Drafted
<1>2. Head(td) \in Closes
  BY DEF Closes
<1>3. PICK s, x, k, G : Finds(td, mk, bs, act, c, h, MK, Z, s, x, k, G) /\ s = Head(td)
  BY <1>1, <1>2, Found
<1>4. /\ c \in Seq(ByteType) /\ h \in Heights /\ x \in Int /\ act \in Nat /\ x = h[Len(c)] /\ k = Head(mk) /\ G = Open(MK, Len(mk) - 1)
      /\ Grown(c, h, c, h, G \cup HolesOf(k), Z, Len(c), x)
  BY <1>3 DEF Finds
<1>5. /\ \A p \in k.ends : Waits(c, h, Z, p, x)
      /\ s = "Clauses" => Waits(c, h, Z, k.exit, x)
      /\ s = "endif" => k.exit = 0
  BY <1>3 DEF Finds
<1>6. PICK d, ps : ps = HolesOf(k) /\ d = PatchedAll(c, ps)
  OBVIOUS
<1>7. \A p \in ps : Waits(c, h, Z, p, x)
  BY <1>3, <1>5, <1>6 DEF HolesOf
<1>8. PICK g : Onward(d, g, x, c, h, c, h, (G \cup HolesOf(k)) \ ps, Z)
  BY <1>4, <1>6, <1>7, AddPatches
<1>9. Grown(c, h, d, g, (G \cup HolesOf(k)) \ ps, Z, Len(d), x)
  BY <1>8, OnwardEnds
<1>10. Leads(<<>>, x, act, CloseH(Head(td), h[Len(c)], act, Head(mk)), CloseA(Head(td), act, Head(mk)))
  <2>1. CloseH(Head(td), h[Len(c)], act, Head(mk)) = x /\ CloseA(Head(td), act, Head(mk)) = act
    BY <1>4 DEF CloseH, CloseA, Counting
  <2>2. QED
    BY <1>4, <2>1, LeadsNone
<1>11. Drafted(<<>> \o Tail(td), Tail(mk), bs, act, d, ed, Z, l)
  <2>1. (G \cup HolesOf(k)) \ ps \subseteq Open(MK, Len(mk) - 1)
    BY <1>4, <1>6
  <2>2. QED
    BY <1>1, <1>2, <1>4, <1>9, <1>10, <2>1, LeaveMark
<1>12. QED
  BY <1>4, <1>6, <1>11 DEF HolesOf

\* The jump back of a while loop, behind which the jump out leads.
LoopBack(c, k, t, l) == c \o Instr("JUMP", Offset(Len(c) + 1, k.start), t, l)

LEMMA WhileEnds ==
  ASSUME NEW td, NEW mk, NEW bs, NEW act, NEW c, NEW ed, NEW Z, NEW l, Drafted(td, mk, bs, act, c, ed, Z, l),
         Head(td) = "endwhile", NEW t \in Nat
  PROVE  Drafted(<<>> \o Tail(td), Tail(mk), bs, act,
                 Patched(LoopBack(c, Head(mk), t, act), Head(mk).exit, Len(LoopBack(c, Head(mk), t, act))), ed, Z, l)
<1>1. PICK h, MK, BS : Draft(td, mk, bs, act, c, ed, h, MK, BS, Z, l)
  BY DEF Drafted
<1>2. Head(td) \in Closes
  BY DEF Closes
<1>3. PICK x, k, G : Finds(td, mk, bs, act, c, h, MK, Z, "endwhile", x, k, G)
  BY <1>1, <1>2, Found
<1>4. /\ c \in Seq(ByteType) /\ h \in Heights /\ x = h[Len(c)] /\ k = Head(mk) /\ G = Open(MK, Len(mk) - 1)
      /\ Grown(c, h, c, h, G \cup HolesOf(k), Z, Len(c), x)
  BY <1>3 DEF Finds
<1>5. x \in Int /\ act \in Nat /\ k \in MarkType /\ k.ends = {} /\ Waits(c, h, Z, k.exit, x) /\ Begun(c, h, k.start, x)
  BY <1>3 DEF Finds
<1>6. PICK d, e, r, p : r = k.start /\ p = k.exit /\ d = c \o Instr("JUMP", Offset(Len(c) + 1, r), t, act) /\ e = Patched(d, p, Len(d))
  OBVIOUS
<1>7. PICK H : H = G \cup HolesOf(k)
  OBVIOUS
<1>8. PICK g : Onward(d, g, x, c, h, c, h, H, Z)
  <2>1. "JUMP" \in Jumps /\ "JUMP" # "JUMPIFFALSE" /\ x = x + Change("JUMP")
    BY <1>5, OpTable, OpMembers
  <2>2. r \in Nat /\ Begun(c, h, r, x)
    BY <1>5, <1>6 DEF MarkType
  <2>3. d = c \o Instr("JUMP", Offset(Len(c) + 1, r), t, act)
    BY <1>6
  <2>4. Grown(c, h, c, h, H, Z, Len(c), x) /\ c \in Seq(ByteType) /\ h \in Heights
    BY <1>4, <1>7
  <2>5. QED
    BY <1>5, <2>1, <2>2, <2>3, <2>4, AddBack
<1>9. PICK f : Onward(e, f, x, d, g, c, h, H \ {p}, Z)
  <2>1. Waits(d, g, Z, p, x)
    BY <1>5, <1>6, <1>8, OnwardKeeps
  <2>2. Grown(c, h, d, g, H, Z, Len(d), x) /\ e = Patched(d, p, Len(d)) /\ c \in Seq(ByteType) /\ h \in Heights
    BY <1>4, <1>6, <1>8, OnwardEnds
  <2>3. QED
    BY <1>5, <2>1, <2>2, AddPatch
<1>10. Grown(c, h, e, f, H \ {p}, Z, Len(e), x)
  BY <1>9, OnwardEnds
<1>11. H \ {p} \subseteq Open(MK, Len(mk) - 1)
  BY <1>4, <1>5, <1>6, <1>7 DEF HolesOf
<1>12. Leads(<<>>, x, act, CloseH(Head(td), h[Len(c)], act, Head(mk)), CloseA(Head(td), act, Head(mk)))
  <2>1. CloseH(Head(td), h[Len(c)], act, Head(mk)) = x /\ CloseA(Head(td), act, Head(mk)) = act
    BY <1>4 DEF CloseH, CloseA, Counting
  <2>2. QED
    BY <1>5, <2>1, LeadsNone
<1>13. Drafted(<<>> \o Tail(td), Tail(mk), bs, act, e, ed, Z, l)
  BY <1>1, <1>2, <1>5, <1>10, <1>11, <1>12, LeaveMark
<1>14. e = Patched(LoopBack(c, Head(mk), t, act), Head(mk).exit, Len(LoopBack(c, Head(mk), t, act)))
  BY <1>4, <1>6 DEF LoopBack
<1>15. QED
  BY <1>13, <1>14

LEMMA UntilComes ==
  ASSUME NEW td, NEW mk, NEW bs, NEW act, NEW c, NEW ed, NEW Z, NEW l, Drafted(td, mk, bs, act, c, ed, Z, l),
         Head(td) = "until"
  PROVE  Drafted(<<"Expr", "endrepeat">> \o Tail(td), mk, bs, act, c, ed, Z, l)
<1>1. PICK h, MK, BS : Draft(td, mk, bs, act, c, ed, h, MK, BS, Z, l)
  BY DEF Drafted
<1>2. Head(td) \in Closes
  BY DEF Closes
<1>3. PICK x, k, G : Finds(td, mk, bs, act, c, h, MK, Z, "until", x, k, G)
  BY <1>1, <1>2, Found
<1>4. /\ x = h[Len(c)] /\ k = Head(mk) /\ G = Open(MK, Len(mk) - 1)
      /\ Grown(c, h, c, h, G \cup HolesOf(k), Z, Len(c), x)
  BY <1>3 DEF Finds
<1>5. /\ x \in Int /\ act \in Nat /\ k \in MarkType /\ k.ends = {} /\ k.exit = 0 /\ Begun(c, h, k.start, x)
      /\ mk # <<>> /\ mk \in Seq(MarkType)
  BY <1>3 DEF Finds
<1>6. x >= act
  <2>1. x >= act + Temps("until")
    BY <1>3 DEF Finds
  <2>2. Temps("until") = 0
    BY DEF Temps
  <2>3. QED
    BY <1>5, <2>1, <2>2
<1>7. PICK z : z = x + 1
  OBVIOUS
<1>8. z \in Int /\ z - 1 = x /\ z >= act + 1
  BY <1>5, <1>6, <1>7
<1>9. CanClose("endrepeat", z, act, Len(mk), Len(bs), k, c, h, Z)
  <2>1. Begun(c, h, k.start, z - 1)
    BY <1>5, <1>8
  <2>2. Serves("endrepeat", At4(z, act, Len(mk), Len(bs)), k, c, h, Z)
    BY <1>5, <2>1, ServesIs
  <2>3. "endrepeat" \in Closes /\ Temps("endrepeat") = 1
    BY DEF Closes, Temps
  <2>4. QED
    BY <1>8, <2>2, <2>3 DEF CanClose
<1>10. Goes("until", x, act, k, "endrepeat", z, act, k)
  BY <1>8 DEF Goes, CloseH, CloseA, Counting
<1>11. Leads(<<"Expr">>, x, act, z, act)
  <2>1. x >= act => EasyStep("Expr", x, act, x + 1, act)
    BY <1>5, Steps
  <2>2. QED
    BY <1>6, <1>7, <2>1, LeadsOne
<1>12. Drafted((<<"Expr">> \o <<"endrepeat">>) \o Tail(td), <<k>> \o Tail(mk), bs, act, c, ed, Z, l)
  <2>1. <<"Expr">> \in Seq(Pendable)
    <3>1. "Expr" \in Pendable
      BY DEF Pendable
    <3>2. QED
      BY <3>1
  <2>2. G \cup HolesOf(k) \subseteq Open(MK, Len(mk) - 1) \cup HolesOf(k)
    BY <1>4
  <2>3. Goes(Head(td), h[Len(c)], act, Head(mk), "endrepeat", z, act, k)
    BY <1>4, <1>10
  <2>4. QED
    BY <1>1, <1>2, <1>4, <1>5, <1>8, <1>9, <1>11, <2>1, <2>2, <2>3, ReplaceMark
<1>13. mk = <<k>> \o Tail(mk)
  BY <1>4, <1>5, HeadTailIs
<1>14. QED
  BY <1>12, <1>13, Pairs

LEMMA RepeatEnds ==
  ASSUME NEW td, NEW mk, NEW bs, NEW act, NEW c, NEW ed, NEW Z, NEW l, Drafted(td, mk, bs, act, c, ed, Z, l),
         Head(td) = "endrepeat", NEW t \in Nat
  PROVE  Drafted(<<>> \o Tail(td), Tail(mk), bs, act,
                 c \o Instr("JUMPIFFALSE", Offset(Len(c) + 1, Head(mk).start), t, act), ed, Z, l)
<1>1. PICK h, MK, BS : Draft(td, mk, bs, act, c, ed, h, MK, BS, Z, l)
  BY DEF Drafted
<1>2. Head(td) \in Closes
  BY DEF Closes
<1>3. PICK x, k, G : Finds(td, mk, bs, act, c, h, MK, Z, "endrepeat", x, k, G)
  BY <1>1, <1>2, Found
<1>4. /\ c \in Seq(ByteType) /\ h \in Heights /\ x = h[Len(c)] /\ k = Head(mk) /\ G = Open(MK, Len(mk) - 1)
      /\ Grown(c, h, c, h, G \cup HolesOf(k), Z, Len(c), x)
  BY <1>3 DEF Finds
<1>5. x \in Int /\ act \in Nat /\ k \in MarkType /\ k.exit = 0 /\ k.ends = {} /\ Begun(c, h, k.start, x - 1)
  BY <1>3 DEF Finds
<1>6. x - 1 >= act
  <2>1. x >= act + Temps("endrepeat")
    BY <1>3 DEF Finds
  <2>2. Temps("endrepeat") = 1
    BY DEF Temps
  <2>3. QED
    BY <1>5, <2>1, <2>2
<1>7. PICK d, r, z : r = k.start /\ z = x - 1 /\ d = c \o Instr("JUMPIFFALSE", Offset(Len(c) + 1, r), t, act)
  OBVIOUS
<1>8. z \in Int /\ z = x - 1
  BY <1>5, <1>7
<1>9. Grown(c, h, c, h, G, Z, Len(c), x)
  BY <1>4, <1>5, HolesNone
<1>10. PICK g : Onward(d, g, z, c, h, c, h, G, Z)
  <2>1. "JUMPIFFALSE" \in Jumps /\ z = x + Change("JUMPIFFALSE")
    BY <1>5, <1>8, OpTable, OpMembers
  <2>2. r \in Nat /\ Begun(c, h, r, z)
    BY <1>5, <1>7 DEF MarkType
  <2>3. d = c \o Instr("JUMPIFFALSE", Offset(Len(c) + 1, r), t, act)
    BY <1>7
  <2>4. QED
    BY <1>4, <1>5, <1>6, <1>9, <2>1, <2>2, <2>3, AddBack
<1>11. Grown(c, h, d, g, G, Z, Len(d), z)
  BY <1>10, OnwardEnds
<1>12. Leads(<<>>, z, act, CloseH(Head(td), h[Len(c)], act, Head(mk)), CloseA(Head(td), act, Head(mk)))
  <2>1. CloseH(Head(td), h[Len(c)], act, Head(mk)) = z /\ CloseA(Head(td), act, Head(mk)) = act
    BY <1>4, <1>8 DEF CloseH, CloseA, Counting
  <2>2. QED
    BY <1>5, <1>8, <2>1, LeadsNone
<1>13. Drafted(<<>> \o Tail(td), Tail(mk), bs, act, d, ed, Z, l)
  <2>1. G \subseteq Open(MK, Len(mk) - 1)
    BY <1>4
  <2>2. QED
    BY <1>1, <1>2, <1>5, <1>11, <1>12, <2>1, LeaveMark
<1>14. QED
  BY <1>4, <1>7, <1>13

\* One expression more in an assignment.
LEMMA AnotherExpression ==
  ASSUME NEW td, NEW mk, NEW bs, NEW act, NEW c, NEW ed, NEW Z, NEW l, Drafted(td, mk, bs, act, c, ed, Z, l),
         Head(td) = "More"
  PROVE  Drafted(<<"value", "More">> \o Tail(td), <<[Head(mk) EXCEPT !.count = @ + 1]>> \o Tail(mk), bs, act, c, ed, Z, l)
<1>1. PICK h, MK, BS : Draft(td, mk, bs, act, c, ed, h, MK, BS, Z, l)
  BY DEF Drafted
<1>2. Head(td) \in Closes
  BY DEF Closes
<1>3. PICK x, k, G : Finds(td, mk, bs, act, c, h, MK, Z, "More", x, k, G)
  BY <1>1, <1>2, Found
<1>4. /\ x = h[Len(c)] /\ k = Head(mk) /\ G = Open(MK, Len(mk) - 1)
      /\ Grown(c, h, c, h, G \cup HolesOf(k), Z, Len(c), x)
  BY <1>3 DEF Finds
<1>5. x \in Int /\ act \in Nat /\ k \in MarkType /\ k.ends = {} /\ k.exit = 0 /\ x = act + k.count
  BY <1>3 DEF Finds
<1>6. PICK k2, z : k2 = [k EXCEPT !.count = @ + 1] /\ z = x + 1
  OBVIOUS
<1>7. k2 \in MarkType /\ k2.ends = {} /\ k2.exit = 0 /\ k2.count = k.count + 1 /\ k.count \in Nat
  BY <1>5, <1>6 DEF MarkType
<1>8. z \in Int /\ z = act + k2.count /\ x >= act /\ z >= act
  <2>1. x = act + k.count /\ z = x + 1 /\ k2.count = k.count + 1
    BY <1>5, <1>6, <1>7
  <2>2. x \in Int /\ act \in Nat /\ k.count \in Nat
    BY <1>5, <1>7
  <2>3. QED
    BY <2>1, <2>2
<1>9. CanClose("More", z, act, Len(mk), Len(bs), k2, c, h, Z)
  <2>1. Serves("More", At4(z, act, Len(mk), Len(bs)), k2, c, h, Z)
    BY <1>7, <1>8, ServesIs
  <2>2. "More" \in Closes /\ Temps("More") = 0
    BY DEF Closes, Temps
  <2>3. z >= act + 0
    BY <1>5, <1>8
  <2>4. QED
    BY <2>1, <2>2, <2>3 DEF CanClose
<1>10. Goes("More", x, act, k, "More", z, act, k2)
  BY DEF Goes, CloseH, CloseA, Counting
<1>11. Leads(<<"value">>, x, act, z, act)
  <2>1. x >= act => EasyStep("value", x, act, x + 1, act)
    BY <1>5, Steps
  <2>2. QED
    BY <1>6, <1>8, <2>1, LeadsOne
<1>12. Drafted((<<"value">> \o <<"More">>) \o Tail(td), <<k2>> \o Tail(mk), bs, act, c, ed, Z, l)
  <2>1. <<"value">> \in Seq(Pendable)
    <3>1. "value" \in Pendable
      BY DEF Pendable
    <3>2. QED
      BY <3>1
  <2>2. G \cup HolesOf(k) \subseteq Open(MK, Len(mk) - 1) \cup HolesOf(k2)
    <3>1. HolesOf(k) = {}
      BY <1>5, HolesNone
    <3>2. QED
      BY <1>4, <3>1
  <2>3. Goes(Head(td), h[Len(c)], act, Head(mk), "More", z, act, k2)
    BY <1>4, <1>10
  <2>4. QED
    BY <1>1, <1>2, <1>4, <1>5, <1>7, <1>8, <1>9, <1>11, <2>1, <2>2, <2>3, ReplaceMark
<1>13. QED
  BY <1>4, <1>6, <1>12, Pairs

\* The expressions are made as many as the targets.
LEMMA Adjusted ==
  ASSUME NEW td, NEW mk, NEW bs, NEW act, NEW c, NEW ed, NEW Z, NEW l, Drafted(td, mk, bs, act, c, ed, Z, l),
         Head(td) = "More", NEW t \in Nat, NEW n \in Nat, NEW r, Leads(r, act + n, act, act, act)
  PROVE  Drafted(r \o Tail(td), Tail(mk), bs, act,
                 (c \o Row("POP", Head(mk).count - n, t, act)) \o Row("LOADNIL", n - Head(mk).count, t, act), ed, Z, l)
<1>1. PICK h, MK, BS : Draft(td, mk, bs, act, c, ed, h, MK, BS, Z, l)
  BY DEF Drafted
<1>2. Head(td) \in Closes
  BY DEF Closes
<1>3. PICK x, k, G : Finds(td, mk, bs, act, c, h, MK, Z, "More", x, k, G)
  BY <1>1, <1>2, Found
<1>4. /\ c \in Seq(ByteType) /\ h \in Heights /\ x = h[Len(c)] /\ k = Head(mk) /\ G = Open(MK, Len(mk) - 1)
      /\ Grown(c, h, c, h, G \cup HolesOf(k), Z, Len(c), x)
  BY <1>3 DEF Finds
<1>5. x \in Int /\ act \in Nat /\ k \in MarkType /\ k.ends = {} /\ k.exit = 0 /\ x = act + k.count
  BY <1>3 DEF Finds
<1>6. PICK m : m = k.count
  OBVIOUS
<1>7. m \in Nat /\ x = act + m
  BY <1>5, <1>6 DEF MarkType
<1>8. Grown(c, h, c, h, G, Z, Len(c), x)
  BY <1>4, <1>5, HolesNone
<1>9. PICK y : y = x + RowChange("POP", m - n)
  OBVIOUS
<1>10. /\ y = IF m <= n THEN act + m ELSE act + n
       /\ m - n > 0 => x - (m - n) >= act
       /\ m - n \in Int /\ n - m \in Int /\ y \in Int
  <2>1. RowChange("POP", m - n) = IF m - n <= 0 THEN 0 ELSE -(m - n)
    BY DEF RowChange
  <2>2. QED
    BY <1>5, <1>7, <1>9, <2>1
<1>11. PICK d, e : d = c \o Row("POP", m - n, t, act) /\ e = d \o Row("LOADNIL", n - m, t, act)
  OBVIOUS
<1>12. PICK g : Onward(d, g, y, c, h, c, h, G, Z)
  <2>1. "POP" \in {"POP", "LOADNIL"} /\ m - n \in Int /\ ("POP" = "POP" /\ m - n > 0 => x - (m - n) >= act)
    BY <1>10
  <2>2. d = c \o Row("POP", m - n, t, act) /\ y = x + RowChange("POP", m - n)
    BY <1>9, <1>11
  <2>3. c \in Seq(ByteType) /\ h \in Heights /\ x \in Int /\ act \in Nat
    BY <1>4, <1>5
  <2>4. QED
    BY <1>8, <2>1, <2>2, <2>3, AddMany
<1>13. PICK z : z = act + n
  OBVIOUS
<1>14. z = y + RowChange("LOADNIL", n - m)
  <2>1. RowChange("LOADNIL", n - m) = IF n - m <= 0 THEN 0 ELSE n - m
    BY DEF RowChange
  <2>2. QED
    BY <1>5, <1>7, <1>10, <1>13, <2>1
<1>15. PICK f : Onward(e, f, z, d, g, c, h, G, Z)
  <2>1. "LOADNIL" \in {"POP", "LOADNIL"} /\ n - m \in Int /\ y \in Int /\ "LOADNIL" # "POP"
    BY <1>10
  <2>2. e = d \o Row("LOADNIL", n - m, t, act) /\ Grown(c, h, d, g, G, Z, Len(d), y)
    BY <1>11, <1>12, OnwardEnds
  <2>3. c \in Seq(ByteType) /\ h \in Heights /\ act \in Nat
    BY <1>4, <1>5
  <2>4. QED
    BY <1>14, <2>1, <2>2, <2>3, AddMany
<1>16. Grown(c, h, e, f, G, Z, Len(e), z)
  BY <1>15, OnwardEnds
<1>17. Leads(r, z, act, CloseH(Head(td), h[Len(c)], act, Head(mk)), CloseA(Head(td), act, Head(mk)))
  <2>1. CloseH(Head(td), h[Len(c)], act, Head(mk)) = act /\ CloseA(Head(td), act, Head(mk)) = act
    BY DEF CloseH, CloseA, Counting
  <2>2. QED
    BY <1>13, <2>1
<1>18. Drafted(r \o Tail(td), Tail(mk), bs, act, e, ed, Z, l)
  <2>1. G \subseteq Open(MK, Len(mk) - 1)
    BY <1>4
  <2>2. QED
    BY <1>1, <1>2, <1>5, <1>16, <1>17, <2>1, LeaveMark
<1>19. QED
  BY <1>4, <1>6, <1>11, <1>18

-----------------------------------------------------------------------------
(* Loops with locals of their own. *)

\* An instruction that takes nothing, or leaves enough.
LEMMA AddPush ==
  ASSUME NEW c \in Seq(ByteType), NEW h \in Heights, NEW d, NEW g, NEW G, NEW Z, NEW x \in Int,
         Grown(c, h, d, g, G, Z, Len(d), x),
         NEW op \in {"GETLOCAL", "LOADCONST", "LOADNIL"}, NEW n \in Nat, NEW t \in Nat, NEW l \in Nat,
         NEW y, y = x + 1, NEW e, e = d \o Instr(op, n, t, l)
  PROVE  \E f : Onward(e, f, y, d, g, c, h, G, Z)
<1>1. op \in Op /\ op \notin Jumps /\ Worded(op, n)
  BY OpMembers
<1>2. Change(op) = 1 /\ ~(Takes(op) > 0)
  BY OpTable
<1>3. y = x + Change(op) /\ (Takes(op) > 0 => x - Takes(op) >= l)
  BY <1>2
<1>4. n \in Int
  OBVIOUS
<1>5. QED
  BY <1>1, <1>3, <1>4, AddOne

LEMMA AddTake ==
  ASSUME NEW c \in Seq(ByteType), NEW h \in Heights, NEW d, NEW g, NEW G, NEW Z, NEW x \in Int,
         Grown(c, h, d, g, G, Z, Len(d), x),
         NEW op \in {"COMPARE", "ADD", "GETTABLE"}, NEW n \in Int, NEW t \in Nat, NEW l \in Nat, x - 2 >= l,
         NEW y, y = x - 1, NEW e, e = d \o Instr(op, n, t, l)
  PROVE  \E f : Onward(e, f, y, d, g, c, h, G, Z)
<1>1. op \in Op /\ op \notin Jumps /\ Worded(op, n)
  BY OpMembers
<1>2. Change(op) = -1 /\ Takes(op) = 2
  BY OpTable
<1>3. y = x + Change(op) /\ (Takes(op) > 0 => x - Takes(op) >= l)
  BY <1>2
<1>4. QED
  BY <1>1, <1>3, AddOne

LEMMA AddSet ==
  ASSUME NEW c \in Seq(ByteType), NEW h \in Heights, NEW d, NEW g, NEW G, NEW Z, NEW x \in Int,
         Grown(c, h, d, g, G, Z, Len(d), x), NEW n \in Nat, NEW t \in Nat, NEW l \in Nat, x - 1 >= l,
         NEW y, y = x - 1, NEW e, e = d \o Instr("SETLOCAL", n, t, l)
  PROVE  \E f : Onward(e, f, y, d, g, c, h, G, Z)
<1>1. "SETLOCAL" \in Op /\ "SETLOCAL" \notin Jumps /\ Worded("SETLOCAL", n)
  BY OpMembers
<1>2. Change("SETLOCAL") = -1 /\ Takes("SETLOCAL") = 1
  BY OpTable
<1>3. y = x + Change("SETLOCAL") /\ (Takes("SETLOCAL") > 0 => x - Takes("SETLOCAL") >= l)
  BY <1>2
<1>4. n \in Int
  OBVIOUS
<1>5. QED
  BY <1>1, <1>3, <1>4, AddOne

\* The test of a for loop, with l locals.
Test3(c, v, t, l) == ((c \o Instr("GETLOCAL", v, t, l)) \o Instr("GETLOCAL", v + 1, t, l)) \o Instr("COMPARE", 0, t, l)
Test4(c, v, t, l) == Test3(c, v, t, l) \o Instr("JUMPIFFALSE", 0, t, l)

LEMMA ForTested ==
  ASSUME NEW td, NEW mk, NEW bs, NEW act, NEW c, NEW ed, NEW Z, NEW l, Drafted(td, mk, bs, act, c, ed, Z, l),
         Head(td) = "test", NEW t \in Nat
  PROVE  Drafted(<<"Block", "endfor">> \o Tail(td),
                 <<[Head(mk) EXCEPT !.start = Len(c), !.exit = Len(Test4(c, Head(mk).count, t, act + 1)) - 2]>> \o Tail(mk),
                 <<act + 1>> \o bs, act + 1, Test4(c, Head(mk).count, t, act + 1), ed, Z, l)
<1>1. PICK h, MK, BS : Draft(td, mk, bs, act, c, ed, h, MK, BS, Z, l)
  BY DEF Drafted
<1>2. Head(td) \in Closes
  BY DEF Closes
<1>3. PICK x, k, G : Finds(td, mk, bs, act, c, h, MK, Z, "test", x, k, G)
  BY <1>1, <1>2, Found
<1>4. /\ c \in Seq(ByteType) /\ h \in Heights /\ x = h[Len(c)] /\ k = Head(mk) /\ G = Open(MK, Len(mk) - 1)
      /\ Grown(c, h, c, h, G \cup HolesOf(k), Z, Len(c), x)
  BY <1>3 DEF Finds
<1>5. x \in Int /\ act \in Nat /\ k \in MarkType /\ k.ends = {} /\ k.exit = 0 /\ x = act + 1 /\ act = k.count + 2
  BY <1>3 DEF Finds
<1>6. PICK v, a : v = k.count /\ a = act + 1
  OBVIOUS
<1>7. v \in Nat /\ v + 1 \in Nat /\ a \in Nat /\ x = a /\ a = v + 3
  <2>1. v \in Nat
    BY <1>5, <1>6 DEF MarkType
  <2>2. act = v + 2 /\ act \in Nat /\ a = act + 1 /\ x = act + 1
    BY <1>5, <1>6
  <2>3. QED
    BY <2>1, <2>2
<1>8. Grown(c, h, c, h, G, Z, Len(c), a)
  BY <1>4, <1>5, <1>7, HolesNone
<1>9. PICK c1, c2, c3, c4, p :
           /\ c1 = c \o Instr("GETLOCAL", v, t, a) /\ c2 = c1 \o Instr("GETLOCAL", v + 1, t, a)
           /\ c3 = c2 \o Instr("COMPARE", 0, t, a) /\ c4 = c3 \o Instr("JUMPIFFALSE", 0, t, a) /\ p = Len(c3) + 1
  OBVIOUS
<1>10. PICK y, z : y = a + 1 /\ z = a + 2
  OBVIOUS
<1>11. /\ a \in Int /\ y \in Int /\ z \in Int /\ y = a + 1 /\ z = y + 1 /\ y = z - 1 /\ a = y - 1 /\ z - 2 >= a /\ y - 1 >= a
  BY <1>7, <1>10
<1>12. PICK g1 : Onward(c1, g1, y, c, h, c, h, G, Z)
  <2>1. c1 = c \o Instr("GETLOCAL", v, t, a)
    BY <1>9
  <2>2. Grown(c, h, c, h, G, Z, Len(c), a)
    BY <1>8
  <2>3. c \in Seq(ByteType) /\ h \in Heights
    BY <1>4
  <2>4. v \in Nat /\ a \in Nat /\ a \in Int /\ y = a + 1
    BY <1>7, <1>11
  <2>5. QED
    BY <2>1, <2>2, <2>3, <2>4, AddPush
<1>13. PICK g2 : Onward(c2, g2, z, c1, g1, c, h, G, Z)
  <2>1. c2 = c1 \o Instr("GETLOCAL", v + 1, t, a) /\ Grown(c, h, c1, g1, G, Z, Len(c1), y)
    BY <1>9, <1>12, OnwardEnds
  <2>2. QED
    BY <1>4, <1>7, <1>11, <2>1, AddPush
<1>14. PICK g3 : Onward(c3, g3, y, c2, g2, c, h, G, Z)
  <2>1. c3 = c2 \o Instr("COMPARE", 0, t, a)
    BY <1>9
  <2>2. Grown(c, h, c2, g2, G, Z, Len(c2), z)
    BY <1>13, OnwardEnds
  <2>3. c \in Seq(ByteType) /\ h \in Heights
    BY <1>4
  <2>4. 0 \in Int /\ a \in Nat /\ z \in Int /\ y = z - 1 /\ z - 2 >= a
    BY <1>7, <1>11
  <2>5. QED
    BY <2>1, <2>2, <2>3, <2>4, AddTake
<1>15. PICK g4 : Holed(c4, g4, a, c3, g3, c, h, G, Z, p)
  <2>1. "JUMPIFFALSE" \in Jumps /\ a = y + Change("JUMPIFFALSE")
    BY <1>11, OpTable, OpMembers
  <2>2. c4 = c3 \o Instr("JUMPIFFALSE", 0, t, a) /\ p = Len(c3) + 1 /\ Grown(c, h, c3, g3, G, Z, Len(c3), y)
    BY <1>9, <1>14, OnwardEnds
  <2>3. QED
    BY <1>4, <1>7, <1>11, <2>1, <2>2, AddHole
<1>16. Onward(c4, g4, a, c3, g3, c, h, G \cup {p}, Z) /\ Waits(c4, g4, Z, p, a) /\ p \in Nat /\ p >= 1 /\ Len(c4) = p + 2
  BY <1>15 DEF Holed
<1>17. PICK b \in Nat : b = Len(c)
  BY <1>4, LenProperties
<1>18. PICK k2 : k2 = [k EXCEPT !.start = b, !.exit = p]
  OBVIOUS
<1>19. k2 \in MarkType /\ k2.exit = p /\ k2.ends = {} /\ k2.start = b /\ k2.count = v
  <2>1. k \in MarkType /\ p \in Nat /\ b \in Nat /\ k2 = [k EXCEPT !.start = b, !.exit = p]
    BY <1>5, <1>16, <1>17, <1>18
  <2>2. k2 \in MarkType /\ k2.exit = p /\ k2.ends = k.ends /\ k2.start = b /\ k2.count = k.count
    <3>1. DOMAIN k = {"start", "exit", "ends", "count"}
      BY <2>1 DEF MarkType
    <3>2. k2.exit = p /\ k2.ends = k.ends /\ k2.start = b /\ k2.count = k.count
      BY <2>1, <3>1
    <3>3. k2 \in MarkType
      BY <2>1 DEF MarkType
    <3>4. QED
      BY <3>2, <3>3
  <2>3. k.ends = {} /\ k.count = v
    BY <1>5, <1>6
  <2>4. QED
    BY <2>2, <2>3
<1>20. Begun(c4, g4, b, a)
  <2>1. Begun(c, h, b, a)
    <3>1. h[b] = a
      BY <1>4, <1>7, <1>17
    <3>2. Point(c, b, Len(c))
      BY <1>17 DEF Point
    <3>3. QED
      BY <3>1, <3>2 DEF Begun
  <2>2. QED
    BY <1>4, <1>16, <2>1, OnwardFrom
<1>21. CanClose("endfor", a, a, Len(mk), Len(bs), k2, c4, g4, Z)
  <2>1. Serves("endfor", At4(a, a, Len(mk), Len(bs)), k2, c4, g4, Z)
    BY <1>7, <1>16, <1>19, <1>20, ServesIs
  <2>2. "endfor" \in Closes /\ Temps("endfor") = 0
    BY DEF Closes, Temps
  <2>3. a >= a + 0
    BY <1>7
  <2>4. QED
    BY <2>1, <2>2, <2>3 DEF CanClose
<1>22. Goes("test", x, act, k, "endfor", a, a, k2)
  BY <1>6, <1>19 DEF Goes, CloseH, CloseA, Counting
<1>23. Drafted(<<"Block", "endfor">> \o Tail(td), <<k2>> \o Tail(mk), <<a>> \o bs, a, c4, ed, Z, l)
  <2>1. Grown(c, h, c4, g4, G \cup {p}, Z, Len(c4), a)
    BY <1>16, OnwardEnds
  <2>2. G \cup {p} \subseteq Open(MK, Len(mk) - 1) \cup HolesOf(k2)
    BY <1>4, <1>16, <1>19, HolesExit
  <2>3. Goes(Head(td), h[Len(c)], act, Head(mk), "endfor", a, a, k2)
    BY <1>4, <1>22
  <2>4. QED
    BY <1>1, <1>2, <1>7, <1>19, <1>21, <2>1, <2>2, <2>3, ReplaceOpening
<1>24. c4 = Test4(c, v, t, a) /\ p = Len(c4) - 2
  BY <1>9, <1>16 DEF Test3, Test4
<1>25. QED
  BY <1>4, <1>6, <1>17, <1>18, <1>23, <1>24

\* The end of a loop with locals: the variable moves on, the loop starts again; behind it its
\* locals are dropped.
Step4(c, op, i, j, v, t, l) ==
  (((c \o Instr("GETLOCAL", i, t, l)) \o Instr(op, j, t, l)) \o Instr("ADD", 0, t, l)) \o Instr("SETLOCAL", v, t, l)
Step5(c, op, i, j, v, r, t, l) ==
  Step4(c, op, i, j, v, t, l) \o Instr("JUMP", Offset(Len(Step4(c, op, i, j, v, t, l)) + 1, r), t, l)
Step6(c, op, i, j, v, r, p, t, l) ==
  Patched(Step5(c, op, i, j, v, r, t, l), p, Len(Step5(c, op, i, j, v, r, t, l))) \o Row("POP", 3, t, l)

LEMMA ForEnds ==
  ASSUME NEW td, NEW mk, NEW bs, NEW act, NEW c, NEW ed, NEW Z, NEW l, Drafted(td, mk, bs, act, c, ed, Z, l),
         Head(td) \in {"endfor", "endforin"}, NEW op \in {"GETLOCAL", "LOADCONST"},
         NEW i \in Nat, NEW j \in Nat, NEW v \in Nat, NEW t \in Nat
  PROVE  Drafted(<<>> \o Tail(td), Tail(mk), bs, Head(mk).count,
                 Step6(c, op, i, j, v, Head(mk).start, Head(mk).exit, t, Head(mk).count), ed, Z, l)
<1>1. PICK h, MK, BS : Draft(td, mk, bs, act, c, ed, h, MK, BS, Z, l)
  BY DEF Drafted
<1>2. Head(td) \in Closes
  BY DEF Closes
<1>3. PICK s, x, k, G : Finds(td, mk, bs, act, c, h, MK, Z, s, x, k, G) /\ s = Head(td)
  BY <1>1, <1>2, Found
<1>4. /\ c \in Seq(ByteType) /\ h \in Heights /\ x = h[Len(c)] /\ k = Head(mk) /\ G = Open(MK, Len(mk) - 1)
      /\ Grown(c, h, c, h, G \cup HolesOf(k), Z, Len(c), x)
  BY <1>3 DEF Finds
<1>5. /\ x \in Int /\ k \in MarkType /\ k.ends = {} /\ x = k.count + 3
      /\ Waits(c, h, Z, k.exit, x) /\ Begun(c, h, k.start, x)
  BY <1>3 DEF Finds
<1>6. PICK a, r, p, H : a = k.count /\ r = k.start /\ p = k.exit /\ H = G \cup HolesOf(k)
  OBVIOUS
<1>7. a \in Nat /\ r \in Nat /\ p \in Nat /\ x = a + 3
  BY <1>5, <1>6 DEF MarkType
<1>8. PICK c1, c2, c3, c4, c5, c6, c7 :
           /\ c1 = c \o Instr("GETLOCAL", i, t, a) /\ c2 = c1 \o Instr(op, j, t, a) /\ c3 = c2 \o Instr("ADD", 0, t, a)
           /\ c4 = c3 \o Instr("SETLOCAL", v, t, a) /\ c5 = c4 \o Instr("JUMP", Offset(Len(c4) + 1, r), t, a)
           /\ c6 = Patched(c5, p, Len(c5)) /\ c7 = c6 \o Row("POP", 3, t, a)
  OBVIOUS
<1>9. PICK y, z : y = x + 1 /\ z = x + 2
  OBVIOUS
<1>10. /\ y \in Int /\ z \in Int /\ y = x + 1 /\ z = y + 1 /\ y = z - 1 /\ x = y - 1 /\ z - 2 >= a /\ y - 1 >= a
       /\ x - 3 >= a /\ a = x - 3 /\ a \in Int
  <2>1. x \in Int /\ a \in Nat /\ x = a + 3 /\ y = x + 1 /\ z = x + 2
    BY <1>5, <1>7, <1>9
  <2>2. QED
    BY <2>1
<1>11. Grown(c, h, c, h, H, Z, Len(c), x)
  BY <1>4, <1>6
<1>12. PICK g1 : Onward(c1, g1, y, c, h, c, h, H, Z)
  <2>1. c1 = c \o Instr("GETLOCAL", i, t, a)
    BY <1>8
  <2>2. QED
    BY <1>4, <1>5, <1>7, <1>10, <1>11, <2>1, AddPush
<1>13. PICK g2 : Onward(c2, g2, z, c1, g1, c, h, H, Z)
  <2>1. c2 = c1 \o Instr(op, j, t, a) /\ Grown(c, h, c1, g1, H, Z, Len(c1), y)
    BY <1>8, <1>12, OnwardEnds
  <2>2. QED
    BY <1>4, <1>7, <1>10, <2>1, AddPush
<1>14. PICK g3 : Onward(c3, g3, y, c2, g2, c, h, H, Z)
  <2>1. c3 = c2 \o Instr("ADD", 0, t, a)
    BY <1>8
  <2>2. Grown(c, h, c2, g2, H, Z, Len(c2), z)
    BY <1>13, OnwardEnds
  <2>3. c \in Seq(ByteType) /\ h \in Heights
    BY <1>4
  <2>4. 0 \in Int /\ a \in Nat /\ z \in Int /\ y = z - 1 /\ z - 2 >= a
    BY <1>7, <1>10
  <2>5. QED
    BY <2>1, <2>2, <2>3, <2>4, AddTake
<1>15. PICK g4 : Onward(c4, g4, x, c3, g3, c, h, H, Z)
  <2>1. c4 = c3 \o Instr("SETLOCAL", v, t, a) /\ Grown(c, h, c3, g3, H, Z, Len(c3), y)
    BY <1>8, <1>14, OnwardEnds
  <2>2. QED
    BY <1>4, <1>5, <1>7, <1>10, <2>1, AddSet
<1>16. PICK g5 : Onward(c5, g5, x, c4, g4, c, h, H, Z)
  <2>1. "JUMP" \in Jumps /\ "JUMP" # "JUMPIFFALSE" /\ x = x + Change("JUMP")
    BY <1>5, OpTable, OpMembers
  <2>2. Begun(c, h, r, x)
    BY <1>5, <1>6
  <2>3. c5 = c4 \o Instr("JUMP", Offset(Len(c4) + 1, r), t, a) /\ Grown(c, h, c4, g4, H, Z, Len(c4), x)
    BY <1>8, <1>15, OnwardEnds
  <2>4. QED
    BY <1>4, <1>5, <1>7, <2>1, <2>2, <2>3, AddBack
<1>17. PICK g6 : Onward(c6, g6, x, c5, g5, c, h, H \ {p}, Z)
  <2>1. Waits(c5, g5, Z, p, x)
    <3>1. Waits(c, h, Z, p, x)
      BY <1>5, <1>6
    <3>2. QED
      BY <1>4, <1>16, <3>1, OnwardFrom
  <2>2. c6 = Patched(c5, p, Len(c5)) /\ Grown(c, h, c5, g5, H, Z, Len(c5), x)
    BY <1>8, <1>16, OnwardEnds
  <2>3. QED
    BY <1>4, <1>5, <2>1, <2>2, AddPatch
<1>18. PICK g7 : Onward(c7, g7, a, c6, g6, c, h, H \ {p}, Z)
  <2>1. a = x + RowChange("POP", 3)
    <3>1. RowChange("POP", 3) = -3
      BY DEF RowChange
    <3>2. QED
      BY <1>5, <1>10, <3>1
  <2>2. "POP" \in {"POP", "LOADNIL"} /\ 3 \in Int
    OBVIOUS
  <2>3. c7 = c6 \o Row("POP", 3, t, a) /\ Grown(c, h, c6, g6, H \ {p}, Z, Len(c6), x)
    BY <1>8, <1>17, OnwardEnds
  <2>4. QED
    BY <1>4, <1>5, <1>7, <1>10, <2>1, <2>2, <2>3, AddMany
<1>19. Grown(c, h, c7, g7, H \ {p}, Z, Len(c7), a)
  BY <1>18, OnwardEnds
<1>20. H \ {p} \subseteq Open(MK, Len(mk) - 1)
  BY <1>4, <1>5, <1>6 DEF HolesOf
<1>21. Leads(<<>>, a, a, CloseH(Head(td), h[Len(c)], act, Head(mk)), CloseA(Head(td), act, Head(mk)))
  <2>1. CloseH(Head(td), h[Len(c)], act, Head(mk)) = a /\ CloseA(Head(td), act, Head(mk)) = a
    BY <1>4, <1>6 DEF CloseH, CloseA, Counting
  <2>2. QED
    BY <1>7, <1>10, <2>1, LeadsNone
<1>22. Drafted(<<>> \o Tail(td), Tail(mk), bs, a, c7, ed, Z, l)
  BY <1>1, <1>2, <1>7, <1>19, <1>20, <1>21, LeaveMark
<1>23. c7 = Step6(c, op, i, j, v, r, p, t, a)
  BY <1>8 DEF Step4, Step5, Step6
<1>24. QED
  BY <1>4, <1>6, <1>22, <1>23

-----------------------------------------------------------------------------
(* Numeric loops, for-in loops and iterations. *)

\* A copy of the top value.
LEMMA AddCopy ==
  ASSUME NEW c \in Seq(ByteType), NEW h \in Heights, NEW d, NEW g, NEW G, NEW Z, NEW x \in Int,
         Grown(c, h, d, g, G, Z, Len(d), x), NEW t \in Nat, NEW l \in Nat, x - 1 >= l,
         NEW y, y = x + 1, NEW e, e = d \o Instr("DUP", 0, t, l)
  PROVE  \E f : Onward(e, f, y, d, g, c, h, G, Z)
<1>1. x - Takes("DUP") >= l /\ y = x + Change("DUP")
  BY OpTable
<1>2. "DUP" \in Op /\ "DUP" \notin Jumps /\ Worded("DUP", 0)
  BY OpMembers
<1>3. 0 \in Int
  OBVIOUS
<1>4. QED
  BY <1>1, <1>2, <1>3, AddOne

\* The start of a for-in loop, with l locals: the index and a nil as locals; then the next item
\* of the table is tested.
Item0(c, t, l) == (c \o Instr("LOADCONST", 0, t, l)) \o Instr("LOADNIL", 0, t, l)
Item4(c, v, t, l) ==
  (((c \o Instr("GETLOCAL", v, t, l)) \o Instr("GETLOCAL", v + 1, t, l)) \o Instr("GETTABLE", 0, t, l))
    \o Instr("DUP", 0, t, l)
Item5(c, v, t, l) == Item4(Item0(c, t, l), v, t, l) \o Instr("JUMPIFFALSE", 0, t, l)
Item6(c, v, t, l) == Item5(c, v, t, l) \o Instr("SETLOCAL", v + 2, t, l)

LEMMA ItemBegins ==
  ASSUME NEW c \in Seq(ByteType), NEW h \in Heights, NEW G, NEW Z, NEW x \in Int,
         Grown(c, h, c, h, G, Z, Len(c), x), NEW t \in Nat, NEW a \in Nat, a = x + 2, NEW d, d = Item0(c, t, a)
  PROVE  \E g : Grown(c, h, d, g, G, Z, Len(d), a) /\ Begun(d, g, Len(d), a) /\ d \in Seq(ByteType) /\ g \in Heights
<1>1. PICK c1, y : c1 = c \o Instr("LOADCONST", 0, t, a) /\ y = x + 1
  OBVIOUS
<1>2. PICK g1 : Onward(c1, g1, y, c, h, c, h, G, Z)
  <2>1. c1 = c \o Instr("LOADCONST", 0, t, a) /\ y = x + 1
    BY <1>1
  <2>2. 0 \in Nat
    OBVIOUS
  <2>3. QED
    BY <2>1, <2>2, AddPush
<1>3. PICK g2 : Onward(d, g2, a, c1, g1, c, h, G, Z)
  <2>1. y \in Int /\ a = y + 1
    BY <1>1
  <2>2. d = c1 \o Instr("LOADNIL", 0, t, a)
    BY <1>1 DEF Item0
  <2>3. Grown(c, h, c1, g1, G, Z, Len(c1), y)
    BY <1>2, OnwardEnds
  <2>4. 0 \in Nat
    OBVIOUS
  <2>5. QED
    BY <2>1, <2>2, <2>3, <2>4, AddPush
<1>4. QED
  BY <1>3, OnwardEnds DEF Onward

LEMMA ItemTaken ==
  ASSUME NEW c \in Seq(ByteType), NEW h \in Heights, NEW d, NEW g, NEW G, NEW Z, NEW a \in Nat,
         Grown(c, h, d, g, G, Z, Len(d), a), NEW t \in Nat, NEW v \in Nat, NEW e, e = Item4(d, v, t, a)
  PROVE  \E f : Grown(c, h, e, f, G, Z, Len(e), a + 2) /\ Extended(d, g, e, f) /\ e \in Seq(ByteType) /\ f \in Heights
<1>1. PICK c1, c2, c3, y, z :
           /\ c1 = d \o Instr("GETLOCAL", v, t, a) /\ c2 = c1 \o Instr("GETLOCAL", v + 1, t, a)
           /\ c3 = c2 \o Instr("GETTABLE", 0, t, a) /\ y = a + 1 /\ z = a + 2
  OBVIOUS
<1>2. y \in Int /\ z \in Int /\ z = y + 1 /\ y = z - 1 /\ z - 2 >= a /\ y - 1 >= a /\ a \in Int /\ v + 1 \in Nat /\ v \in Nat
  BY <1>1
<1>3. PICK g1 : Onward(c1, g1, y, d, g, c, h, G, Z)
  BY <1>1, <1>2, AddPush
<1>4. PICK g2 : Onward(c2, g2, z, c1, g1, c, h, G, Z)
  <2>1. c2 = c1 \o Instr("GETLOCAL", v + 1, t, a) /\ Grown(c, h, c1, g1, G, Z, Len(c1), y)
    BY <1>1, <1>3, OnwardEnds
  <2>2. QED
    BY <1>2, <2>1, AddPush
<1>5. PICK g3 : Onward(c3, g3, y, c2, g2, c, h, G, Z)
  <2>1. c3 = c2 \o Instr("GETTABLE", 0, t, a) /\ Grown(c, h, c2, g2, G, Z, Len(c2), z)
    BY <1>1, <1>4, OnwardEnds
  <2>2. 0 \in Int
    OBVIOUS
  <2>3. QED
    BY <1>2, <2>1, <2>2, AddTake
<1>6. PICK g4 : Onward(e, g4, z, c3, g3, c, h, G, Z)
  <2>1. e = c3 \o Instr("DUP", 0, t, a)
    BY <1>1 DEF Item4
  <2>2. Grown(c, h, c3, g3, G, Z, Len(c3), y)
    BY <1>5, OnwardEnds
  <2>3. QED
    BY <1>2, <2>1, <2>2, AddCopy
<1>7. d \in Seq(ByteType) /\ c1 \in Seq(ByteType) /\ c2 \in Seq(ByteType) /\ c3 \in Seq(ByteType) /\ e \in Seq(ByteType)
      /\ g4 \in Heights
  BY <1>3, <1>4, <1>5, <1>6 DEF Onward
<1>8. Extended(d, g, e, g4)
  <2>1. Extended(d, g, c1, g1) /\ Extended(c1, g1, c2, g2) /\ Extended(c2, g2, c3, g3) /\ Extended(c3, g3, e, g4)
    BY <1>3, <1>4, <1>5, <1>6 DEF Onward
  <2>2. Extended(d, g, c2, g2)
    BY <1>7, <2>1, ExtendedFurther
  <2>3. Extended(d, g, c3, g3)
    BY <1>7, <2>1, <2>2, ExtendedFurther
  <2>4. QED
    BY <1>7, <2>1, <2>3, ExtendedFurther
<1>9. Grown(c, h, e, g4, G, Z, Len(e), z)
  BY <1>6, OnwardEnds
<1>10. QED
  BY <1>1, <1>7, <1>8, <1>9

\* An item that is nil ends the loop: the jump out waits, with whatever height.
LEMMA ItemComes ==
  ASSUME NEW td, NEW mk, NEW bs, NEW act, NEW c, NEW ed, NEW Z, NEW l, Drafted(td, mk, bs, act, c, ed, Z, l),
         Head(td) = "item", NEW t \in Nat, t \in Z
  PROVE  Drafted(<<"Block", "endforin">> \o Tail(td),
                 <<[Head(mk) EXCEPT !.start = Len(Item0(c, t, act + 3)),
                                    !.exit = Len(Item5(c, Head(mk).count, t, act + 3)) - 2]>> \o Tail(mk),
                 <<act + 3>> \o bs, act + 3, Item6(c, Head(mk).count, t, act + 3), ed, Z, l)
<1>1. PICK h, MK, BS : Draft(td, mk, bs, act, c, ed, h, MK, BS, Z, l)
  BY DEF Drafted
<1>2. Head(td) \in Closes
  BY DEF Closes
<1>3. PICK x, k, G : Finds(td, mk, bs, act, c, h, MK, Z, "item", x, k, G)
  BY <1>1, <1>2, Found
<1>4. /\ c \in Seq(ByteType) /\ h \in Heights /\ x = h[Len(c)] /\ k = Head(mk) /\ G = Open(MK, Len(mk) - 1)
      /\ Grown(c, h, c, h, G \cup HolesOf(k), Z, Len(c), x)
  BY <1>3 DEF Finds
<1>5. x \in Int /\ act \in Nat /\ k \in MarkType /\ k.ends = {} /\ k.exit = 0 /\ x = act + 1 /\ act = k.count
  BY <1>3 DEF Finds
<1>6. PICK v, a : v = k.count /\ a = act + 3
  OBVIOUS
<1>7. v \in Nat /\ a \in Nat /\ a = x + 2 /\ a = v + 3 /\ act = v
  <2>1. v \in Nat
    BY <1>5, <1>6 DEF MarkType
  <2>2. act = v /\ act \in Nat /\ a = act + 3 /\ x = act + 1
    BY <1>5, <1>6
  <2>3. QED
    BY <2>1, <2>2
<1>8. Grown(c, h, c, h, G, Z, Len(c), x)
  BY <1>4, <1>5, HolesNone
<1>9. PICK c0, c4, c5, c6, p :
           /\ c0 = Item0(c, t, a) /\ c4 = Item4(c0, v, t, a) /\ c5 = c4 \o Instr("JUMPIFFALSE", 0, t, a)
           /\ c6 = c5 \o Instr("SETLOCAL", v + 2, t, a) /\ p = Len(c4) + 1
  OBVIOUS
<1>10. PICK y, z, w : y = a + 1 /\ z = a + 2 /\ w = v + 2
  OBVIOUS
<1>11. y \in Int /\ z \in Int /\ w \in Nat /\ z - 1 >= a /\ y = z - 1 /\ y - 1 >= a /\ a = y - 1 /\ a \in Int
  BY <1>7, <1>10
<1>12. PICK g0 : Grown(c, h, c0, g0, G, Z, Len(c0), a) /\ Begun(c0, g0, Len(c0), a) /\ c0 \in Seq(ByteType) /\ g0 \in Heights
  BY <1>4, <1>5, <1>7, <1>8, <1>9, ItemBegins
<1>13. PICK g4 : Grown(c, h, c4, g4, G, Z, Len(c4), a + 2) /\ Extended(c0, g0, c4, g4) /\ c4 \in Seq(ByteType) /\ g4 \in Heights
  BY <1>4, <1>7, <1>9, <1>12, ItemTaken
<1>14. PICK g5 : Holed(c5, g5, y, c4, g4, c, h, G, Z, p) /\ \A q : Waits(c5, g5, Z, p, q)
  <2>1. "JUMPIFFALSE" \in Jumps /\ y = z + Change("JUMPIFFALSE")
    BY <1>11, OpTable, OpMembers
  <2>2. c5 = c4 \o Instr("JUMPIFFALSE", 0, t, a) /\ p = Len(c4) + 1 /\ Grown(c, h, c4, g4, G, Z, Len(c4), z)
    BY <1>9, <1>10, <1>13
  <2>3. c \in Seq(ByteType) /\ h \in Heights
    BY <1>4
  <2>4. PICK g5 : /\ Holed(c5, g5, y, c4, g4, c, h, G, Z, p)
                  /\ "JUMPIFFALSE" = "JUMPIFFALSE" /\ t \in Z => \A q : Waits(c5, g5, Z, p, q)
    BY <1>7, <1>11, <2>1, <2>2, <2>3, AddHole
  <2>5. QED
    BY <2>4
<1>15. Onward(c5, g5, y, c4, g4, c, h, G \cup {p}, Z) /\ p \in Nat /\ p >= 1 /\ Len(c5) = p + 2
  BY <1>14 DEF Holed
<1>16. PICK g6 : Onward(c6, g6, a, c5, g5, c, h, G \cup {p}, Z)
  <2>1. c6 = c5 \o Instr("SETLOCAL", w, t, a)
    BY <1>9, <1>10
  <2>2. Grown(c, h, c5, g5, G \cup {p}, Z, Len(c5), y)
    BY <1>15, OnwardEnds
  <2>3. c \in Seq(ByteType) /\ h \in Heights
    BY <1>4
  <2>4. QED
    BY <1>7, <1>11, <2>1, <2>2, <2>3, AddSet
<1>17. Waits(c6, g6, Z, p, a)
  BY <1>14, <1>16, OnwardKeeps
<1>18. PICK b \in Nat : b = Len(c0)
  BY <1>12, LenProperties
<1>19. Begun(c6, g6, b, a)
  <2>1. Begun(c4, g4, b, a)
    BY <1>12, <1>13, <1>18, StillBegun
  <2>2. Begun(c5, g5, b, a)
    BY <1>15, <2>1, OnwardKeeps
  <2>3. QED
    BY <1>16, <2>2, OnwardKeeps
<1>20. PICK k2 : k2 = [k EXCEPT !.start = b, !.exit = p]
  OBVIOUS
<1>21. k2 \in MarkType /\ k2.exit = p /\ k2.ends = {} /\ k2.start = b /\ k2.count = v
  <2>1. k \in MarkType /\ p \in Nat /\ b \in Nat /\ k2 = [k EXCEPT !.start = b, !.exit = p]
    BY <1>5, <1>15, <1>18, <1>20
  <2>2. DOMAIN k = {"start", "exit", "ends", "count"}
    BY <2>1 DEF MarkType
  <2>3. k2.exit = p /\ k2.ends = k.ends /\ k2.start = b /\ k2.count = k.count
    BY <2>1, <2>2
  <2>4. k2 \in MarkType
    BY <2>1 DEF MarkType
  <2>5. QED
    BY <1>5, <1>6, <2>3, <2>4
<1>22. CanClose("endforin", a, a, Len(mk), Len(bs), k2, c6, g6, Z)
  <2>1. Serves("endforin", At4(a, a, Len(mk), Len(bs)), k2, c6, g6, Z)
    BY <1>7, <1>17, <1>19, <1>21, ServesIs
  <2>2. "endforin" \in Closes /\ Temps("endforin") = 0
    BY DEF Closes, Temps
  <2>3. a >= a + 0
    BY <1>7
  <2>4. QED
    BY <2>1, <2>2, <2>3 DEF CanClose
<1>23. Goes("item", x, act, k, "endforin", a, a, k2)
  BY <1>6, <1>21 DEF Goes, CloseH, CloseA, Counting
<1>24. Drafted(<<"Block", "endforin">> \o Tail(td), <<k2>> \o Tail(mk), <<a>> \o bs, a, c6, ed, Z, l)
  <2>1. Grown(c, h, c6, g6, G \cup {p}, Z, Len(c6), a)
    BY <1>16, OnwardEnds
  <2>2. G \cup {p} \subseteq Open(MK, Len(mk) - 1) \cup HolesOf(k2)
    BY <1>4, <1>15, <1>21, HolesExit
  <2>3. Goes(Head(td), h[Len(c)], act, Head(mk), "endforin", a, a, k2)
    BY <1>4, <1>23
  <2>4. QED
    BY <1>1, <1>2, <1>7, <1>21, <1>22, <2>1, <2>2, <2>3, ReplaceOpening
<1>25. c6 = Item6(c, v, t, a) /\ Len(c5) - 2 = p /\ c5 = Item5(c, v, t, a)
  <2>1. c6 = Item6(c, v, t, a) /\ c5 = Item5(c, v, t, a)
    BY <1>9 DEF Item6, Item5
  <2>2. Len(c5) - 2 = p
    BY <1>15
  <2>3. QED
    BY <2>1, <2>2
<1>26. k2 = [Head(mk) EXCEPT !.start = Len(Item0(c, t, act + 3)), !.exit = Len(Item5(c, Head(mk).count, t, act + 3)) - 2]
  BY <1>4, <1>6, <1>9, <1>18, <1>20, <1>25
<1>27. QED
  BY <1>4, <1>6, <1>24, <1>25, <1>26

\* The end of a block: its locals are dropped.
LEMMA BlockEnds ==
  ASSUME NEW td, NEW mk, NEW bs, NEW act, NEW c, NEW ed, NEW Z, NEW l, Drafted(td, mk, bs, act, c, ed, Z, l),
         Head(td) = "Block", NEW t \in Nat
  PROVE  Drafted(Tail(td), mk, Tail(bs), Head(bs), c \o Row("POP", act - Head(bs), t, Head(bs)),
                 ed \cup {[at |-> Len(c), locals |-> act]}, Z, l)
<1>1. PICK h, MK, BS : Draft(td, mk, bs, act, c, ed, h, MK, BS, Z, l)
  BY DEF Drafted
<1>2. /\ c \in Seq(ByteType) /\ h \in Heights /\ act \in Nat
      /\ mk \in Seq(MarkType) /\ MK \in [Nat -> MarkType] /\ Stacked(mk, MK)
      /\ bs \in Seq(Nat) /\ BS \in [Nat -> Nat] /\ Stacked(bs, BS)
      /\ Len(mk) \in Nat /\ Len(bs) \in Nat
      /\ Grown(c, h, c, h, Open(MK, Len(mk)), Z, Len(c), h[Len(c)])
  BY <1>1, DraftIs
<1>3. /\ h[Len(c)] = act /\ Len(bs) >= 1 /\ BS[Len(bs)] <= act
      /\ Plan(Tail(td), At4(BS[Len(bs)], BS[Len(bs)], Len(mk), Len(bs) - 1), MK, BS, c, h, Z)
  BY <1>1, BlockHead
<1>4. bs # <<>>
  BY <1>3
<1>5. Stacked(Tail(bs), BS) /\ Head(bs) = BS[Len(bs)]
  BY <1>2, <1>4, StackedBelow
<1>6. Tail(bs) \in Seq(Nat) /\ Len(Tail(bs)) = Len(bs) - 1 /\ Head(bs) \in Nat
  BY <1>2, <1>4, TailIs
<1>7. PICK b, G, n : b = Head(bs) /\ G = Open(MK, Len(mk)) /\ n = act - b
  OBVIOUS
<1>8. b \in Nat /\ b \in Int /\ n \in Int /\ n >= 0 /\ act - n = b /\ act \in Int
  <2>1. b \in Nat
    BY <1>6, <1>7
  <2>2. b <= act
    BY <1>3, <1>5, <1>7
  <2>3. n = act - b /\ act \in Nat
    BY <1>2, <1>7
  <2>4. QED
    BY <2>1, <2>2, <2>3
<1>9. PICK d : d = c \o Row("POP", n, t, b)
  OBVIOUS
<1>10. b = act + RowChange("POP", n)
  <2>1. CASE n <= 0
    <3>1. n = 0 /\ RowChange("POP", n) = 0
      BY <1>8, <2>1 DEF RowChange
    <3>2. QED
      BY <1>8, <3>1
  <2>2. CASE ~(n <= 0)
    <3>1. RowChange("POP", n) = -n
      BY <2>2 DEF RowChange
    <3>2. QED
      BY <1>8, <3>1
  <2>3. QED
    BY <2>1, <2>2
<1>11. PICK g : Onward(d, g, b, c, h, c, h, G, Z)
  <2>1. Grown(c, h, c, h, G, Z, Len(c), act) /\ c \in Seq(ByteType) /\ h \in Heights
    BY <1>2, <1>3, <1>7
  <2>2. act - n >= b
    BY <1>8
  <2>3. QED
    BY <1>8, <1>9, <1>10, <2>1, <2>2, AddMany
<1>12. Grown(c, h, d, g, G, Z, Len(d), b) /\ Extended(c, h, d, g) /\ d \in Seq(ByteType)
  BY <1>11 DEF Onward
<1>13. Plan(Tail(td), At4(b, b, Len(mk), Len(Tail(bs))), MK, BS, d, g, Z)
  <2>1. Plan(Tail(td), At4(b, b, Len(mk), Len(Tail(bs))), MK, BS, c, h, Z)
    BY <1>3, <1>5, <1>6, <1>7
  <2>2. PICK v : v = At4(b, b, Len(mk), Len(Tail(bs)))
    OBVIOUS
  <2>3. Agree(MK, MK, v.m) /\ Agree(BS, BS, v.b)
    BY AgreeSame
  <2>4. QED
    BY <1>2, <1>12, <2>1, <2>2, <2>3, PlanMoves
<1>14. PICK ed2 : ed2 = ed \cup {[at |-> Len(c), locals |-> act]}
  OBVIOUS
<1>15. EdgesFrom(ed2, ed, c, h, act)
  BY <1>3, <1>14, EdgesMore
<1>16. Drafted(Tail(td), mk, Tail(bs), b, d, ed2, Z, l)
  <2>1. G \subseteq Open(MK, Len(mk))
    BY <1>7
  <2>2. mk \in Seq(MarkType) /\ MK \in [Nat -> MarkType] /\ Stacked(mk, MK)
    BY <1>2
  <2>3. BS \in [Nat -> Nat] /\ Tail(bs) \in Seq(Nat) /\ Stacked(Tail(bs), BS)
    BY <1>2, <1>5, <1>6
  <2>4. QED
    BY <1>1, <1>8, <1>12, <1>13, <1>15, <2>1, <2>2, <2>3, Redraft
<1>17. QED
  BY <1>7, <1>9, <1>14, <1>16

-----------------------------------------------------------------------------
(* The statements, one by one. *)

LEMMA EasyIs ==
  /\ {"Expr", "value", "Target", "declare", "local)", "eval)", "return)", "assign)"} \subseteq Easy
  /\ Easy \subseteq Pendable
<1>1. {"Expr", "value", "Target", "declare", "local)", "eval)", "return)", "assign)"} \subseteq Easy
  BY DEF Easy, Pendable, Closes
<1>2. Easy \subseteq Pendable
  BY DEF Easy
<1>3. QED
  BY <1>1, <1>2

\* A value and what is done with it.
LEMMA OperandThen ==
  ASSUME NEW y \in Int, NEW a \in Nat, y >= a, NEW o \in {"Expr", "value"}, NEW s, NEW z, NEW e,
         EasyStep(s, y + 1, a, z, e)
  PROVE  Leads(<<o, s>>, y, a, z, e)
<1>1. EasyStep(o, y, a, y + 1, a)
  BY Steps
<1>2. <<s>> \in Seq(Pendable)
  <2>1. s \in Pendable
    BY EasyIs DEF EasyStep
  <2>2. QED
    BY <2>1
<1>3. Leads(<<s>>, y + 1, a, z, e)
  BY LeadsOne
<1>4. Leads(<<o>> \o <<s>>, y, a, z, e)
  BY <1>1, <1>2, <1>3, LeadsThen
<1>5. QED
  BY <1>4, Pairs

LEMMA PlainBegins ==
  ASSUME NEW td, NEW mk, NEW bs, NEW act, NEW c, NEW ed, NEW Z, NEW l, Drafted(td, mk, bs, act, c, ed, Z, l),
         Head(td) = "Block", NEW s \in {"local)", "eval)", "return)"}
  PROVE  Drafted(<<"Expr", s>> \o td, mk, bs, act, c, ed \cup {[at |-> Len(c), locals |-> act]}, Z, l)
<1>1. act \in Nat
  BY DEF Drafted, Draft
<1>2. PICK r : r = <<"Expr", s>>
  OBVIOUS
<1>3. PICK y \in Int : y = act + 1
  BY <1>1
<1>4. PICK n \in Nat : n = IF s = "local)" THEN act + 1 ELSE act
  BY <1>1
<1>5. n >= act
  BY <1>1, <1>4
<1>6. Leads(r, act, act, n, n)
  <2>1. act \in Int /\ act >= act /\ y >= act + 1 /\ y - 1 = act
    BY <1>1, <1>3
  <2>2. EasyStep(s, y, act, n, n)
    <3>1. CASE s = "local)"
      <4>1. n = y /\ n = act + 1
        BY <1>3, <1>4, <3>1
      <4>2. EasyStep("local)", y, act, y, act + 1)
        BY <1>1, <2>1, Steps
      <4>3. QED
        BY <3>1, <4>1, <4>2
    <3>2. CASE s # "local)"
      <4>1. n = act /\ s \in {"eval)", "return)"}
        BY <1>4, <3>2
      <4>2. EasyStep("eval)", y, act, y - 1, act) /\ EasyStep("return)", y, act, y - 1, act)
        BY <1>1, <2>1, Steps
      <4>3. QED
        BY <2>1, <4>1, <4>2
    <3>3. QED
      BY <3>1, <3>2
  <2>3. EasyStep(s, act + 1, act, n, n)
    BY <1>3, <2>2
  <2>4. QED
    BY <1>1, <1>2, <2>1, <2>3, OperandThen
<1>7. Drafted(r \o td, mk, bs, act, c, ed \cup {[at |-> Len(c), locals |-> act]}, Z, l)
  BY <1>5, <1>6, PlainStatement
<1>8. QED
  BY <1>2, <1>7

LEMMA MarkBegins ==
  ASSUME NEW td, NEW mk, NEW bs, NEW act, NEW c, NEW ed, NEW Z, NEW l, Drafted(td, mk, bs, act, c, ed, Z, l),
         Head(td) = "Block", NEW o \in {"Expr", "value"}, NEW s \in {"More", "then", "do", "item"},
         NEW k \in MarkType, k.exit = 0, k.ends = {},
         s = "More" => k.count = 1, s = "do" => k.start = Len(c), s = "item" => k.count = act
  PROVE  Drafted(<<o, s>> \o td, <<k>> \o mk, bs, act, c, ed \cup {[at |-> Len(c), locals |-> act]}, Z, l)
<1>1. act \in Nat
  BY DEF Drafted, Draft
<1>2. PICK y : y = act + 1
  OBVIOUS
<1>3. y \in Int /\ y >= act /\ act \in Int /\ y - 1 = act /\ act >= act /\ y = act + 1
  BY <1>1, <1>2
<1>4. s \in Closes /\ Temps(s) \in 0 .. 1
  BY DEF Closes, Temps
<1>5. y >= act + Temps(s)
  BY <1>3, <1>4
<1>6. Ready(s, y, act, k, c, act)
  <2>1. ASSUME NEW h, NEW W, NEW m, NEW b, Begun(c, h, Len(c), act)
        PROVE  CanClose(s, y, act, m, b, k, c, h, W)
    <3>1. s = "More" => y = act + k.count
      BY <1>3
    <3>2. s = "do" => Begun(c, h, k.start, y - 1)
      BY <1>3, <2>1
    <3>3. s = "item" => act = k.count
      OBVIOUS
    <3>4. Serves(s, At4(y, act, m, b), k, c, h, W)
      BY <3>1, <3>2, <3>3, ServesIs
    <3>5. s # "Clauses" /\ (s \in {"then", "do", "test", "item"} => y = act + 1)
      BY <1>3
    <3>6. QED
      BY <1>4, <1>5, <3>4, <3>5 DEF CanClose
  <2>2. QED
    BY <1>1, <1>3, <1>4, <2>1 DEF Ready
<1>7. CloseH(s, y, act, k) = act /\ CloseA(s, act, k) = act
  <2>1. CASE s \in {"then", "do"}
    BY <1>3, <2>1 DEF CloseH, CloseA, Counting
  <2>2. CASE s = "More"
    BY <2>2 DEF CloseH, CloseA, Counting
  <2>3. CASE s = "item"
    BY <2>3 DEF CloseH, CloseA, Counting
  <2>4. QED
    BY <2>1, <2>2, <2>3
<1>8. Leads(<<o>>, act, act, y, act)
  <2>1. EasyStep(o, act, act, act + 1, act)
    BY <1>1, <1>3, Steps
  <2>2. QED
    BY <1>2, <2>1, LeadsOne
<1>9. <<o>> \in Seq(Pendable)
  <2>1. o \in Pendable
    BY DEF Pendable
  <2>2. QED
    BY <2>1
<1>10. Drafted((<<o>> \o <<s>>) \o td, <<k>> \o mk, bs, act, c, ed \cup {[at |-> Len(c), locals |-> act]}, Z, l)
  BY <1>6, <1>7, <1>8, <1>9, EnterStatement
<1>11. QED
  BY <1>10, Pairs

LEMMA LeadsTwice ==
  ASSUME NEW s, NEW y, NEW a, NEW z, NEW e, EasyStep(s, y, a, z, e),
         NEW q, NEW w, NEW f, EasyStep(q, z, e, w, f), NEW r \in Seq(Pendable), NEW v, NEW g, Leads(r, w, f, v, g)
  PROVE  Leads(<<s>> \o (<<q>> \o r), y, a, v, g) /\ <<s>> \o (<<q>> \o r) \in Seq(Pendable)
<1>1. Leads(<<q>> \o r, z, e, v, g) /\ <<q>> \o r \in Seq(Pendable)
  BY LeadsThen
<1>2. QED
  BY <1>1, LeadsThen

\* The three values of a for loop, the first two already locals.
LEMMA LimitsLead ==
  ASSUME NEW a \in Nat
  PROVE  /\ Leads(<<"Expr", "declare", "Expr", "declare", "Expr">>, a, a, a + 3, a + 2)
         /\ <<"Expr", "declare", "Expr", "declare", "Expr">> \in Seq(Pendable)
<1>1. PICK b, d, e : b = a + 1 /\ d = a + 2 /\ e = a + 3
  OBVIOUS
<1>2. b \in Nat /\ d \in Nat /\ e \in Nat /\ b \in Int /\ d \in Int /\ a \in Int /\ b = a + 1 /\ d = b + 1 /\ e = d + 1
      /\ a >= a /\ b >= b /\ d >= d /\ b >= a + 1 /\ d >= b + 1
  BY <1>1
<1>3. EasyStep("Expr", a, a, b, a) /\ EasyStep("Expr", b, b, d, b) /\ EasyStep("Expr", d, d, e, d)
  BY <1>2, Steps
<1>4. EasyStep("declare", b, a, b, b) /\ EasyStep("declare", d, b, d, d)
  BY <1>2, Steps
<1>5. Leads(<<"Expr">>, d, d, e, d) /\ <<"Expr">> \in Seq(Pendable)
  <2>1. "Expr" \in Pendable
    BY DEF Pendable
  <2>2. QED
    BY <1>3, <2>1, LeadsOne
<1>6. PICK r : r = <<"Expr">> \o (<<"declare">> \o <<"Expr">>)
  OBVIOUS
<1>7. Leads(r, b, b, e, d) /\ r \in Seq(Pendable)
  BY <1>3, <1>4, <1>5, <1>6, LeadsTwice
<1>8. Leads(<<"Expr">> \o (<<"declare">> \o r), a, a, e, d) /\ <<"Expr">> \o (<<"declare">> \o r) \in Seq(Pendable)
  BY <1>3, <1>4, <1>7, LeadsTwice
<1>9. <<"Expr", "declare", "Expr", "declare", "Expr">> = <<"Expr">> \o (<<"declare">> \o r)
  <2>1. r = <<"Expr", "declare", "Expr">>
    BY <1>6, Pairs, Triples
  <2>2. QED
    BY <2>1, Quadruples, Quintuples
<1>10. QED
  BY <1>1, <1>8, <1>9

LEMMA OneBehind ==
  ASSUME NEW a, NEW b, NEW d, NEW e, NEW f, NEW g
  PROVE  <<a, b, d, e, f>> \o <<g>> = <<a, b, d, e, f, g>>
<1>1. PICK Els : Els = {a, b, d, e, f, g}
  OBVIOUS
<1>2. a \in Els /\ b \in Els /\ d \in Els /\ e \in Els /\ f \in Els /\ g \in Els
  BY <1>1
<1>3. PICK A, B, D, E, F, z : A = <<a>> /\ B = <<b>> /\ D = <<d>> /\ E = <<e>> /\ F = <<f>> /\ z = <<g>>
  OBVIOUS
<1>4. PICK p2, p3, p4, p5 : p2 = <<e, f>> /\ p3 = <<d, e, f>> /\ p4 = <<b, d, e, f>> /\ p5 = <<a, b, d, e, f>>
  OBVIOUS
<1>5. PICK q1, q2, q3, q4, q5 : /\ q1 = <<f, g>> /\ q2 = <<e, f, g>> /\ q3 = <<d, e, f, g>>
                               /\ q4 = <<b, d, e, f, g>> /\ q5 = <<a, b, d, e, f, g>>
  OBVIOUS
<1>6. /\ A \in Seq(Els) /\ B \in Seq(Els) /\ D \in Seq(Els) /\ E \in Seq(Els) /\ F \in Seq(Els) /\ z \in Seq(Els)
      /\ p2 \in Seq(Els) /\ p3 \in Seq(Els) /\ p4 \in Seq(Els)
  BY <1>2, <1>3, <1>4
<1>7. p2 = E \o F /\ p3 = D \o p2 /\ p4 = B \o p3 /\ p5 = A \o p4
  <2>1. <<e, f>> = <<e>> \o <<f>>
    BY Pairs
  <2>2. <<d, e, f>> = <<d>> \o <<e, f>>
    BY Triples
  <2>3. <<b, d, e, f>> = <<b>> \o <<d, e, f>>
    BY Quadruples
  <2>4. <<a, b, d, e, f>> = <<a>> \o <<b, d, e, f>>
    BY Quintuples
  <2>5. QED
    BY <1>3, <1>4, <2>1, <2>2, <2>3, <2>4, Zenon
<1>8. q1 = F \o z /\ q2 = E \o q1 /\ q3 = D \o q2 /\ q4 = B \o q3 /\ q5 = A \o q4
  <2>1. <<f, g>> = <<f>> \o <<g>>
    BY Pairs
  <2>2. <<e, f, g>> = <<e>> \o <<f, g>>
    BY Triples
  <2>3. <<d, e, f, g>> = <<d>> \o <<e, f, g>>
    BY Quadruples
  <2>4. <<b, d, e, f, g>> = <<b>> \o <<d, e, f, g>>
    BY Quintuples
  <2>5. <<a, b, d, e, f, g>> = <<a>> \o <<b, d, e, f, g>>
    BY Sextuples
  <2>6. QED
    BY <1>3, <1>5, <2>1, <2>2, <2>3, <2>4, <2>5, Zenon
<1>9. /\ (E \o F) \o z = E \o (F \o z) /\ (D \o p2) \o z = D \o (p2 \o z)
      /\ (B \o p3) \o z = B \o (p3 \o z) /\ (A \o p4) \o z = A \o (p4 \o z)
  <2>1. (E \o F) \o z = E \o (F \o z)
    <3>1. E \in Seq(Els) /\ F \in Seq(Els) /\ z \in Seq(Els)
      BY <1>6
    <3>2. QED
      BY <3>1, ConcatAssociative
  <2>2. (D \o p2) \o z = D \o (p2 \o z)
    <3>1. D \in Seq(Els) /\ p2 \in Seq(Els) /\ z \in Seq(Els)
      BY <1>6
    <3>2. QED
      BY <3>1, ConcatAssociative
  <2>3. (B \o p3) \o z = B \o (p3 \o z)
    <3>1. B \in Seq(Els) /\ p3 \in Seq(Els) /\ z \in Seq(Els)
      BY <1>6
    <3>2. QED
      BY <3>1, ConcatAssociative
  <2>4. (A \o p4) \o z = A \o (p4 \o z)
    <3>1. A \in Seq(Els) /\ p4 \in Seq(Els) /\ z \in Seq(Els)
      BY <1>6
    <3>2. QED
      BY <3>1, ConcatAssociative
  <2>5. QED
    BY <2>1, <2>2, <2>3, <2>4
<1>10. p5 \o z = q5
  BY <1>7, <1>8, <1>9
<1>11. QED
  BY <1>3, <1>4, <1>5, <1>10

LEMMA ForBegins ==
  ASSUME NEW td, NEW mk, NEW bs, NEW act, NEW c, NEW ed, NEW Z, NEW l, Drafted(td, mk, bs, act, c, ed, Z, l),
         Head(td) = "Block", NEW k \in MarkType, k.exit = 0, k.ends = {}, k.count = act
  PROVE  Drafted(<<"Expr", "declare", "Expr", "declare", "Expr", "test">> \o td, <<k>> \o mk, bs, act, c,
                 ed \cup {[at |-> Len(c), locals |-> act]}, Z, l)
<1>1. act \in Nat
  BY DEF Drafted, Draft
<1>2. PICK y, a, r : y = act + 3 /\ a = act + 2 /\ r = <<"Expr", "declare", "Expr", "declare", "Expr">>
  OBVIOUS
<1>3. y \in Int /\ a \in Nat /\ y = a + 1 /\ y >= a + 1 /\ a = k.count + 2
  BY <1>1, <1>2
<1>4. "test" \in Closes /\ Temps("test") = 1
  BY DEF Closes, Temps
<1>5. Ready("test", y, a, k, c, act)
  <2>1. ASSUME NEW h, NEW W, NEW m, NEW b, Begun(c, h, Len(c), act)
        PROVE  CanClose("test", y, a, m, b, k, c, h, W)
    <3>1. Serves("test", At4(y, a, m, b), k, c, h, W)
      BY <1>3, ServesIs
    <3>2. QED
      BY <1>3, <1>4, <3>1 DEF CanClose
  <2>2. QED
    BY <1>3, <1>4, <2>1 DEF Ready
<1>6. CloseH("test", y, a, k) = act /\ CloseA("test", a, k) = act
  BY DEF CloseH, CloseA, Counting
<1>7. Leads(r, act, act, y, a) /\ r \in Seq(Pendable)
  BY <1>1, <1>2, LimitsLead
<1>8. PICK s : s = "test"
  OBVIOUS
<1>9. Drafted((r \o <<s>>) \o td, <<k>> \o mk, bs, act, c, ed \cup {[at |-> Len(c), locals |-> act]}, Z, l)
  <2>1. Ready(s, y, a, k, c, act) /\ CloseH(s, y, a, k) = act /\ CloseA(s, a, k) = act
    BY <1>5, <1>6, <1>8
  <2>2. QED
    BY <1>7, <2>1, EnterStatement
<1>10. r \o <<"test">> = <<"Expr", "declare", "Expr", "declare", "Expr", "test">>
  BY <1>2, OneBehind
<1>11. QED
  BY <1>8, <1>9, <1>10

\* The targets of an assignment, the last first.
LEMMA TargetsLead ==
  ASSUME NEW a \in Nat
  PROVE  /\ Leads(<<"Target", "assign)">>, a + 1, a, a, a)
         /\ Leads(<<"Target", "Target", "assign)">>, a + 2, a, a, a)
<1>1. PICK b, d : b = a + 1 /\ d = a + 2
  OBVIOUS
<1>2. a \in Int /\ b \in Int /\ d \in Int /\ a >= a /\ b >= a + 1 /\ d >= a + 1 /\ b - 1 = a /\ d - 1 = b
  BY <1>1
<1>3. EasyStep("Target", b, a, a, a) /\ EasyStep("Target", d, a, b, a) /\ EasyStep("assign)", a, a, a, a)
  BY <1>2, Steps
<1>4. Leads(<<"assign)">>, a, a, a, a) /\ <<"assign)">> \in Seq(Pendable)
  <2>1. "assign)" \in Pendable
    BY DEF Pendable
  <2>2. QED
    BY <1>3, <2>1, LeadsOne
<1>5. Leads(<<"Target">> \o <<"assign)">>, b, a, a, a)
  BY <1>3, <1>4, LeadsThen
<1>6. Leads(<<"Target">> \o (<<"Target">> \o <<"assign)">>), d, a, a, a)
  BY <1>3, <1>4, LeadsTwice
<1>7. QED
  BY <1>1, <1>5, <1>6, Pairs, Triples

-----------------------------------------------------------------------------
(* The tokens that use no mark and no base. *)

EasyOps == {"LOAD", "BINOP", "CALL", "PRINT", "LOADNIL", "NEWTABLE", "DUP", "LOADCONST", "SETTABLE", "POP", "SETGLOBAL",
            "ROT3", "RETURN"}

LEMMA EasyOpsAre ==
  ASSUME NEW op \in EasyOps, NEW n, op \in {"CALL", "PRINT"} => n = 1
  PROVE  op \in Op /\ op \notin Jumps /\ Worded(op, n)
BY DEF EasyOps, Op, Jumps, Worded

\* One instruction, and nothing or something left to do.
LEMMA ValueTokens ==
  ASSUME NEW td, NEW mk, NEW bs, NEW act, NEW c, NEW ed, NEW Z, NEW l, Drafted(td, mk, bs, act, c, ed, Z, l),
         NEW s, s = Head(td), NEW t \in Nat, NEW n \in Int, NEW op, NEW r,
         \/ s \in {"Expr", "value"} /\ op = "LOAD" /\ r = <<>>
         \/ s = "bin)" /\ op = "BINOP" /\ r = <<>>
         \/ s = "call)" /\ op = "CALL" /\ r = <<>> /\ n = 1
         \/ s = "Expr" /\ op = "NEWTABLE" /\ r = <<"Fields">>
         \/ s = "Fields" /\ op = "DUP" /\ r = <<"Expr", "Expr", "put", "Fields">>
         \/ s = "put" /\ op = "SETTABLE" /\ r = <<>>
         \/ s = "eval)" /\ op = "POP" /\ r = <<>>
         \/ s = "Target" /\ op = "SETGLOBAL" /\ r = <<>>
         \/ s = "return)" /\ op = "RETURN" /\ r = <<>>
  PROVE  Drafted(r \o Tail(td), mk, bs, act, c \o Instr(op, n, t, act), ed, Z, l)
<1>1. act \in Nat
  BY DEF Drafted, Draft
<1>2. op \in Op /\ op \notin Jumps /\ Worded(op, n)
  <2>1. op \in EasyOps /\ (op \in {"CALL", "PRINT"} => n = 1)
    BY DEF EasyOps
  <2>2. QED
    BY <2>1, EasyOpsAre
<1>3. Follows(s, r, Change(op), act, act)
  <2>1. PICK k : k = Change(op)
    OBVIOUS
  <2>2. CASE s \in {"Expr", "value"} /\ op = "LOAD" /\ r = <<>>
    <3>1. k = 1
      BY <2>1, <2>2 DEF Change
    <3>2. QED
      BY <1>1, <2>1, <2>2, <3>1, FollowsNone
  <2>3. CASE s \in {"bin)", "call)", "eval)", "Target", "return)"} /\ op \in {"BINOP", "CALL", "POP", "SETGLOBAL", "RETURN"} /\ r = <<>>
    <3>1. k = -1
      BY <2>1, <2>3 DEF Change
    <3>2. QED
      BY <1>1, <2>1, <2>3, <3>1, FollowsNone
  <2>4. CASE s = "Expr" /\ op = "NEWTABLE" /\ r = <<"Fields">>
    <3>1. k = 1
      BY <2>1, <2>4 DEF Change
    <3>2. QED
      BY <1>1, <2>1, <2>4, <3>1, FollowsOperands
  <2>5. CASE s = "Fields" /\ op = "DUP" /\ r = <<"Expr", "Expr", "put", "Fields">>
    <3>1. k = 1
      BY <2>1, <2>5 DEF Change
    <3>2. QED
      BY <1>1, <2>1, <2>5, <3>1, FollowsFields
  <2>6. CASE s = "put" /\ op = "SETTABLE" /\ r = <<>>
    <3>1. k = -3
      BY <2>1, <2>6 DEF Change
    <3>2. QED
      BY <1>1, <2>1, <2>6, <3>1, FollowsNone
  <2>7. QED
    BY <2>2, <2>3, <2>4, <2>5, <2>6
<1>4. Takes(op) <= Temps(s)
  BY DEF Takes, Temps
<1>5. Drafted(r \o Tail(td), mk, bs, act, c \o Instr(op, n, t, act), ed, Z, l)
  BY <1>2, <1>3, <1>4, OneInstruction
<1>6. QED
  BY <1>5

\* No code.
LEMMA PlainTokens ==
  ASSUME NEW td, NEW mk, NEW bs, NEW act, NEW c, NEW ed, NEW Z, NEW l, Drafted(td, mk, bs, act, c, ed, Z, l),
         NEW s, s = Head(td), NEW n, NEW r,
         \/ s = "Expr" /\ r = <<"Expr", "Expr", "bin)">> /\ n = act
         \/ s = "Expr" /\ r = <<"Expr", "Expr", "call)">> /\ n = act
         \/ s = "Expr" /\ r = <<"Expr", "print)">> /\ n = act
         \/ s = "Fields" /\ r = <<>> /\ n = act
         \/ s = "Target" /\ r = <<"value", "value", "set">> /\ n = act
         \/ s = "assign)" /\ r = <<>> /\ n = act
         \/ s \in {"local)", "declare"} /\ r = <<>> /\ n = act + 1
  PROVE  Drafted(r \o Tail(td), mk, bs, n, c, ed, Z, l)
<1>1. act \in Nat
  BY DEF Drafted, Draft
<1>2. n \in Nat
  BY <1>1
<1>3. Follows(s, r, 0, act, n)
  <2>1. CASE s = "Expr" /\ r \in {<<"Expr", "Expr", "bin)">>, <<"Expr", "Expr", "call)">>, <<"Expr", "print)">>} /\ n = act
    BY <1>1, <2>1, FollowsOperands
  <2>2. CASE s = "Target" /\ r = <<"value", "value", "set">> /\ n = act
    BY <1>1, <2>2, FollowsOperands
  <2>3. CASE s \in {"Fields", "assign)"} /\ r = <<>> /\ n = act
    BY <1>1, <2>3, FollowsNone
  <2>4. CASE s \in {"local)", "declare"} /\ r = <<>> /\ n = act + 1
    BY <1>1, <2>4, FollowsNone
  <2>5. QED
    BY <2>1, <2>2, <2>3, <2>4
<1>4. QED
  BY <1>2, <1>3, NoCode

\* Two instructions.
LEMMA PairTokens ==
  ASSUME NEW td, NEW mk, NEW bs, NEW act, NEW c, NEW ed, NEW Z, NEW l, Drafted(td, mk, bs, act, c, ed, Z, l),
         NEW s, s = Head(td), NEW t \in Nat, NEW n \in Int, NEW op, NEW q \in Int, NEW oq, NEW r,
         \/ s = "print)" /\ op = "PRINT" /\ n = 1 /\ oq = "LOADNIL" /\ r = <<>>
         \/ s = "Fields" /\ op = "DUP" /\ oq = "LOADCONST" /\ r = <<"Expr", "put", "Fields">>
         \/ s = "set" /\ op = "ROT3" /\ oq = "SETTABLE" /\ r = <<>>
  PROVE  Drafted(r \o Tail(td), mk, bs, act, (c \o Instr(op, n, t, act)) \o Instr(oq, q, t, act), ed, Z, l)
<1>1. act \in Nat
  BY DEF Drafted, Draft
<1>2. op \in Op /\ op \notin Jumps /\ Worded(op, n)
  <2>1. op \in EasyOps /\ (op \in {"CALL", "PRINT"} => n = 1)
    BY DEF EasyOps
  <2>2. QED
    BY <2>1, EasyOpsAre
<1>3. oq \in Op /\ oq \notin Jumps /\ Worded(oq, q)
  <2>1. oq \in EasyOps /\ (oq \in {"CALL", "PRINT"} => q = 1)
    BY DEF EasyOps
  <2>2. QED
    BY <2>1, EasyOpsAre
<1>4. PICK k, j : k = Change(op) /\ j = Change(oq)
  OBVIOUS
<1>5. Follows(s, r, k + j, act, act) /\ Takes(op) <= Temps(s) /\ Takes(oq) <= Temps(s) + k
  <2>1. CASE s = "print)" /\ op = "PRINT" /\ n = 1 /\ oq = "LOADNIL" /\ r = <<>>
    <3>1. k = -1 /\ j = 1
      BY <1>4, <2>1 DEF Change
    <3>2. Takes(op) = 1 /\ Takes(oq) = 0 /\ Temps(s) = 1
      BY <2>1 DEF Takes, Temps
    <3>3. Follows(s, r, 0, act, act)
      BY <1>1, <2>1, FollowsNone
    <3>4. k + j = 0 /\ Takes(op) <= Temps(s) /\ Takes(oq) <= Temps(s) + k
      BY <3>1, <3>2
    <3>5. QED
      BY <3>3, <3>4
  <2>2. CASE s = "Fields" /\ op = "DUP" /\ oq = "LOADCONST" /\ r = <<"Expr", "put", "Fields">>
    <3>1. k = 1 /\ j = 1
      BY <1>4, <2>2 DEF Change
    <3>2. Takes(op) = 1 /\ Takes(oq) = 0 /\ Temps(s) = 1
      BY <2>2 DEF Takes, Temps
    <3>3. Follows(s, r, 2, act, act)
      BY <1>1, <2>2, FollowsFields
    <3>4. k + j = 2 /\ Takes(op) <= Temps(s) /\ Takes(oq) <= Temps(s) + k
      BY <3>1, <3>2
    <3>5. QED
      BY <3>3, <3>4
  <2>3. CASE s = "set" /\ op = "ROT3" /\ oq = "SETTABLE" /\ r = <<>>
    <3>1. k = 0 /\ j = -3
      BY <1>4, <2>3 DEF Change
    <3>2. Takes(op) = 3 /\ Takes(oq) = 3 /\ Temps(s) = 3
      BY <2>3 DEF Takes, Temps
    <3>3. Follows(s, r, -3, act, act)
      BY <1>1, <2>3, FollowsNone
    <3>4. k + j = -3 /\ Takes(op) <= Temps(s) /\ Takes(oq) <= Temps(s) + k
      BY <3>1, <3>2
    <3>5. QED
      BY <3>3, <3>4
  <2>4. QED
    BY <2>1, <2>2, <2>3
<1>6. Drafted(r \o Tail(td), mk, bs, act, (c \o Instr(op, n, t, act)) \o Instr(oq, q, t, act), ed, Z, l)
  BY <1>2, <1>3, <1>4, <1>5, TwoInstructions
<1>7. QED
  BY <1>6

-----------------------------------------------------------------------------
(* The end of the program. *)

LEMMA PlanEnds ==
  ASSUME NEW td, NEW v, NEW MK, NEW BS, NEW c, NEW h, NEW Z, Plan(td, v, MK, BS, c, h, Z), Head(td) = "end"
  PROVE  v.h = v.a /\ v.m = 0
<1>1. PICK P \in [Nat -> View] : P[Len(td)] = v /\ Views(td, P, MK, BS, c, h, Z)
  BY DEF Plan
<1>2. PICK n : n = Len(td)
  OBVIOUS
<1>3. n \in Nat /\ n >= 1 /\ td[1] = "end" /\ n + 1 - n = 1
  BY <1>2, LenProperties DEF Plan
<1>4. n \in 1 .. n
  BY <1>3
<1>5. Fits(td[n + 1 - n], P[n], P[n - 1], MK[P[n].m], BS[P[n].b], c, h, Z)
  BY <1>1, <1>2, <1>4 DEF Views
<1>6. PICK w, k, b : Fits("end", v, w, k, b, c, h, Z)
  BY <1>1, <1>2, <1>3, <1>5
<1>7. QED
  BY <1>6 DEF Fits

\* The finished code d, run with l values on the stack, keeps the stack; the edges are in it.
Finished(d, h, ed, Z, l) ==
  /\ d \in Seq(ByteType) /\ h \in Heights /\ Len(d) \in Nat /\ Len(d) > 0
  /\ Flows(d, h, {}, Z, Len(d) - 1) /\ Begun(d, h, 0, l)
  /\ \A e \in ed : e \in [at : Nat, locals : Nat] /\ h[e.at] = e.locals

LEMMA FinishedIs ==
  ASSUME NEW c \in Seq(ByteType), NEW h \in Heights, NEW l, Begun(c, h, 0, l),
         NEW ed, \A e \in ed : e \in [at : Nat, locals : Nat] /\ e.at <= Len(c) /\ h[e.at] = e.locals,
         NEW d, NEW g, NEW Z, NEW L, NEW y, Grown(c, h, d, g, {}, Z, L, y), L = Len(d) - 1, Len(d) > 0
  PROVE  Finished(d, g, ed, Z, l)
<1>1. d \in Seq(ByteType) /\ g \in Heights /\ Flows(d, g, {}, Z, L) /\ Extended(c, h, d, g)
  BY DEF Grown
<1>2. Len(d) \in Nat /\ Len(c) \in Nat
  BY <1>1, LenProperties
<1>3. Begun(d, g, 0, l)
  BY <1>1, StillBegun
<1>4. ASSUME NEW e \in ed PROVE e \in [at : Nat, locals : Nat] /\ g[e.at] = e.locals
  <2>1. PICK i : i = e.at
    OBVIOUS
  <2>2. e \in [at : Nat, locals : Nat] /\ i \in Nat /\ i <= Len(c) /\ h[i] = e.locals
    BY <2>1
  <2>3. i \in 0 .. Len(c)
    BY <1>2, <2>2
  <2>4. g[i] = h[i]
    BY <1>1, <2>3 DEF Extended
  <2>5. QED
    BY <2>1, <2>2, <2>4
<1>5. QED
  BY <1>1, <1>2, <1>3, <1>4 DEF Finished

LEMMA AtEnd ==
  ASSUME NEW td, NEW mk, NEW bs, NEW act, NEW c, NEW ed, NEW Z, NEW l, Drafted(td, mk, bs, act, c, ed, Z, l),
         Head(td) = "end"
  PROVE  \E h : /\ c \in Seq(ByteType) /\ h \in Heights /\ act \in Nat /\ h[Len(c)] = act
                /\ Flows(c, h, {}, Z, Len(c)) /\ Begun(c, h, 0, l)
                /\ \A e \in ed : e \in [at : Nat, locals : Nat] /\ e.at <= Len(c) /\ h[e.at] = e.locals
<1>1. PICK h, MK, BS : Draft(td, mk, bs, act, c, ed, h, MK, BS, Z, l)
  BY DEF Drafted
<1>2. /\ c \in Seq(ByteType) /\ h \in Heights /\ act \in Nat /\ mk \in Seq(MarkType)
      /\ Plan(td, At4(h[Len(c)], act, Len(mk), Len(bs)), MK, BS, c, h, Z)
      /\ Flows(c, h, Open(MK, Len(mk)), Z, Len(c))
      /\ Begun(c, h, 0, l)
      /\ \A e \in ed : e \in [at : Nat, locals : Nat] /\ e.at <= Len(c) /\ h[e.at] = e.locals
  BY <1>1 DEF Draft
<1>3. PICK v : v = At4(h[Len(c)], act, Len(mk), Len(bs))
  OBVIOUS
<1>4. v.h = h[Len(c)] /\ v.a = act /\ v.m = Len(mk)
  BY <1>3 DEF At4
<1>5. v.h = v.a /\ v.m = 0
  BY <1>2, <1>3, PlanEnds
<1>6. Open(MK, Len(mk)) = {}
  <2>1. 1 .. 0 = {}
    OBVIOUS
  <2>2. Len(mk) = 0
    BY <1>4, <1>5
  <2>3. QED
    BY <2>1, <2>2 DEF Open
<1>7. QED
  BY <1>2, <1>4, <1>5, <1>6

LEMMA LastOne ==
  ASSUME NEW c \in Seq(ByteType), NEW h \in Heights, NEW Z, Flows(c, h, {}, Z, Len(c)),
         NEW op \in Op, op \notin Jumps, Worded(op, 0), NEW t \in Nat, NEW l \in Nat,
         NEW y \in Int, NEW L \in Nat, Len(c) <= L, L <= Len(c) + Size(op),
         Takes(op) > 0 => h[Len(c)] - Takes(op) >= l,
         Falls(op) => L = Len(c) + Size(op) /\ y = h[Len(c)] + Change(op)
  PROVE  IsMore(c \o Instr(op, 0, t, l), c, h, op, t, {}, Z, L, y)
<1>1. PICK n \in Int : n = 0
  OBVIOUS
<1>2. PICK H : H = {}
  OBVIOUS
<1>3. Worded(op, n) /\ Flows(c, h, H, Z, Len(c)) /\ H \subseteq H
  BY <1>1, <1>2
<1>4. IsMore(c \o Instr(op, n, t, l), c, h, op, t, H, Z, L, y)
  BY <1>3, OneMore
<1>5. QED
  BY <1>1, <1>2, <1>4

EndCode(t, l) == IF l = 0 THEN Instr("HALT", 0, t, l) ELSE Instr("LOADNIL", 0, t, l) \o Instr("RETURN", 0, t, l)

LEMMA Ended ==
  ASSUME NEW td, NEW mk, NEW bs, NEW act, NEW c, NEW ed, NEW Z, NEW l, Drafted(td, mk, bs, act, c, ed, Z, l),
         Head(td) = "end", NEW t \in Nat
  PROVE  \E g : Finished(c \o EndCode(t, act), g, ed, Z, l)
<1>1. PICK h : /\ c \in Seq(ByteType) /\ h \in Heights /\ act \in Nat /\ h[Len(c)] = act
               /\ Flows(c, h, {}, Z, Len(c)) /\ Begun(c, h, 0, l)
               /\ \A e \in ed : e \in [at : Nat, locals : Nat] /\ e.at <= Len(c) /\ h[e.at] = e.locals
  BY AtEnd
<1>2. PICK k \in Nat : k = Len(c)
  BY <1>1, LenProperties
<1>3. Size("HALT") = 1 /\ Size("LOADNIL") = 1 /\ Size("RETURN") = 2 /\ Takes("HALT") = 0 /\ Takes("LOADNIL") = 0
      /\ Takes("RETURN") = 1 /\ ~Falls("HALT") /\ ~Falls("RETURN") /\ Falls("LOADNIL") /\ Change("LOADNIL") = 1
  BY DEF Size, Takes, Falls, Change, Jumps
<1>4. {"HALT", "LOADNIL", "RETURN"} \subseteq Op /\ (\A op \in {"HALT", "LOADNIL", "RETURN"} : op \notin Jumps /\ Worded(op, 0))
      /\ 0 \in Int
  BY DEF Op, Jumps, Worded
<1>5. CASE act = 0
  <2>1. PICK d : d = c \o Instr("HALT", 0, t, act)
    OBVIOUS
  <2>2. IsMore(c \o Instr("HALT", 0, t, act), c, h, "HALT", t, {}, Z, k, 0)
    <3>1. Flows(c, h, {}, Z, Len(c)) /\ c \in Seq(ByteType) /\ h \in Heights
      BY <1>1
    <3>2. Len(c) <= k /\ k <= Len(c) + Size("HALT")
      BY <1>2, <1>3
    <3>3. (Takes("HALT") > 0 => h[Len(c)] - Takes("HALT") >= act)
      BY <1>3
    <3>4. "HALT" \in Op /\ "HALT" \notin Jumps /\ Worded("HALT", 0) /\ 0 \in Int /\ act \in Nat /\ ~Falls("HALT")
      BY <1>1, <1>3, <1>4
    <3>5. QED
      BY <3>1, <3>2, <3>3, <3>4, LastOne
  <2>3. PICK g : Grown(c, h, d, g, {}, Z, k, 0)
    BY <2>1, <2>2 DEF IsMore
  <2>4. Len(d) = k + 1
    BY <1>2, <1>3, <2>1, <2>2 DEF IsMore
  <2>5. k = Len(d) - 1 /\ Len(d) > 0
    BY <2>4
  <2>6. Finished(d, g, ed, Z, l)
    BY <1>1, <2>3, <2>5, FinishedIs
  <2>7. QED
    BY <1>5, <2>1, <2>6 DEF EndCode
<1>6. CASE act # 0
  <2>1. PICK d, e, y, m : /\ d = c \o Instr("LOADNIL", 0, t, act) /\ e = d \o Instr("RETURN", 0, t, act)
                          /\ y = act + 1 /\ m = k + 1
    OBVIOUS
  <2>2. y \in Int /\ m \in Nat /\ m >= k /\ y - 1 >= act
    BY <1>1, <2>1
  <2>3. IsMore(d, c, h, "LOADNIL", t, {}, Z, m, y)
    <3>1. Flows(c, h, {}, Z, Len(c)) /\ c \in Seq(ByteType) /\ h \in Heights /\ act \in Nat
      BY <1>1
    <3>2. Len(c) <= m /\ m <= Len(c) + Size("LOADNIL") /\ m = Len(c) + Size("LOADNIL") /\ y = h[Len(c)] + Change("LOADNIL")
      BY <1>1, <1>2, <1>3, <2>1
    <3>3. (Takes("LOADNIL") > 0 => h[Len(c)] - Takes("LOADNIL") >= act)
      BY <1>3
    <3>4. "LOADNIL" \in Op /\ "LOADNIL" \notin Jumps /\ Worded("LOADNIL", 0) /\ 0 \in Int /\ y \in Int /\ m \in Nat
      BY <1>4, <2>2
    <3>5. IsMore(c \o Instr("LOADNIL", 0, t, act), c, h, "LOADNIL", t, {}, Z, m, y)
      BY <3>1, <3>2, <3>3, <3>4, LastOne
    <3>6. QED
      BY <2>1, <3>5
  <2>4. PICK f : Grown(c, h, d, f, {}, Z, m, y)
    BY <2>3 DEF IsMore
  <2>5. d \in Seq(ByteType) /\ Len(d) = m
    BY <1>2, <1>3, <2>1, <2>3 DEF IsMore
  <2>6. f \in Heights /\ Flows(d, f, {}, Z, m) /\ f[Len(d)] = y /\ Extended(c, h, d, f)
    BY <2>4 DEF Grown
  <2>7. PICK j : j = m + 1
    OBVIOUS
  <2>8. IsMore(e, d, f, "RETURN", t, {}, Z, j, 0)
    <3>1. Flows(d, f, {}, Z, Len(d)) /\ act \in Nat
      BY <1>1, <2>5, <2>6
    <3>2. Len(d) <= j /\ j <= Len(d) + Size("RETURN") /\ j \in Nat
      BY <1>3, <2>2, <2>5, <2>7
    <3>3. f[Len(d)] - Takes("RETURN") >= act
      BY <1>3, <2>2, <2>6
    <3>4. "RETURN" \in Op /\ "RETURN" \notin Jumps /\ Worded("RETURN", 0) /\ 0 \in Int /\ ~Falls("RETURN")
      BY <1>3, <1>4
    <3>6. d \in Seq(ByteType) /\ f \in Heights
      BY <2>5, <2>6
    <3>7. IsMore(d \o Instr("RETURN", 0, t, act), d, f, "RETURN", t, {}, Z, j, 0)
      BY <3>1, <3>2, <3>3, <3>4, <3>6, LastOne
    <3>8. QED
      BY <2>1, <3>7
  <2>9. PICK g : Grown(d, f, e, g, {}, Z, j, 0)
    BY <2>8 DEF IsMore
  <2>10. e \in Seq(ByteType) /\ Len(e) = m + 2
    BY <1>3, <2>5, <2>8 DEF IsMore
  <2>11. Grown(c, h, e, g, {}, Z, j, 0)
    <3>1. Extended(d, f, e, g) /\ g \in Heights /\ Flows(e, g, {}, Z, j) /\ g[Len(e)] = 0
      BY <2>9 DEF Grown
    <3>2. Extended(c, h, e, g)
      BY <1>1, <2>5, <2>6, <2>10, <3>1, ExtendedFurther
    <3>3. QED
      BY <2>10, <3>1, <3>2 DEF Grown
  <2>12. j = Len(e) - 1 /\ Len(e) > 0
    BY <2>2, <2>7, <2>10
  <2>13. Finished(e, g, ed, Z, l)
    BY <1>1, <2>11, <2>12, FinishedIs
  <2>14. e = c \o (Instr("LOADNIL", 0, t, act) \o Instr("RETURN", 0, t, act))
    <3>1. Instr("LOADNIL", 0, t, act) \in Seq(ByteType) /\ Instr("RETURN", 0, t, act) \in Seq(ByteType)
      BY <1>1, <1>4, InstrIs DEF IsInstr
    <3>2. c \in Seq(ByteType)
      BY <1>1
    <3>3. (c \o Instr("LOADNIL", 0, t, act)) \o Instr("RETURN", 0, t, act) = c \o (Instr("LOADNIL", 0, t, act) \o Instr("RETURN", 0, t, act))
      BY <3>1, <3>2, ConcatAssociative
    <3>4. QED
      BY <2>1, <3>3
  <2>15. QED
    BY <1>6, <2>13, <2>14 DEF EndCode
<1>7. QED
  BY <1>5, <1>6

-----------------------------------------------------------------------------
(* The machine. *)

ValueType == [truth : BOOLEAN, of : Nat]
LastType  == [tok : Nat, val : BOOLEAN, uses : Seq(Nat)]
EdgeType  == [at : Nat, locals : Nat]

\* The tokens of the for-in loops' starts.
Items == {i \in DOMAIN prog : prog[i] = "item"}

\* No for-in loop is run to its end.
Quiet == ~ForInEnds \/ Items = {}

Types ==
  /\ phase \in {"write", "failed", "run", "stopped"}
  /\ prog \in Seq(Token) /\ todo \in Seq(Symbol) /\ marks \in Seq(MarkType) /\ bases \in Seq(Nat) /\ active \in Nat
  /\ code \in Seq(ByteType) /\ edges \subseteq EdgeType /\ ip \in Nat
  /\ stack \in Seq(ValueType) /\ last \in LastType

\* While the program is written the code so far keeps the stack and the rest can be compiled.
Written == phase = "write" => ip = 0 /\ Drafted(todo, marks, bases, active, code, edges, Items, Len(stack))

\* The finished code keeps the stack; the machine is at an opcode, with the height it has there
\* unless it has left a for-in loop by its end.
Runs(h) ==
  /\ h \in Heights /\ Flows(code, h, {}, Items, Len(code) - 1)
  /\ \A e \in edges : h[e.at] = e.locals
  /\ ip < Len(code) /\ code[ip + 1].op # "operand"
  /\ Quiet => Len(stack) = h[ip]

Inv == Types /\ Written /\ (phase = "run" => \E h : Runs(h))

LEMMA AtIs ==
  ASSUME Inv, NEW op, NEW n, At(op, n)
  PROVE  /\ phase = "run" /\ Types /\ (\E h : Runs(h)) /\ Here.op = op /\ Here \in ByteType /\ Here.tok \in Nat
         /\ Len(stack) >= n /\ Len(stack) \in Nat /\ ip \in Nat /\ Len(code) \in Nat /\ ip < Len(code)
         /\ stack \in Seq(ValueType) /\ code \in Seq(ByteType)
<1>1. phase = "run" /\ Types /\ (\E h : Runs(h)) /\ Here.op = op /\ Len(stack) >= n /\ ip < Len(code)
  BY DEF At, Inv
<1>2. ip \in Nat /\ stack \in Seq(ValueType) /\ code \in Seq(ByteType)
  BY <1>1 DEF Types
<1>3. Len(stack) \in Nat /\ Len(code) \in Nat
  BY <1>2, LenProperties
<1>4. ip + 1 \in 1 .. Len(code)
  BY <1>1, <1>2, <1>3
<1>5. code[ip + 1] \in ByteType /\ code[ip + 1].tok \in Nat
  BY <1>2, <1>4, ByteTyped
<1>6. QED
  BY <1>1, <1>2, <1>3, <1>5 DEF Here

\* What the code promises at the instruction.
LEMMA AtFlows ==
  ASSUME Inv, NEW op, NEW n, At(op, n), NEW h, Runs(h)
  PROVE  FlowsAt(code, h, {}, Items, Len(code) - 1, ip)
<1>1. Flows(code, h, {}, Items, Len(code) - 1) /\ code[ip + 1].op # "operand"
  BY DEF Runs
<1>2. ip \in 0 .. Len(code) - 1
  BY AtIs
<1>3. QED
  BY <1>1, <1>2 DEF Flows

LEMMA WordIs ==
  ASSUME Inv, NEW op, NEW n, At(op, n), Size(op) >= 2
  PROVE  Word \in Int /\ Worded(op, Word)
<1>1. PICK h : Runs(h)
  BY AtIs
<1>2. FlowsAt(code, h, {}, Items, Len(code) - 1, ip)
  BY <1>1, AtFlows
<1>3. Here.op = op /\ code \in Seq(ByteType) /\ ip \in Nat /\ Len(code) \in Nat
  BY AtIs
<1>4. ip + Size(op) <= Len(code) /\ Worded(op, code[ip + 2].n)
  BY <1>2, <1>3 DEF FlowsAt, Here
<1>5. Size(op) \in Int
  BY OpFacts
<1>6. ip + 2 \in 1 .. Len(code)
  BY <1>3, <1>4, <1>5
<1>7. code[ip + 2].n \in Int
  BY <1>3, <1>6, ByteTyped
<1>8. QED
  BY <1>4, <1>7 DEF Word

\* The machine goes on to p.
LEMMA Stepped ==
  ASSUME Inv, NEW op, NEW n, At(op, n), NEW p, Goto(p), stack' \in Seq(ValueType), last' \in LastType,
         \A h : Runs(h) => Point(code, p, Len(code) - 1) /\ (Quiet /\ Len(stack) = h[ip] => Len(stack') = h[p])
  PROVE  Inv'
<1>1. PICK h : Runs(h)
  BY AtIs
<1>2. phase = "run" /\ Types /\ Len(code) \in Nat /\ ip \in Nat
  BY AtIs
<1>3. prog' = prog /\ todo' = todo /\ marks' = marks /\ bases' = bases /\ active' = active /\ code' = code /\ edges' = edges
  BY DEF At
<1>4. ip' = p /\ phase' = "run"
  BY <1>2 DEF Goto
<1>5. p \in 0 .. Len(code) - 1 /\ (p < Len(code) => code[p + 1].op # "operand")
  BY <1>1 DEF Point
<1>6. p \in Nat /\ p < Len(code) /\ code[p + 1].op # "operand"
  BY <1>2, <1>5
<1>7. Types'
  BY <1>2, <1>3, <1>4, <1>6 DEF Types
<1>8. Items' = Items
  BY <1>3 DEF Items
<1>9. Runs(h)'
  <2>1. Quiet => Len(stack') = h[p]
    BY <1>1 DEF Runs
  <2>2. /\ h \in Heights /\ Flows(code, h, {}, Items, Len(code) - 1) /\ \A e \in edges : h[e.at] = e.locals
    BY <1>1 DEF Runs
  <2>3. /\ h \in Heights /\ Flows(code', h, {}, Items', Len(code') - 1) /\ \A e \in edges' : h[e.at] = e.locals
    BY <1>3, <1>8, <2>2
  <2>4. ip' < Len(code') /\ code'[ip' + 1].op # "operand"
    BY <1>3, <1>4, <1>6
  <2>5. Quiet' => Len(stack') = h[ip']
    BY <1>4, <1>8, <2>1 DEF Quiet
  <2>6. QED
    BY <2>3, <2>4, <2>5 DEF Runs
<1>10. QED
  BY <1>4, <1>7, <1>9 DEF Inv, Written

LEMMA Fallen ==
  ASSUME Inv, NEW op, NEW n, At(op, n), Falls(op), NEW p, p = ip + Size(op), Goto(p),
         stack' \in Seq(ValueType), last' \in LastType, Len(stack') = Len(stack) + Change(op)
  PROVE  Inv'
<1>1. ASSUME NEW h, Runs(h)
      PROVE  Point(code, p, Len(code) - 1) /\ (Quiet /\ Len(stack) = h[ip] => Len(stack') = h[p])
  <2>1. FlowsAt(code, h, {}, Items, Len(code) - 1, ip) /\ Here.op = op
    BY <1>1, AtIs, AtFlows
  <2>2. Point(code, p, Len(code) - 1) /\ h[p] = h[ip] + Change(op)
    BY <2>1 DEF FlowsAt, Here
  <2>3. QED
    BY <2>2
<1>2. QED
  BY <1>1, Stepped

-----------------------------------------------------------------------------
(* The value stack. *)

LEMMA ValueIs ==
  ASSUME NEW v \in BOOLEAN, NEW t \in Nat
  PROVE  Value(v, t) \in ValueType
BY DEF Value, ValueType

LEMMA AppendIs ==
  ASSUME NEW s \in Seq(ValueType), NEW v \in ValueType
  PROVE  Append(s, v) \in Seq(ValueType) /\ Len(Append(s, v)) = Len(s) + 1
OBVIOUS

LEMMA DropIs ==
  ASSUME stack \in Seq(ValueType), NEW n \in Nat, Len(stack) >= n
  PROVE  Drop(n) \in Seq(ValueType) /\ Len(Drop(n)) = Len(stack) - n
<1>1. PICK k \in Nat : k = Len(stack) - n
  BY LenProperties
<1>2. SubSeq(stack, 1, k) \in Seq(ValueType) /\ Len(SubSeq(stack, 1, k)) = k
  <2>1. k <= Len(stack) /\ Len(stack) \in Nat
    BY <1>1, LenProperties
  <2>2. QED
    BY <2>1, SubSeqProperties
<1>3. QED
  BY <1>1, <1>2 DEF Drop

LEMMA TopTyped ==
  ASSUME stack \in Seq(ValueType), NEW i \in Nat, Len(stack) >= i + 1
  PROVE  Top(i) \in ValueType /\ Top(i).of \in Nat
<1>1. PICK k \in Nat : k = Len(stack)
  BY LenProperties
<1>2. k - i \in 1 .. k
  BY <1>1
<1>3. stack[k - i] \in ValueType
  BY <1>1, <1>2
<1>4. QED
  BY <1>1, <1>3 DEF Top, ValueType

LEMMA ActsIs ==
  ASSUME NEW v \in BOOLEAN, NEW u \in Seq(Nat), Here.tok \in Nat, Acts(v, u)
  PROVE  last' \in LastType
BY DEF Acts, LastType

-----------------------------------------------------------------------------
(* The instructions. *)

LEMMA FallTable ==
  /\ Size("LOAD") = 2 /\ Change("LOAD") = 1 /\ Falls("LOAD")
  /\ Size("LOADNIL") = 1 /\ Change("LOADNIL") = 1 /\ Falls("LOADNIL")
  /\ Size("LOADCONST") = 2 /\ Change("LOADCONST") = 1 /\ Falls("LOADCONST")
  /\ Size("DUP") = 1 /\ Change("DUP") = 1 /\ Falls("DUP")
  /\ Size("POP") = 1 /\ Change("POP") = -1 /\ Falls("POP")
  /\ Size("ROT3") = 1 /\ Change("ROT3") = 0 /\ Falls("ROT3")
  /\ Size("BINOP") = 1 /\ Change("BINOP") = -1 /\ Falls("BINOP")
  /\ Size("CALL") = 2 /\ Change("CALL") = -1 /\ Falls("CALL")
  /\ Size("PRINT") = 2 /\ Change("PRINT") = -1 /\ Falls("PRINT")
  /\ Size("NEWTABLE") = 1 /\ Change("NEWTABLE") = 1 /\ Falls("NEWTABLE")
  /\ Size("GETTABLE") = 1 /\ Change("GETTABLE") = -1 /\ Falls("GETTABLE")
  /\ Size("SETTABLE") = 1 /\ Change("SETTABLE") = -3 /\ Falls("SETTABLE")
  /\ Size("SETGLOBAL") = 2 /\ Change("SETGLOBAL") = -1 /\ Falls("SETGLOBAL")
  /\ Size("GETLOCAL") = 2 /\ Change("GETLOCAL") = 1 /\ Falls("GETLOCAL")
  /\ Size("SETLOCAL") = 2 /\ Change("SETLOCAL") = -1 /\ Falls("SETLOCAL")
  /\ Size("COMPARE") = 1 /\ Change("COMPARE") = -1 /\ Falls("COMPARE")
  /\ Size("ADD") = 1 /\ Change("ADD") = -1 /\ Falls("ADD")
BY DEF Size, Change, Falls, Jumps

\* A value more.
LEMMA Pushes ==
  ASSUME Inv, NEW op \in {"LOAD", "LOADNIL", "LOADCONST", "DUP", "NEWTABLE", "GETLOCAL"}, NEW n, At(op, n),
         NEW v \in ValueType, stack' = Append(stack, v), NEW p, p = ip + Size(op), Goto(p), last' \in LastType
  PROVE  Inv'
<1>1. stack \in Seq(ValueType)
  BY AtIs
<1>2. stack' \in Seq(ValueType) /\ Len(stack') = Len(stack) + 1
  BY <1>1, AppendIs
<1>3. Falls(op) /\ Change(op) = 1
  BY FallTable
<1>4. Len(stack') = Len(stack) + Change(op)
  BY <1>2, <1>3
<1>5. QED
  BY <1>2, <1>3, <1>4, Fallen

\* Two values become one.
LEMMA Combines ==
  ASSUME Inv, NEW op \in {"BINOP", "CALL", "GETTABLE", "COMPARE", "ADD"}, At(op, 2),
         NEW v \in ValueType, stack' = Append(Drop(2), v), NEW p, p = ip + Size(op), Goto(p), last' \in LastType
  PROVE  Inv'
<1>1. stack \in Seq(ValueType) /\ Len(stack) >= 2 /\ Len(stack) \in Nat
  BY AtIs
<1>2. 2 \in Nat
  OBVIOUS
<1>3. Drop(2) \in Seq(ValueType) /\ Len(Drop(2)) = Len(stack) - 2
  BY <1>1, <1>2, DropIs
<1>4. stack' \in Seq(ValueType) /\ Len(stack') = Len(Drop(2)) + 1
  BY <1>3, AppendIs
<1>5. Falls(op) /\ Change(op) = -1
  BY FallTable
<1>6. Len(stack') = Len(stack) + Change(op)
  BY <1>1, <1>3, <1>4, <1>5
<1>7. QED
  BY <1>4, <1>5, <1>6, Fallen

\* Values are dropped.
LEMMA Drops ==
  ASSUME Inv, NEW op \in {"POP", "PRINT", "SETGLOBAL", "SETTABLE"}, NEW n, At(op, n),
         NEW k \in Nat, Len(stack) >= k, k = IF op = "SETTABLE" THEN 3 ELSE 1,
         stack' = Drop(k), NEW p, p = ip + Size(op), Goto(p), last' \in LastType
  PROVE  Inv'
<1>1. stack \in Seq(ValueType) /\ Len(stack) \in Nat
  BY AtIs
<1>2. stack' \in Seq(ValueType) /\ Len(stack') = Len(stack) - k
  BY <1>1, DropIs
<1>3. Falls(op) /\ Change(op) = -k
  <2>1. CASE op = "SETTABLE"
    <3>1. k = 3 /\ Change(op) = -3 /\ Falls(op)
      BY <2>1, FallTable
    <3>2. QED
      BY <3>1
  <2>2. CASE op # "SETTABLE"
    <3>1. k = 1 /\ Change(op) = -1 /\ Falls(op)
      BY <2>2, FallTable
    <3>2. QED
      BY <3>1
  <2>3. QED
    BY <2>1, <2>2
<1>4. Len(stack') = Len(stack) + Change(op)
  BY <1>1, <1>2, <1>3
<1>5. QED
  BY <1>2, <1>3, <1>4, Fallen

LEMMA LastKept == ASSUME Inv, last' = last PROVE last' \in LastType
BY DEF Inv, Types

LEMMA LoadKeeps == Inv /\ op_load => Inv'
<1>1. SUFFICES ASSUME Inv, op_load PROVE Inv'
  OBVIOUS
<1>2. At("LOAD", 0)
  BY <1>1 DEF op_load
<1>3. PICK b \in BOOLEAN : stack' = Append(stack, Value(b, Here.tok)) /\ Acts(b, <<>>) /\ Goto(ip + 2)
  BY <1>1 DEF op_load
<1>4. Here.tok \in Nat
  BY <1>1, <1>2, AtIs
<1>5. PICK v \in ValueType : v = Value(b, Here.tok)
  BY <1>4, ValueIs
<1>6. last' \in LastType
  <2>1. <<>> \in Seq(Nat)
    OBVIOUS
  <2>2. QED
    BY <1>3, <1>4, <2>1, ActsIs
<1>7. ip + 2 = ip + Size("LOAD")
  BY FallTable
<1>8. QED
  BY <1>1, <1>2, <1>3, <1>5, <1>6, <1>7, Pushes

LEMMA ConstantKeeps == Inv /\ (op_loadnil \/ op_loadconst) => Inv'
<1>1. SUFFICES ASSUME Inv, op_loadnil \/ op_loadconst PROVE Inv'
  OBVIOUS
<1>2. last' \in LastType
  BY <1>1, LastKept DEF op_loadnil, op_loadconst
<1>3. Value(FALSE, 0) \in ValueType /\ Value(TRUE, 0) \in ValueType
  BY ValueIs
<1>4. CASE op_loadnil
  <2>1. At("LOADNIL", 0) /\ stack' = Append(stack, Value(FALSE, 0)) /\ Goto(ip + 1)
    BY <1>4 DEF op_loadnil
  <2>2. ip + 1 = ip + Size("LOADNIL")
    BY FallTable
  <2>3. QED
    BY <1>1, <1>2, <1>3, <2>1, <2>2, Pushes
<1>5. CASE op_loadconst
  <2>1. At("LOADCONST", 0) /\ stack' = Append(stack, Value(TRUE, 0)) /\ Goto(ip + 2)
    BY <1>5 DEF op_loadconst
  <2>2. ip + 2 = ip + Size("LOADCONST")
    BY FallTable
  <2>3. QED
    BY <1>1, <1>2, <1>3, <2>1, <2>2, Pushes
<1>6. QED
  BY <1>1, <1>4, <1>5

LEMMA DupKeeps == Inv /\ op_dup => Inv'
<1>1. SUFFICES ASSUME Inv, op_dup PROVE Inv'
  OBVIOUS
<1>2. At("DUP", 1) /\ stack' = Append(stack, Top(0)) /\ Goto(ip + 1) /\ last' = last
  BY <1>1 DEF op_dup
<1>3. stack \in Seq(ValueType) /\ Len(stack) >= 1
  BY <1>1, <1>2, AtIs
<1>4. Top(0) \in ValueType
  <2>1. Len(stack) >= 0 + 1 /\ 0 \in Nat
    BY <1>3
  <2>2. QED
    BY <1>3, <2>1, TopTyped
<1>5. ip + 1 = ip + Size("DUP") /\ last' \in LastType
  BY <1>1, <1>2, FallTable, LastKept
<1>6. QED
  BY <1>1, <1>2, <1>4, <1>5, Pushes

LEMMA NewTableKeeps == Inv /\ op_newtable => Inv'
<1>1. SUFFICES ASSUME Inv, op_newtable PROVE Inv'
  OBVIOUS
<1>2. At("NEWTABLE", 0) /\ stack' = Append(stack, Value(TRUE, Here.tok)) /\ Acts(TRUE, <<>>) /\ Goto(ip + 1)
  BY <1>1 DEF op_newtable
<1>3. Here.tok \in Nat
  BY <1>1, <1>2, AtIs
<1>4. Value(TRUE, Here.tok) \in ValueType
  BY <1>3, ValueIs
<1>5. last' \in LastType
  <2>1. <<>> \in Seq(Nat) /\ TRUE \in BOOLEAN
    OBVIOUS
  <2>2. QED
    BY <1>2, <1>3, <2>1, ActsIs
<1>6. ip + 1 = ip + Size("NEWTABLE")
  BY FallTable
<1>7. QED
  BY <1>1, <1>2, <1>4, <1>5, <1>6, Pushes

LEMMA GetLocalKeeps == Inv /\ op_getlocal => Inv'
<1>1. SUFFICES ASSUME Inv, op_getlocal PROVE Inv'
  OBVIOUS
<1>2. At("GETLOCAL", 0) /\ Word < Len(stack) /\ stack' = Append(stack, stack[Word + 1]) /\ Goto(ip + 2) /\ last' = last
  BY <1>1 DEF op_getlocal
<1>3. stack \in Seq(ValueType) /\ Len(stack) \in Nat
  BY <1>1, <1>2, AtIs
<1>4. Word \in Nat
  <2>1. Size("GETLOCAL") >= 2
    BY FallTable
  <2>2. Worded("GETLOCAL", Word)
    BY <1>1, <1>2, <2>1, WordIs
  <2>3. QED
    BY <2>2 DEF Worded
<1>5. stack[Word + 1] \in ValueType
  <2>1. Word + 1 \in 1 .. Len(stack)
    BY <1>2, <1>3, <1>4
  <2>2. QED
    BY <1>3, <2>1
<1>6. ip + 2 = ip + Size("GETLOCAL") /\ last' \in LastType
  BY <1>1, <1>2, FallTable, LastKept
<1>7. QED
  BY <1>1, <1>2, <1>5, <1>6, Pushes

\* The value of an operator has the token of the instruction.
LEMMA CombinesTo ==
  ASSUME Inv, NEW op \in {"BINOP", "CALL", "GETTABLE", "COMPARE", "ADD"}, At(op, 2), NEW b \in BOOLEAN,
         stack' = Append(Drop(2), Value(b, Here.tok)), Acts(b, <<>>), Goto(ip + Size(op))
  PROVE  Inv'
<1>1. Here.tok \in Nat
  BY AtIs
<1>2. PICK v \in ValueType : v = Value(b, Here.tok)
  BY <1>1, ValueIs
<1>3. last' \in LastType
  <2>1. <<>> \in Seq(Nat)
    OBVIOUS
  <2>2. QED
    BY <1>1, <2>1, ActsIs
<1>4. QED
  BY <1>2, <1>3, Combines

LEMMA BinaryKeeps == Inv /\ (op_binary \/ op_gettable \/ op_compare \/ op_add) => Inv'
<1>1. SUFFICES ASSUME Inv, op_binary \/ op_gettable \/ op_compare \/ op_add PROVE Inv'
  OBVIOUS
<1>2. ip + 1 = ip + Size("BINOP") /\ ip + 1 = ip + Size("GETTABLE") /\ ip + 1 = ip + Size("COMPARE") /\ ip + 1 = ip + Size("ADD")
  BY FallTable
<1>3. CASE op_binary
  <2>1. PICK b \in BOOLEAN : At("BINOP", 2) /\ stack' = Append(Drop(2), Value(b, Here.tok)) /\ Acts(b, <<>>) /\ Goto(ip + 1)
    BY <1>3 DEF op_binary
  <2>2. QED
    BY <1>1, <1>2, <2>1, CombinesTo
<1>4. CASE op_gettable
  <2>1. PICK b \in BOOLEAN : At("GETTABLE", 2) /\ stack' = Append(Drop(2), Value(b, Here.tok)) /\ Acts(b, <<>>) /\ Goto(ip + 1)
    BY <1>4 DEF op_gettable
  <2>2. QED
    BY <1>1, <1>2, <2>1, CombinesTo
<1>5. CASE op_compare
  <2>1. PICK b \in BOOLEAN : At("COMPARE", 2) /\ stack' = Append(Drop(2), Value(b, Here.tok)) /\ Acts(b, <<>>) /\ Goto(ip + 1)
    BY <1>5 DEF op_compare
  <2>2. QED
    BY <1>1, <1>2, <2>1, CombinesTo
<1>6. CASE op_add
  <2>1. At("ADD", 2) /\ stack' = Append(Drop(2), Value(TRUE, Here.tok)) /\ Acts(TRUE, <<>>) /\ Goto(ip + 1)
    BY <1>6 DEF op_add
  <2>2. TRUE \in BOOLEAN
    OBVIOUS
  <2>3. QED
    BY <1>1, <1>2, <2>1, <2>2, CombinesTo
<1>7. QED
  BY <1>1, <1>3, <1>4, <1>5, <1>6

LEMMA CallKeeps == Inv /\ op_call => Inv'
<1>1. SUFFICES ASSUME Inv, op_call PROVE Inv'
  OBVIOUS
<1>2. PICK b \in BOOLEAN : /\ At("CALL", Word + 1) /\ stack' = Append(Drop(Word + 1), Value(b, Here.tok))
                          /\ Acts(b, <<>>) /\ Goto(ip + 2)
  BY <1>1 DEF op_call
<1>3. Word = 1
  <2>1. Size("CALL") >= 2
    BY FallTable
  <2>2. Worded("CALL", Word)
    BY <1>1, <1>2, <2>1, WordIs
  <2>3. QED
    BY <2>2 DEF Worded
<1>4. Word + 1 = 2
  BY <1>3
<1>5. At("CALL", 2) /\ stack' = Append(Drop(2), Value(b, Here.tok))
  BY <1>2, <1>4
<1>6. ip + 2 = ip + Size("CALL")
  BY FallTable
<1>7. QED
  BY <1>1, <1>2, <1>5, <1>6, CombinesTo

LEMMA PopKeeps == Inv /\ op_pop => Inv'
<1>1. SUFFICES ASSUME Inv, op_pop PROVE Inv'
  OBVIOUS
<1>2. At("POP", 1) /\ stack' = Drop(1) /\ Goto(ip + 1) /\ last' = last
  BY <1>1 DEF op_pop
<1>3. Len(stack) >= 1
  BY <1>1, <1>2, AtIs
<1>4. ip + 1 = ip + Size("POP") /\ last' \in LastType
  BY <1>1, <1>2, FallTable, LastKept
<1>5. QED
  BY <1>1, <1>2, <1>3, <1>4, Drops

LEMMA PrintKeeps == Inv /\ op_print => Inv'
<1>1. SUFFICES ASSUME Inv, op_print PROVE Inv'
  OBVIOUS
<1>2. At("PRINT", Word) /\ stack' = Drop(Word) /\ Acts(FALSE, <<>>) /\ Goto(ip + 2)
  BY <1>1 DEF op_print
<1>3. Word = 1
  <2>1. Size("PRINT") >= 2
    BY FallTable
  <2>2. Worded("PRINT", Word)
    BY <1>1, <1>2, <2>1, WordIs
  <2>3. QED
    BY <2>2 DEF Worded
<1>4. Here.tok \in Nat /\ Len(stack) >= 1
  BY <1>1, <1>2, <1>3, AtIs
<1>5. last' \in LastType
  <2>1. <<>> \in Seq(Nat) /\ FALSE \in BOOLEAN
    OBVIOUS
  <2>2. QED
    BY <1>2, <1>4, <2>1, ActsIs
<1>6. ip + 2 = ip + Size("PRINT")
  BY FallTable
<1>7. QED
  BY <1>1, <1>2, <1>3, <1>4, <1>5, <1>6, Drops

LEMMA SetGlobalKeeps == Inv /\ op_setglobal => Inv'
<1>1. SUFFICES ASSUME Inv, op_setglobal PROVE Inv'
  OBVIOUS
<1>2. At("SETGLOBAL", 1) /\ stack' = Drop(1) /\ Acts(TRUE, <<Top(0).of>>) /\ Goto(ip + 2)
  BY <1>1 DEF op_setglobal
<1>3. Len(stack) >= 1 /\ stack \in Seq(ValueType) /\ Here.tok \in Nat
  BY <1>1, <1>2, AtIs
<1>4. Top(0).of \in Nat
  <2>1. Len(stack) >= 0 + 1 /\ 0 \in Nat
    BY <1>3
  <2>2. QED
    BY <1>3, <2>1, TopTyped
<1>5. last' \in LastType
  <2>1. <<Top(0).of>> \in Seq(Nat) /\ TRUE \in BOOLEAN
    BY <1>4
  <2>2. QED
    BY <1>2, <1>3, <2>1, ActsIs
<1>6. ip + 2 = ip + Size("SETGLOBAL")
  BY FallTable
<1>7. QED
  BY <1>1, <1>2, <1>3, <1>5, <1>6, Drops

LEMMA SetTableKeeps == Inv /\ op_settable => Inv'
<1>1. SUFFICES ASSUME Inv, op_settable PROVE Inv'
  OBVIOUS
<1>2. PICK u : u = IF prog[Here.tok] = "put" THEN <<Top(2).of>> ELSE <<Top(2).of, Top(0).of>>
  OBVIOUS
<1>3. At("SETTABLE", 3) /\ Acts(TRUE, u) /\ stack' = Drop(3) /\ Goto(ip + 1)
  BY <1>1, <1>2 DEF op_settable
<1>4. Len(stack) >= 3 /\ Len(stack) \in Nat /\ stack \in Seq(ValueType) /\ Here.tok \in Nat
  BY <1>1, <1>3, AtIs
<1>5. Top(2).of \in Nat /\ Top(0).of \in Nat
  <2>1. Len(stack) >= 0 + 1 /\ 0 \in Nat /\ Len(stack) >= 2 + 1 /\ 2 \in Nat
    BY <1>4
  <2>2. QED
    BY <1>4, <2>1, TopTyped
<1>6. last' \in LastType
  <2>1. u \in Seq(Nat) /\ TRUE \in BOOLEAN
    BY <1>2, <1>5
  <2>2. QED
    BY <1>3, <1>4, <2>1, ActsIs
<1>7. ip + 1 = ip + Size("SETTABLE")
  BY FallTable
<1>8. QED
  BY <1>1, <1>3, <1>4, <1>6, <1>7, Drops

-----------------------------------------------------------------------------
(* The other instructions. *)

LEMMA RotKeeps == Inv /\ op_rot3 => Inv'
<1>1. SUFFICES ASSUME Inv, op_rot3 PROVE Inv'
  OBVIOUS
<1>2. At("ROT3", 3) /\ stack' = Drop(3) \o <<Top(1), Top(0), Top(2)>> /\ Goto(ip + 1) /\ last' = last
  BY <1>1 DEF op_rot3
<1>3. Len(stack) >= 3 /\ Len(stack) \in Nat /\ stack \in Seq(ValueType)
  BY <1>1, <1>2, AtIs
<1>4. Top(0) \in ValueType /\ Top(1) \in ValueType /\ Top(2) \in ValueType
  <2>1. Len(stack) >= 0 + 1 /\ 0 \in Nat /\ Len(stack) >= 1 + 1 /\ 1 \in Nat /\ Len(stack) >= 2 + 1 /\ 2 \in Nat
    BY <1>3
  <2>2. QED
    BY <1>3, <2>1, TopTyped
<1>5. Drop(3) \in Seq(ValueType) /\ Len(Drop(3)) = Len(stack) - 3
  <2>1. 3 \in Nat
    OBVIOUS
  <2>2. QED
    BY <1>3, <2>1, DropIs
<1>6. PICK w : w = <<Top(1), Top(0), Top(2)>>
  OBVIOUS
<1>7. w \in Seq(ValueType) /\ Len(w) = 3
  BY <1>4, <1>6
<1>8. stack' = Drop(3) \o w
  BY <1>2, <1>6
<1>9. stack' \in Seq(ValueType) /\ Len(stack') = Len(Drop(3)) + Len(w)
  <2>1. PICK d : d = Drop(3)
    OBVIOUS
  <2>2. d \in Seq(ValueType) /\ w \in Seq(ValueType)
    BY <1>5, <1>7, <2>1
  <2>3. d \o w \in Seq(ValueType) /\ Len(d \o w) = Len(d) + Len(w)
    BY <2>2, ConcatProperties
  <2>4. QED
    BY <1>8, <2>1, <2>3
<1>10. Falls("ROT3") /\ Change("ROT3") = 0 /\ ip + 1 = ip + Size("ROT3") /\ last' \in LastType
  BY <1>1, <1>2, FallTable, LastKept
<1>11. Len(stack') = Len(stack) + Change("ROT3")
  BY <1>3, <1>5, <1>7, <1>9, <1>10
<1>12. QED
  BY <1>1, <1>2, <1>9, <1>10, <1>11, Fallen

LEMMA SetLocalKeeps == Inv /\ op_setlocal => Inv'
<1>1. SUFFICES ASSUME Inv, op_setlocal PROVE Inv'
  OBVIOUS
<1>2. At("SETLOCAL", 1) /\ Word + 1 < Len(stack) /\ stack' = [Drop(1) EXCEPT ![Word + 1] = Top(0)] /\ Goto(ip + 2) /\ last' = last
  BY <1>1 DEF op_setlocal
<1>3. Len(stack) >= 1 /\ Len(stack) \in Nat /\ stack \in Seq(ValueType)
  BY <1>1, <1>2, AtIs
<1>4. Word \in Nat
  <2>1. Size("SETLOCAL") >= 2
    BY FallTable
  <2>2. Worded("SETLOCAL", Word)
    BY <1>1, <1>2, <2>1, WordIs
  <2>3. QED
    BY <2>2 DEF Worded
<1>5. Top(0) \in ValueType
  <2>1. Len(stack) >= 0 + 1 /\ 0 \in Nat
    BY <1>3
  <2>2. QED
    BY <1>3, <2>1, TopTyped
<1>6. Drop(1) \in Seq(ValueType) /\ Len(Drop(1)) = Len(stack) - 1
  <2>1. 1 \in Nat
    OBVIOUS
  <2>2. QED
    BY <1>3, <2>1, DropIs
<1>7. PICK s, v, i : s = Drop(1) /\ v = Top(0) /\ i = Word + 1
  OBVIOUS
<1>8. i \in 1 .. Len(s)
  BY <1>2, <1>3, <1>4, <1>6, <1>7
<1>9. s \in Seq(ValueType) /\ v \in ValueType /\ stack' = [s EXCEPT ![i] = v]
  BY <1>2, <1>5, <1>6, <1>7
<1>10. stack' \in Seq(ValueType) /\ Len(stack') = Len(s)
  BY <1>8, <1>9
<1>11. Falls("SETLOCAL") /\ Change("SETLOCAL") = -1 /\ ip + 2 = ip + Size("SETLOCAL") /\ last' \in LastType
  BY <1>1, <1>2, FallTable, LastKept
<1>12. Len(stack') = Len(stack) + Change("SETLOCAL")
  BY <1>3, <1>6, <1>7, <1>10, <1>11
<1>13. QED
  BY <1>1, <1>2, <1>10, <1>11, <1>12, Fallen

\* Where a jump leads, and where it goes on.
LEMMA JumpIs ==
  ASSUME Inv, NEW op \in Jumps, NEW n, At(op, n), NEW h, Runs(h)
  PROVE  /\ Point(code, ip + 3 + Word, Len(code) - 1)
         /\ Leaving(Here, Items) \/ h[ip + 3 + Word] = h[ip] + Change(op)
         /\ Falls(op) => Point(code, ip + 3, Len(code) - 1) /\ h[ip + 3] = h[ip] + Change(op)
<1>1. FlowsAt(code, h, {}, Items, Len(code) - 1, ip) /\ Here.op = op
  BY AtIs, AtFlows
<1>2. Size(op) = 3
  BY OpFacts
<1>3. QED
  BY <1>1, <1>2 DEF FlowsAt, Here, Word

LEMMA JumpKeeps == Inv /\ op_jump => Inv'
<1>1. SUFFICES ASSUME Inv, op_jump PROVE Inv'
  OBVIOUS
<1>2. At("JUMP", 0) /\ Goto(ip + 3 + Word) /\ stack' = stack /\ last' = last
  BY <1>1 DEF op_jump
<1>3. last' \in LastType /\ stack' \in Seq(ValueType) /\ Here.op = "JUMP"
  BY <1>1, <1>2, LastKept, AtIs
<1>4. "JUMP" \in Jumps /\ Change("JUMP") = 0
  BY DEF Jumps, Change
<1>5. ASSUME NEW h, Runs(h)
      PROVE  /\ Point(code, ip + 3 + Word, Len(code) - 1)
             /\ Quiet /\ Len(stack) = h[ip] => Len(stack') = h[ip + 3 + Word]
  <2>1. Point(code, ip + 3 + Word, Len(code) - 1) /\ (Leaving(Here, Items) \/ h[ip + 3 + Word] = h[ip] + Change("JUMP"))
    BY <1>1, <1>2, <1>4, <1>5, JumpIs
  <2>2. ~Leaving(Here, Items)
    BY <1>3 DEF Leaving
  <2>3. h[ip] \in Int
    <3>1. h \in Heights /\ ip \in Nat
      BY <1>1, <1>2, <1>5, AtIs DEF Runs
    <3>2. QED
      BY <3>1 DEF Heights
  <2>4. h[ip + 3 + Word] = h[ip]
    BY <1>4, <2>1, <2>2, <2>3
  <2>5. QED
    BY <1>2, <2>1, <2>4
<1>6. QED
  BY <1>1, <1>2, <1>3, <1>5, Stepped

LEMMA JumpIfFalseKeeps == Inv /\ op_jump_false => Inv'
<1>1. SUFFICES ASSUME Inv, op_jump_false PROVE Inv'
  OBVIOUS
<1>2. PICK p : p = IF Top(0).truth THEN ip + 3 ELSE ip + 3 + Word
  OBVIOUS
<1>3. /\ At("JUMPIFFALSE", 1) /\ Goto(p) /\ stack' = Drop(1) /\ last' = last
      /\ (~Top(0).truth /\ prog[Here.tok] = "item") => ForInEnds
  BY <1>1, <1>2 DEF op_jump_false
<1>4. last' \in LastType /\ stack \in Seq(ValueType) /\ Len(stack) >= 1 /\ Len(stack) \in Nat
  BY <1>1, <1>3, LastKept, AtIs
<1>5. stack' \in Seq(ValueType) /\ Len(stack') = Len(stack) - 1
  <2>1. 1 \in Nat
    OBVIOUS
  <2>2. QED
    BY <1>3, <1>4, <2>1, DropIs
<1>6. "JUMPIFFALSE" \in Jumps /\ Change("JUMPIFFALSE") = -1 /\ Falls("JUMPIFFALSE")
  BY DEF Jumps, Change, Falls
<1>7. ASSUME NEW h, Runs(h)
      PROVE  /\ Point(code, p, Len(code) - 1)
             /\ Quiet /\ Len(stack) = h[ip] => Len(stack') = h[p]
  <2>1. /\ Point(code, ip + 3 + Word, Len(code) - 1)
        /\ Leaving(Here, Items) \/ h[ip + 3 + Word] = h[ip] + Change("JUMPIFFALSE")
        /\ Point(code, ip + 3, Len(code) - 1) /\ h[ip + 3] = h[ip] + Change("JUMPIFFALSE")
    BY <1>1, <1>3, <1>6, <1>7, JumpIs
  <2>2. Point(code, p, Len(code) - 1)
    BY <1>2, <2>1
  <2>3. Quiet => h[p] = h[ip] + Change("JUMPIFFALSE")
    <3>1. SUFFICES ASSUME Quiet, ~Top(0).truth PROVE h[p] = h[ip] + Change("JUMPIFFALSE")
      BY <1>2, <2>1
    <3>2. ~Leaving(Here, Items)
      BY <1>3, <3>1 DEF Leaving, Items, Quiet
    <3>3. p = ip + 3 + Word
      BY <1>2, <3>1
    <3>4. QED
      BY <2>1, <3>2, <3>3
  <2>4. Quiet /\ Len(stack) = h[ip] => Len(stack') = h[p]
    BY <1>4, <1>5, <1>6, <2>3
  <2>5. QED
    BY <2>2, <2>4
<1>8. QED
  BY <1>1, <1>3, <1>4, <1>5, <1>7, Stepped

LEMMA StopKeeps == Inv /\ op_stop => Inv'
<1>1. SUFFICES ASSUME Inv, op_stop PROVE Inv'
  OBVIOUS
<1>2. /\ At("RETURN", 1) \/ At("HALT", 0)
      /\ Acts(TRUE, <<>>) /\ phase' = "stopped" /\ ip' = ip /\ stack' = stack
  BY <1>1 DEF op_stop
<1>3. Types /\ Here.tok \in Nat
  BY <1>1, <1>2, AtIs
<1>4. prog' = prog /\ todo' = todo /\ marks' = marks /\ bases' = bases /\ active' = active /\ code' = code /\ edges' = edges
  BY <1>2 DEF At
<1>5. last' \in LastType
  <2>1. <<>> \in Seq(Nat) /\ TRUE \in BOOLEAN
    OBVIOUS
  <2>2. QED
    BY <1>2, <1>3, <2>1, ActsIs
<1>6. Types'
  BY <1>2, <1>3, <1>4, <1>5 DEF Types
<1>7. QED
  BY <1>2, <1>6 DEF Inv, Written

LEMMA RunKeeps == Inv /\ Run => Inv'
BY LoadKeeps, ConstantKeeps, DupKeeps, NewTableKeeps, GetLocalKeeps, BinaryKeeps, CallKeeps, PopKeeps, PrintKeeps,
   SetGlobalKeeps, SetTableKeeps, RotKeeps, SetLocalKeeps, JumpKeeps, JumpIfFalseKeeps, StopKeeps DEF Run

-----------------------------------------------------------------------------
(* The compiler. *)

LEMMA DraftedIs ==
  ASSUME NEW td, NEW mk, NEW bs, NEW act, NEW c, NEW ed, NEW Z, NEW l, Drafted(td, mk, bs, act, c, ed, Z, l)
  PROVE  /\ td \in Seq(Pendable) /\ td # <<>> /\ mk \in Seq(MarkType) /\ bs \in Seq(Nat) /\ act \in Nat
         /\ c \in Seq(ByteType) /\ Len(c) \in Nat /\ ed \subseteq EdgeType
<1>1. PICK h, MK, BS : Draft(td, mk, bs, act, c, ed, h, MK, BS, Z, l)
  BY DEF Drafted
<1>2. /\ td \in Seq(Pendable) /\ td # <<>> /\ mk \in Seq(MarkType) /\ bs \in Seq(Nat) /\ act \in Nat
      /\ c \in Seq(ByteType) /\ Len(c) \in Nat
  BY <1>1, DraftIs
<1>3. \A e \in ed : e \in [at : Nat, locals : Nat]
  BY <1>1 DEF Draft
<1>4. QED
  BY <1>2, <1>3 DEF EdgeType

LEMMA SymbolsOf == ASSUME NEW td \in Seq(Pendable) PROVE td \in Seq(Symbol)
<1>1. Pendable \subseteq Symbol
  BY DEF Pendable, Symbol, Token
<1>2. QED
  BY <1>1

\* The code is emitted, or there is no room for it.
LEMMA Wrote ==
  ASSUME Inv, prog' \in Seq(Token), UNCHANGED machine, phase = "write", NEW d, Emits(d),
         Drafted(todo', marks', bases', active', d, edges', Items', Len(stack))
  PROVE  Inv'
<1>1. /\ todo' \in Seq(Pendable) /\ marks' \in Seq(MarkType) /\ bases' \in Seq(Nat) /\ active' \in Nat
      /\ d \in Seq(ByteType) /\ Len(d) \in Nat /\ edges' \subseteq EdgeType
  BY DraftedIs
<1>2. todo' \in Seq(Symbol)
  BY <1>1, SymbolsOf
<1>3. ip' = ip /\ stack' = stack /\ last' = last
  BY DEF machine
<1>4. code' \in Seq(ByteType) /\ phase' \in {"write", "failed"} /\ (phase' = "write" => code' = d)
  <2>1. CASE Len(d) <= MAX_CODE_SIZE
    BY <1>1, <2>1 DEF Emits, EmitsFor
  <2>2. CASE ~(Len(d) <= MAX_CODE_SIZE)
    <3>1. code' = SubSeq(d, 1, MAX_CODE_SIZE) /\ phase' = "failed"
      BY <2>2 DEF Emits, EmitsFor
    <3>2. MAX_CODE_SIZE \in Nat
      BY BoundAssumption
    <3>3. MAX_CODE_SIZE <= Len(d)
      BY <1>1, <2>2, <3>2
    <3>4. SubSeq(d, 1, MAX_CODE_SIZE) \in Seq(ByteType)
      BY <1>1, <3>2, <3>3, SubSeqProperties
    <3>5. QED
      BY <3>1, <3>4
  <2>3. QED
    BY <2>1, <2>2
<1>5. Types /\ Written
  BY DEF Inv
<1>6. Types'
  BY <1>1, <1>2, <1>3, <1>4, <1>5 DEF Types
<1>7. Written'
  <2>1. ASSUME phase' = "write" PROVE ip' = 0 /\ Drafted(todo', marks', bases', active', code', edges', Items', Len(stack'))
    BY <1>3, <1>4, <1>5, <2>1 DEF Written
  <2>2. QED
    BY <2>1 DEF Written
<1>8. QED
  BY <1>4, <1>6, <1>7 DEF Inv

\* Where the compiler comes to the token t.
LEMMA Meeting ==
  ASSUME Inv, NEW t \in Token, NEW n, Meet(t, n)
  PROVE  /\ phase = "write" /\ t \in Choices(Head(todo)) /\ Head(todo) \in Pendable /\ todo \in Seq(Pendable) /\ todo # <<>>
         /\ Drafted(todo, marks, bases, active, code, edges, Items', Len(stack))
         /\ Len(prog') \in Nat /\ (t = "item" => Len(prog') \in Items') /\ prog' \in Seq(Token)
         /\ active' = n /\ active \in Nat /\ UNCHANGED machine
<1>1. /\ phase = "write" /\ todo # <<>> /\ t \in Choices(Head(todo)) /\ active' = n /\ prog' = Append(prog, t)
      /\ UNCHANGED machine
  BY DEF Meet
<1>2. prog \in Seq(Token) /\ Drafted(todo, marks, bases, active, code, edges, Items, Len(stack))
  BY <1>1 DEF Inv, Types, Written
<1>3. /\ prog' \in Seq(Token) /\ Len(prog') = Len(prog) + 1 /\ prog'[Len(prog) + 1] = t
      /\ \A i \in 1 .. Len(prog) : prog'[i] = prog[i]
  BY <1>1, <1>2
<1>4. Len(prog) \in Nat /\ Len(prog') \in Nat /\ DOMAIN prog' = 1 .. Len(prog) + 1 /\ DOMAIN prog = 1 .. Len(prog)
  BY <1>2, <1>3, LenProperties
<1>5. Items \subseteq Items' /\ (t = "item" => Len(prog') \in Items')
  <2>1. \A i \in 1 .. Len(prog) : i \in 1 .. Len(prog) + 1
    BY <1>4
  <2>2. Len(prog) + 1 \in 1 .. Len(prog) + 1
    BY <1>4
  <2>3. Items \subseteq Items'
    BY <1>3, <1>4, <2>1 DEF Items
  <2>4. t = "item" => Len(prog) + 1 \in Items'
    BY <1>3, <1>4, <2>2 DEF Items
  <2>5. QED
    BY <1>3, <2>3, <2>4
<1>6. PICK Y : Y = Items'
  OBVIOUS
<1>7. Drafted(todo, marks, bases, active, code, edges, Y, Len(stack))
  BY <1>2, <1>5, <1>6, DraftMore
<1>8. todo \in Seq(Pendable) /\ active \in Nat
  BY <1>2, DraftedIs
<1>9. Head(todo) \in Pendable
  BY <1>1, <1>8
<1>10. QED
  BY <1>1, <1>3, <1>4, <1>5, <1>6, <1>7, <1>8, <1>9

\* Which symbol a token is for.
LEMMA HeadIs ==
  ASSUME NEW s \in Pendable, NEW t, t \in Choices(s)
  PROVE  /\ t \in {"and", "or", "bin", "call", "print", "table"} => s = "Expr"
         /\ t = "value" => s \in {"Expr", "value"}
         /\ t \in {"local", "eval", "assign", "if", "while", "repeat", "for", "forin", "return"} => s = "Block"
         /\ t \in {"comma", "one", "two"} => s = "More"
         /\ t \in {"store", "entry"} => s = "Target"
         /\ t \in {"elseif", "else"} => s = "Clauses"
         /\ t = "endif" => s \in {"Clauses", "endif"}
         /\ t \in {"field", "index", "table)"} => s = "Fields"
         /\ t \in {"and2", "and)", "or2", "or)", "bin)", "call)", "print)", "put", "local)", "declare", "eval)", "assign)",
                   "set", "then", "do", "endwhile", "until", "endrepeat", "test", "endfor", "item", "endforin", "return)",
                   "end"} => s = t
<1>1. CASE s = "Expr"
  <2>1. Choices(s) = Expressions
    BY <1>1 DEF Choices
  <2>2. t \in {"value", "method", "and", "or", "bin", "call", "print", "table"}
    BY <2>1, BoundAssumption
  <2>3. QED
    BY <1>1, <2>2
<1>2. CASE s = "Block"
  <2>1. t \in Statements
    BY <1>2 DEF Choices
  <2>2. t \in {"local", "eval", "assign", "if", "while", "repeat", "for", "forin", "return"}
    BY <2>1, BoundAssumption
  <2>3. QED
    BY <1>2, <2>2
<1>3. CASE s = "More"
  <2>1. t \in {"comma", "one", "two"}
    BY <1>3 DEF Choices
  <2>2. QED
    BY <1>3, <2>1
<1>4. CASE s = "Target"
  <2>1. t \in {"store", "entry"}
    BY <1>4 DEF Choices
  <2>2. QED
    BY <1>4, <2>1
<1>5. CASE s = "Clauses"
  <2>1. t \in {"elseif", "else", "endif"}
    BY <1>5 DEF Choices
  <2>2. QED
    BY <1>5, <2>1
<1>6. CASE s = "Fields"
  <2>1. t \in {"field", "index", "table)"}
    BY <1>6 DEF Choices
  <2>2. QED
    BY <1>6, <2>1
<1>7. CASE s = "value"
  <2>1. t \in {"value", "method"}
    BY <1>7 DEF Choices
  <2>2. QED
    BY <1>7, <2>1
<1>8. CASE s \notin {"Expr", "Block", "More", "Target", "Clauses", "Fields", "value"}
  <2>1. t = s
    BY <1>8 DEF Choices
  <2>2. s \in {"and2", "and)", "or2", "or)", "bin)", "call)",
   "print)", "put", "local)", "declare", "eval)", "assign)", "set", "then", "endif", "do", "endwhile", "until",
   "endrepeat", "test", "endfor", "item", "endforin", "return)", "end"}
    BY <1>8 DEF Pendable
  <2>3. QED
    BY <2>1, <2>2
<1>9. QED
  BY <1>1, <1>2, <1>3, <1>4, <1>5, <1>6, <1>7, <1>8

\* A program has method calls only if its expressions have.
NoMethods == "method" \notin Expressions

LEMMA NoMethodCall ==
  ASSUME Inv, NoMethods, NEW n
  PROVE  ~Meet("method", n)
<1>1. SUFFICES ASSUME Meet("method", n) PROVE FALSE
  OBVIOUS
<1>2. PICK s \in Pendable : s = Head(todo) /\ "method" \in Choices(s)
  <2>1. "method" \in Token
    BY DEF Token
  <2>2. QED
    BY <1>1, <2>1, Meeting
<1>3. CASE s \in {"Expr", "value"}
  BY <1>2, <1>3 DEF Choices, NoMethods
<1>4. CASE s = "Block"
  BY <1>2, <1>4, BoundAssumption DEF Choices
<1>5. CASE s \in {"More", "Target", "Clauses", "Fields"}
  BY <1>2, <1>5 DEF Choices
<1>6. CASE s \notin {"Expr", "value", "Block", "More", "Target", "Clauses", "Fields"}
  <2>1. s = "method"
    BY <1>2, <1>6 DEF Choices
  <2>2. QED
    BY <2>1 DEF Pendable
<1>7. QED
  BY <1>3, <1>4, <1>5, <1>6

-----------------------------------------------------------------------------
(* What each token leaves to be compiled. *)

LEMMA RestTable ==
  /\ Rest("and") = <<"Expr", "and2">> /\ Rest("and2") = <<"Expr", "and)">> /\ Rest("and)") = <<>>
  /\ Rest("or") = <<"Expr", "or2">> /\ Rest("or2") = <<"Expr", "or)">> /\ Rest("or)") = <<>>
  /\ Rest("value") = <<>> /\ Rest("method") = <<>> /\ Rest("bin") = <<"Expr", "Expr", "bin)">> /\ Rest("bin)") = <<>>
  /\ Rest("call") = <<"Expr", "Expr", "call)">> /\ Rest("call)") = <<>>
  /\ Rest("print") = <<"Expr", "print)">> /\ Rest("print)") = <<>>
  /\ Rest("table") = <<"Fields">> /\ Rest("field") = <<"Expr", "put", "Fields">>
  /\ Rest("index") = <<"Expr", "Expr", "put", "Fields">> /\ Rest("put") = <<>> /\ Rest("table)") = <<>>
  /\ Rest("local") = <<"Expr", "local)">> /\ Rest("local)") = <<>> /\ Rest("declare") = <<>>
  /\ Rest("eval") = <<"Expr", "eval)">> /\ Rest("eval)") = <<>>
  /\ Rest("assign") = <<"value", "More">> /\ Rest("comma") = <<"value", "More">>
  /\ Rest("one") = <<"Target", "assign)">> /\ Rest("two") = <<"Target", "Target", "assign)">>
  /\ Rest("store") = <<>> /\ Rest("entry") = <<"value", "value", "set">> /\ Rest("set") = <<>> /\ Rest("assign)") = <<>>
  /\ Rest("if") = <<"Expr", "then">> /\ Rest("then") = <<"Block", "Clauses">> /\ Rest("elseif") = <<"Expr", "then">>
  /\ Rest("else") = <<"Block", "endif">> /\ Rest("endif") = <<>>
  /\ Rest("while") = <<"Expr", "do">> /\ Rest("do") = <<"Block", "endwhile">> /\ Rest("endwhile") = <<>>
  /\ Rest("repeat") = <<"Block", "until">> /\ Rest("until") = <<"Expr", "endrepeat">> /\ Rest("endrepeat") = <<>>
  /\ Rest("for") = <<"Expr", "declare", "Expr", "declare", "Expr", "test">> /\ Rest("test") = <<"Block", "endfor">>
  /\ Rest("endfor") = <<>> /\ Rest("forin") = <<"Expr", "item">> /\ Rest("item") = <<"Block", "endforin">>
  /\ Rest("endforin") = <<>> /\ Rest("return") = <<"Expr", "return)">> /\ Rest("return)") = <<>> /\ Rest("end") = <<>>
BY DEF Rest

\* What a token that begins no statement and opens no block leaves.
LEMMA Inside ==
  ASSUME NEW t, NEW n, Meet(t, n), Head(todo) # "Block", ~Opens(t)
  PROVE  todo' = Rest(t) \o Tail(todo) /\ bases' = bases /\ edges' = edges
BY DEF Meet

LEMMA Beginning ==
  ASSUME NEW t, NEW n, Meet(t, n), Head(todo) = "Block", ~Opens(t)
  PROVE  todo' = Rest(t) \o todo /\ bases' = bases /\ edges' = edges \cup {[at |-> Len(code), locals |-> active]}
BY DEF Meet

LEMMA Opening ==
  ASSUME NEW t, NEW n, Meet(t, n), Head(todo) # "Block", Opens(t)
  PROVE  todo' = Rest(t) \o Tail(todo) /\ bases' = <<n>> \o bases /\ edges' = edges
BY DEF Meet

-----------------------------------------------------------------------------
(* The bytes of an instruction. *)

LEMMA OpcodeIs ==
  ASSUME NEW op, Size(op) = 1, NEW n, NEW t, t = Len(prog'), NEW l, l = active'
  PROVE  Opcode(op) = Instr(op, n, t, l)
BY DEF Opcode, Instr

LEMMA WithByteIs ==
  ASSUME NEW op, Size(op) = 2, NEW n, NEW t, t = Len(prog'), NEW l, l = active'
  PROVE  WithByte(op, n) = Instr(op, n, t, l)
BY DEF WithByte, Opcode, Instr

LEMMA JumpCode ==
  ASSUME NEW op \in Jumps, NEW n, NEW t, t = Len(prog'), NEW l, l = active'
  PROVE  Jump(op, n) = Instr(op, n, t, l)
<1>1. Size(op) = 3
  BY OpFacts
<1>2. QED
  BY <1>1 DEF Jump, Opcode, Instr

LEMMA PopsAre ==
  ASSUME NEW n, NEW t, t = Len(prog'), NEW l, l = active'
  PROVE  Pops(n) = Row("POP", n, t, l) /\ Nils(n) = Row("LOADNIL", n, t, l)
BY DEF Pops, Nils, Opcode, Row

\* The state after a token that uses no mark.
LEMMA WrotePlain ==
  ASSUME Inv, NEW t \in Token, NEW n, Meet(t, n), UNCHANGED marks, NEW d, Emits(d),
         Drafted(todo', marks, bases', n, d, edges', Items', Len(stack))
  PROVE  Inv'
<1>1. /\ phase = "write" /\ prog' \in Seq(Token) /\ UNCHANGED machine /\ active' = n /\ marks' = marks
  BY Meeting
<1>2. Drafted(todo', marks', bases', active', d, edges', Items', Len(stack))
  BY <1>1
<1>3. QED
  BY <1>1, <1>2, Wrote

LEMMA WroteMark ==
  ASSUME Inv, NEW t \in Token, NEW n, Meet(t, n), NEW mk, marks' = mk, NEW d, Emits(d),
         Drafted(todo', mk, bases', n, d, edges', Items', Len(stack))
  PROVE  Inv'
<1>1. /\ phase = "write" /\ prog' \in Seq(Token) /\ UNCHANGED machine /\ active' = n
  BY Meeting
<1>2. Drafted(todo', marks', bases', active', d, edges', Items', Len(stack))
  BY <1>1
<1>3. QED
  BY <1>1, <1>2, Wrote

-----------------------------------------------------------------------------
(* The tokens, by what they emit. *)

OneTable(s, n, op, r) ==
  \/ s \in {"Expr", "value"} /\ op = "LOAD" /\ r = <<>>
  \/ s = "bin)" /\ op = "BINOP" /\ r = <<>>
  \/ s = "call)" /\ op = "CALL" /\ r = <<>> /\ n = 1
  \/ s = "Expr" /\ op = "NEWTABLE" /\ r = <<"Fields">>
  \/ s = "Fields" /\ op = "DUP" /\ r = <<"Expr", "Expr", "put", "Fields">>
  \/ s = "put" /\ op = "SETTABLE" /\ r = <<>>
  \/ s = "eval)" /\ op = "POP" /\ r = <<>>
  \/ s = "Target" /\ op = "SETGLOBAL" /\ r = <<>>
  \/ s = "return)" /\ op = "RETURN" /\ r = <<>>

NoneTable(s, n, act, r) ==
  \/ s = "Expr" /\ r = <<"Expr", "Expr", "bin)">> /\ n = act
  \/ s = "Expr" /\ r = <<"Expr", "Expr", "call)">> /\ n = act
  \/ s = "Expr" /\ r = <<"Expr", "print)">> /\ n = act
  \/ s = "Fields" /\ r = <<>> /\ n = act
  \/ s = "Target" /\ r = <<"value", "value", "set">> /\ n = act
  \/ s = "assign)" /\ r = <<>> /\ n = act
  \/ s \in {"local)", "declare"} /\ r = <<>> /\ n = act + 1

PairTable(s, n, op, oq, r) ==
  \/ s = "print)" /\ op = "PRINT" /\ n = 1 /\ oq = "LOADNIL" /\ r = <<>>
  \/ s = "Fields" /\ op = "DUP" /\ oq = "LOADCONST" /\ r = <<"Expr", "put", "Fields">>
  \/ s = "set" /\ op = "ROT3" /\ oq = "SETTABLE" /\ r = <<>>

\* A token with one instruction.
LEMMA OneToken ==
  ASSUME Inv, NEW t \in Token, Meet(t, active), ~Opens(t), UNCHANGED marks, Head(todo) # "Block",
         NEW n \in Int, NEW op, NEW r, r = Rest(t), OneTable(Head(todo), n, op, r),
         NEW k, k = Len(prog'), NEW d, d = code \o Instr(op, n, k, active), Emits(d)
  PROVE  Inv'
<1>1. Drafted(todo, marks, bases, active, code, edges, Items', Len(stack)) /\ Len(prog') \in Nat
  BY Meeting
<1>2. todo' = r \o Tail(todo) /\ bases' = bases /\ edges' = edges
  BY Inside
<1>3. PICK s : s = Head(todo)
  OBVIOUS
<1>4. Drafted(r \o Tail(todo), marks, bases, active, d, edges, Items', Len(stack))
  BY <1>1, <1>3, ValueTokens DEF OneTable
<1>5. Drafted(todo', marks, bases', active, d, edges', Items', Len(stack))
  BY <1>2, <1>4
<1>6. QED
  BY <1>5, WrotePlain

LEMMA NoneToken ==
  ASSUME Inv, NEW t \in Token, NEW n, Meet(t, n), ~Opens(t), UNCHANGED marks, Head(todo) # "Block",
         NEW r, r = Rest(t), NoneTable(Head(todo), n, active, r), Emits(code)
  PROVE  Inv'
<1>1. Drafted(todo, marks, bases, active, code, edges, Items', Len(stack))
  BY Meeting
<1>2. todo' = r \o Tail(todo) /\ bases' = bases /\ edges' = edges
  BY Inside
<1>3. PICK s : s = Head(todo)
  OBVIOUS
<1>4. Drafted(r \o Tail(todo), marks, bases, n, code, edges, Items', Len(stack))
  BY <1>1, <1>3, PlainTokens DEF NoneTable
<1>5. Drafted(todo', marks, bases', n, code, edges', Items', Len(stack))
  BY <1>2, <1>4
<1>6. QED
  BY <1>5, WrotePlain

LEMMA PairToken ==
  ASSUME Inv, NEW t \in Token, Meet(t, active), ~Opens(t), UNCHANGED marks, Head(todo) # "Block",
         NEW n \in Int, NEW op, NEW q \in Int, NEW oq, NEW r, r = Rest(t), PairTable(Head(todo), n, op, oq, r),
         NEW k, k = Len(prog'), NEW d, d = (code \o Instr(op, n, k, active)) \o Instr(oq, q, k, active), Emits(d)
  PROVE  Inv'
<1>1. Drafted(todo, marks, bases, active, code, edges, Items', Len(stack)) /\ Len(prog') \in Nat
  BY Meeting
<1>2. todo' = r \o Tail(todo) /\ bases' = bases /\ edges' = edges
  BY Inside
<1>3. PICK s : s = Head(todo)
  OBVIOUS
<1>4. Drafted(r \o Tail(todo), marks, bases, active, d, edges, Items', Len(stack))
  BY <1>1, <1>3, PairTokens DEF PairTable
<1>5. Drafted(todo', marks, bases', active, d, edges', Items', Len(stack))
  BY <1>2, <1>4
<1>6. QED
  BY <1>5, WrotePlain

\* Two instructions put together before they are emitted.
Together(c, op, n, oq, q, t, l) ==
  c \o (Instr(op, n, t, l) \o Instr(oq, q, t, l)) = (c \o Instr(op, n, t, l)) \o Instr(oq, q, t, l)

LEMMA TwoAtOnce ==
  ASSUME NEW c \in Seq(ByteType), NEW op \in Op, NEW n \in Int, NEW oq \in Op, NEW q \in Int, NEW t \in Nat, NEW l \in Nat
  PROVE  Together(c, op, n, oq, q, t, l)
<1>1. Instr(op, n, t, l) \in Seq(ByteType) /\ Instr(oq, q, t, l) \in Seq(ByteType)
  BY InstrIs DEF IsInstr
<1>2. PICK a, b : a = Instr(op, n, t, l) /\ b = Instr(oq, q, t, l)
  OBVIOUS
<1>3. a \in Seq(ByteType) /\ b \in Seq(ByteType) /\ c \in Seq(ByteType)
  BY <1>1, <1>2
<1>4. c \o (a \o b) = (c \o a) \o b
  BY <1>3, ConcatAssociative
<1>5. QED
  BY <1>2, <1>4 DEF Together

-----------------------------------------------------------------------------
(* The simple instructions of each token. *)

LEMMA SimpleTable ==
  /\ Simple("value") = WithByte("LOAD", 0) /\ Simple("bin)") = Opcode("BINOP") /\ Simple("call)") = WithByte("CALL", 1)
  /\ Simple("print)") = WithByte("PRINT", 1) \o Opcode("LOADNIL") /\ Simple("table") = Opcode("NEWTABLE")
  /\ Simple("field") = Opcode("DUP") \o WithByte("LOADCONST", 0) /\ Simple("index") = Opcode("DUP")
  /\ Simple("put") = Opcode("SETTABLE")
  /\ Simple("bin") = <<>> /\ Simple("call") = <<>> /\ Simple("print") = <<>> /\ Simple("table)") = <<>>
BY DEF Simple

LEMMA CodeIs == ASSUME Inv PROVE code \in Seq(ByteType) /\ code \o <<>> = code
<1>1. code \in Seq(ByteType)
  BY DEF Inv, Types
<1>2. QED
  BY <1>1

\* The symbols in these lemmas are symbols of no block.
LEMMA TableHeads ==
  ASSUME NEW s, NEW n, NEW act, NEW op, NEW oq, NEW r, OneTable(s, n, op, r) \/ NoneTable(s, n, act, r) \/ PairTable(s, n, op, oq, r)
  PROVE  s # "Block"
BY DEF OneTable, NoneTable, PairTable

LEMMA ExprOne ==
  ASSUME Inv, NEW t \in {"value", "bin)", "call)", "table", "index", "put"}, Meet(t, active), Emits(code \o Simple(t)), UNCHANGED marks
  PROVE  Inv'
<1>1. Head(todo) \in Pendable /\ t \in Choices(Head(todo)) /\ active' = active /\ t \in Token /\ ~Opens(t)
  <2>1. t \in Token /\ ~Opens(t)
    BY DEF Token, Opens
  <2>2. QED
    BY <2>1, Meeting
<1>2. PICK s, k, n, op, r, e : /\ s = Head(todo) /\ k = Len(prog') /\ n = (IF t = "call)" THEN 1 ELSE 0)
    /\ op = (IF t = "value" THEN "LOAD" ELSE IF t = "bin)" THEN "BINOP" ELSE IF t = "call)" THEN "CALL"
             ELSE IF t = "table" THEN "NEWTABLE" ELSE IF t = "index" THEN "DUP" ELSE "SETTABLE")
    /\ r = Rest(t) /\ e = Simple(t)
  OBVIOUS
<1>3. /\ t = "value" => s \in {"Expr", "value"}
      /\ t = "table" => s = "Expr"
      /\ t = "index" => s = "Fields"
      /\ t \in {"bin)", "call)", "put"} => s = t
  BY <1>1, <1>2, HeadIs
<1>4. OneTable(s, n, op, r)
  <2>1. /\ t \in {"value", "bin)", "call)", "put"} => r = <<>>
        /\ t = "table" => r = <<"Fields">>
        /\ t = "index" => r = <<"Expr", "Expr", "put", "Fields">>
    BY <1>2, RestTable
  <2>2. CASE t = "value"
    <3>1. op = "LOAD" /\ n = 0
      BY <1>2, <2>2
    <3>2. QED
      BY <1>3, <2>1, <2>2, <3>1 DEF OneTable
  <2>3. CASE t = "bin)"
    <3>1. op = "BINOP" /\ n = 0
      BY <1>2, <2>3
    <3>2. QED
      BY <1>3, <2>1, <2>3, <3>1 DEF OneTable
  <2>4. CASE t = "call)"
    <3>1. op = "CALL" /\ n = 1
      BY <1>2, <2>4
    <3>2. QED
      BY <1>3, <2>1, <2>4, <3>1 DEF OneTable
  <2>5. CASE t = "table"
    <3>1. op = "NEWTABLE" /\ n = 0
      BY <1>2, <2>5
    <3>2. QED
      BY <1>3, <2>1, <2>5, <3>1 DEF OneTable
  <2>6. CASE t = "index"
    <3>1. op = "DUP" /\ n = 0
      BY <1>2, <2>6
    <3>2. QED
      BY <1>3, <2>1, <2>6, <3>1 DEF OneTable
  <2>7. CASE t = "put"
    <3>1. op = "SETTABLE" /\ n = 0
      BY <1>2, <2>7
    <3>2. QED
      BY <1>3, <2>1, <2>7, <3>1 DEF OneTable
  <2>8. QED
    BY <2>2, <2>3, <2>4, <2>5, <2>6, <2>7
<1>5. e = Instr(op, n, k, active)
  <2>1. CASE t = "value"
    <3>1. op = "LOAD" /\ n = 0 /\ e = WithByte("LOAD", 0) /\ Size(op) = 2
      BY <1>2, <2>1, SimpleTable, FallTable
    <3>2. QED
      BY <1>1, <1>2, <3>1, WithByteIs
  <2>2. CASE t = "bin)"
    <3>1. op = "BINOP" /\ n = 0 /\ e = Opcode("BINOP") /\ Size(op) = 1
      BY <1>2, <2>2, SimpleTable, FallTable
    <3>2. QED
      BY <1>1, <1>2, <3>1, OpcodeIs
  <2>3. CASE t = "call)"
    <3>1. op = "CALL" /\ n = 1 /\ e = WithByte("CALL", 1) /\ Size(op) = 2
      BY <1>2, <2>3, SimpleTable, FallTable
    <3>2. QED
      BY <1>1, <1>2, <3>1, WithByteIs
  <2>4. CASE t = "table"
    <3>1. op = "NEWTABLE" /\ n = 0 /\ e = Opcode("NEWTABLE") /\ Size(op) = 1
      BY <1>2, <2>4, SimpleTable, FallTable
    <3>2. QED
      BY <1>1, <1>2, <3>1, OpcodeIs
  <2>5. CASE t = "index"
    <3>1. op = "DUP" /\ n = 0 /\ e = Opcode("DUP") /\ Size(op) = 1
      BY <1>2, <2>5, SimpleTable, FallTable
    <3>2. QED
      BY <1>1, <1>2, <3>1, OpcodeIs
  <2>6. CASE t = "put"
    <3>1. op = "SETTABLE" /\ n = 0 /\ e = Opcode("SETTABLE") /\ Size(op) = 1
      BY <1>2, <2>6, SimpleTable, FallTable
    <3>2. QED
      BY <1>1, <1>2, <3>1, OpcodeIs
  <2>7. QED
    BY <2>1, <2>2, <2>3, <2>4, <2>5, <2>6
<1>6. n \in Int
  BY <1>2
<1>7. s # "Block"
  BY <1>4, TableHeads
<1>8. PICK d : d = code \o e
  OBVIOUS
<1>9. Emits(d) /\ d = code \o Instr(op, n, k, active)
  BY <1>2, <1>5, <1>8
<1>10. QED
  BY <1>1, <1>2, <1>4, <1>6, <1>7, <1>9, OneToken

LEMMA ExprNone ==
  ASSUME Inv, NEW t \in {"bin", "call", "print", "table)"}, Meet(t, active), Emits(code \o Simple(t)), UNCHANGED marks
  PROVE  Inv'
<1>1. Head(todo) \in Pendable /\ t \in Choices(Head(todo)) /\ t \in Token /\ ~Opens(t)
  <2>1. t \in Token /\ ~Opens(t)
    BY DEF Token, Opens
  <2>2. QED
    BY <2>1, Meeting
<1>2. PICK s, r : s = Head(todo) /\ r = Rest(t)
  OBVIOUS
<1>3. (t \in {"bin", "call", "print"} => s = "Expr") /\ (t = "table)" => s = "Fields")
  BY <1>1, <1>2, HeadIs
<1>4. NoneTable(s, active, active, r)
  <2>1. /\ t = "bin" => r = <<"Expr", "Expr", "bin)">>
        /\ t = "call" => r = <<"Expr", "Expr", "call)">>
        /\ t = "print" => r = <<"Expr", "print)">>
        /\ t = "table)" => r = <<>>
    BY <1>2, RestTable
  <2>2. QED
    BY <1>3, <2>1 DEF NoneTable
<1>5. Emits(code)
  <2>1. Simple(t) = <<>>
    BY SimpleTable
  <2>2. QED
    BY <2>1, CodeIs
<1>6. s # "Block"
  BY <1>4, TableHeads
<1>7. QED
  BY <1>1, <1>2, <1>4, <1>5, <1>6, NoneToken

LEMMA ExprPair ==
  ASSUME Inv, NEW t \in {"print)", "field"}, Meet(t, active), Emits(code \o Simple(t)), UNCHANGED marks
  PROVE  Inv'
<1>1. /\ Head(todo) \in Pendable /\ t \in Choices(Head(todo)) /\ active' = active /\ active \in Nat /\ Len(prog') \in Nat
      /\ t \in Token /\ ~Opens(t)
  <2>1. t \in Token /\ ~Opens(t)
    BY DEF Token, Opens
  <2>2. QED
    BY <2>1, Meeting
<1>2. PICK s, k, r, op, n, oq, q : /\ s = Head(todo) /\ k = Len(prog') /\ r = Rest(t)
    /\ op = (IF t = "field" THEN "DUP" ELSE "PRINT") /\ n = 1 /\ q = 0
    /\ oq = (IF t = "field" THEN "LOADCONST" ELSE "LOADNIL")
  OBVIOUS
<1>3. (t = "field" => s = "Fields") /\ (t = "print)" => s = "print)")
  BY <1>1, <1>2, HeadIs
<1>4. PairTable(s, n, op, oq, r)
  <2>1. t = "print)" => r = <<>>
    BY <1>2, RestTable
  <2>2. t = "field" => r = <<"Expr", "put", "Fields">>
    BY <1>2, RestTable
  <2>3. QED
    BY <1>2, <1>3, <2>1, <2>2 DEF PairTable
<1>5. Simple(t) = Instr(op, n, k, active) \o Instr(oq, q, k, active)
  <2>1. CASE t = "print)"
    <3>1. op = "PRINT" /\ oq = "LOADNIL" /\ n = 1 /\ Size(op) = 2 /\ Size(oq) = 1
      BY <1>2, <2>1, FallTable
    <3>2. WithByte(op, n) = Instr(op, n, k, active)
      BY <1>1, <1>2, <3>1, WithByteIs
    <3>3. Opcode(oq) = Instr(oq, q, k, active)
      BY <1>1, <1>2, <3>1, OpcodeIs
    <3>4. Simple(t) = WithByte(op, n) \o Opcode(oq)
      BY <2>1, <3>1, SimpleTable
    <3>5. QED
      BY <3>2, <3>3, <3>4
  <2>2. CASE t = "field"
    <3>1. op = "DUP" /\ oq = "LOADCONST" /\ Size(op) = 1 /\ Size(oq) = 2 /\ q = 0
      BY <1>2, <2>2, FallTable
    <3>2. Opcode(op) = Instr(op, n, k, active)
      BY <1>1, <1>2, <3>1, OpcodeIs
    <3>3. WithByte(oq, q) = Instr(oq, q, k, active)
      BY <1>1, <1>2, <3>1, WithByteIs
    <3>4. Simple(t) = Opcode(op) \o WithByte(oq, q)
      BY <2>2, <3>1, SimpleTable
    <3>5. QED
      BY <3>2, <3>3, <3>4
  <2>3. QED
    BY <2>1, <2>2
<1>6. n \in Int /\ q \in Int
  BY <1>2
<1>7. code \o Simple(t) = (code \o Instr(op, n, k, active)) \o Instr(oq, q, k, active)
  <2>1. op \in Op /\ oq \in Op
    BY <1>2 DEF Op
  <2>2. code \in Seq(ByteType)
    BY CodeIs
  <2>3. k \in Nat /\ active \in Nat
    BY <1>1, <1>2
  <2>4. code \o (Instr(op, n, k, active) \o Instr(oq, q, k, active)) = (code \o Instr(op, n, k, active)) \o Instr(oq, q, k, active)
    <3>1. Together(code, op, n, oq, q, k, active)
      BY <1>6, <2>1, <2>2, <2>3, TwoAtOnce
    <3>2. QED
      BY <3>1 DEF Together
  <2>5. QED
    BY <1>5, <2>4
<1>8. PICK d : d = code \o Simple(t)
  OBVIOUS
<1>9. Emits(d) /\ d = (code \o Instr(op, n, k, active)) \o Instr(oq, q, k, active)
  BY <1>7, <1>8
<1>10. s # "Block"
  BY <1>4, TableHeads
<1>11. QED
  BY <1>1, <1>2, <1>4, <1>6, <1>9, <1>10, PairToken

LEMMA ExprKeeps ==
  ASSUME NoMethods
  PROVE  Inv /\ compile_expr => Inv'
<1>1. SUFFICES ASSUME Inv, compile_expr PROVE Inv'
  OBVIOUS
<1>2. PICK t \in {"value", "bin", "bin)", "call", "call)", "print", "print)", "table", "field", "index", "put", "table)"} :
        Meet(t, active) /\ Emits(code \o Simple(t)) /\ UNCHANGED marks
  BY <1>1, NoMethodCall DEF compile_expr
<1>3. \/ t \in {"value", "bin)", "call)", "table", "index", "put"}
      \/ t \in {"bin", "call", "print", "table)"}
      \/ t \in {"print)", "field"}
  OBVIOUS
<1>4. QED
  BY <1>1, <1>2, <1>3, ExprOne, ExprNone, ExprPair

-----------------------------------------------------------------------------
(* What meets a token. *)

LEMMA InsideMark ==
  ASSUME Inv, NEW t \in Token, NEW n, Meet(t, n), Head(todo) # "Block", ~Opens(t), NEW r, r = Rest(t),
         NEW mk, marks' = mk, NEW d, Emits(d), Drafted(r \o Tail(todo), mk, bases, n, d, edges, Items', Len(stack))
  PROVE  Inv'
<1>1. todo' = r \o Tail(todo) /\ bases' = bases /\ edges' = edges
  BY Inside
<1>2. Drafted(todo', mk, bases', n, d, edges', Items', Len(stack))
  BY <1>1
<1>3. QED
  BY <1>2, WroteMark

LEMMA OpeningMark ==
  ASSUME Inv, NEW t \in Token, NEW n, Meet(t, n), Head(todo) # "Block", Opens(t), NEW r, r = Rest(t),
         NEW mk, marks' = mk, NEW d, Emits(d),
         Drafted(r \o Tail(todo), mk, <<n>> \o bases, n, d, edges, Items', Len(stack))
  PROVE  Inv'
<1>1. todo' = r \o Tail(todo) /\ bases' = <<n>> \o bases /\ edges' = edges
  BY Opening
<1>2. Drafted(todo', mk, bases', n, d, edges', Items', Len(stack))
  BY <1>1
<1>3. QED
  BY <1>2, WroteMark

LEMMA BeginningMark ==
  ASSUME Inv, NEW t \in Token, Meet(t, active), Head(todo) = "Block", NEW r, r = Rest(t),
         NEW mk, marks' = mk, Emits(code), ~Opens(t),
         Drafted(r \o todo, mk, bases, active, code, edges \cup {[at |-> Len(code), locals |-> active]}, Items', Len(stack))
  PROVE  Inv'
<1>1. todo' = r \o todo /\ bases' = bases /\ edges' = edges \cup {[at |-> Len(code), locals |-> active]}
  BY Beginning
<1>2. Drafted(todo', mk, bases', active, code, edges', Items', Len(stack))
  BY <1>1
<1>3. PICK c : c = code
  OBVIOUS
<1>4. Emits(c) /\ Drafted(todo', mk, bases', active, c, edges', Items', Len(stack))
  BY <1>2, <1>3
<1>5. QED
  BY <1>4, WroteMark

LEMMA MarkIs ==
  ASSUME NEW n \in Nat
  PROVE  /\ Mark \in MarkType /\ Mark.exit = 0 /\ Mark.ends = {} /\ Mark.start = 0 /\ Mark.count = 0
         /\ [Mark EXCEPT !.count = n] \in MarkType /\ [Mark EXCEPT !.count = n].exit = 0
         /\ [Mark EXCEPT !.count = n].ends = {} /\ [Mark EXCEPT !.count = n].count = n
         /\ [Mark EXCEPT !.start = n] \in MarkType /\ [Mark EXCEPT !.start = n].exit = 0
         /\ [Mark EXCEPT !.start = n].ends = {} /\ [Mark EXCEPT !.start = n].start = n
BY DEF Mark, MarkType

LEMMA OpSizes ==
  /\ Size("DUP") = 1 /\ Size("POP") = 1 /\ Size("COMPARE") = 1 /\ Size("ADD") = 1 /\ Size("GETTABLE") = 1
  /\ Size("LOADNIL") = 1 /\ Size("ROT3") = 1 /\ Size("SETTABLE") = 1 /\ Size("HALT") = 1
  /\ Size("LOAD") = 2 /\ Size("GETLOCAL") = 2 /\ Size("SETLOCAL") = 2 /\ Size("LOADCONST") = 2 /\ Size("SETGLOBAL") = 2
  /\ Size("RETURN") = 2
  /\ "JUMP" \in Jumps /\ "JUMPIFFALSE" \in Jumps
BY DEF Size, Jumps

\* An operator that may leave out its right operand begins.
LEMMA OperatorMet ==
  ASSUME Inv, NEW t \in {"and", "or"}, Meet(t, active), Emits(code), Enter(Mark)
  PROVE  Inv'
<1>1. t \in Token /\ ~Opens(t)
  BY DEF Token, Opens
<1>2. /\ Drafted(todo, marks, bases, active, code, edges, Items', Len(stack))
      /\ Head(todo) \in Pendable /\ t \in Choices(Head(todo))
  BY <1>1, Meeting
<1>3. Head(todo) = "Expr"
  BY <1>2, HeadIs
<1>4. PICK k \in MarkType : k = Mark /\ k.exit = 0 /\ k.ends = {}
  <2>1. 0 \in Nat
    OBVIOUS
  <2>2. QED
    BY <2>1, MarkIs
<1>5. PICK s \in {"and2", "or2"} : Rest(t) = <<"Expr", s>>
  BY RestTable
<1>6. Drafted(<<"Expr", s>> \o Tail(todo), <<k>> \o marks, bases, active, code, edges, Items', Len(stack))
  BY <1>2, <1>3, <1>4, EnterOperator
<1>7. PICK r, mk, c : r = Rest(t) /\ mk = <<k>> \o marks /\ c = code
  OBVIOUS
<1>8. Drafted(r \o Tail(todo), mk, bases, active, c, edges, Items', Len(stack))
  BY <1>5, <1>6, <1>7
<1>9. marks' = mk /\ Emits(c)
  BY <1>4, <1>7 DEF Enter
<1>10. Head(todo) # "Block"
  BY <1>3
<1>11. QED
  BY <1>1, <1>7, <1>8, <1>9, <1>10, InsideMark

\* Its right operand is there.
LEMMA OperatorDone ==
  ASSUME Inv, NEW t \in {"and)", "or)"}, Meet(t, active), Emits(Patched(code, TopMark.exit, Len(code))), Leave
  PROVE  Inv'
<1>1. t \in Token /\ ~Opens(t)
  BY DEF Token, Opens
<1>2. /\ Drafted(todo, marks, bases, active, code, edges, Items', Len(stack))
      /\ Head(todo) \in Pendable /\ t \in Choices(Head(todo))
  BY <1>1, Meeting
<1>3. Head(todo) = t
  BY <1>2, HeadIs
<1>4. PICK r, mk, d : r = Rest(t) /\ mk = Tail(marks) /\ d = Patched(code, Head(marks).exit, Len(code))
  OBVIOUS
<1>5. Drafted(<<>> \o Tail(todo), mk, bases, active, d, edges, Items', Len(stack))
  BY <1>2, <1>3, <1>4, OperatorEnds
<1>6. r = <<>>
  BY <1>4, RestTable
<1>7. Drafted(r \o Tail(todo), mk, bases, active, d, edges, Items', Len(stack))
  BY <1>5, <1>6
<1>8. marks' = mk /\ Emits(d)
  BY <1>4 DEF Leave, TopMark
<1>9. Head(todo) # "Block"
  BY <1>3
<1>10. QED
  BY <1>1, <1>4, <1>7, <1>8, <1>9, InsideMark

LEMMA AndKeeps == Inv /\ BINOP_AND => Inv'
<1>1. SUFFICES ASSUME Inv, BINOP_AND PROVE Inv'
  OBVIOUS
<1>2. CASE Meet("and", active) /\ Emits(code) /\ Enter(Mark)
  BY <1>1, <1>2, OperatorMet
<1>3. CASE Meet("and)", active) /\ Emits(Patched(code, TopMark.exit, Len(code))) /\ Leave
  BY <1>1, <1>3, OperatorDone
<1>4. ASSUME NEW c, c = code \o Opcode("DUP") \o Hole("JUMPIFFALSE"), Meet("and2", active), NEW d, d = c \o Opcode("POP"), Emits(d),
             Update([TopMark EXCEPT !.exit = Len(c) - 2])
      PROVE  Inv'
  <2>1. "and2" \in Token /\ ~Opens("and2")
    BY DEF Token, Opens
  <2>2. /\ Drafted(todo, marks, bases, active, code, edges, Items', Len(stack)) /\ Len(prog') \in Nat /\ active' = active
        /\ Head(todo) \in Pendable /\ "and2" \in Choices(Head(todo))
    BY <1>1, <1>4, <2>1, Meeting
  <2>3. Head(todo) = "and2"
    BY <2>2, HeadIs
  <2>4. PICK k \in Nat : k = Len(prog')
    BY <2>2
  <2>5. Opcode("DUP") = Instr("DUP", 0, k, active) /\ Opcode("POP") = Instr("POP", 0, k, active)
    BY <2>2, <2>4, OpSizes, OpcodeIs
  <2>6. Hole("JUMPIFFALSE") = Instr("JUMPIFFALSE", 0, k, active)
    BY <2>2, <2>4, OpSizes, JumpCode DEF Hole
  <2>7. c = (code \o Instr("DUP", 0, k, active)) \o Instr("JUMPIFFALSE", 0, k, active)
    BY <1>4, <2>5, <2>6
  <2>8. d = And2(code, k, active)
    BY <1>4, <2>5, <2>7 DEF And2
  <2>9. PICK r, mk : r = Rest("and2") /\ mk = <<[Head(marks) EXCEPT !.exit = Len(c) - 2]>> \o Tail(marks)
    OBVIOUS
  <2>10. Drafted(<<"Expr", "and)">> \o Tail(todo), mk, bases, active, d, edges, Items', Len(stack))
    BY <2>2, <2>3, <2>4, <2>7, <2>8, <2>9, AndGoesOn
  <2>11. r = <<"Expr", "and)">>
    BY <2>9, RestTable
  <2>12. Drafted(r \o Tail(todo), mk, bases, active, d, edges, Items', Len(stack))
    BY <2>10, <2>11
  <2>13. marks' = mk
    BY <1>4, <2>9 DEF Update, TopMark
  <2>14. Head(todo) # "Block"
    BY <2>3
  <2>15. QED
    BY <1>1, <1>4, <2>1, <2>9, <2>12, <2>13, <2>14, InsideMark
<1>5. QED
  BY <1>1, <1>2, <1>3, <1>4 DEF BINOP_AND

-----------------------------------------------------------------------------
(* Operators, statements and what ends them. *)

LEMMA OrKeeps == Inv /\ BINOP_OR => Inv'
<1>1. SUFFICES ASSUME Inv, BINOP_OR PROVE Inv'
  OBVIOUS
<1>2. CASE Meet("or", active) /\ Emits(code) /\ Enter(Mark)
  BY <1>1, <1>2, OperatorMet
<1>3. CASE Meet("or)", active) /\ Emits(Patched(code, TopMark.exit, Len(code))) /\ Leave
  BY <1>1, <1>3, OperatorDone
<1>4. ASSUME NEW c, c = code \o Opcode("DUP") \o Hole("JUMPIFFALSE"), NEW d, d = c \o Hole("JUMP"), Meet("or2", active),
             NEW e, e = Patched(d, Len(c) - 2, Len(d)) \o Opcode("POP"), Emits(e), Update([TopMark EXCEPT !.exit = Len(d) - 2])
      PROVE  Inv'
  <2>1. "or2" \in Token /\ ~Opens("or2")
    BY DEF Token, Opens
  <2>2. /\ Drafted(todo, marks, bases, active, code, edges, Items', Len(stack)) /\ Len(prog') \in Nat /\ active' = active
        /\ Head(todo) \in Pendable /\ "or2" \in Choices(Head(todo))
    BY <1>1, <1>4, <2>1, Meeting
  <2>3. Head(todo) = "or2"
    BY <2>2, HeadIs
  <2>4. PICK k \in Nat : k = Len(prog')
    BY <2>2
  <2>5. Opcode("DUP") = Instr("DUP", 0, k, active) /\ Opcode("POP") = Instr("POP", 0, k, active)
    BY <2>2, <2>4, OpSizes, OpcodeIs
  <2>6. Hole("JUMPIFFALSE") = Instr("JUMPIFFALSE", 0, k, active) /\ Hole("JUMP") = Instr("JUMP", 0, k, active)
    BY <2>2, <2>4, OpSizes, JumpCode DEF Hole
  <2>7. c = Or1(code, k, active)
    BY <1>4, <2>5, <2>6 DEF Or1
  <2>8. d = Or2(code, k, active)
    BY <1>4, <2>6, <2>7 DEF Or2
  <2>9. e = Or3(code, k, active)
    BY <1>4, <2>5, <2>7, <2>8 DEF Or3
  <2>10. PICK r, mk : r = Rest("or2") /\ mk = <<[Head(marks) EXCEPT !.exit = Len(d) - 2]>> \o Tail(marks)
    OBVIOUS
  <2>11. Drafted(<<"Expr", "or)">> \o Tail(todo), mk, bases, active, e, edges, Items', Len(stack))
    BY <2>2, <2>3, <2>4, <2>8, <2>9, <2>10, OrGoesOn
  <2>12. r = <<"Expr", "or)">>
    BY <2>10, RestTable
  <2>13. Drafted(r \o Tail(todo), mk, bases, active, e, edges, Items', Len(stack))
    BY <2>11, <2>12
  <2>14. marks' = mk
    BY <1>4, <2>10 DEF Update, TopMark
  <2>15. Head(todo) # "Block"
    BY <2>3
  <2>16. QED
    BY <1>1, <1>4, <2>1, <2>10, <2>13, <2>14, <2>15, InsideMark
<1>5. QED
  BY <1>1, <1>2, <1>3, <1>4 DEF BINOP_OR

LEMMA BlockKeeps == Inv /\ compile_block => Inv'
<1>1. SUFFICES ASSUME Inv, compile_block PROVE Inv'
  OBVIOUS
<1>2. /\ phase = "write" /\ todo # <<>> /\ Head(todo) = "Block"
      /\ todo' = Tail(todo) /\ bases' = Tail(bases) /\ active' = Head(bases)
      /\ edges' = edges \cup {[at |-> Len(code), locals |-> active]} /\ prog' = prog
      /\ Emits(code \o Pops(active - Head(bases))) /\ marks' = marks /\ UNCHANGED machine
  BY <1>1 DEF compile_block
<1>3. prog \in Seq(Token) /\ Drafted(todo, marks, bases, active, code, edges, Items, Len(stack))
  BY <1>1, <1>2 DEF Inv, Types, Written
<1>4. Items' = Items
  BY <1>2 DEF Items
<1>5. PICK k \in Nat : k = Len(prog)
  BY <1>3, LenProperties
<1>6. k = Len(prog')
  BY <1>2, <1>5
<1>7. PICK d : d = code \o Row("POP", active - Head(bases), k, Head(bases))
  OBVIOUS
<1>8. Pops(active - Head(bases)) = Row("POP", active - Head(bases), k, Head(bases))
  BY <1>2, <1>6, PopsAre
<1>9. Emits(d)
  BY <1>2, <1>7, <1>8
<1>10. Drafted(Tail(todo), marks, Tail(bases), Head(bases), d, edges \cup {[at |-> Len(code), locals |-> active]}, Items, Len(stack))
  BY <1>2, <1>3, <1>7, BlockEnds
<1>11. Drafted(todo', marks', bases', active', d, edges', Items', Len(stack))
  BY <1>2, <1>4, <1>10
<1>12. prog' \in Seq(Token)
  BY <1>2, <1>3
<1>13. QED
  BY <1>1, <1>2, <1>9, <1>11, <1>12, Wrote

\* A statement that is a value and what is done with it begins.
LEMMA StatementMet ==
  ASSUME Inv, NEW t \in {"eval", "local", "return"}, Meet(t, active), Emits(code), UNCHANGED marks
  PROVE  Inv'
<1>1. t \in Token /\ ~Opens(t)
  BY DEF Token, Opens
<1>2. /\ Drafted(todo, marks, bases, active, code, edges, Items', Len(stack))
      /\ Head(todo) \in Pendable /\ t \in Choices(Head(todo))
  BY <1>1, Meeting
<1>3. Head(todo) = "Block"
  BY <1>2, HeadIs
<1>4. PICK s \in {"local)", "eval)", "return)"} : Rest(t) = <<"Expr", s>>
  BY RestTable
<1>5. Drafted(<<"Expr", s>> \o todo, marks, bases, active, code, edges \cup {[at |-> Len(code), locals |-> active]}, Items', Len(stack))
  BY <1>2, <1>3, PlainBegins
<1>6. PICK r, mk : r = Rest(t) /\ mk = marks
  OBVIOUS
<1>7. Drafted(r \o todo, mk, bases, active, code, edges \cup {[at |-> Len(code), locals |-> active]}, Items', Len(stack))
  BY <1>4, <1>5, <1>6
<1>8. marks' = mk
  BY <1>6
<1>9. QED
  BY <1>1, <1>3, <1>6, <1>7, <1>8, BeginningMark

LEMMA CallStatementKeeps == Inv /\ STMT_CALL => Inv'
<1>1. SUFFICES ASSUME Inv, STMT_CALL PROVE Inv'
  OBVIOUS
<1>2. CASE Meet("eval", active) /\ Emits(code) /\ UNCHANGED marks
  BY <1>1, <1>2, StatementMet
<1>3. CASE Meet("eval)", active) /\ Emits(code \o Opcode("POP")) /\ UNCHANGED marks
  <2>1. "eval)" \in Token /\ ~Opens("eval)")
    BY DEF Token, Opens
  <2>2. active' = active /\ Head(todo) \in Pendable /\ "eval)" \in Choices(Head(todo))
    BY <1>1, <1>3, <2>1, Meeting
  <2>3. Head(todo) = "eval)"
    BY <2>2, HeadIs
  <2>4. PICK k, n, r : k = Len(prog') /\ n = 0 /\ r = Rest("eval)")
    OBVIOUS
  <2>5. Opcode("POP") = Instr("POP", n, k, active)
    BY <2>2, <2>4, OpSizes, OpcodeIs
  <2>6. PICK d : d = code \o Opcode("POP")
    OBVIOUS
  <2>7. Emits(d) /\ d = code \o Instr("POP", n, k, active)
    BY <1>3, <2>5, <2>6
  <2>8. r = <<>>
    BY <2>4, RestTable
  <2>9. OneTable(Head(todo), n, "POP", r) /\ Head(todo) # "Block"
    BY <2>3, <2>8 DEF OneTable
  <2>10. n \in Int
    BY <2>4
  <2>11. QED
    BY <1>1, <1>3, <2>1, <2>4, <2>7, <2>9, <2>10, OneToken
<1>4. QED
  BY <1>1, <1>2, <1>3 DEF STMT_CALL

LEMMA LocalKeeps == Inv /\ STMT_LOCAL => Inv'
<1>1. SUFFICES ASSUME Inv, STMT_LOCAL PROVE Inv'
  OBVIOUS
<1>2. CASE Meet("local", active) /\ Emits(code) /\ UNCHANGED marks
  BY <1>1, <1>2, StatementMet
<1>3. ASSUME NEW t \in {"local)", "declare"}, Meet(t, active + 1), Emits(code), UNCHANGED marks
      PROVE  Inv'
  <2>1. t \in Token /\ ~Opens(t)
    BY <1>3 DEF Token, Opens
  <2>2. Head(todo) \in Pendable /\ t \in Choices(Head(todo))
    BY <1>1, <1>3, <2>1, Meeting
  <2>3. Head(todo) = t
    BY <1>3, <2>2, HeadIs
  <2>4. PICK r, n : r = Rest(t) /\ n = active + 1
    OBVIOUS
  <2>5. r = <<>>
    BY <1>3, <2>4, RestTable
  <2>6. NoneTable(Head(todo), n, active, r) /\ Head(todo) # "Block"
    BY <1>3, <2>3, <2>4, <2>5 DEF NoneTable
  <2>7. Meet(t, n)
    BY <1>3, <2>4
  <2>8. QED
    BY <1>1, <1>3, <2>1, <2>4, <2>6, <2>7, NoneToken
<1>4. QED
  BY <1>1, <1>2, <1>3 DEF STMT_LOCAL

LEMMA ReturnKeeps == Inv /\ STMT_RETURN => Inv'
<1>1. SUFFICES ASSUME Inv, STMT_RETURN PROVE Inv'
  OBVIOUS
<1>2. UNCHANGED marks
  BY <1>1 DEF STMT_RETURN
<1>3. CASE Meet("return", active) /\ Emits(code)
  BY <1>1, <1>2, <1>3, StatementMet
<1>4. CASE Meet("return)", active) /\ Emits(code \o WithByte("RETURN", 1))
  <2>1. "return)" \in Token /\ ~Opens("return)")
    BY DEF Token, Opens
  <2>2. active' = active /\ Head(todo) \in Pendable /\ "return)" \in Choices(Head(todo))
    BY <1>1, <1>4, <2>1, Meeting
  <2>3. Head(todo) = "return)"
    BY <2>2, HeadIs
  <2>4. PICK k, n, r : k = Len(prog') /\ n = 1 /\ r = Rest("return)")
    OBVIOUS
  <2>5. WithByte("RETURN", n) = Instr("RETURN", n, k, active)
    BY <2>2, <2>4, OpSizes, WithByteIs
  <2>6. PICK d : d = code \o WithByte("RETURN", 1)
    OBVIOUS
  <2>7. Emits(d) /\ d = code \o Instr("RETURN", n, k, active)
    BY <1>4, <2>4, <2>5, <2>6
  <2>8. r = <<>>
    BY <2>4, RestTable
  <2>9. OneTable(Head(todo), n, "RETURN", r) /\ Head(todo) # "Block"
    BY <2>3, <2>8 DEF OneTable
  <2>10. n \in Int
    BY <2>4
  <2>11. QED
    BY <1>1, <1>2, <1>4, <2>1, <2>4, <2>7, <2>9, <2>10, OneToken
<1>5. QED
  BY <1>1, <1>3, <1>4 DEF STMT_RETURN

-----------------------------------------------------------------------------
(* The statements that have a mark. *)

\* A statement with a mark begins.
LEMMA MarkedMet ==
  ASSUME Inv, NEW t \in {"assign", "if", "while", "forin"}, Meet(t, active), Emits(code), NEW k \in MarkType, Enter(k),
         k.exit = 0, k.ends = {}, t = "assign" => k.count = 1, t = "while" => k.start = Len(code), t = "forin" => k.count = active
  PROVE  Inv'
<1>1. t \in Token /\ ~Opens(t)
  BY DEF Token, Opens
<1>2. /\ Drafted(todo, marks, bases, active, code, edges, Items', Len(stack))
      /\ Head(todo) \in Pendable /\ t \in Choices(Head(todo))
  BY <1>1, Meeting
<1>3. Head(todo) = "Block"
  BY <1>2, HeadIs
<1>4. PICK o, s : /\ o = (IF t = "assign" THEN "value" ELSE "Expr")
                  /\ s = (IF t = "assign" THEN "More" ELSE IF t = "if" THEN "then" ELSE IF t = "while" THEN "do" ELSE "item")
  OBVIOUS
<1>5. /\ o \in {"Expr", "value"} /\ s \in {"More", "then", "do", "item"}
      /\ (s = "More" => t = "assign") /\ (s = "do" => t = "while") /\ (s = "item" => t = "forin")
  BY <1>4
<1>6. (s = "More" => k.count = 1) /\ (s = "do" => k.start = Len(code)) /\ (s = "item" => k.count = active)
  BY <1>5
<1>7. Drafted(<<o, s>> \o todo, <<k>> \o marks, bases, active, code, edges \cup {[at |-> Len(code), locals |-> active]}, Items', Len(stack))
  BY <1>2, <1>3, <1>5, <1>6, MarkBegins
<1>8. Rest(t) = <<o, s>>
  BY <1>4, RestTable
<1>9. PICK r, mk : r = Rest(t) /\ mk = <<k>> \o marks
  OBVIOUS
<1>10. Drafted(r \o todo, mk, bases, active, code, edges \cup {[at |-> Len(code), locals |-> active]}, Items', Len(stack))
  BY <1>7, <1>8, <1>9
<1>11. marks' = mk
  BY <1>9 DEF Enter
<1>12. QED
  BY <1>1, <1>3, <1>9, <1>10, <1>11, BeginningMark

\* An expression more.
LEMMA CommaMet ==
  ASSUME Inv, Meet("comma", active), Emits(code), Update([TopMark EXCEPT !.count = @ + 1])
  PROVE  Inv'
<1>1. "comma" \in Token /\ ~Opens("comma")
  BY DEF Token, Opens
<1>2. /\ Drafted(todo, marks, bases, active, code, edges, Items', Len(stack))
      /\ Head(todo) \in Pendable /\ "comma" \in Choices(Head(todo))
  BY <1>1, Meeting
<1>3. Head(todo) = "More"
  BY <1>2, HeadIs
<1>4. PICK r, mk, c : r = Rest("comma") /\ mk = <<[Head(marks) EXCEPT !.count = @ + 1]>> \o Tail(marks) /\ c = code
  OBVIOUS
<1>5. Drafted(<<"value", "More">> \o Tail(todo), mk, bases, active, c, edges, Items', Len(stack))
  BY <1>2, <1>3, <1>4, AnotherExpression
<1>6. r = <<"value", "More">>
  BY <1>4, RestTable
<1>7. Drafted(r \o Tail(todo), mk, bases, active, c, edges, Items', Len(stack))
  BY <1>5, <1>6
<1>8. marks' = mk /\ Emits(c)
  BY <1>4 DEF Update, TopMark
<1>9. Head(todo) # "Block"
  BY <1>3
<1>10. QED
  BY <1>1, <1>4, <1>7, <1>8, <1>9, InsideMark

\* The targets: the values are made as many.
LEMMA TargetsMet ==
  ASSUME Inv, NEW t \in {"one", "two"}, Meet(t, active), NEW n, n = IF t = "one" THEN 1 ELSE 2,
         Emits(code \o Pops(TopMark.count - n) \o Nils(n - TopMark.count)), Leave
  PROVE  Inv'
<1>1. t \in Token /\ ~Opens(t)
  BY DEF Token, Opens
<1>2. /\ Drafted(todo, marks, bases, active, code, edges, Items', Len(stack)) /\ Len(prog') \in Nat /\ active' = active
      /\ Head(todo) \in Pendable /\ t \in Choices(Head(todo)) /\ active \in Nat
  BY <1>1, Meeting
<1>3. Head(todo) = "More"
  BY <1>2, HeadIs
<1>4. PICK k \in Nat : k = Len(prog')
  BY <1>2
<1>5. PICK r, mk, d : /\ r = Rest(t) /\ mk = Tail(marks)
    /\ d = (code \o Row("POP", Head(marks).count - n, k, active)) \o Row("LOADNIL", n - Head(marks).count, k, active)
  OBVIOUS
<1>6. Leads(r, active + n, active, active, active)
  <2>1. CASE t = "one"
    <3>1. r = <<"Target", "assign)">> /\ n = 1
      BY <1>5, <2>1, RestTable
    <3>2. Leads(<<"Target", "assign)">>, active + 1, active, active, active)
      BY <1>2, TargetsLead
    <3>3. QED
      BY <3>1, <3>2
  <2>2. CASE t = "two"
    <3>1. r = <<"Target", "Target", "assign)">> /\ n = 2
      BY <1>5, <2>2, RestTable
    <3>2. Leads(<<"Target", "Target", "assign)">>, active + 2, active, active, active)
      BY <1>2, TargetsLead
    <3>3. QED
      BY <3>1, <3>2
  <2>3. QED
    BY <2>1, <2>2
<1>7. n \in Nat
  OBVIOUS
<1>8. Drafted(r \o Tail(todo), mk, bases, active, d, edges, Items', Len(stack))
  BY <1>2, <1>3, <1>4, <1>5, <1>6, <1>7, Adjusted
<1>9. /\ Pops(TopMark.count - n) = Row("POP", Head(marks).count - n, k, active)
      /\ Nils(n - TopMark.count) = Row("LOADNIL", n - Head(marks).count, k, active)
  BY <1>2, <1>4, PopsAre DEF TopMark
<1>10. Emits(d) /\ marks' = mk
  BY <1>5, <1>9 DEF Leave
<1>11. Head(todo) # "Block"
  BY <1>3
<1>12. QED
  BY <1>1, <1>5, <1>8, <1>10, <1>11, InsideMark

LEMMA StoreMet ==
  ASSUME Inv, Meet("store", active), Emits(code \o WithByte("SETGLOBAL", 0)), UNCHANGED marks
  PROVE  Inv'
<1>1. "store" \in Token /\ ~Opens("store")
  BY DEF Token, Opens
<1>2. active' = active /\ Head(todo) \in Pendable /\ "store" \in Choices(Head(todo))
  BY <1>1, Meeting
<1>3. Head(todo) = "Target"
  BY <1>2, HeadIs
<1>4. PICK k, n, r : k = Len(prog') /\ n = 0 /\ r = Rest("store")
  OBVIOUS
<1>5. WithByte("SETGLOBAL", n) = Instr("SETGLOBAL", n, k, active)
  BY <1>2, <1>4, OpSizes, WithByteIs
<1>6. PICK d : d = code \o WithByte("SETGLOBAL", 0)
  OBVIOUS
<1>7. Emits(d) /\ d = code \o Instr("SETGLOBAL", n, k, active)
  BY <1>4, <1>5, <1>6
<1>8. r = <<>>
  BY <1>4, RestTable
<1>9. OneTable(Head(todo), n, "SETGLOBAL", r) /\ Head(todo) # "Block"
  BY <1>3, <1>8 DEF OneTable
<1>10. n \in Int
  BY <1>4
<1>11. QED
  BY <1>1, <1>4, <1>7, <1>9, <1>10, OneToken

LEMMA TargetMet ==
  ASSUME Inv, NEW t \in {"entry", "assign)"}, Meet(t, active), Emits(code), UNCHANGED marks
  PROVE  Inv'
<1>1. t \in Token /\ ~Opens(t)
  BY DEF Token, Opens
<1>2. Head(todo) \in Pendable /\ t \in Choices(Head(todo))
  BY <1>1, Meeting
<1>3. (t = "entry" => Head(todo) = "Target") /\ (t = "assign)" => Head(todo) = "assign)")
  BY <1>2, HeadIs
<1>4. PICK r : r = Rest(t)
  OBVIOUS
<1>5. (t = "entry" => r = <<"value", "value", "set">>) /\ (t = "assign)" => r = <<>>)
  BY <1>4, RestTable
<1>6. NoneTable(Head(todo), active, active, r) /\ Head(todo) # "Block"
  BY <1>3, <1>5 DEF NoneTable
<1>7. QED
  BY <1>1, <1>4, <1>6, NoneToken

LEMMA SetMet ==
  ASSUME Inv, Meet("set", active), Emits(code \o Opcode("ROT3") \o Opcode("SETTABLE")), UNCHANGED marks
  PROVE  Inv'
<1>1. "set" \in Token /\ ~Opens("set")
  BY DEF Token, Opens
<1>2. active' = active /\ Head(todo) \in Pendable /\ "set" \in Choices(Head(todo))
  BY <1>1, Meeting
<1>3. Head(todo) = "set"
  BY <1>2, HeadIs
<1>4. PICK k, n, r : k = Len(prog') /\ n = 0 /\ r = Rest("set")
  OBVIOUS
<1>5. Opcode("ROT3") = Instr("ROT3", n, k, active) /\ Opcode("SETTABLE") = Instr("SETTABLE", n, k, active)
  BY <1>2, <1>4, OpSizes, OpcodeIs
<1>6. PICK d : d = code \o Opcode("ROT3") \o Opcode("SETTABLE")
  OBVIOUS
<1>7. Emits(d) /\ d = (code \o Instr("ROT3", n, k, active)) \o Instr("SETTABLE", n, k, active)
  BY <1>5, <1>6
<1>8. r = <<>>
  BY <1>4, RestTable
<1>9. PairTable(Head(todo), n, "ROT3", "SETTABLE", r) /\ Head(todo) # "Block"
  BY <1>3, <1>8 DEF PairTable
<1>10. n \in Int
  BY <1>4
<1>11. QED
  BY <1>1, <1>4, <1>7, <1>9, <1>10, PairToken

LEMMA AssignKeeps == Inv /\ STMT_ASSIGN => Inv'
<1>1. SUFFICES ASSUME Inv, STMT_ASSIGN PROVE Inv'
  OBVIOUS
<1>2. CASE Meet("assign", active) /\ Emits(code) /\ Enter([Mark EXCEPT !.count = 1])
  <2>1. PICK k \in MarkType : k = [Mark EXCEPT !.count = 1] /\ k.exit = 0 /\ k.ends = {} /\ k.count = 1
    <3>1. 1 \in Nat
      OBVIOUS
    <3>2. QED
      BY <3>1, MarkIs
  <2>2. Enter(k)
    BY <1>2, <2>1
  <2>3. PICK t \in {"assign", "if", "while", "forin"} : t = "assign"
    OBVIOUS
  <2>4. Meet(t, active) /\ (t = "assign" => k.count = 1) /\ (t = "while" => k.start = Len(code)) /\ (t = "forin" => k.count = active)
    BY <1>2, <2>1, <2>3
  <2>5. QED
    BY <1>1, <1>2, <2>1, <2>2, <2>4, MarkedMet
<1>3. CASE Meet("comma", active) /\ Emits(code) /\ Update([TopMark EXCEPT !.count = @ + 1])
  BY <1>1, <1>3, CommaMet
<1>4. ASSUME NEW t \in {"one", "two"}, NEW n, n = IF t = "one" THEN 1 ELSE 2, Meet(t, active),
             Emits(code \o Pops(TopMark.count - n) \o Nils(n - TopMark.count)), Leave
      PROVE  Inv'
  BY <1>1, <1>4, TargetsMet
<1>5. CASE Meet("store", active) /\ Emits(code \o WithByte("SETGLOBAL", 0)) /\ UNCHANGED marks
  BY <1>1, <1>5, StoreMet
<1>6. CASE Meet("entry", active) /\ Emits(code) /\ UNCHANGED marks
  BY <1>1, <1>6, TargetMet
<1>7. CASE Meet("set", active) /\ Emits(code \o Opcode("ROT3") \o Opcode("SETTABLE")) /\ UNCHANGED marks
  BY <1>1, <1>7, SetMet
<1>8. CASE Meet("assign)", active) /\ Emits(code) /\ UNCHANGED marks
  BY <1>1, <1>8, TargetMet
<1>9. QED
  BY <1>1, <1>2, <1>3, <1>4, <1>5, <1>6, <1>7, <1>8 DEF STMT_ASSIGN

-----------------------------------------------------------------------------
(* Plain marks. *)

\* The statement has a plain mark.
LEMMA PlainMark ==
  \E k \in MarkType : k = Mark /\ k.exit = 0 /\ k.ends = {}
<1>1. 0 \in Nat
  OBVIOUS
<1>2. QED
  BY <1>1, MarkIs

\* The condition of an if or a while is there.
LEMMA ConditionMet ==
  ASSUME Inv, NEW t \in {"then", "do"}, Meet(t, active), Emits(code \o Hole("JUMPIFFALSE")),
         Update([TopMark EXCEPT !.exit = Len(code) + 1])
  PROVE  Inv'
<1>1. t \in Token /\ Opens(t)
  BY DEF Token, Opens
<1>2. /\ Drafted(todo, marks, bases, active, code, edges, Items', Len(stack)) /\ Len(prog') \in Nat /\ active' = active
      /\ Head(todo) \in Pendable /\ t \in Choices(Head(todo))
  BY <1>1, Meeting
<1>3. Head(todo) = t
  BY <1>2, HeadIs
<1>4. PICK k \in Nat : k = Len(prog')
  BY <1>2
<1>5. Hole("JUMPIFFALSE") = Instr("JUMPIFFALSE", 0, k, active)
  BY <1>2, <1>4, OpSizes, JumpCode DEF Hole
<1>6. PICK r, mk, d, s2 : /\ r = Rest(t) /\ mk = <<[Head(marks) EXCEPT !.exit = Len(code) + 1]>> \o Tail(marks)
    /\ d = code \o Instr("JUMPIFFALSE", 0, k, active) /\ s2 = (IF t = "then" THEN "Clauses" ELSE "endwhile")
  OBVIOUS
<1>7. <<t, s2>> \in {<<"then", "Clauses">>, <<"do", "endwhile">>}
  BY <1>6
<1>8. Drafted(<<"Block", s2>> \o Tail(todo), mk, <<active>> \o bases, active, d, edges, Items', Len(stack))
  BY <1>2, <1>3, <1>4, <1>6, <1>7, ConditionTested
<1>9. r = <<"Block", s2>>
  BY <1>6, RestTable
<1>10. Drafted(r \o Tail(todo), mk, <<active>> \o bases, active, d, edges, Items', Len(stack))
  BY <1>8, <1>9
<1>11. Emits(d) /\ marks' = mk
  BY <1>5, <1>6 DEF Update, TopMark
<1>12. Head(todo) # "Block"
  BY <1>3
<1>13. QED
  BY <1>1, <1>6, <1>10, <1>11, <1>12, OpeningMark

\* Another clause of an if.
LEMMA ClauseMet ==
  ASSUME Inv, NEW t \in {"elseif", "else"}, Meet(t, active), NEW c, c = code \o Hole("JUMP"),
         Emits(Patched(c, TopMark.exit, Len(c))), Update([TopMark EXCEPT !.exit = 0, !.ends = @ \cup {Len(code) + 1}])
  PROVE  Inv'
<1>1. t \in Token /\ (Opens(t) <=> t = "else")
  BY DEF Token, Opens
<1>2. /\ Drafted(todo, marks, bases, active, code, edges, Items', Len(stack)) /\ Len(prog') \in Nat /\ active' = active
      /\ Head(todo) \in Pendable /\ t \in Choices(Head(todo))
  BY <1>1, Meeting
<1>3. Head(todo) = "Clauses"
  BY <1>2, HeadIs
<1>4. PICK k \in Nat : k = Len(prog')
  BY <1>2
<1>5. Hole("JUMP") = Instr("JUMP", 0, k, active)
  BY <1>2, <1>4, OpSizes, JumpCode DEF Hole
<1>6. PICK r, mk, d : /\ r = Rest(t) /\ mk = <<ClauseMark(code, Head(marks))>> \o Tail(marks)
    /\ d = ClauseEnds(code, Head(marks), k, active)
  OBVIOUS
<1>7. Emits(d) /\ marks' = mk
  BY <1>5, <1>6 DEF Update, TopMark, ClauseMark, ClauseEnds
<1>8. Head(todo) # "Block"
  BY <1>3
<1>9. CASE t = "elseif"
  <2>1. Drafted(<<"Expr", "then">> \o Tail(todo), mk, bases, active, d, edges, Items', Len(stack))
    BY <1>2, <1>3, <1>4, <1>6, ElseIf
  <2>2. r = <<"Expr", "then">>
    BY <1>6, <1>9, RestTable
  <2>3. Drafted(r \o Tail(todo), mk, bases, active, d, edges, Items', Len(stack))
    BY <2>1, <2>2
  <2>4. ~Opens(t)
    BY <1>1, <1>9
  <2>5. QED
    BY <1>1, <1>6, <1>7, <1>8, <2>3, <2>4, InsideMark
<1>10. CASE t = "else"
  <2>1. Drafted(<<"Block", "endif">> \o Tail(todo), mk, <<active>> \o bases, active, d, edges, Items', Len(stack))
    BY <1>2, <1>3, <1>4, <1>6, Else
  <2>2. r = <<"Block", "endif">>
    BY <1>6, <1>10, RestTable
  <2>3. Drafted(r \o Tail(todo), mk, <<active>> \o bases, active, d, edges, Items', Len(stack))
    BY <2>1, <2>2
  <2>4. Opens(t)
    BY <1>1, <1>10
  <2>5. QED
    BY <1>1, <1>6, <1>7, <1>8, <2>3, <2>4, OpeningMark
<1>11. QED
  BY <1>9, <1>10

\* The end of an if.
LEMMA EndIfMet ==
  ASSUME Inv, Meet("endif", active), Emits(PatchedAll(code, TopMark.ends \cup ({TopMark.exit} \ {0}))), Leave
  PROVE  Inv'
<1>1. "endif" \in Token /\ ~Opens("endif")
  BY DEF Token, Opens
<1>2. /\ Drafted(todo, marks, bases, active, code, edges, Items', Len(stack))
      /\ Head(todo) \in Pendable /\ "endif" \in Choices(Head(todo))
  BY <1>1, Meeting
<1>3. Head(todo) \in {"Clauses", "endif"}
  BY <1>2, HeadIs
<1>4. PICK r, mk, d : /\ r = Rest("endif") /\ mk = Tail(marks)
    /\ d = PatchedAll(code, Head(marks).ends \cup ({Head(marks).exit} \ {0}))
  OBVIOUS
<1>5. Drafted(<<>> \o Tail(todo), mk, bases, active, d, edges, Items', Len(stack))
  BY <1>2, <1>3, <1>4, IfEnds
<1>6. r = <<>>
  BY <1>4, RestTable
<1>7. Drafted(r \o Tail(todo), mk, bases, active, d, edges, Items', Len(stack))
  BY <1>5, <1>6
<1>8. Emits(d) /\ marks' = mk
  BY <1>4 DEF Leave, TopMark
<1>9. Head(todo) # "Block"
  BY <1>3
<1>10. QED
  BY <1>1, <1>4, <1>7, <1>8, <1>9, InsideMark

LEMMA IfKeeps == Inv /\ STMT_IF => Inv'
<1>1. SUFFICES ASSUME Inv, STMT_IF PROVE Inv'
  OBVIOUS
<1>2. CASE Meet("if", active) /\ Emits(code) /\ Enter(Mark)
  <2>1. PICK k \in MarkType : k = Mark /\ k.exit = 0 /\ k.ends = {}
    BY PlainMark
  <2>2. Enter(k)
    BY <1>2, <2>1
  <2>3. PICK t \in {"assign", "if", "while", "forin"} : t = "if"
    OBVIOUS
  <2>4. Meet(t, active) /\ (t = "assign" => k.count = 1) /\ (t = "while" => k.start = Len(code)) /\ (t = "forin" => k.count = active)
    BY <1>2, <2>3
  <2>5. QED
    BY <1>1, <1>2, <2>1, <2>2, <2>4, MarkedMet
<1>3. CASE Meet("then", active) /\ Emits(code \o Hole("JUMPIFFALSE")) /\ Update([TopMark EXCEPT !.exit = Len(code) + 1])
  BY <1>1, <1>3, ConditionMet
<1>4. ASSUME NEW t \in {"elseif", "else"}, Meet(t, active), NEW c, c = code \o Hole("JUMP"), Emits(Patched(c, TopMark.exit, Len(c))),
             Update([TopMark EXCEPT !.exit = 0, !.ends = @ \cup {Len(code) + 1}])
      PROVE  Inv'
  BY <1>1, <1>4, ClauseMet
<1>5. CASE Meet("endif", active) /\ Emits(PatchedAll(code, TopMark.ends \cup ({TopMark.exit} \ {0}))) /\ Leave
  BY <1>1, <1>5, EndIfMet
<1>6. QED
  BY <1>1, <1>2, <1>3, <1>4, <1>5 DEF STMT_IF

\* The start of a loop is remembered.
LEMMA StartMark ==
  ASSUME Inv
  PROVE  \E k \in MarkType : k = [Mark EXCEPT !.start = Len(code)] /\ k.exit = 0 /\ k.ends = {} /\ k.start = Len(code)
<1>1. Len(code) \in Nat
  BY LenProperties DEF Inv, Types
<1>2. QED
  BY <1>1, MarkIs

LEMMA WhileKeeps == Inv /\ STMT_WHILE => Inv'
<1>1. SUFFICES ASSUME Inv, STMT_WHILE PROVE Inv'
  OBVIOUS
<1>2. CASE Meet("while", active) /\ Emits(code) /\ Enter([Mark EXCEPT !.start = Len(code)])
  <2>1. PICK k \in MarkType : k = [Mark EXCEPT !.start = Len(code)] /\ k.exit = 0 /\ k.ends = {} /\ k.start = Len(code)
    BY <1>1, StartMark
  <2>2. Enter(k)
    BY <1>2, <2>1
  <2>3. PICK t \in {"assign", "if", "while", "forin"} : t = "while"
    OBVIOUS
  <2>4. Meet(t, active) /\ (t = "assign" => k.count = 1) /\ (t = "while" => k.start = Len(code)) /\ (t = "forin" => k.count = active)
    BY <1>2, <2>1, <2>3
  <2>5. QED
    BY <1>1, <1>2, <2>1, <2>2, <2>4, MarkedMet
<1>3. CASE Meet("do", active) /\ Emits(code \o Hole("JUMPIFFALSE")) /\ Update([TopMark EXCEPT !.exit = Len(code) + 1])
  BY <1>1, <1>3, ConditionMet
<1>4. ASSUME Meet("endwhile", active), NEW c, c = code \o Jump("JUMP", Offset(Len(code) + 1, TopMark.start)),
             Emits(Patched(c, TopMark.exit, Len(c))), Leave
      PROVE  Inv'
  <2>1. "endwhile" \in Token /\ ~Opens("endwhile")
    BY DEF Token, Opens
  <2>2. /\ Drafted(todo, marks, bases, active, code, edges, Items', Len(stack)) /\ Len(prog') \in Nat /\ active' = active
        /\ Head(todo) \in Pendable /\ "endwhile" \in Choices(Head(todo))
    BY <1>1, <1>4, <2>1, Meeting
  <2>3. Head(todo) = "endwhile"
    BY <2>2, HeadIs
  <2>4. PICK k \in Nat : k = Len(prog')
    BY <2>2
  <2>5. c = LoopBack(code, Head(marks), k, active)
    <3>1. \A n : Jump("JUMP", n) = Instr("JUMP", n, k, active)
      BY <2>2, <2>4, OpSizes, JumpCode
    <3>2. QED
      BY <1>4, <3>1 DEF LoopBack, TopMark
  <2>6. PICK r, mk, d : r = Rest("endwhile") /\ mk = Tail(marks) /\ d = Patched(c, Head(marks).exit, Len(c))
    OBVIOUS
  <2>7. Drafted(<<>> \o Tail(todo), mk, bases, active, d, edges, Items', Len(stack))
    BY <2>2, <2>3, <2>4, <2>5, <2>6, WhileEnds
  <2>8. r = <<>>
    BY <2>6, RestTable
  <2>9. Drafted(r \o Tail(todo), mk, bases, active, d, edges, Items', Len(stack))
    BY <2>7, <2>8
  <2>10. Emits(d) /\ marks' = mk
    BY <1>4, <2>6 DEF Leave, TopMark
  <2>11. Head(todo) # "Block"
    BY <2>3
  <2>12. QED
    BY <1>1, <1>4, <2>1, <2>6, <2>9, <2>10, <2>11, InsideMark
<1>5. QED
  BY <1>1, <1>2, <1>3, <1>4 DEF STMT_WHILE

LEMMA RepeatMet ==
  ASSUME Inv, Meet("repeat", active), Emits(code), Enter([Mark EXCEPT !.start = Len(code)])
  PROVE  Inv'
<1>1. "repeat" \in Token /\ Opens("repeat")
  BY DEF Token, Opens
<1>2. /\ Drafted(todo, marks, bases, active, code, edges, Items', Len(stack))
      /\ Head(todo) \in Pendable /\ "repeat" \in Choices(Head(todo))
  BY <1>1, Meeting
<1>3. Head(todo) = "Block"
  BY <1>2, HeadIs
<1>4. PICK k \in MarkType : k = [Mark EXCEPT !.start = Len(code)] /\ k.exit = 0 /\ k.ends = {} /\ k.start = Len(code)
  BY StartMark
<1>5. PICK mk, c : mk = <<k>> \o marks /\ c = code
  OBVIOUS
<1>6. Drafted(<<"Block", "until">> \o todo, mk, <<active>> \o bases, active, c, edges \cup {[at |-> Len(code), locals |-> active]},
              Items', Len(stack))
  BY <1>2, <1>3, <1>4, <1>5, RepeatBegins
<1>7. Rest("repeat") = <<"Block", "until">>
  BY RestTable
<1>8. todo' = <<"Block", "until">> \o todo /\ bases' = <<active>> \o bases /\ edges' = edges \cup {[at |-> Len(code), locals |-> active]}
  BY <1>1, <1>3, <1>7 DEF Meet
<1>9. Drafted(todo', mk, bases', active, c, edges', Items', Len(stack))
  BY <1>6, <1>8
<1>10. marks' = mk /\ Emits(c)
  BY <1>4, <1>5 DEF Enter
<1>11. QED
  BY <1>1, <1>9, <1>10, WroteMark

LEMMA RepeatKeeps == Inv /\ STMT_REPEAT => Inv'
<1>1. SUFFICES ASSUME Inv, STMT_REPEAT PROVE Inv'
  OBVIOUS
<1>2. CASE Meet("repeat", active) /\ Emits(code) /\ Enter([Mark EXCEPT !.start = Len(code)])
  BY <1>1, <1>2, RepeatMet
<1>3. CASE Meet("until", active) /\ Emits(code) /\ UNCHANGED marks
  <2>1. "until" \in Token /\ ~Opens("until")
    BY DEF Token, Opens
  <2>2. /\ Drafted(todo, marks, bases, active, code, edges, Items', Len(stack))
        /\ Head(todo) \in Pendable /\ "until" \in Choices(Head(todo))
    BY <1>1, <1>3, <2>1, Meeting
  <2>3. Head(todo) = "until"
    BY <2>2, HeadIs
  <2>4. PICK r, mk, c : r = Rest("until") /\ mk = marks /\ c = code
    OBVIOUS
  <2>5. Drafted(<<"Expr", "endrepeat">> \o Tail(todo), mk, bases, active, c, edges, Items', Len(stack))
    BY <2>2, <2>3, <2>4, UntilComes
  <2>6. r = <<"Expr", "endrepeat">>
    BY <2>4, RestTable
  <2>7. Drafted(r \o Tail(todo), mk, bases, active, c, edges, Items', Len(stack))
    BY <2>5, <2>6
  <2>8. Emits(c) /\ marks' = mk
    BY <1>3, <2>4
  <2>9. Head(todo) # "Block"
    BY <2>3
  <2>10. QED
    BY <1>1, <1>3, <2>1, <2>4, <2>7, <2>8, <2>9, InsideMark
<1>4. CASE Meet("endrepeat", active) /\ Emits(code \o Jump("JUMPIFFALSE", Offset(Len(code) + 1, TopMark.start))) /\ Leave
  <2>1. "endrepeat" \in Token /\ ~Opens("endrepeat")
    BY DEF Token, Opens
  <2>2. /\ Drafted(todo, marks, bases, active, code, edges, Items', Len(stack)) /\ Len(prog') \in Nat /\ active' = active
        /\ Head(todo) \in Pendable /\ "endrepeat" \in Choices(Head(todo))
    BY <1>1, <1>4, <2>1, Meeting
  <2>3. Head(todo) = "endrepeat"
    BY <2>2, HeadIs
  <2>4. PICK k \in Nat : k = Len(prog')
    BY <2>2
  <2>5. PICK r, mk, d : /\ r = Rest("endrepeat") /\ mk = Tail(marks)
      /\ d = code \o Instr("JUMPIFFALSE", Offset(Len(code) + 1, Head(marks).start), k, active)
    OBVIOUS
  <2>6. Drafted(<<>> \o Tail(todo), mk, bases, active, d, edges, Items', Len(stack))
    BY <2>2, <2>3, <2>4, <2>5, RepeatEnds
  <2>7. r = <<>>
    BY <2>5, RestTable
  <2>8. Drafted(r \o Tail(todo), mk, bases, active, d, edges, Items', Len(stack))
    BY <2>6, <2>7
  <2>9. Emits(d) /\ marks' = mk
    <3>1. \A n : Jump("JUMPIFFALSE", n) = Instr("JUMPIFFALSE", n, k, active)
      BY <2>2, <2>4, OpSizes, JumpCode
    <3>2. QED
      BY <1>4, <2>5, <3>1 DEF Leave, TopMark
  <2>10. Head(todo) # "Block"
    BY <2>3
  <2>11. QED
    BY <1>1, <1>4, <2>1, <2>5, <2>8, <2>9, <2>10, InsideMark
<1>5. QED
  BY <1>1, <1>2, <1>3, <1>4 DEF STMT_REPEAT

-----------------------------------------------------------------------------
(* The ends of statements. *)

\* The mark on top, where a symbol gives it back.
LEMMA TopTaken ==
  ASSUME NEW td, NEW mk, NEW bs, NEW act, NEW c, NEW ed, NEW Z, NEW l, Drafted(td, mk, bs, act, c, ed, Z, l),
         Head(td) \in {"test", "endfor", "item", "endforin"}
  PROVE  Head(mk) \in MarkType /\ Head(mk).count \in Nat
<1>1. PICK h, MK, BS : Draft(td, mk, bs, act, c, ed, h, MK, BS, Z, l)
  BY DEF Drafted
<1>2. Head(td) \in Closes
  BY DEF Closes
<1>3. Head(mk) \in MarkType
  BY <1>1, <1>2, CloserHead
<1>4. QED
  BY <1>3 DEF MarkType

LEMMA CountMark ==
  ASSUME Inv
  PROVE  \E k \in MarkType : k = [Mark EXCEPT !.count = active] /\ k.exit = 0 /\ k.ends = {} /\ k.count = active
<1>1. active \in Nat
  BY DEF Inv, Types
<1>2. QED
  BY <1>1, MarkIs

LEMMA ForMet ==
  ASSUME Inv, Meet("for", active), Emits(code), Enter([Mark EXCEPT !.count = active])
  PROVE  Inv'
<1>1. "for" \in Token /\ ~Opens("for")
  BY DEF Token, Opens
<1>2. /\ Drafted(todo, marks, bases, active, code, edges, Items', Len(stack))
      /\ Head(todo) \in Pendable /\ "for" \in Choices(Head(todo))
  BY <1>1, Meeting
<1>3. Head(todo) = "Block"
  BY <1>2, HeadIs
<1>4. PICK k \in MarkType : k = [Mark EXCEPT !.count = active] /\ k.exit = 0 /\ k.ends = {} /\ k.count = active
  BY CountMark
<1>5. PICK r, mk : r = Rest("for") /\ mk = <<k>> \o marks
  OBVIOUS
<1>6. Drafted(<<"Expr", "declare", "Expr", "declare", "Expr", "test">> \o todo, mk, bases, active, code,
              edges \cup {[at |-> Len(code), locals |-> active]}, Items', Len(stack))
  BY <1>2, <1>3, <1>4, <1>5, ForBegins
<1>7. r = <<"Expr", "declare", "Expr", "declare", "Expr", "test">>
  BY <1>5, RestTable
<1>8. Drafted(r \o todo, mk, bases, active, code, edges \cup {[at |-> Len(code), locals |-> active]}, Items', Len(stack))
  BY <1>6, <1>7
<1>9. marks' = mk
  BY <1>4, <1>5 DEF Enter
<1>10. QED
  BY <1>1, <1>3, <1>5, <1>8, <1>9, BeginningMark

LEMMA TestMet ==
  ASSUME Inv, Meet("test", active + 1), NEW v, v = TopMark.count,
         NEW c, c = code \o WithByte("GETLOCAL", v) \o WithByte("GETLOCAL", v + 1) \o Opcode("COMPARE") \o Hole("JUMPIFFALSE"),
         Emits(c), Update([TopMark EXCEPT !.start = Len(code), !.exit = Len(c) - 2])
  PROVE  Inv'
<1>1. "test" \in Token /\ Opens("test")
  BY DEF Token, Opens
<1>2. /\ Drafted(todo, marks, bases, active, code, edges, Items', Len(stack)) /\ Len(prog') \in Nat /\ active' = active + 1
      /\ Head(todo) \in Pendable /\ "test" \in Choices(Head(todo))
  BY <1>1, Meeting
<1>3. Head(todo) = "test"
  BY <1>2, HeadIs
<1>4. PICK k \in Nat : k = Len(prog')
  BY <1>2
<1>5. PICK n : n = active + 1
  OBVIOUS
<1>6. c = Test4(code, v, k, n)
  <2>1. \A i : WithByte("GETLOCAL", i) = Instr("GETLOCAL", i, k, n)
    BY <1>2, <1>4, <1>5, OpSizes, WithByteIs
  <2>2. Opcode("COMPARE") = Instr("COMPARE", 0, k, n)
    BY <1>2, <1>4, <1>5, OpSizes, OpcodeIs
  <2>3. Hole("JUMPIFFALSE") = Instr("JUMPIFFALSE", 0, k, n)
    BY <1>2, <1>4, <1>5, OpSizes, JumpCode DEF Hole
  <2>4. QED
    BY <2>1, <2>2, <2>3 DEF Test3, Test4
<1>7. PICK r, mk : r = Rest("test") /\ mk = <<[Head(marks) EXCEPT !.start = Len(code), !.exit = Len(c) - 2]>> \o Tail(marks)
  OBVIOUS
<1>8. Drafted(<<"Block", "endfor">> \o Tail(todo), mk, <<n>> \o bases, n, c, edges, Items', Len(stack))
  <2>1. v = Head(marks).count
    BY DEF TopMark
  <2>2. QED
    BY <1>2, <1>3, <1>4, <1>5, <1>6, <1>7, <2>1, ForTested
<1>9. r = <<"Block", "endfor">>
  BY <1>7, RestTable
<1>10. Drafted(r \o Tail(todo), mk, <<n>> \o bases, n, c, edges, Items', Len(stack))
  BY <1>8, <1>9
<1>11. marks' = mk /\ Meet("test", n)
  BY <1>5, <1>7 DEF Update, TopMark
<1>12. Head(todo) # "Block"
  BY <1>3
<1>13. QED
  BY <1>1, <1>7, <1>10, <1>11, <1>12, OpeningMark

\* The end of a loop with locals.
LEMMA LoopEndMet ==
  ASSUME Inv, NEW t \in {"endfor", "endforin"}, Meet(t, TopMark.count), NEW v, v = TopMark.count,
         NEW op \in {"GETLOCAL", "LOADCONST"}, NEW i \in Nat, NEW j \in Nat, NEW w \in Nat,
         NEW c, c = code \o WithByte("GETLOCAL", i) \o WithByte(op, j) \o Opcode("ADD") \o WithByte("SETLOCAL", w),
         NEW d, d = c \o Jump("JUMP", Offset(Len(c) + 1, TopMark.start)),
         Emits(Patched(d, TopMark.exit, Len(d)) \o Pops(3)), Leave
  PROVE  Inv'
<1>1. t \in Token /\ ~Opens(t)
  BY DEF Token, Opens
<1>2. /\ Drafted(todo, marks, bases, active, code, edges, Items', Len(stack)) /\ Len(prog') \in Nat /\ active' = v
      /\ Head(todo) \in Pendable /\ t \in Choices(Head(todo))
  BY <1>1, Meeting
<1>3. Head(todo) = t
  BY <1>2, HeadIs
<1>4. PICK k \in Nat : k = Len(prog')
  BY <1>2
<1>5. Size(op) = 2
  BY OpSizes
<1>6. c = Step4(code, op, i, j, w, k, v)
  <2>1. \A n : WithByte("GETLOCAL", n) = Instr("GETLOCAL", n, k, v)
    BY <1>2, <1>4, OpSizes, WithByteIs
  <2>2. \A n : WithByte("SETLOCAL", n) = Instr("SETLOCAL", n, k, v)
    BY <1>2, <1>4, OpSizes, WithByteIs
  <2>3. WithByte(op, j) = Instr(op, j, k, v)
    BY <1>2, <1>4, <1>5, WithByteIs
  <2>4. Opcode("ADD") = Instr("ADD", 0, k, v)
    BY <1>2, <1>4, OpSizes, OpcodeIs
  <2>5. QED
    BY <2>1, <2>2, <2>3, <2>4 DEF Step4
<1>7. d = Step5(code, op, i, j, w, Head(marks).start, k, v)
  <2>1. \A n : Jump("JUMP", n) = Instr("JUMP", n, k, v)
    BY <1>2, <1>4, OpSizes, JumpCode
  <2>2. QED
    BY <1>6, <2>1 DEF Step5, TopMark
<1>8. PICK r, mk, e : /\ r = Rest(t) /\ mk = Tail(marks)
                      /\ e = Step6(code, op, i, j, w, Head(marks).start, Head(marks).exit, k, v)
  OBVIOUS
<1>9. Emits(e) /\ marks' = mk
  <2>1. Pops(3) = Row("POP", 3, k, v)
    BY <1>2, <1>4, PopsAre
  <2>2. e = Patched(d, TopMark.exit, Len(d)) \o Pops(3)
    BY <1>7, <1>8, <2>1 DEF Step6, TopMark
  <2>3. QED
    BY <1>8, <2>2 DEF Leave
<1>10. v = Head(marks).count
  BY DEF TopMark
<1>11. Drafted(<<>> \o Tail(todo), mk, bases, v, e, edges, Items', Len(stack))
  BY <1>2, <1>3, <1>4, <1>8, <1>10, ForEnds
<1>12. r = <<>>
  BY <1>8, RestTable
<1>13. Drafted(r \o Tail(todo), mk, bases, v, e, edges, Items', Len(stack))
  BY <1>11, <1>12
<1>14. Head(todo) # "Block" /\ Meet(t, v)
  BY <1>3
<1>15. QED
  BY <1>1, <1>8, <1>9, <1>13, <1>14, InsideMark

\* The first local of the loop, from its mark.
LEMMA FirstLocal ==
  ASSUME Inv, NEW t \in {"test", "endfor", "item", "endforin"}, NEW n, Meet(t, n)
  PROVE  TopMark.count \in Nat
<1>1. t \in Token
  BY DEF Token
<1>2. /\ Drafted(todo, marks, bases, active, code, edges, Items', Len(stack))
      /\ Head(todo) \in Pendable /\ t \in Choices(Head(todo))
  BY <1>1, Meeting
<1>3. Head(todo) = t
  BY <1>2, HeadIs
<1>4. Head(todo) \in {"test", "endfor", "item", "endforin"}
  BY <1>3
<1>5. QED
  BY <1>2, <1>4, TopTaken DEF TopMark

LEMMA ForNumKeeps == Inv /\ STMT_FOR_NUM => Inv'
<1>1. SUFFICES ASSUME Inv, STMT_FOR_NUM PROVE Inv'
  OBVIOUS
<1>2. CASE Meet("for", active) /\ Emits(code) /\ Enter([Mark EXCEPT !.count = active])
  BY <1>1, <1>2, ForMet
<1>3. ASSUME Meet("test", active + 1), NEW v, v = TopMark.count,
             NEW c, c = code \o WithByte("GETLOCAL", v) \o WithByte("GETLOCAL", v + 1) \o Opcode("COMPARE") \o Hole("JUMPIFFALSE"),
             Emits(c), Update([TopMark EXCEPT !.start = Len(code), !.exit = Len(c) - 2])
      PROVE  Inv'
  BY <1>1, <1>3, TestMet
<1>4. ASSUME Meet("endfor", TopMark.count), NEW v, v = TopMark.count,
             NEW c, c = code \o WithByte("GETLOCAL", v) \o WithByte("GETLOCAL", v + 2) \o Opcode("ADD") \o WithByte("SETLOCAL", v),
             NEW d, d = c \o Jump("JUMP", Offset(Len(c) + 1, TopMark.start)),
             Emits(Patched(d, TopMark.exit, Len(d)) \o Pops(3)), Leave
      PROVE  Inv'
  <2>1. PICK t \in {"endfor", "endforin"} : t = "endfor"
    OBVIOUS
  <2>2. PICK op \in {"GETLOCAL", "LOADCONST"} : op = "GETLOCAL"
    OBVIOUS
  <2>3. v \in Nat
    <3>1. PICK q \in {"test", "endfor", "item", "endforin"} : q = "endfor"
      OBVIOUS
    <3>2. Meet(q, TopMark.count)
      BY <1>4, <3>1
    <3>3. QED
      BY <1>1, <1>4, <3>2, FirstLocal
  <2>4. PICK i \in Nat, j \in Nat : i = v /\ j = v + 2
    BY <2>3
  <2>5. /\ Meet(t, TopMark.count)
        /\ c = code \o WithByte("GETLOCAL", i) \o WithByte(op, j) \o Opcode("ADD") \o WithByte("SETLOCAL", i)
    BY <1>4, <2>1, <2>2, <2>4
  <2>6. QED
    BY <1>1, <1>4, <2>5, LoopEndMet
<1>5. QED
  BY <1>1, <1>2, <1>3, <1>4 DEF STMT_FOR_NUM

LEMMA ItemMet ==
  ASSUME Inv, Meet("item", active + 3), NEW v, v = TopMark.count,
         NEW c, c = code \o WithByte("LOADCONST", 0) \o Opcode("LOADNIL"),
         NEW d, d = c \o WithByte("GETLOCAL", v) \o WithByte("GETLOCAL", v + 1) \o Opcode("GETTABLE") \o Opcode("DUP")
                      \o Hole("JUMPIFFALSE"),
         NEW e, e = d \o WithByte("SETLOCAL", v + 2), Emits(e), Update([TopMark EXCEPT !.start = Len(c), !.exit = Len(d) - 2])
  PROVE  Inv'
<1>1. "item" \in Token /\ Opens("item")
  BY DEF Token, Opens
<1>2. /\ Drafted(todo, marks, bases, active, code, edges, Items', Len(stack)) /\ Len(prog') \in Nat /\ active' = active + 3
      /\ Head(todo) \in Pendable /\ "item" \in Choices(Head(todo)) /\ Len(prog') \in Items'
  BY <1>1, Meeting
<1>3. Head(todo) = "item"
  BY <1>2, HeadIs
<1>4. PICK k \in Nat : k = Len(prog') /\ k \in Items'
  BY <1>2
<1>5. PICK n : n = active + 3
  OBVIOUS
<1>6. PICK q : q = 0
  OBVIOUS
<1>7. /\ \A i : WithByte("GETLOCAL", i) = Instr("GETLOCAL", i, k, n)
      /\ \A i : WithByte("SETLOCAL", i) = Instr("SETLOCAL", i, k, n)
      /\ \A i : WithByte("LOADCONST", i) = Instr("LOADCONST", i, k, n)
  BY <1>2, <1>4, <1>5, OpSizes, WithByteIs
<1>8. /\ Opcode("LOADNIL") = Instr("LOADNIL", 0, k, n) /\ Opcode("GETTABLE") = Instr("GETTABLE", 0, k, n)
      /\ Opcode("DUP") = Instr("DUP", 0, k, n)
  BY <1>2, <1>4, <1>5, OpSizes, OpcodeIs
<1>9. Hole("JUMPIFFALSE") = Instr("JUMPIFFALSE", 0, k, n)
  BY <1>2, <1>4, <1>5, OpSizes, JumpCode DEF Hole
<1>10. c = Item0(code, k, n)
  BY <1>7, <1>8 DEF Item0
<1>11. d = Item5(code, v, k, n)
  BY <1>7, <1>8, <1>9, <1>10 DEF Item4, Item5
<1>12. e = Item6(code, v, k, n)
  BY <1>7, <1>11 DEF Item6
<1>13. PICK r, mk : r = Rest("item") /\ mk = <<[Head(marks) EXCEPT !.start = Len(c), !.exit = Len(d) - 2]>> \o Tail(marks)
  OBVIOUS
<1>14. Drafted(<<"Block", "endforin">> \o Tail(todo), mk, <<n>> \o bases, n, e, edges, Items', Len(stack))
  <2>1. v = Head(marks).count
    BY DEF TopMark
  <2>2. QED
    BY <1>2, <1>3, <1>4, <1>5, <1>10, <1>11, <1>12, <1>13, <2>1, ItemComes
<1>15. r = <<"Block", "endforin">>
  BY <1>13, RestTable
<1>16. Drafted(r \o Tail(todo), mk, <<n>> \o bases, n, e, edges, Items', Len(stack))
  BY <1>14, <1>15
<1>17. marks' = mk /\ Meet("item", n)
  BY <1>5, <1>13 DEF Update, TopMark
<1>18. Head(todo) # "Block"
  BY <1>3
<1>19. QED
  BY <1>1, <1>13, <1>16, <1>17, <1>18, OpeningMark

LEMMA ForInKeeps == Inv /\ STMT_FOR_IN => Inv'
<1>1. SUFFICES ASSUME Inv, STMT_FOR_IN PROVE Inv'
  OBVIOUS
<1>2. CASE Meet("forin", active) /\ Emits(code) /\ Enter([Mark EXCEPT !.count = active])
  <2>1. PICK k \in MarkType : k = [Mark EXCEPT !.count = active] /\ k.exit = 0 /\ k.ends = {} /\ k.count = active
    BY <1>1, CountMark
  <2>2. Enter(k)
    BY <1>2, <2>1
  <2>3. PICK t \in {"assign", "if", "while", "forin"} : t = "forin"
    OBVIOUS
  <2>4. Meet(t, active) /\ (t = "assign" => k.count = 1) /\ (t = "while" => k.start = Len(code)) /\ (t = "forin" => k.count = active)
    BY <1>2, <2>1, <2>3
  <2>5. QED
    BY <1>1, <1>2, <2>1, <2>2, <2>4, MarkedMet
<1>3. ASSUME Meet("item", active + 3), NEW v, v = TopMark.count,
             NEW c, c = code \o WithByte("LOADCONST", 0) \o Opcode("LOADNIL"),
             NEW d, d = c \o WithByte("GETLOCAL", v) \o WithByte("GETLOCAL", v + 1) \o Opcode("GETTABLE") \o Opcode("DUP")
                          \o Hole("JUMPIFFALSE"),
             Emits(d \o WithByte("SETLOCAL", v + 2)), Update([TopMark EXCEPT !.start = Len(c), !.exit = Len(d) - 2])
      PROVE  Inv'
  BY <1>1, <1>3, ItemMet
<1>4. ASSUME Meet("endforin", TopMark.count), NEW v, v = TopMark.count,
             NEW c, c = code \o WithByte("GETLOCAL", v + 1) \o WithByte("LOADCONST", 0) \o Opcode("ADD") \o WithByte("SETLOCAL", v + 1),
             NEW d, d = c \o Jump("JUMP", Offset(Len(c) + 1, TopMark.start)),
             Emits(Patched(d, TopMark.exit, Len(d)) \o Pops(3)), Leave
      PROVE  Inv'
  <2>1. PICK t \in {"endfor", "endforin"} : t = "endforin"
    OBVIOUS
  <2>2. PICK op \in {"GETLOCAL", "LOADCONST"} : op = "LOADCONST"
    OBVIOUS
  <2>3. v \in Nat
    <3>1. PICK q \in {"test", "endfor", "item", "endforin"} : q = "endforin"
      OBVIOUS
    <3>2. Meet(q, TopMark.count)
      BY <1>4, <3>1
    <3>3. QED
      BY <1>1, <1>4, <3>2, FirstLocal
  <2>4. PICK i \in Nat, j \in Nat : i = v + 1 /\ j = 0
    BY <2>3
  <2>5. /\ Meet(t, TopMark.count)
        /\ c = code \o WithByte("GETLOCAL", i) \o WithByte(op, j) \o Opcode("ADD") \o WithByte("SETLOCAL", i)
    BY <1>4, <2>1, <2>2, <2>4
  <2>6. QED
    BY <1>1, <1>4, <2>5, LoopEndMet
<1>5. QED
  BY <1>1, <1>2, <1>3, <1>4 DEF STMT_FOR_IN

-----------------------------------------------------------------------------
(* Jumps that are patched, and the first bytes. *)

LEMMA PointIs ==
  ASSUME NEW d, NEW h, NEW l, Begun(d, h, 0, l), Len(d) \in Nat, Len(d) > 0
  PROVE  d[0 + 1].op # "operand" /\ h[0] = l
BY DEF Begun, Point

\* The code is finished, and the machine starts.
LEMMA CompileEnds ==
  ASSUME Inv, Meet("end", active), UNCHANGED marks, NEW c, NEW l, l = active,
         c = code \o (IF l = 0 THEN Opcode("HALT") ELSE Opcode("LOADNIL") \o WithByte("RETURN", 0)), EmitsFor(c, "run")
  PROVE  Inv'
<1>1. "end" \in Token /\ ~Opens("end")
  BY DEF Token, Opens
<1>2. /\ Drafted(todo, marks, bases, active, code, edges, Items', Len(stack)) /\ Len(prog') \in Nat /\ active' = active
      /\ Head(todo) \in Pendable /\ "end" \in Choices(Head(todo)) /\ prog' \in Seq(Token) /\ UNCHANGED machine
      /\ phase = "write" /\ todo \in Seq(Pendable) /\ todo # <<>>
  BY <1>1, Meeting
<1>3. Head(todo) = "end"
  BY <1>2, HeadIs
<1>4. PICK k \in Nat : k = Len(prog')
  BY <1>2
<1>5. /\ Opcode("HALT") = Instr("HALT", 0, k, l) /\ Opcode("LOADNIL") = Instr("LOADNIL", 0, k, l)
      /\ WithByte("RETURN", 0) = Instr("RETURN", 0, k, l)
  BY <1>2, <1>4, OpSizes, OpcodeIs, WithByteIs
<1>6. c = code \o EndCode(k, l)
  BY <1>5 DEF EndCode
<1>7. PICK h : Finished(c, h, edges, Items', Len(stack))
  BY <1>2, <1>3, <1>4, <1>6, Ended
<1>8. /\ c \in Seq(ByteType) /\ h \in Heights /\ Len(c) \in Nat /\ Len(c) > 0 /\ Flows(c, h, {}, Items', Len(c) - 1)
      /\ Begun(c, h, 0, Len(stack)) /\ \A e \in edges : e \in [at : Nat, locals : Nat] /\ h[e.at] = e.locals
  BY <1>7 DEF Finished
<1>9. ip' = ip /\ stack' = stack /\ last' = last
  BY <1>2 DEF machine
<1>10. Head(todo) # "Block"
  BY <1>3
<1>11. todo' = Rest("end") \o Tail(todo) /\ bases' = bases /\ edges' = edges
  BY <1>1, <1>10, Inside
<1>12. todo' \in Seq(Symbol)
  <2>1. Rest("end") = <<>>
    BY RestTable
  <2>2. Tail(todo) \in Seq(Pendable)
    BY <1>2, TailIs
  <2>3. PICK w : w = Tail(todo)
    OBVIOUS
  <2>4. w \in Seq(Symbol)
    BY <2>2, <2>3, SymbolsOf
  <2>5. todo' = <<>> \o w
    BY <1>11, <2>1, <2>3
  <2>6. QED
    BY <2>4, <2>5
<1>13. /\ code' \in Seq(ByteType) /\ phase' \in {"run", "failed"} /\ (phase' = "run" => code' = c)
  <2>1. CASE Len(c) <= MAX_CODE_SIZE
    BY <1>8, <2>1 DEF EmitsFor
  <2>2. CASE ~(Len(c) <= MAX_CODE_SIZE)
    <3>1. code' = SubSeq(c, 1, MAX_CODE_SIZE) /\ phase' = "failed"
      BY <2>2 DEF EmitsFor
    <3>2. MAX_CODE_SIZE \in Nat
      BY BoundAssumption
    <3>3. MAX_CODE_SIZE <= Len(c)
      BY <1>8, <2>2, <3>2
    <3>4. SubSeq(c, 1, MAX_CODE_SIZE) \in Seq(ByteType)
      BY <1>8, <3>2, <3>3, SubSeqProperties
    <3>5. QED
      BY <3>1, <3>4
  <2>3. QED
    BY <2>1, <2>2
<1>14. Types /\ ip = 0
  BY <1>2 DEF Inv, Written
<1>15. Types'
  BY <1>2, <1>9, <1>11, <1>12, <1>13, <1>14 DEF Types
<1>16. phase' = "run" => Runs(h)'
  <2>1. SUFFICES ASSUME phase' = "run" PROVE Runs(h)'
    OBVIOUS
  <2>2. code' = c /\ ip' = 0 /\ Len(stack') = Len(stack)
    BY <1>9, <1>13, <1>14, <2>1
  <2>3. c[0 + 1].op # "operand" /\ h[0] = Len(stack)
    BY <1>8, PointIs
  <2>4. h \in Heights /\ Flows(code', h, {}, Items', Len(code') - 1) /\ \A e \in edges' : h[e.at] = e.locals
    BY <1>8, <1>11, <2>2
  <2>5. ip' < Len(code') /\ code'[ip' + 1].op # "operand" /\ Len(stack') = h[ip']
    BY <1>8, <2>2, <2>3
  <2>6. QED
    BY <2>4, <2>5 DEF Runs
<1>17. QED
  BY <1>13, <1>15, <1>16 DEF Inv, Written

LEMMA EndKeeps == Inv /\ compiler_compile => Inv'
<1>1. SUFFICES ASSUME Inv, compiler_compile PROVE Inv'
  OBVIOUS
<1>2. PICK c, l : /\ l = active
                  /\ c = code \o (IF l = 0 THEN Opcode("HALT") ELSE Opcode("LOADNIL") \o WithByte("RETURN", 0))
  OBVIOUS
<1>3. Meet("end", active) /\ UNCHANGED marks /\ EmitsFor(c, "run")
  BY <1>1, <1>2 DEF compiler_compile
<1>4. QED
  BY <1>1, <1>2, <1>3, CompileEnds

LEMMA CompileKeeps ==
  ASSUME NoMethods
  PROVE  Inv /\ Compile => Inv'
BY ExprKeeps, AndKeeps, OrKeeps, BlockKeeps, CallStatementKeeps, LocalKeeps, AssignKeeps, IfKeeps, WhileKeeps, RepeatKeeps,
   ForNumKeeps, ForInKeeps, ReturnKeeps, EndKeeps DEF Compile

LEMMA StutterKeeps == Inv /\ UNCHANGED vars => Inv'
<1>1. SUFFICES ASSUME Inv, UNCHANGED vars PROVE Inv'
  OBVIOUS
<1>2. /\ phase' = phase /\ prog' = prog /\ todo' = todo /\ marks' = marks /\ bases' = bases /\ active' = active /\ code' = code
      /\ edges' = edges /\ ip' = ip /\ stack' = stack /\ last' = last
  BY <1>1 DEF vars
<1>3. Items' = Items
  BY <1>2 DEF Items
<1>4. QED
  BY <1>1, <1>2, <1>3 DEF Inv, Types, Written, Runs, Quiet

-----------------------------------------------------------------------------
(* The start. *)

LEMMA NoCodeYet ==
  ASSUME NEW h \in Heights, NEW Z, NEW H, NEW c, c = <<>>
  PROVE  c \in Seq(ByteType) /\ Len(c) = 0 /\ Flows(c, h, H, Z, Len(c)) /\ Point(c, 0, Len(c))
<1>1. c \in Seq(ByteType) /\ Len(c) = 0
  OBVIOUS
<1>2. Flows(c, h, H, Z, Len(c))
  BY <1>1 DEF Flows
<1>3. QED
  BY <1>1, <1>2 DEF Point

LEMMA EndPlan ==
  ASSUME NEW n \in Nat, NEW MK, NEW BS, NEW c, NEW h, NEW Z, NEW v, v = At4(n, n, 0, 0)
  PROVE  Plan(<<"end">>, v, MK, BS, c, h, Z)
<1>1. v \in View /\ v.h = n /\ v.a = n /\ v.m = 0 /\ v.b = 0
  BY ViewIs
<1>2. PICK td : td = <<"end">>
  OBVIOUS
<1>3. td \in Seq(Pendable) /\ Len(td) = 1 /\ td[1] = "end"
  <2>1. "end" \in Pendable
    BY DEF Pendable
  <2>2. QED
    BY <1>2, <2>1
<1>4. PICK P \in [Nat -> View] : P = [i \in Nat |-> v]
  BY <1>1
<1>5. P[1] = v /\ P[0] = v
  BY <1>4
<1>6. "end" \notin Closes /\ Temps("end") = 0
  BY DEF Closes, Temps
<1>7. \A w, k, base : Fits("end", v, w, k, base, c, h, Z)
  BY <1>1, <1>6 DEF Fits
<1>8. Views(td, P, MK, BS, c, h, Z)
  <2>1. ASSUME NEW j \in 1 .. Len(td)
        PROVE  Fits(td[Len(td) + 1 - j], P[j], P[j - 1], MK[P[j].m], BS[P[j].b], c, h, Z)
    <3>1. j = 1 /\ Len(td) + 1 - j = 1
      BY <1>3
    <3>2. QED
      BY <1>3, <1>5, <1>7, <3>1
  <2>2. ASSUME NEW i \in 1 .. Len(td), NEW j \in 1 .. Len(td), i <= j
        PROVE  P[i].m <= P[j].m /\ P[i].b <= P[j].b
    <3>1. i = 1 /\ j = 1
      BY <1>3
    <3>2. QED
      BY <1>1, <1>5, <3>1
  <2>3. QED
    BY <2>1, <2>2 DEF Views
<1>9. QED
  BY <1>2, <1>3, <1>4, <1>5, <1>8 DEF Plan

LEMMA StartPlan ==
  ASSUME NEW n \in Nat, NEW MK, NEW BS, BS[1] = n, NEW c, NEW h, NEW Z
  PROVE  Plan(<<"Block", "end">>, At4(n, n, 0, 1), MK, BS, c, h, Z)
<1>1. PICK m \in Nat, b \in Nat : m = 0 /\ b = 1
  OBVIOUS
<1>2. b >= 1 /\ BS[b] = n /\ b - 1 = 0
  BY <1>1
<1>3. PICK v : v = At4(n, n, 0, 0)
  OBVIOUS
<1>4. Plan(<<"end">>, v, MK, BS, c, h, Z)
  BY <1>3, EndPlan
<1>5. v = At4(n, n, m, b - 1)
  BY <1>1, <1>2, <1>3
<1>6. PICK td : td = <<"end">>
  OBVIOUS
<1>7. Plan(td, At4(n, n, m, b - 1), MK, BS, c, h, Z)
  BY <1>4, <1>5, <1>6
<1>8. Plan(<<"Block">> \o td, At4(n, n, m, b), MK, BS, c, h, Z)
  BY <1>2, <1>7, PushBlock
<1>9. <<"Block">> \o td = <<"Block", "end">>
  BY <1>6, Pairs
<1>10. QED
  BY <1>1, <1>8, <1>9

LEMMA StartDrafted ==
  ASSUME NEW n \in Nat, NEW Z, NEW td, td = <<"Block", "end">>, NEW mk, mk = <<>>, NEW bs, bs = <<n>>, NEW c, c = <<>>,
         NEW ed, ed = {}
  PROVE  Drafted(td, mk, bs, n, c, ed, Z, n)
<1>1. PICK h \in Heights : h = [i \in Nat |-> n]
  <2>1. n \in Int
    OBVIOUS
  <2>2. [i \in Nat |-> n] \in Heights
    BY <2>1 DEF Heights
  <2>3. QED
    BY <2>2
<1>2. Mark \in MarkType
  <2>1. 0 \in Nat
    OBVIOUS
  <2>2. QED
    BY <2>1, MarkIs
<1>3. PICK MK \in [Nat -> MarkType] : MK = [i \in Nat |-> Mark]
  BY <1>2
<1>4. PICK BS \in [Nat -> Nat] : BS = [i \in Nat |-> n]
  OBVIOUS
<1>5. BS[1] = n /\ h[0] = n
  BY <1>1, <1>4
<1>6. mk \in Seq(MarkType) /\ Len(mk) = 0
  OBVIOUS
<1>7. bs \in Seq(Nat) /\ Len(bs) = 1 /\ bs[1] = n
  OBVIOUS
<1>8. Stacked(mk, MK)
  BY <1>6 DEF Stacked
<1>9. Stacked(bs, BS)
  <2>1. ASSUME NEW k \in 1 .. Len(bs) PROVE bs[Len(bs) + 1 - k] = BS[k]
    <3>1. k = 1 /\ Len(bs) + 1 - k = 1
      BY <1>7
    <3>2. QED
      BY <1>5, <1>7, <3>1
  <2>2. QED
    BY <2>1 DEF Stacked
<1>10. PICK H : H = Open(MK, Len(mk))
  OBVIOUS
<1>11. c \in Seq(ByteType) /\ Len(c) = 0 /\ Flows(c, h, H, Z, Len(c)) /\ Point(c, 0, Len(c))
  BY NoCodeYet
<1>12. Begun(c, h, 0, n)
  BY <1>5, <1>11 DEF Begun
<1>13. Plan(<<"Block", "end">>, At4(n, n, 0, 1), MK, BS, c, h, Z)
  BY <1>5, StartPlan
<1>14. Plan(td, At4(h[Len(c)], n, Len(mk), Len(bs)), MK, BS, c, h, Z)
  BY <1>5, <1>6, <1>7, <1>11, <1>13
<1>15. Draft(td, mk, bs, n, c, ed, h, MK, BS, Z, n)
  <2>1. /\ c \in Seq(ByteType) /\ h \in Heights /\ n \in Nat
        /\ mk \in Seq(MarkType) /\ MK \in [Nat -> MarkType] /\ Stacked(mk, MK)
        /\ bs \in Seq(Nat) /\ BS \in [Nat -> Nat] /\ Stacked(bs, BS)
    BY <1>6, <1>7, <1>8, <1>9, <1>11
  <2>2. Flows(c, h, Open(MK, Len(mk)), Z, Len(c))
    BY <1>10, <1>11
  <2>3. \A e \in ed : e \in [at : Nat, locals : Nat] /\ e.at <= Len(c) /\ h[e.at] = e.locals
    OBVIOUS
  <2>4. QED
    BY <1>12, <1>14, <2>1, <2>2, <2>3 DEF Draft
<1>16. QED
  BY <1>15 DEF Drafted

LEMMA StartStack ==
  ASSUME NEW n \in Nat, NEW s, s = [i \in 1 .. n |-> Value(TRUE, 0)]
  PROVE  s \in Seq(ValueType) /\ Len(s) = n
<1>1. Value(TRUE, 0) \in ValueType
  <2>1. TRUE \in BOOLEAN /\ 0 \in Nat
    OBVIOUS
  <2>2. QED
    BY <2>1, ValueIs
<1>2. s \in [1 .. n -> ValueType]
  BY <1>1
<1>3. s \in Seq(ValueType)
  BY <1>2, SeqDef
<1>4. Len(s) = n
  BY <1>2, <1>3, LenProperties
<1>5. QED
  BY <1>3, <1>4

LEMMA StartTrue == Init => Inv
<1>1. SUFFICES ASSUME Init PROVE Inv
  OBVIOUS
<1>2. /\ phase = "write" /\ prog = <<>> /\ todo = <<"Block", "end">> /\ marks = <<>> /\ code = <<>> /\ edges = {} /\ ip = 0
      /\ last = [tok |-> 0, val |-> TRUE, uses |-> <<>>]
  BY <1>1 DEF Init
<1>3. PICK n \in Nat : bases = <<n>> /\ active = n /\ stack = [i \in 1 .. n |-> Value(TRUE, 0)]
  <2>1. InitialLocals \subseteq Nat
    BY BoundAssumption
  <2>2. QED
    BY <1>1, <2>1 DEF Init
<1>4. stack \in Seq(ValueType) /\ Len(stack) = n
  BY <1>3, StartStack
<1>5. Drafted(todo, marks, bases, n, code, edges, Items, n)
  BY <1>2, <1>3, StartDrafted
<1>6. Drafted(todo, marks, bases, active, code, edges, Items, Len(stack))
  BY <1>3, <1>4, <1>5
<1>7. /\ todo \in Seq(Pendable) /\ marks \in Seq(MarkType) /\ bases \in Seq(Nat) /\ active \in Nat
      /\ code \in Seq(ByteType) /\ edges \subseteq EdgeType
  BY <1>6, DraftedIs
<1>8. todo \in Seq(Symbol)
  BY <1>7, SymbolsOf
<1>9. prog \in Seq(Token) /\ last \in LastType
  BY <1>2 DEF LastType
<1>10. Types
  BY <1>2, <1>4, <1>7, <1>8, <1>9 DEF Types
<1>11. QED
  BY <1>2, <1>6, <1>10 DEF Inv, Written

-----------------------------------------------------------------------------
(* The theorems. *)

LEMMA Invariance ==
  ASSUME NoMethods
  PROVE  Spec => []Inv
<1>1. Inv /\ [Next]_vars => Inv'
  BY CompileKeeps, RunKeeps, StutterKeeps DEF Next
<1>2. QED
  BY StartTrue, <1>1, PTL DEF Spec

LEMMA InvTyped == Inv => TypeOK
<1>1. SUFFICES ASSUME Inv PROVE TypeOK
  OBVIOUS
<1>2. Types
  BY <1>1 DEF Inv
<1>3. phase = "run" => ip < Len(code) /\ Here.op # "operand"
  BY <1>1 DEF Inv, Runs, Here
<1>4. QED
  BY <1>2, <1>3 DEF Types, TypeOK, MarkType, ByteType, EdgeType, ValueType, LastType

(* The variables always have their types and, whatever the program, the     *)
(* machine is always at an opcode of the finished code: every jump that      *)
(* compile_stmt and compile_expr patch (patch_relative_jump) leads to the    *)
(* first byte of an instruction, and no way runs past the end.  Programs     *)
(* have no method calls, here and below: those emit no code that leaves the *)
(* value that the code around them takes.                                  *)
THEOREM TypeCorrect ==
  ASSUME NoMethods
  PROVE  Spec => []TypeOK
BY Invariance, InvTyped, PTL

\* Programs without for-in loops have none to run to the end.
NoItem == todo \in Seq(Symbol \ {"item"}) /\ prog \in Seq(Token \ {"item"})

\* What the rests of the tokens are made of.
Plain == {"Expr", "Block", "Clauses", "Fields", "More", "Target", "value", "and2", "and)", "or2", "or)", "bin)", "call)", "print)",
          "put", "local)", "declare", "eval)", "assign)", "set", "then", "endif", "do", "endwhile", "until", "endrepeat",
          "test", "endfor", "endforin", "return)"}

LEMMA Shorts ==
  ASSUME NEW T, NEW a \in T, NEW b \in T, NEW c \in T, NEW d \in T, NEW e \in T, NEW f \in T
  PROVE  /\ <<>> \in Seq(T) /\ <<a>> \in Seq(T) /\ <<a, b>> \in Seq(T) /\ <<a, b, c>> \in Seq(T) /\ <<a, b, c, d>> \in Seq(T)
         /\ <<a, b, c, d, e, f>> \in Seq(T)
OBVIOUS

LEMMA RestSymbols ==
  ASSUME NEW t \in Token, t # "forin"
  PROVE  Rest(t) \in Seq(Plain)
<1>1. CASE t \in {"value", "method", "and)", "or)", "bin)", "call)", "print)", "put", "table)", "declare", "local)", "eval)",
                "store", "set", "assign)", "endif", "endwhile", "endrepeat", "endfor", "endforin", "return)", "end"}
  <2>1. Rest(t) = <<>>
    BY <1>1, RestTable
  <2>2. QED
    BY <2>1
<1>2. CASE t \in {"table"}
  <2>1. \E a \in Plain : Rest(t) = <<a>>
    BY <1>2, RestTable DEF Plain
  <2>2. QED
    BY <2>1, Shorts
<1>3. CASE t \in {"and", "and2", "or", "or2", "print", "local", "eval", "assign", "comma", "one", "if", "then",
                "elseif", "else", "while", "do", "repeat", "until", "test", "item", "return"}
  <2>1. \E a, b \in Plain : Rest(t) = <<a, b>>
    <3>1. t = "and" => \E a, b \in Plain : Rest(t) = <<a, b>>
      BY RestTable DEF Plain
    <3>2. t = "and2" => \E a, b \in Plain : Rest(t) = <<a, b>>
      BY RestTable DEF Plain
    <3>3. t = "or" => \E a, b \in Plain : Rest(t) = <<a, b>>
      BY RestTable DEF Plain
    <3>4. t = "or2" => \E a, b \in Plain : Rest(t) = <<a, b>>
      BY RestTable DEF Plain
    <3>5. t = "print" => \E a, b \in Plain : Rest(t) = <<a, b>>
      BY RestTable DEF Plain
    <3>6. t = "local" => \E a, b \in Plain : Rest(t) = <<a, b>>
      BY RestTable DEF Plain
    <3>7. t = "eval" => \E a, b \in Plain : Rest(t) = <<a, b>>
      BY RestTable DEF Plain
    <3>8. t = "assign" => \E a, b \in Plain : Rest(t) = <<a, b>>
      BY RestTable DEF Plain
    <3>9. t = "comma" => \E a, b \in Plain : Rest(t) = <<a, b>>
      BY RestTable DEF Plain
    <3>10. t = "one" => \E a, b \in Plain : Rest(t) = <<a, b>>
      BY RestTable DEF Plain
    <3>11. t = "if" => \E a, b \in Plain : Rest(t) = <<a, b>>
      BY RestTable DEF Plain
    <3>12. t = "then" => \E a, b \in Plain : Rest(t) = <<a, b>>
      BY RestTable DEF Plain
    <3>13. t = "elseif" => \E a, b \in Plain : Rest(t) = <<a, b>>
      BY RestTable DEF Plain
    <3>14. t = "else" => \E a, b \in Plain : Rest(t) = <<a, b>>
      BY RestTable DEF Plain
    <3>15. t = "while" => \E a, b \in Plain : Rest(t) = <<a, b>>
      BY RestTable DEF Plain
    <3>16. t = "do" => \E a, b \in Plain : Rest(t) = <<a, b>>
      BY RestTable DEF Plain
    <3>17. t = "repeat" => \E a, b \in Plain : Rest(t) = <<a, b>>
      BY RestTable DEF Plain
    <3>18. t = "until" => \E a, b \in Plain : Rest(t) = <<a, b>>
      BY RestTable DEF Plain
    <3>19. t = "test" => \E a, b \in Plain : Rest(t) = <<a, b>>
      BY RestTable DEF Plain
    <3>20. t = "item" => \E a, b \in Plain : Rest(t) = <<a, b>>
      BY RestTable DEF Plain
    <3>21. t = "return" => \E a, b \in Plain : Rest(t) = <<a, b>>
      BY RestTable DEF Plain
    <3>22. QED
      BY <1>3, <3>1, <3>2, <3>3, <3>4, <3>5, <3>6, <3>7, <3>8, <3>9, <3>10, <3>11, <3>12, <3>13, <3>14, <3>15, <3>16, <3>17, <3>18, <3>19, <3>20, <3>21
  <2>2. QED
    BY <2>1, Shorts
<1>4. CASE t \in {"bin", "call", "field", "two", "entry"}
  <2>1. CASE t = "bin"
    <3>1. Rest(t) = <<"Expr", "Expr", "bin)">>
      BY <2>1, RestTable
    <3>2. "Expr" \in Plain /\ "bin)" \in Plain
      BY DEF Plain
    <3>3. <<"Expr", "Expr", "bin)">> \in Seq(Plain)
      BY <3>2
    <3>4. QED
      BY <3>1, <3>3
  <2>2. CASE t = "call"
    <3>1. Rest(t) = <<"Expr", "Expr", "call)">>
      BY <2>2, RestTable
    <3>2. "Expr" \in Plain /\ "call)" \in Plain
      BY DEF Plain
    <3>3. <<"Expr", "Expr", "call)">> \in Seq(Plain)
      BY <3>2
    <3>4. QED
      BY <3>1, <3>3
  <2>3. CASE t = "field"
    <3>1. Rest(t) = <<"Expr", "put", "Fields">>
      BY <2>3, RestTable
    <3>2. "Expr" \in Plain /\ "Fields" \in Plain /\ "put" \in Plain
      BY DEF Plain
    <3>3. <<"Expr", "put", "Fields">> \in Seq(Plain)
      BY <3>2
    <3>4. QED
      BY <3>1, <3>3
  <2>4. CASE t = "two"
    <3>1. Rest(t) = <<"Target", "Target", "assign)">>
      BY <2>4, RestTable
    <3>2. "Target" \in Plain /\ "assign)" \in Plain
      BY DEF Plain
    <3>3. <<"Target", "Target", "assign)">> \in Seq(Plain)
      BY <3>2
    <3>4. QED
      BY <3>1, <3>3
  <2>5. CASE t = "entry"
    <3>1. Rest(t) = <<"value", "value", "set">>
      BY <2>5, RestTable
    <3>2. "set" \in Plain /\ "value" \in Plain
      BY DEF Plain
    <3>3. <<"value", "value", "set">> \in Seq(Plain)
      BY <3>2
    <3>4. QED
      BY <3>1, <3>3
  <2>6. QED
    BY <1>4, <2>1, <2>2, <2>3, <2>4, <2>5
<1>5. CASE t \in {"index"}
  <2>1. CASE t = "index"
    <3>1. Rest(t) = <<"Expr", "Expr", "put", "Fields">>
      BY <2>1, RestTable
    <3>2. "Expr" \in Plain /\ "Fields" \in Plain /\ "put" \in Plain
      BY DEF Plain
    <3>3. <<"Expr", "Expr", "put", "Fields">> \in Seq(Plain)
      BY <3>2
    <3>4. QED
      BY <3>1, <3>3
  <2>2. QED
    BY <1>5, <2>1
<1>6. CASE t \in {"for"}
  <2>1. CASE t = "for"
    <3>1. Rest(t) = <<"Expr", "declare", "Expr", "declare", "Expr", "test">>
      BY <2>1, RestTable
    <3>2. "Expr" \in Plain /\ "declare" \in Plain /\ "test" \in Plain
      BY DEF Plain
    <3>3. <<"Expr", "declare", "Expr", "declare", "Expr", "test">> \in Seq(Plain)
      BY <3>2
    <3>4. QED
      BY <3>1, <3>3
  <2>2. QED
    BY <1>6, <2>1
<1>7. QED
  BY <1>1, <1>2, <1>3, <1>4, <1>5, <1>6 DEF Token

-----------------------------------------------------------------------------
(* Programs without for-in loops. *)

Others == Symbol \ {"item"}

LEMMA PlainOthers == Plain \subseteq Others
BY DEF Plain, Others, Symbol, Token

LEMMA MeetNoItem ==
  ASSUME Inv, NoItem, "forin" \notin Statements, NEW t \in Token, NEW n, Meet(t, n)
  PROVE  NoItem'
<1>1. /\ t \in Choices(Head(todo)) /\ Head(todo) \in Pendable /\ todo # <<>>
      /\ prog' = Append(prog, t) /\ todo' = Rest(t) \o (IF Head(todo) = "Block" THEN todo ELSE Tail(todo))
  BY Meeting DEF Meet
<1>2. todo \in Seq(Others) /\ prog \in Seq(Token \ {"item"})
  BY DEF NoItem, Others
<1>3. Head(todo) \in Others /\ Tail(todo) \in Seq(Others)
  <2>1. Head(todo) \in Others
    BY <1>1, <1>2
  <2>2. Tail(todo) \in Seq(Others)
    BY <1>1, <1>2, TailIs
  <2>3. QED
    BY <2>1, <2>2
<1>4. t # "item"
  <2>1. Head(todo) # "item"
    BY <1>3 DEF Others
  <2>2. QED
    BY <1>1, <2>1, HeadIs
<1>5. t # "forin"
  <2>1. SUFFICES ASSUME t = "forin" PROVE FALSE
    OBVIOUS
  <2>2. Head(todo) = "Block"
    BY <1>1, <2>1, HeadIs
  <2>3. t \in Statements
    BY <1>1, <2>2 DEF Choices
  <2>4. QED
    BY <2>1, <2>3
<1>6. prog' \in Seq(Token \ {"item"})
  BY <1>1, <1>2, <1>4
<1>7. Rest(t) \in Seq(Others)
  BY <1>5, RestSymbols, PlainOthers, SeqMonotonic
<1>8. PICK r, s : r = Rest(t) /\ s = (IF Head(todo) = "Block" THEN todo ELSE Tail(todo))
  OBVIOUS
<1>9. r \in Seq(Others) /\ s \in Seq(Others)
  BY <1>2, <1>3, <1>7, <1>8
<1>10. r \o s \in Seq(Others)
  BY <1>9, ConcatProperties
<1>11. todo' \in Seq(Others)
  BY <1>1, <1>8, <1>10
<1>12. QED
  BY <1>6, <1>11 DEF NoItem, Others

\* Every action of the compiler but the end of a block comes to a token.
LEMMA CompileMeets ==
  ASSUME Compile
  PROVE  compile_block \/ \E t \in Token : \E n : Meet(t, n)
<1>1. CASE compile_expr
  <2>1. PICK t \in {"value", "method", "bin", "bin)", "call", "call)", "print", "print)", "table", "field", "index", "put",
                    "table)"} :
          Meet(t, active)
    BY <1>1 DEF compile_expr
  <2>2. t \in Token
    BY DEF Token
  <2>3. QED
    BY <2>1, <2>2
<1>2. CASE BINOP_AND \/ BINOP_OR
  BY <1>2 DEF BINOP_AND, BINOP_OR, Token
<1>3. CASE STMT_CALL \/ STMT_LOCAL
  BY <1>3 DEF STMT_CALL, STMT_LOCAL, Token
<1>4. CASE STMT_ASSIGN
  BY <1>4 DEF STMT_ASSIGN, Token
<1>5. CASE STMT_IF
  BY <1>5 DEF STMT_IF, Token
<1>6. CASE STMT_WHILE \/ STMT_REPEAT
  BY <1>6 DEF STMT_WHILE, STMT_REPEAT, Token
<1>7. CASE STMT_FOR_NUM
  BY <1>7 DEF STMT_FOR_NUM, Token
<1>8. CASE STMT_FOR_IN
  BY <1>8 DEF STMT_FOR_IN, Token
<1>9. CASE STMT_RETURN \/ compiler_compile
  BY <1>9 DEF STMT_RETURN, compiler_compile, Token
<1>10. QED
  BY <1>1, <1>2, <1>3, <1>4, <1>5, <1>6, <1>7, <1>8, <1>9 DEF Compile

\* The machine changes neither.
LEMMA RunLeaves == Run => prog' = prog /\ todo' = todo
BY DEF Run, At, op_load, op_loadnil, op_loadconst, op_dup, op_pop, op_rot3, op_binary, op_call, op_print, op_newtable,
       op_gettable, op_settable, op_setglobal, op_getlocal, op_setlocal, op_compare, op_add, op_jump, op_jump_false, op_stop

LEMMA NoItemKept ==
  ASSUME Inv, NoItem, "forin" \notin Statements, [Next]_vars
  PROVE  NoItem'
<1>1. CASE Compile
  <2>1. CASE compile_block
    <3>1. todo # <<>> /\ todo' = Tail(todo) /\ prog' = prog
      BY <2>1 DEF compile_block
    <3>2. todo \in Seq(Others) /\ prog \in Seq(Token \ {"item"})
      BY DEF NoItem, Others
    <3>3. Tail(todo) \in Seq(Others)
      BY <3>1, <3>2, TailIs
    <3>4. QED
      BY <3>1, <3>2, <3>3 DEF NoItem, Others
  <2>2. CASE \E t \in Token : \E n : Meet(t, n)
    BY <2>2, MeetNoItem
  <2>3. QED
    BY <1>1, <2>1, <2>2, CompileMeets
<1>2. CASE Run \/ UNCHANGED vars
  <2>1. prog' = prog /\ todo' = todo
    BY <1>2, RunLeaves DEF vars
  <2>2. QED
    BY <2>1 DEF NoItem
<1>3. QED
  BY <1>1, <1>2 DEF Next

LEMMA NoItemStart == Init => NoItem
<1>1. SUFFICES ASSUME Init PROVE NoItem
  OBVIOUS
<1>2. prog = <<>> /\ todo = <<"Block", "end">>
  BY <1>1 DEF Init
<1>3. "Block" \in Others /\ "end" \in Others
  BY DEF Others, Symbol, Token
<1>4. QED
  BY <1>2, <1>3 DEF NoItem, Others

LEMMA NoItemQuiet == NoItem => Quiet
<1>1. SUFFICES ASSUME NoItem PROVE Items = {}
  BY DEF Quiet
<1>2. \A i \in DOMAIN prog : prog[i] # "item"
  <2>1. \A i \in 1 .. Len(prog) : prog[i] \in Token \ {"item"}
    BY <1>1 DEF NoItem
  <2>2. DOMAIN prog = 1 .. Len(prog)
    BY <1>1, LenProperties DEF NoItem
  <2>3. QED
    BY <2>1, <2>2
<1>3. QED
  BY <1>2 DEF Items

LEMMA InvInPlace == Inv /\ Quiet => LocalsInPlace
<1>1. SUFFICES ASSUME Inv, Quiet, phase = "run", NEW e \in edges, e.at = ip PROVE Len(stack) = e.locals
  BY DEF LocalsInPlace
<1>2. PICK h : Runs(h)
  BY <1>1 DEF Inv
<1>3. h[e.at] = e.locals /\ Len(stack) = h[ip]
  BY <1>1, <1>2 DEF Runs
<1>4. QED
  BY <1>1, <1>3

LEMMA InvKept == Inv /\ Quiet => LocalsKept
<1>1. SUFFICES ASSUME Inv, Quiet, phase = "run", Takes(Here.op) > 0 PROVE Len(stack) - Takes(Here.op) >= Here.locals
  BY DEF LocalsKept
<1>2. PICK h : Runs(h)
  BY <1>1 DEF Inv
<1>3. /\ Len(stack) = h[ip] /\ Flows(code, h, {}, Items, Len(code) - 1) /\ ip < Len(code) /\ code[ip + 1].op # "operand"
  BY <1>1, <1>2 DEF Runs
<1>4. ip \in Nat /\ Len(code) \in Nat
  BY <1>1, LenProperties DEF Inv, Types
<1>5. ip \in 0 .. Len(code) - 1
  BY <1>3, <1>4
<1>6. FlowsAt(code, h, {}, Items, Len(code) - 1, ip)
  BY <1>3, <1>5 DEF Flows
<1>7. h[ip] - Takes(Here.op) >= Here.locals
  BY <1>1, <1>6 DEF FlowsAt, Here
<1>8. QED
  BY <1>3, <1>7

\* Either no loop is run to its end, or there is none.
LEMMA QuietAlways ==
  ASSUME NoMethods, ~ForInEnds \/ "forin" \notin Statements
  PROVE  Spec => [](Inv /\ Quiet)
<1>1. CASE ~ForInEnds
  <2>1. Quiet
    BY <1>1 DEF Quiet
  <2>2. Inv => Inv /\ Quiet
    BY <1>1 DEF Quiet
  <2>3. QED
    BY <2>2, Invariance, PTL
<1>2. CASE "forin" \notin Statements
  <2>1. Init => Inv /\ NoItem
    BY StartTrue, NoItemStart
  <2>2. Inv /\ [Next]_vars => Inv'
    BY CompileKeeps, RunKeeps, StutterKeeps DEF Next
  <2>3. (Inv /\ NoItem) /\ [Next]_vars => (Inv /\ NoItem)'
    BY <1>2, <2>2, NoItemKept
  <2>4. Inv /\ NoItem => Inv /\ Quiet
    BY NoItemQuiet
  <2>5. QED
    BY <2>1, <2>3, <2>4, PTL DEF Spec
<1>3. QED
  BY <1>1, <1>2

(* Unless a for-in loop is run to its end or a method called, the stack      *)
(* holds exactly the locals that the compiler counts (active_local_count) where a statement    *)
(* begins and where a block ends, by whatever branches and rounds control    *)
(* has come there.                                                         *)
THEOREM LocalsAlwaysInPlace ==
  ASSUME NoMethods, ~ForInEnds \/ "forin" \notin Statements
  PROVE  Spec => []LocalsInPlace
BY QuietAlways, InvInPlace, PTL

(* Nor does any instruction then take a local of an open block for its       *)
(* operand: what compile_expr leaves on the stack is what its user takes.   *)
THEOREM LocalsAlwaysKept ==
  ASSUME NoMethods, ~ForInEnds \/ "forin" \notin Statements
  PROVE  Spec => []LocalsKept
BY QuietAlways, InvKept, PTL

=============================================================================
