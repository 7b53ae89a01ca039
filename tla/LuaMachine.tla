----------------------------- MODULE LuaMachine -----------------------------
(***************************************************************************)
(* What the operations mean to a program: values are integers of WordBits   *)
(* bits with a sign, truths, texts, and a table is a map of at most         *)
(* Capacity keys.  No words, no addresses, no entries.                     *)
(*                                                                         *)
(* Strings are equal when their texts are, values of two types never.  Where *)
(* the language of the project leaves a result open any value will do:      *)
(* arithmetic and order on what is no number.  A quotient may be rounded    *)
(* down or towards zero, and the remainder go with either; whatever is      *)
(* divided by zero gives zero.                                             *)
(***************************************************************************)
EXTENDS Integers, Sequences, FiniteSets

CONSTANTS WordBits, Radix, Capacity

VARIABLES
  stack,    \* values: [type, int, text]
  did,      \* the operation
  printed,  \* the texts it wrote
  map       \* the table: a function from keys to values

Half  == 2 ^ (WordBits - 1)
Minus == Radix

\* The number of WordBits bits that n becomes.
Signed(n) == ((n + Half) % (2 * Half)) - Half

\* Texts that are numbers, and the number.
IsNumeral(t) ==
  /\ t # <<>> /\ t # <<Minus>>
  /\ \A i \in DOMAIN t : t[i] < Radix \/ (i = 1 /\ t[i] = Minus)
Numeral(t) ==
  LET val[n \in 0 .. Len(t)] == IF n = 0 THEN 0 ELSE IF t[n] = Minus THEN 0 ELSE Radix * val[n - 1] + t[n]
  IN IF Head(t) = Minus THEN -val[Len(t)] ELSE val[Len(t)]

\* The one way to write n.
Writes(t, n) ==
  /\ IsNumeral(t) /\ Numeral(t) = n
  /\ (t[1] = 0 => Len(t) = 1) /\ (t[1] = Minus => n < 0)

Number(n) == [type |-> "number", int |-> n, text |-> <<>>]
Bool(b)   == [type |-> "bool", int |-> IF b THEN 1 ELSE 0, text |-> <<>>]
Nil       == [type |-> "nil", int |-> 0, text |-> <<>>]
False(v)  == v.type = "nil" \/ v = Bool(FALSE)

\* The text of the names of the types, of true and of false.
Name(v) ==
  LET k == CASE v.type = "nil" -> 1 [] v.type = "bool" -> 2 [] v.type = "number" -> 3
             [] v.type = "string" -> 4 [] v.type = "table" -> 5 [] OTHER -> 6
  IN <<Radix + k>>
Shows(t, v) ==
  CASE v.type = "number" -> Writes(t, v.int)
    [] v.type = "string" -> t = v.text
    [] v.type = "bool"   -> t = <<IF v.int # 0 THEN Radix + 7 ELSE Radix + 8>>
    [] OTHER             -> t = Name(v)

-----------------------------------------------------------------------------
(* Results. *)

\* a times itself b times, each time the number of WordBits bits.
Power(a, b) == LET p[n \in Nat] == IF n = 0 THEN 1 ELSE Signed(a * p[n - 1]) IN p[b]

\* The two roundings of a quotient, and the remainders they leave.
Abs(n) == IF n < 0 THEN -n ELSE n
Quotients(a, b) ==
  {IF b > 0 THEN a \div b ELSE (-a) \div (-b),
   IF (a < 0) = (b < 0) THEN Abs(a) \div Abs(b) ELSE -(Abs(a) \div Abs(b))}
Remainders(a, b) ==
  {IF b > 0 THEN a % b ELSE -((-a) % (-b)),
   IF a < 0 THEN -(Abs(a) % Abs(b)) ELSE a % Abs(b)}

Arithmetic(o, a, b, r) ==
  CASE o = "add" -> r = Signed(a + b)
    [] o = "sub" -> r = Signed(a - b)
    [] o = "mul" -> r = Signed(a * b)
    [] o = "pow" -> r = IF b < 0 THEN 0 ELSE Power(a, b)
    [] o = "div" -> IF b = 0 THEN r = 0 ELSE \E q \in Quotients(a, b) : r = Signed(q)
    [] o = "mod" -> IF b = 0 THEN r = 0 ELSE r \in Remainders(a, b)

Compares(o, a, b, r) ==
  CASE o = "lt" -> r = (a < b)
    [] o = "le" -> r = (a <= b)
    [] o = "gt" -> r = (a > b)
    [] o = "ge" -> r = (a >= b)

BinaryResult(o, a, b, r) ==
  LET numbers == a.type = "number" /\ b.type = "number" IN
  CASE o \in {"add", "sub", "mul", "div", "mod", "pow"} ->
         numbers => r.type = "number" /\ Arithmetic(o, a.int, b.int, r.int)
    [] o \in {"lt", "le", "gt", "ge"} ->
         r.type = "bool" /\ (numbers => Compares(o, a.int, b.int, r.int = 1))
    [] o \in {"eq", "ne"} -> r.type = "bool" /\ (r.int = 1) = ((a = b) = (o = "eq"))
    [] o = "concat" ->
         /\ r.type = "string"
         /\ \E n \in 0 .. Len(r.text) :
              Shows(SubSeq(r.text, 1, n), a) /\ Shows(SubSeq(r.text, n + 1, Len(r.text)), b)
    [] o = "get" -> a.type = "table" /\ r = IF b \in DOMAIN map THEN map[b] ELSE Nil

\* The length: how many keys from 1 on there are without a gap.
Border(n) ==
  /\ \A i \in 1 .. n : Number(i) \in DOMAIN map
  /\ Number(n + 1) \notin DOMAIN map

UnaryResult(o, a, r) ==
  CASE o = "neg" -> a.type = "number" => r = Number(Signed(-a.int))
    [] o = "not" -> r = Bool(False(a))
    [] o = "len" -> /\ r.type = "number"
                    /\ a.type = "string" => r.int = Signed(Len(a.text))
                    /\ a.type = "table" => Border(r.int)
    [] o = "type" -> r.type = "string" /\ r.text = Name(a)
    [] o = "tostring" -> r.type = "string" /\ Shows(r.text, a)
    [] o = "tonumber" -> r = CASE a.type = "number" -> a
                               [] a.type = "string" /\ IsNumeral(a.text) -> Number(Signed(Numeral(a.text)))
                               [] OTHER -> Nil

-----------------------------------------------------------------------------
Binaries == {"add", "sub", "mul", "div", "mod", "pow", "lt", "le", "gt", "ge", "eq", "ne", "concat", "get"}
Unaries  == {"neg", "not", "len", "type", "tostring", "tonumber"}

Last(i)  == stack[Len(stack) - i]
\* n values are replaced by m others.
Takes(n, m) ==
  /\ Len(stack) >= n /\ Len(stack') = Len(stack) - n + m
  /\ SubSeq(stack', 1, Len(stack') - m) = SubSeq(stack, 1, Len(stack) - n)
Result == stack'[Len(stack')]

Load == did' = "load" /\ Takes(0, 1) /\ printed' = <<>> /\ UNCHANGED map

Pop == did' = "pop" /\ Takes(1, 0) /\ printed' = <<>> /\ UNCHANGED map

Binary ==
  /\ did' \in Binaries /\ Takes(2, 1)
  /\ BinaryResult(did', Last(1), Last(0), Result)
  /\ printed' = <<>> /\ UNCHANGED map

Unary ==
  /\ did' \in Unaries /\ Takes(1, 1)
  /\ UnaryResult(did', Last(0), Result)
  /\ printed' = <<>> /\ UNCHANGED map

\* The last argument first.
Prints ==
  /\ did' = "print"
  /\ Takes(Len(printed'), 0)
  /\ \A i \in DOMAIN printed' : Shows(printed'[i], Last(i - 1))
  /\ UNCHANGED map

\* A key that is there already takes the value; a new one only while there is room.
Set ==
  /\ did' = "set" /\ Takes(3, 0) /\ Last(2).type = "table"
  /\ map' = IF Last(1) \in DOMAIN map \/ Cardinality(DOMAIN map) < Capacity
              THEN [k \in DOMAIN map \cup {Last(1)} |-> IF k = Last(1) THEN Last(0) ELSE map[k]]
              ELSE map
  /\ printed' = <<>>

NewTable ==
  /\ did' = "newtable" /\ Takes(0, 1) /\ Result.type = "table"
  /\ map' = <<>> /\ printed' = <<>>

\* The builtins for the console and for files: see FileService for what they answer.
Builtin ==
  /\ did' = "builtin" /\ \E n \in 0 .. 2 : Takes(n, 1)
  /\ UNCHANGED map

Init == stack = <<>> /\ did = "load" /\ printed = <<>> /\ map = <<>>

Next == Load \/ Pop \/ Binary \/ Unary \/ Prints \/ Set \/ NewTable \/ Builtin

Spec == Init /\ [][Next]_<<stack, did, printed, map>>
=============================================================================
