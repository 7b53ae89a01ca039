------------------------------ MODULE ValueOps ------------------------------
(***************************************************************************)
(* The operations of the virtual machine on values: arithmetic, comparison, *)
(* conversion and printing (codegen_emit_ops.c, codegen_emit_runtime.c).   *)
(*                                                                         *)
(* A value on the stack is a type byte and a word.  The word of a string is *)
(* the address of an object; the text of the object goes with the value.    *)
(* A character is a number: below Radix the digit it stands for, then the   *)
(* sign, then all the others.  The Z80's 16 bits and base ten are WordBits  *)
(* and Radix; each routine is a recursive function with the loop of the     *)
(* code as its recursion.                                                  *)
(*                                                                         *)
(* On some operands the code does not give what the language says: == and   *)
(* ~= on words that are equal or not for another reason than the values,    *)
(* / and % and print on negative numbers.  Departs names the operations     *)
(* that a program applies there too.                                       *)
(*                                                                         *)
(* Where a string object lies is StringHeap's affair: a new one has some    *)
(* address no string on the stack has.                                     *)
(*                                                                         *)
(* A name with a suffix (mul16_unsigned, ...) is the named operator with a   *)
(* plausible fault; no specification uses it.                               *)
(***************************************************************************)
EXTENDS Integers, Sequences

CONSTANTS
  WordBits,    \* 16
  Radix,       \* 10
  Groups,      \* the groups of operations of which a program uses one
  Literals,    \* the values the programs of a group load: a function of the group
  Departs,     \* the operations applied where they depart from the language: see the guards
  Heap,        \* addresses for new strings
  LoadsFirst,  \* bound: the groups whose programs load operands onto no result
  MaxStack,    \* bound: values on the stack, for each group
  MaxText      \* bound: length of the text of a string made by op_concat

Half  == 2 ^ (WordBits - 1)
Words == 0 .. 2 * Half - 1
Wrap(n) == n % (2 * Half)

Types == {"nil", "bool", "number", "string", "table", "function"}
Char  == 0 .. Radix + 10
Minus == Radix
Text  == Seq(Char)
Value == [type : Types, word : Words, text : Text]

ASSUME ValueAssumption ==
  /\ WordBits \in Nat /\ WordBits >= 5 /\ Half \in Nat /\ Half >= 16
  /\ 2 ^ 0 = 1 /\ \A n \in 0 .. WordBits : 2 ^ (n + 1) = 2 * 2 ^ n
  /\ Radix \in Nat /\ Radix >= 2 /\ Radix <= Half
  /\ Groups \subseteq {"values", "tables", "files"}
  /\ Literals \in [Groups -> SUBSET Value]
  /\ Departs \subseteq {"equal", "divide", "print"}
  /\ Heap \subseteq Words \ 0 .. 12
  /\ \A g \in Groups : \A v, w \in Literals[g] :
       IF v.type # "string" THEN v.text = <<>>
       ELSE /\ v.word \in 13 .. 2 * Half /\ v.word \notin Heap
            /\ v.word = w.word => v = w \/ w.type # "string"
  /\ LoadsFirst \subseteq Groups
  /\ MaxStack \in [Groups -> Nat] /\ MaxText \in Nat

VARIABLES
  group,    \* the group of operations the program uses
  stack,    \* the value stack, its top last
  did,      \* history: the last operation
  printed   \* history: the texts it wrote

values == <<group, stack, did, printed>>

Number(w)    == [type |-> "number", word |-> w, text |-> <<>>]
Bool(b)      == [type |-> "bool", word |-> IF b THEN 1 ELSE 0, text |-> <<>>]
Nil          == [type |-> "nil", word |-> 0, text |-> <<>>]
String(a, t) == [type |-> "string", word |-> a, text |-> t]

\* The string objects of the image, at 1 to 12: str_type_nil, ..., str_true_value, str_false_value,
\* str_empty, and other objects with the text of a type for a value of it.
Fixed(k) == String(k, <<Radix + k>>)
TypeName(v) ==
  CASE v.type = "nil" -> Fixed(1) [] v.type = "bool" -> Fixed(2) [] v.type = "number" -> Fixed(3)
    [] v.type = "string" -> Fixed(4) [] v.type = "table" -> Fixed(5) [] OTHER -> Fixed(6)
Truth(b)   == IF b THEN Fixed(7) ELSE Fixed(8)
Empty      == String(9, <<>>)
ValueName(v) == String(CASE v.type = "nil" -> 10 [] v.type = "table" -> 11 [] OTHER -> 12, TypeName(v).text)

-----------------------------------------------------------------------------
(* Words. *)

Negative(w)  == w >= Half                       \* and 0x80 of the high byte
Negate(w)    == Wrap((2 * Half - 1 - w) + 1)    \* cpl, cpl, inc
Magnitude(w) == IF Negative(w) THEN Negate(w) ELSE w

\* mul16: both signs off, the left added to the result right times, the sign back on.
mul16_unsigned(l, r) ==
  LET sum[n \in Nat] == IF n = 0 THEN 0 ELSE Wrap(sum[n - 1] + l) IN sum[Magnitude(r)]
mul16(l, r) ==
  LET sum[n \in Nat] == IF n = 0 THEN 0 ELSE Wrap(sum[n - 1] + Magnitude(l))
      result == sum[Magnitude(r)]
  IN IF Negative(l) # Negative(r) THEN Negate(result) ELSE result

\* div_loop16, mod_loop16, divmod10_u16: subtract until it borrows.
Quotient(n, d)  == LET quot[m \in Nat] == IF m < d THEN 0 ELSE Wrap(quot[m - d] + 1) IN quot[n]
Remainder(n, d) == LET rem[m \in Nat] == IF m < d THEN m ELSE rem[m - d] IN rem[n]

power(base, exp) ==
  LET result[n \in Nat] == IF n = 0 THEN 1 ELSE mul16(result[n - 1], base)
  IN IF Negative(exp) THEN 0 ELSE result[exp]

\* op_lt and op_gt look at the signs first, then at the borrow of l - r; op_le and op_ge alike.
Less(l, r)    == IF Negative(l) # Negative(r) THEN Negative(l) ELSE l < r
AtMost(l, r)  == IF Negative(l) # Negative(r) THEN Negative(l) ELSE l <= r

\* The digits of an unsigned word, by repeated subtraction (number_to_string).
Digits(w) ==
  LET d[n \in Words] == (IF Quotient(n, Radix) = 0 THEN <<>> ELSE d[Quotient(n, Radix)])
                        \o <<Remainder(n, Radix)>>
  IN d[w]

\* div16_8: the word is shifted out into the remainder bit by bit, the quotient shifted in.
div16_8(w) ==
  LET step[k \in 0 .. WordBits] ==
        IF k = 0 THEN <<w, 0>>
        ELSE LET l == Wrap(2 * step[k - 1][1])
                 a == 2 * step[k - 1][2] + (IF Negative(step[k - 1][1]) THEN 1 ELSE 0)
             IN IF a < Radix THEN <<l, a>> ELSE <<l + 1, a - Radix>>
  IN step[WordBits]

\* The digits of an unsigned word, by shifting (print_num).
print_num(w) ==
  LET d[n \in Words] == (IF div16_8(n)[1] = 0 THEN <<>> ELSE d[div16_8(n)[1]]) \o <<div16_8(n)[2]>>
  IN d[w]

number_to_string(w) == (IF Negative(w) THEN <<Minus>> ELSE <<>>) \o Digits(Magnitude(w))

\* string_to_number: <<>> if it fails, else the word.
string_to_number(t) ==
  LET signed == t # <<>> /\ Head(t) = Minus
      digits == IF signed THEN Tail(t) ELSE t
      result[n \in 0 .. Len(digits)] ==
        IF n = 0 THEN 0 ELSE Wrap(mul16(result[n - 1], Radix) + digits[n])
  IN IF digits = <<>> \/ \E i \in DOMAIN digits : digits[i] >= Radix THEN <<>>
     ELSE <<IF signed THEN Negate(result[Len(digits)]) ELSE result[Len(digits)]>>

-----------------------------------------------------------------------------
(* The machine. *)

Top(i)  == stack[Len(stack) - i]            \* Top(0) is the last value pushed
Drop(n) == SubSeq(stack, 1, Len(stack) - n)

\* An operation of group g that takes n values, or that takes them and leaves v.
Takes(g, o, n) ==
  /\ group = g /\ Len(stack) >= n
  /\ did' = o /\ group' = group
Gives(n, v) == stack' = Append(Drop(n), v) /\ printed' = <<>>
Binary(o, v) == Takes("values", o, 2) /\ Gives(2, v)
Unary(o, v)  == Takes("values", o, 1) /\ Gives(1, v)

\* alloc_raw_string: the empty text has one object for all, every other a new one.
Made(t) ==
  IF t = <<>> THEN {Empty}
  ELSE {String(a, t) : a \in {b \in Heap : \A i \in DOMAIN stack : stack[i].word # b}}

coerce_to_string(v) ==
  CASE v.type = "string" -> {v}
    [] v.type = "number" -> Made(number_to_string(v.word))
    [] v.type = "bool"   -> {Truth(v.word # 0)}
    [] OTHER             -> {ValueName(v)}

text_of(v) == IF v.type = "number" THEN number_to_string(v.word)
              ELSE (CHOOSE s \in coerce_to_string(v) : TRUE).text

MayLoad ==
  /\ Len(stack) < MaxStack[group]
  /\ group \in LoadsFirst => stack = <<>> \/ did \in {"load", "newtable"}

op_load ==
  /\ MayLoad
  /\ \E v \in Literals[group] : stack' = Append(stack, v)
  /\ did' = "load" /\ printed' = <<>> /\ group' = group

op_pop == Len(stack) >= 1 /\ stack' = Drop(1) /\ did' = "pop" /\ printed' = <<>> /\ group' = group

\* op_add and op_sub keep the type of the right operand, whatever it is; of strings the sum of
\* the addresses is no object, so the programs do not add those.
op_add == Len(stack) >= 2 /\ Top(0).type # "string"
  /\ Binary("add", [Top(0) EXCEPT !.word = Wrap(Top(1).word + @)])
op_sub == Len(stack) >= 2 /\ Top(0).type # "string"
  /\ Binary("sub", [Top(0) EXCEPT !.word = Wrap(Top(1).word - @)])

op_mul == Len(stack) >= 2 /\ Binary("mul", Number(mul16(Top(1).word, Top(0).word)))

\* Division is that of unsigned words.
Unsigned(v, w) == v.type = "number" /\ w.type = "number" => ~Negative(v.word) /\ ~Negative(w.word)

op_div == Len(stack) >= 2 /\ ("divide" \notin Departs => Unsigned(Top(1), Top(0)))
  /\ Binary("div", Number(IF Top(0).word = 0 THEN 0 ELSE Quotient(Top(1).word, Top(0).word)))
op_mod == Len(stack) >= 2 /\ ("divide" \notin Departs => Unsigned(Top(1), Top(0)))
  /\ Binary("mod", Number(IF Top(0).word = 0 THEN 0 ELSE Remainder(Top(1).word, Top(0).word)))
op_pow == Len(stack) >= 2 /\ Binary("pow", Number(power(Top(1).word, Top(0).word)))
op_neg == Len(stack) >= 1 /\ Unary("neg", Number(Negate(Top(0).word)))

\* Equality is that of the words: neither the types nor the texts are looked at.
Comparable(v, w) ==
  IF v.type = w.type THEN v.type = "string" /\ v.text = w.text => v.word = w.word ELSE v.word # w.word

op_eq == Len(stack) >= 2 /\ ("equal" \notin Departs => Comparable(Top(1), Top(0)))
  /\ Binary("eq", Bool(Top(1).word = Top(0).word))
op_ne == Len(stack) >= 2 /\ ("equal" \notin Departs => Comparable(Top(1), Top(0)))
  /\ Binary("ne", Bool(Top(1).word # Top(0).word))
op_lt == Len(stack) >= 2 /\ Binary("lt", Bool(Less(Top(1).word, Top(0).word)))
op_le == Len(stack) >= 2 /\ Binary("le", Bool(AtMost(Top(1).word, Top(0).word)))
op_gt == Len(stack) >= 2 /\ Binary("gt", Bool(Less(Top(0).word, Top(1).word)))
op_ge == Len(stack) >= 2 /\ Binary("ge", Bool(AtMost(Top(0).word, Top(1).word)))

op_not == Len(stack) >= 1
  /\ Unary("not", Bool(Top(0).type = "nil" \/ (Top(0).type = "bool" /\ Top(0).word = 0)))

op_concat == Len(stack) >= 2 /\ LET t == text_of(Top(1)) \o text_of(Top(0)) IN
  Len(t) <= MaxText /\ \E s \in Made(t) : Binary("concat", s)

\* The length of a table is in TableOps; of what has none it is zero.
op_len == Len(stack) >= 1 /\ Top(0).type # "table"
  /\ Unary("len", Number(IF Top(0).type = "string" THEN Wrap(Len(Top(0).text)) ELSE 0))

op_type     == Len(stack) >= 1 /\ Unary("type", TypeName(Top(0)))
op_tostring == Len(stack) >= 1 /\ \E s \in coerce_to_string(Top(0)) : Unary("tostring", s)
op_tonumber == Len(stack) >= 1 /\ LET parsed == string_to_number(Top(0).text) IN
  Unary("tonumber", CASE Top(0).type = "number" -> Top(0)
                      [] Top(0).type = "string" /\ parsed # <<>> -> Number(parsed[1])
                      [] OTHER -> Nil)

\* The arguments are popped as they are printed, so the last comes first, each on a line; a
\* number does not go through coerce_to_string, and its word is printed without a sign.
op_print == \E n \in 1 .. MaxStack[group] :
  /\ Takes("values", "print", n)
  /\ "print" \notin Departs => \A i \in 0 .. n - 1 : Top(i).type = "number" => ~Negative(Top(i).word)
  /\ stack' = Drop(n)
  /\ printed' = [i \in 1 .. n |-> IF Top(i - 1).type = "number" THEN print_num(Top(i - 1).word)
                                  ELSE text_of(Top(i - 1))]

InitValues ==
  group \in Groups /\ stack = <<>> /\ did = "load" /\ printed = <<>>

NextValues ==
  \/ op_load \/ op_pop \/ op_add \/ op_sub \/ op_mul \/ op_div \/ op_mod \/ op_pow \/ op_neg \/ op_eq \/ op_ne
  \/ op_lt \/ op_le \/ op_gt \/ op_ge \/ op_not \/ op_concat \/ op_len \/ op_type \/ op_tostring
  \/ op_tonumber \/ op_print
=============================================================================
