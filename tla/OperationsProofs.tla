--------------------------- MODULE OperationsProofs ---------------------------
(***************************************************************************)
(* Proofs about the machine of values, tables and files, for every width of *)
(* the words, every capacity of a table and every program: its shape, the   *)
(* keys of the table, that the builtins are the service they promise, and  *)
(* that the machine implements Lua on meanings.                              *)
(***************************************************************************)
EXTENDS ArithmeticProofs

-----------------------------------------------------------------------------
(* Words. *)

(* Comparing signs first and then the words (op_lt, op_gt) is to compare    *)
(* the numbers they stand for.                                              *)
THEOREM LessIsSigned ==
  \A l, r \in Words : Less(l, r) <=> SignedOf(l) < SignedOf(r)
<1> TAKE l, r \in Words
<1>1. Half \in Nat /\ l \in Nat /\ r \in Nat /\ l < 2 * Half /\ r < 2 * Half
  BY ValueAssumption, SMT DEF Words
<1>2. CASE l >= Half /\ r >= Half
  BY <1>1, <1>2, SMT DEF Less, SignedOf, Negative
<1>3. CASE l >= Half /\ ~(r >= Half)
  BY <1>1, <1>3, SMT DEF Less, SignedOf, Negative
<1>4. CASE ~(l >= Half) /\ r >= Half
  BY <1>1, <1>4, SMT DEF Less, SignedOf, Negative
<1>5. CASE ~(l >= Half) /\ ~(r >= Half)
  BY <1>1, <1>5, SMT DEF Less, SignedOf, Negative
<1>6. QED
  BY <1>2, <1>3, <1>4, <1>5

(* The same of op_le and op_ge. *)
THEOREM AtMostIsSigned ==
  \A l, r \in Words : AtMost(l, r) <=> SignedOf(l) <= SignedOf(r)
<1> TAKE l, r \in Words
<1>1. Half \in Nat /\ l \in Nat /\ r \in Nat /\ l < 2 * Half /\ r < 2 * Half
  BY ValueAssumption, SMT DEF Words
<1>2. CASE l >= Half /\ r >= Half
  BY <1>1, <1>2, SMT DEF AtMost, SignedOf, Negative
<1>3. CASE l >= Half /\ ~(r >= Half)
  BY <1>1, <1>3, SMT DEF AtMost, SignedOf, Negative
<1>4. CASE ~(l >= Half) /\ r >= Half
  BY <1>1, <1>4, SMT DEF AtMost, SignedOf, Negative
<1>5. CASE ~(l >= Half) /\ ~(r >= Half)
  BY <1>1, <1>5, SMT DEF AtMost, SignedOf, Negative
<1>6. QED
  BY <1>2, <1>3, <1>4, <1>5

(* Adding words is adding numbers and keeping WordBits bits (op_add): the   *)
(* number of the sum differs from the sum of the numbers by no word or one. *)
THEOREM SumIsSigned ==
  \A l, r \in Words :
    LET sum == SignedOf(l) + SignedOf(r)
        res == SignedOf(Wrap(l + r))
    IN res = IF sum < -Half THEN sum + 2 * Half ELSE IF sum >= Half THEN sum - 2 * Half ELSE sum
<1> TAKE l, r \in Words
<1>1. Half \in Nat /\ Half > 0 /\ l \in Nat /\ r \in Nat /\ l < 2 * Half /\ r < 2 * Half
  BY ValueAssumption, SMT DEF Words
<1>2. Wrap(l + r) = IF l + r < 2 * Half THEN l + r ELSE l + r - 2 * Half
  <2>1. CASE l + r < 2 * Half
    BY <1>1, <2>1, SMT DEF Wrap
  <2>2. CASE ~(l + r < 2 * Half)
    <3>1. l + r - 2 * Half \in 0 .. 2 * Half - 1 /\ l + r = (l + r - 2 * Half) + 1 * (2 * Half)
      BY <1>1, <2>2, SMT
    <3>2. QED
      BY <1>1, <2>2, <3>1, SMT DEF Wrap
  <2>3. QED
    BY <2>1, <2>2
<1>3. CASE l >= Half /\ r >= Half
  BY <1>1, <1>2, <1>3, SMT DEF SignedOf, Negative
<1>4. CASE l >= Half /\ ~(r >= Half)
  BY <1>1, <1>2, <1>4, SMT DEF SignedOf, Negative
<1>5. CASE ~(l >= Half) /\ r >= Half
  BY <1>1, <1>2, <1>5, SMT DEF SignedOf, Negative
<1>6. CASE ~(l >= Half) /\ ~(r >= Half)
  BY <1>1, <1>2, <1>6, SMT DEF SignedOf, Negative
<1>7. QED
  BY <1>3, <1>4, <1>5, <1>6

-----------------------------------------------------------------------------
(* Tables. *)

LEMMA LiteralValues ==
  /\ Nil \in Value /\ Table \in Value
  /\ \A n \in Int : Number(Wrap(n)) \in Value
  /\ \A g \in Groups : \A v \in Literals[g] : v \in Value
<1>1. 0 \in Words /\ <<>> \in Text
  BY ValueAssumption, SMT DEF Words, Text
<1>2. QED
  BY <1>1, WrapWord, ValueAssumption, TableAssumption DEF Nil, Table, Number, Value, Types

(* What the top of a stack of values is, and what is left without it. *)
LEMMA TopAndRest ==
  ASSUME stack \in Seq(Value), NEW n \in Nat, n <= Len(stack)
  PROVE  /\ Drop(n) \in Seq(Value)
         /\ \A v \in Value : Append(Drop(n), v) \in Seq(Value)
         /\ \A i \in 0 .. Len(stack) - 1 : Top(i) \in Value
<1>1. Len(stack) \in Nat /\ stack \in [1 .. Len(stack) -> Value]
  BY LenProperties
<1>2. Drop(n) \in Seq(Value)
  BY <1>1, SubSeqProperties DEF Drop
<1>3. \A v \in Value : Append(Drop(n), v) \in Seq(Value)
  BY <1>2
<1>4. \A i \in 0 .. Len(stack) - 1 : Top(i) \in Value
  BY <1>1 DEF Top
<1>5. QED
  BY <1>2, <1>3, <1>4

(* The search stops at an entry it found. *)
LEMMA FirstIsFound ==
  ASSUME NEW S \in SUBSET Nat, S # {}
  PROVE  FirstOf(S) \in S /\ \A j \in S : FirstOf(S) <= j
BY LeastElement DEF FirstOf

(* Keys that mean the same match, so a search for either finds the other.   *)
LEMMA SameMeaningMatches ==
  ASSUME NEW k \in Value, NEW l \in Value, Meaning(k) = Meaning(l)
  PROVE  Matches(k, l)
<1>1. k.type = l.type /\ k.text = l.text
  BY DEF Meaning
<1>2. CASE k.type = "string"
  BY <1>1, <1>2 DEF Matches
<1>3. CASE k.type = "number"
  <2>1. /\ Half \in Nat /\ k.word \in Nat /\ l.word \in Nat
        /\ k.word < 2 * Half /\ l.word < 2 * Half
    BY ValueAssumption, SMT DEF Value, Words
  <2>2. SignedOf(k.word) = SignedOf(l.word)
    BY <1>1, <1>3 DEF Meaning, SignedOf
  <2>3. k.word = l.word
    BY <2>1, <2>2, SMT DEF SignedOf, Negative
  <2>4. QED
    BY <1>1, <2>3 DEF Matches
<1>4. CASE k.type \notin {"string", "number"}
  BY <1>1, <1>4 DEF Matches, Meaning
<1>5. QED
  BY <1>2, <1>3, <1>4

\* In a program that has tables all values are words with a type, in the table too, and the
\* keys are distinct; in any other the table has no entries.
TableInv ==
  /\ group \in Groups
  /\ group # "tables" => entries = <<>>
  /\ group = "tables" => stack \in Seq(Value) /\ entries \in Seq(Entry)
  /\ KeysDistinct

LEMMA StoredInv ==
  ASSUME entries \in Seq(Entry), KeysDistinct, NEW k \in Value, NEW v \in Value,
         entries' = Stored(k, v)
  PROVE  entries' \in Seq(Entry) /\ KeysDistinct'
<1>1. Len(entries) \in Nat /\ entries \in [1 .. Len(entries) -> Entry] /\ DOMAIN entries = 1 .. Len(entries)
  BY LenProperties
<1>2. Capacity \in Nat
  BY TableAssumption
<1>3. CASE Found(k) # {}
  <2>1. FirstOf(Found(k)) \in DOMAIN entries
    <3>1. Found(k) \in SUBSET Nat
      BY <1>1 DEF Found
    <3>2. QED
      BY <1>3, <3>1, FirstIsFound DEF Found
  <2>2. entries' = [entries EXCEPT ![FirstOf(Found(k))].val = v]
    BY <1>3 DEF Stored
  <2> DEFINE f == FirstOf(Found(k))
  <2>3. entries' = [entries EXCEPT ![f] = [entries[f] EXCEPT !.val = v]]
    BY <2>2
  <2>4. [entries[f] EXCEPT !.val = v] \in Entry
    BY <1>1, <2>1 DEF Entry
  <2>5. entries' \in Seq(Entry) /\ Len(entries') = Len(entries)
    BY <2>1, <2>3, <2>4, ExceptSeq
  <2>6. DOMAIN entries' = DOMAIN entries /\ \A i \in DOMAIN entries : entries'[i].key = entries[i].key
    BY <1>1, <2>1, <2>3 DEF Entry
  <2>7. QED
    BY <2>5, <2>6 DEF KeysDistinct
<1>4. CASE Found(k) = {} /\ Len(entries) < Capacity
  <2> DEFINE e == [key |-> k, val |-> v]
  <2>1. entries' = Append(entries, e)
    BY <1>4 DEF Stored
  <2>2. e \in Entry
    BY DEF Entry
  <2>3. /\ entries' \in Seq(Entry) /\ Len(entries') = Len(entries) + 1
        /\ DOMAIN entries' = 1 .. Len(entries) + 1
        /\ entries'[Len(entries) + 1] = e
        /\ \A i \in 1 .. Len(entries) : entries'[i] = entries[i]
    BY <2>1, <2>2, AppendProperties, LenProperties
  <2>4. \A i \in 1 .. Len(entries) : Meaning(entries[i].key) # Meaning(k)
    BY <1>1, <1>4, SameMeaningMatches DEF Found, Entry
  <2>5. ASSUME NEW i \in DOMAIN entries', NEW j \in DOMAIN entries',
               Meaning(entries'[i].key) = Meaning(entries'[j].key)
        PROVE  i = j
    <3>1. CASE i # Len(entries) + 1 /\ j # Len(entries) + 1
      <4>1. i \in 1 .. Len(entries) /\ j \in 1 .. Len(entries)
        BY <1>1, <2>3, <3>1
      <4>2. QED
        BY <1>1, <2>3, <2>5, <4>1 DEF KeysDistinct
    <3>2. CASE i = Len(entries) + 1 /\ j # Len(entries) + 1
      <4>1. j \in 1 .. Len(entries)
        BY <1>1, <2>3, <3>2
      <4>2. QED
        BY <2>3, <2>4, <2>5, <3>2, <4>1
    <3>3. CASE i # Len(entries) + 1 /\ j = Len(entries) + 1
      <4>1. i \in 1 .. Len(entries)
        BY <1>1, <2>3, <3>3
      <4>2. QED
        BY <2>3, <2>4, <2>5, <3>3, <4>1
    <3>4. QED
      BY <3>1, <3>2, <3>3
  <2>6. Len(entries') <= Capacity
    BY <1>1, <1>2, <1>4, <2>3
  <2>7. QED
    BY <2>3, <2>5, <2>6 DEF KeysDistinct, Meaning, Negative
<1>5. CASE Found(k) = {} /\ ~(Len(entries) < Capacity)
  BY <1>5 DEF Stored, KeysDistinct, Meaning, Negative
<1>6. QED
  BY <1>3, <1>4, <1>5

-----------------------------------------------------------------------------
(* The steps. *)

LEMMA NoEntriesDistinct == entries = <<>> => KeysDistinct
BY TableAssumption DEF KeysDistinct

LEMMA SameEntriesDistinct == KeysDistinct /\ entries' = entries => KeysDistinct'
BY DEF KeysDistinct, Meaning, Negative

\* Loading a value and dropping one are the operations on values that a program with tables has.
LEMMA LoadPreserves ==
  ASSUME TableInv, op_load, entries' = entries
  PROVE  TableInv'
<1>1. KeysDistinct'
  BY SameEntriesDistinct DEF TableInv
<1>2. group = "tables" => stack' \in Seq(Value)
  BY LiteralValues DEF TableInv, op_load
<1>3. QED
  BY <1>1, <1>2 DEF TableInv, op_load

LEMMA PopPreserves ==
  ASSUME TableInv, op_pop, entries' = entries
  PROVE  TableInv'
<1>1. KeysDistinct'
  BY SameEntriesDistinct DEF TableInv
<1>2. group = "tables" => stack' \in Seq(Value)
  BY TopAndRest DEF TableInv, op_pop
<1>3. QED
  BY <1>1, <1>2 DEF TableInv, op_pop

\* No other operation on values runs in a program with tables.
LEMMA OtherValueSteps ==
  ASSUME NextValues, ~op_load, ~op_pop
  PROVE  group = "values" /\ group' = group
<1> DEFINE Goal == group = "values" /\ group' = group
<1>1. \A o, v : Binary(o, v) \/ Unary(o, v) => Goal
  BY DEF Binary, Unary, Takes
<1>2. op_add \/ op_sub \/ op_mul \/ op_div \/ op_mod \/ op_pow \/ op_neg => Goal
  BY <1>1, Zenon DEF op_add, op_sub, op_mul, op_div, op_mod, op_pow, op_neg
<1>3. op_eq \/ op_ne \/ op_lt \/ op_le \/ op_gt \/ op_ge \/ op_not => Goal
  BY <1>1, Zenon DEF op_eq, op_ne, op_lt, op_le, op_gt, op_ge, op_not
<1>4. op_concat \/ op_len \/ op_type \/ op_tostring \/ op_tonumber => Goal
  BY <1>1, Zenon DEF op_concat, op_len, op_type, op_tostring, op_tonumber
<1>5. op_print => Goal
  BY DEF op_print, Takes
<1>6. QED
  BY <1>2, <1>3, <1>4, <1>5, Zenon DEF NextValues

LEMMA FileStepsKeep ==
  ASSUME FileSteps
  PROVE  group = "files" /\ group' = group /\ entries' = entries
<1> DEFINE Goal == group = "files" /\ group' = group /\ entries' = entries
<1>1. \A name, n, path, handle, data, v : Answers(name, n, path, handle, data, v) => Goal
  BY DEF Answers, Takes
<1>2. \A name, n, path, handle, data, t : AnswersText(name, n, path, handle, data, t) => Goal
  BY <1>1, Zenon DEF AnswersText
<1>3. op_input => Goal
  BY <1>1, <1>2, Zenon DEF op_input
<1>4. op_readfile => Goal
  BY <1>1, <1>2, Zenon DEF op_readfile, read_file_string
<1>5. op_writefile => Goal
  BY <1>1, Zenon DEF op_writefile, write_file_string
<1>6. op_open => Goal
  BY <1>1, Zenon DEF op_open
<1>7. op_read => Goal
  BY <1>1, <1>2, Zenon DEF op_read
<1>8. op_write => Goal
  BY <1>1, Zenon DEF op_write
<1>9. op_close => Goal
  BY <1>1, Zenon DEF op_close
<1>10. QED
  BY <1>3, <1>4, <1>5, <1>6, <1>7, <1>8, <1>9, Zenon DEF FileSteps

LEMMA TablePreserves ==
  ASSUME TableInv, TableSteps
  PROVE  TableInv'
<1>1. group = "tables" /\ group' = group
  BY DEF TableSteps, op_newtable, op_settable, op_gettable, op_len_table, op_load_table, Takes
<1>2. stack \in Seq(Value) /\ entries \in Seq(Entry) /\ KeysDistinct
  BY <1>1 DEF TableInv
<1>3. Len(stack) \in Nat /\ Len(entries) \in Nat
  BY <1>2, LenProperties
<1>4. CASE op_newtable
  <2>1. stack' \in Seq(Value)
    BY <1>2, <1>3, <1>4, LiteralValues, TopAndRest DEF op_newtable, Gives
  <2>2. entries' = <<>> /\ entries' \in Seq(Entry)
    BY <1>4 DEF op_newtable
  <2>3. KeysDistinct'
    BY <2>2, TableAssumption DEF KeysDistinct
  <2>4. QED
    BY <1>1, <2>1, <2>2, <2>3 DEF TableInv
<1>5. CASE op_settable
  <2>1. Len(stack) >= 3 /\ entries' = Stored(Top(1), Top(0)) /\ stack' = Drop(3)
    BY <1>5 DEF op_settable, Takes
  <2>2. stack' \in Seq(Value) /\ Top(0) \in Value /\ Top(1) \in Value
    BY <1>2, <1>3, <2>1, TopAndRest
  <2>3. entries' \in Seq(Entry) /\ KeysDistinct'
    BY <1>2, <2>1, <2>2, StoredInv
  <2>4. QED
    BY <1>1, <2>2, <2>3 DEF TableInv
<1>6. CASE op_gettable
  <2>1. Len(stack) >= 2 /\ entries' = entries
    BY <1>6 DEF op_gettable, Takes
  <2> DEFINE S == Found(Top(0))
             v == IF S = {} THEN Nil ELSE entries[FirstOf(S)].val
  <2>2. v \in Value
    <3>1. CASE S = {}
      BY <3>1, LiteralValues
    <3>2. CASE S # {}
      <4>1. DOMAIN entries = 1 .. Len(entries) /\ \A i \in DOMAIN entries : entries[i] \in Entry
        BY <1>2, LenProperties, ElementOfSeq
      <4>2. S \in SUBSET Nat /\ S \subseteq DOMAIN entries
        BY <1>3, <4>1 DEF Found
      <4>3. FirstOf(S) \in DOMAIN entries
        BY <3>2, <4>2, FirstIsFound
      <4>4. QED
        BY <3>2, <4>1, <4>3 DEF Entry
    <3>3. QED
      BY <3>1, <3>2
  <2>3. stack' = Append(Drop(2), v)
    BY <1>6 DEF op_gettable, Gives
  <2>4. stack' \in Seq(Value)
    BY <1>2, <1>3, <2>1, <2>2, <2>3, TopAndRest
  <2>5. QED
    BY <1>1, <1>2, <2>1, <2>4, SameEntriesDistinct DEF TableInv
<1>7. CASE op_len_table
  <2>1. Len(stack) >= 1 /\ entries' = entries /\ stack' = Append(Drop(1), Number(Wrap(Counted)))
    BY <1>7 DEF op_len_table, Takes, Gives
  <2>2. Counted \in Int
    <3>1. {n \in 1 .. Len(entries) : \A i \in 1 .. n : HasNumber(i)} \subseteq 1 .. Len(entries)
      OBVIOUS
    <3>2. IsFiniteSet(1 .. Len(entries))
      BY <1>3, FS_Interval
    <3>3. Counted \in Nat
      BY <3>1, <3>2, FS_Subset, FS_CardinalityType DEF Counted
    <3>4. QED
      BY <3>3
  <2>3. stack' \in Seq(Value)
    BY <1>2, <1>3, <2>1, <2>2, LiteralValues, TopAndRest
  <2>4. QED
    BY <1>1, <1>2, <2>1, <2>3, SameEntriesDistinct DEF TableInv
<1>8. CASE op_load_table
  <2>1. stack' = Append(Drop(0), Table) /\ entries' = entries
    BY <1>8 DEF op_load_table, Gives
  <2>2. stack' \in Seq(Value)
    BY <1>2, <1>3, <2>1, LiteralValues, TopAndRest
  <2>3. QED
    BY <1>1, <1>2, <2>1, <2>2, SameEntriesDistinct DEF TableInv
<1>9. QED
  BY <1>4, <1>5, <1>6, <1>7, <1>8 DEF TableSteps

LEMMA NextPreserves ==
  ASSUME TableInv, [Next]_vars
  PROVE  TableInv'
<1>1. CASE NextValues /\ UNCHANGED entries
  <2>1. CASE op_load
    BY <1>1, <2>1, LoadPreserves
  <2>2. CASE op_pop
    BY <1>1, <2>2, PopPreserves
  <2>3. CASE ~op_load /\ ~op_pop
    <3>1. group = "values" /\ group' = group
      BY <1>1, <2>3, OtherValueSteps
    <3>2. QED
      BY <1>1, <3>1, SameEntriesDistinct DEF TableInv
  <2>4. QED
    BY <2>1, <2>2, <2>3
<1>2. CASE TableSteps
  BY <1>2, TablePreserves
<1>3. CASE FileSteps
  <2>1. group = "files" /\ group' = group /\ entries' = entries
    BY <1>3, FileStepsKeep
  <2>2. QED
    BY <2>1, SameEntriesDistinct DEF TableInv
<1>4. CASE UNCHANGED vars
  BY <1>4, SameEntriesDistinct DEF TableInv, vars, values
<1>5. QED
  BY <1>1, <1>2, <1>3, <1>4 DEF Next, OtherSteps, NextTables

LEMMA InitTableInv == Init => TableInv
BY NoEntriesDistinct DEF Init, InitTables, InitValues, TableInv

(* No table ever holds two entries for one key, nor more than fit, whatever *)
(* is assigned to which key through which string object.                    *)
THEOREM OneEntryPerKey == Spec => []KeysDistinct
<1>1. TableInv => KeysDistinct
  BY DEF TableInv
<1>2. QED
  BY InitTableInv, NextPreserves, <1>1, PTL DEF Spec

-----------------------------------------------------------------------------
(* Types. *)

LEMMA SmallWords ==
  /\ \A k \in 0 .. 12 : k \in Words
  /\ \A k \in 0 .. 10 : <<Radix + k>> \in Text
  /\ <<>> \in Text
<1>1. \A k \in 0 .. 12 : k \in Words
  BY WordsAre
<1>2. ASSUME NEW k \in 0 .. 10 PROVE <<Radix + k>> \in Text
  <2>1. Radix + k \in Char
    BY Chars
  <2>2. QED
    BY <2>1 DEF Text
<1>3. QED
  BY <1>1, <1>2 DEF Text

LEMMA FixedValues ==
  /\ Nil \in Value /\ \A b \in BOOLEAN : Bool(b) \in Value /\ Truth(b) \in Value
  /\ \A w \in Words : Number(w) \in Value
  /\ \A k \in 1 .. 8 : Fixed(k) \in Value
  /\ Empty \in Value
<1>1. 0 \in Words /\ 1 \in Words /\ 9 \in Words /\ \A k \in 1 .. 8 : k \in Words
  BY SmallWords
<1>2. <<>> \in Text /\ \A k \in 1 .. 8 : <<Radix + k>> \in Text
  BY SmallWords
<1>3. \A k \in 1 .. 8 : Fixed(k) \in Value
  BY <1>1, <1>2 DEF Fixed, String, Value, Types
<1>4. \A b \in BOOLEAN : Bool(b) \in Value /\ Truth(b) \in Value
  BY <1>1, <1>2, <1>3 DEF Bool, Value, Types, Truth
<1>5. Nil \in Value /\ Empty \in Value /\ \A w \in Words : Number(w) \in Value
  BY <1>1, <1>2 DEF Nil, Empty, String, Number, Value, Types
<1>6. QED
  BY <1>3, <1>4, <1>5

LEMMA NamesTyped ==
  ASSUME NEW v \in Value
  PROVE  TypeName(v) \in Value /\ ValueName(v) \in Value
<1>1. \E k \in 1 .. 6 : TypeName(v) = Fixed(k)
  BY DEF TypeName
<1>2. TypeName(v) \in Value
  BY <1>1, FixedValues
<1>3. 10 \in Words /\ 11 \in Words /\ 12 \in Words /\ TypeName(v).text \in Text
  BY <1>2, SmallWords DEF Value
<1>4. QED
  BY <1>2, <1>3 DEF ValueName, String, Value, Types

LEMMA MadeTyped ==
  ASSUME NEW t \in Text
  PROVE  /\ Made(t) \subseteq Value
         /\ \A s \in Made(t) : s.type = "string" /\ s.text = t
<1>1. CASE t = <<>>
  BY <1>1, FixedValues DEF Made, Empty, String
<1>2. CASE t # <<>>
  <2>1. Heap \subseteq Words
    BY ValueAssumption
  <2>2. QED
    BY <1>2, <2>1 DEF Made, String, Value, Types
<1>3. QED
  BY <1>1, <1>2

LEMMA CoercionTyped ==
  ASSUME NEW v \in Value
  PROVE  coerce_to_string(v) \subseteq Value /\ text_of(v) \in Text
<1>1. v.word \in Words /\ v.text \in Text
  BY DEF Value
<1>2. number_to_string(v.word) \in Text
  BY <1>1, NumberToText
<1>3. CASE v.type = "string"
  <2>1. coerce_to_string(v) = {v}
    BY <1>3 DEF coerce_to_string
  <2>2. text_of(v) = v.text
    BY <1>3, <2>1 DEF text_of
  <2>3. QED
    BY <1>1, <2>1, <2>2
<1>4. CASE v.type = "number"
  <2>1. coerce_to_string(v) = Made(number_to_string(v.word))
    BY <1>4 DEF coerce_to_string
  <2>2. text_of(v) = number_to_string(v.word)
    BY <1>4 DEF text_of
  <2>3. QED
    BY <1>2, <2>1, <2>2, MadeTyped
<1>5. CASE v.type = "bool"
  <2>1. PICK b \in BOOLEAN : b = (v.word # 0)
    OBVIOUS
  <2>2. coerce_to_string(v) = {Truth(b)} /\ Truth(b) \in Value
    BY <1>5, <2>1, FixedValues DEF coerce_to_string
  <2>3. text_of(v) = Truth(b).text
    BY <1>5, <2>2 DEF text_of
  <2>4. QED
    BY <2>2, <2>3 DEF Value
<1>6. CASE v.type \notin {"string", "number", "bool"}
  <2>1. coerce_to_string(v) = {ValueName(v)} /\ ValueName(v) \in Value
    BY <1>6, NamesTyped DEF coerce_to_string
  <2>2. text_of(v) = ValueName(v).text
    BY <1>6, <2>1 DEF text_of
  <2>3. QED
    BY <2>1, <2>2 DEF Value
<1>7. QED
  BY <1>3, <1>4, <1>5, <1>6

\* The stack and what is written.
StackOK ==
  /\ group \in Groups
  /\ stack \in Seq(Value) /\ Len(stack) <= MaxStack[group]
  /\ printed \in Seq(Text)

\* Values are taken off the stack and one, or none, takes their place.
LEMMA DropTyped ==
  ASSUME StackOK, NEW n \in Nat, n <= Len(stack)
  PROVE  /\ Drop(n) \in Seq(Value) /\ Len(Drop(n)) = Len(stack) - n /\ Len(stack) \in Nat
         /\ Len(Drop(n)) <= MaxStack[group]
         /\ \A i \in 1 .. Len(stack) - n : Drop(n)[i] = stack[i]
         /\ \A i \in 0 .. Len(stack) - 1 : Top(i) \in Value
<1>1. stack \in Seq(Value) /\ Len(stack) \in Nat /\ MaxStack[group] \in Nat /\ Len(stack) <= MaxStack[group]
  BY LenProperties, ValueAssumption DEF StackOK
<1>2. Drop(n) \in Seq(Value) /\ \A i \in 0 .. Len(stack) - 1 : Top(i) \in Value
  BY <1>1, TopAndRest
<1>3. Len(Drop(n)) = Len(stack) - n /\ \A i \in 1 .. Len(stack) - n : Drop(n)[i] = stack[i]
  <2>1. \A s \in Seq(Value) : \A m \in 0 .. Len(s) :
          Len(SubSeq(s, 1, m)) = m /\ \A i \in 1 .. m : SubSeq(s, 1, m)[i] = s[i]
    OBVIOUS
  <2>2. Len(stack) - n \in 0 .. Len(stack)
    BY <1>1
  <2>3. QED
    BY <1>1, <2>1, <2>2 DEF Drop
<1>4. QED
  BY <1>1, <1>2, <1>3

LEMMA PushTyped ==
  ASSUME StackOK, NEW n \in Nat, n <= Len(stack), NEW v \in Value, n > 0 \/ Len(stack) < MaxStack[group]
  PROVE  /\ Append(Drop(n), v) \in Seq(Value) /\ Len(Append(Drop(n), v)) = Len(stack) - n + 1
         /\ Len(Append(Drop(n), v)) <= MaxStack[group]
         /\ Append(Drop(n), v)[Len(stack) - n + 1] = v
         /\ \A i \in 1 .. Len(stack) - n : Append(Drop(n), v)[i] = stack[i]
<1>1. Drop(n) \in Seq(Value) /\ Len(Drop(n)) = Len(stack) - n /\ Len(stack) \in Nat
  BY DropTyped
<1>2. MaxStack[group] \in Nat /\ Len(stack) <= MaxStack[group]
  BY ValueAssumption DEF StackOK
<1>3. PICK d \in Seq(Value) : d = Drop(n) /\ Len(d) = Len(stack) - n /\ \A i \in 1 .. Len(stack) - n : d[i] = stack[i]
  BY <1>1, DropTyped
<1>4. /\ Append(d, v) \in Seq(Value) /\ Len(Append(d, v)) = Len(d) + 1 /\ Append(d, v)[Len(d) + 1] = v
      /\ \A i \in 1 .. Len(d) : Append(d, v)[i] = d[i]
  BY AppendProperties
<1>5. QED
  BY <1>1, <1>2, <1>3, <1>4

LEMMA GivesTyped ==
  ASSUME StackOK, NEW n \in Nat, n <= Len(stack), NEW v \in Value, n > 0 \/ Len(stack) < MaxStack[group],
         stack' = Append(Drop(n), v), group' = group, printed' \in Seq(Text)
  PROVE  StackOK'
BY PushTyped DEF StackOK

LEMMA BinaryTyped ==
  ASSUME StackOK, NEW o, NEW v \in Value, Binary(o, v) \/ Unary(o, v)
  PROVE  StackOK'
<1>1. <<>> \in Seq(Text)
  OBVIOUS
<1>2. CASE Binary(o, v)
  <2>1. group' = group /\ 2 <= Len(stack) /\ stack' = Append(Drop(2), v) /\ printed' = <<>>
    BY <1>2, LenProperties DEF Binary, Takes, Gives, StackOK
  <2>2. QED
    BY <1>1, <2>1, GivesTyped
<1>3. CASE Unary(o, v)
  <2>1. group' = group /\ 1 <= Len(stack) /\ stack' = Append(Drop(1), v) /\ printed' = <<>>
    BY <1>3, LenProperties DEF Unary, Takes, Gives, StackOK
  <2>2. QED
    BY <1>1, <2>1, GivesTyped
<1>4. QED
  BY <1>2, <1>3

\* The results of the operations on numbers.
LEMMA WordResults ==
  ASSUME NEW l \in Words, NEW r \in Words
  PROVE  /\ Wrap(l + r) \in Words /\ Wrap(l - r) \in Words /\ mul16(l, r) \in Words /\ power(l, r) \in Words
         /\ Negate(r) \in Words
         /\ (IF r = 0 THEN 0 ELSE Quotient(l, r)) \in Words /\ (IF r = 0 THEN 0 ELSE Remainder(l, r)) \in Words
<1>1. Wrap(l + r) \in Words /\ Wrap(l - r) \in Words /\ 0 \in Words
  <2>1. l + r \in Int /\ l - r \in Int
    BY WordsAre
  <2>2. QED
    BY <2>1, WrapWord, WordsAre
<1>2. mul16(l, r) \in Words /\ power(l, r) \in Words /\ Negate(r) \in Words
  BY ProductIsSigned, PowerIsSigned, NegateIs
<1>3. r # 0 => Quotient(l, r) \in Words /\ Remainder(l, r) \in Words
  BY QuotientIsDiv
<1>4. QED
  BY <1>1, <1>2, <1>3


LEMMA ArithmeticTyped ==
  ASSUME StackOK, op_add \/ op_sub \/ op_mul \/ op_div \/ op_mod \/ op_pow \/ op_neg
  PROVE  StackOK'
<1>1. ASSUME NEW a \in Value, NEW b \in Value
      PROVE  /\ [b EXCEPT !.word = Wrap(a.word + @)] \in Value /\ [b EXCEPT !.word = Wrap(a.word - @)] \in Value
             /\ Number(mul16(a.word, b.word)) \in Value
             /\ Number(IF b.word = 0 THEN 0 ELSE Quotient(a.word, b.word)) \in Value
             /\ Number(IF b.word = 0 THEN 0 ELSE Remainder(a.word, b.word)) \in Value
             /\ Number(power(a.word, b.word)) \in Value
             /\ Number(Negate(b.word)) \in Value
  <2>1. PICK l \in Words, r \in Words : l = a.word /\ r = b.word
    BY DEF Value
  <2>2. [b EXCEPT !.word = Wrap(l + r)] \in Value /\ [b EXCEPT !.word = Wrap(l - r)] \in Value
    <3>1. \A w \in Words : [b EXCEPT !.word = w] \in Value
      BY DEF Value
    <3>2. QED
      BY <3>1, WordResults
  <2>3. /\ Number(mul16(l, r)) \in Value /\ Number(power(l, r)) \in Value /\ Number(Negate(r)) \in Value
        /\ Number(IF r = 0 THEN 0 ELSE Quotient(l, r)) \in Value
        /\ Number(IF r = 0 THEN 0 ELSE Remainder(l, r)) \in Value
    BY WordResults, FixedValues
  <2>4. QED
    BY <2>1, <2>2, <2>3
<1>2. Len(stack) \in Nat /\ (Len(stack) >= 1 => Top(0) \in Value) /\ (Len(stack) >= 2 => Top(1) \in Value)
  <2>1. Len(stack) \in Nat
    BY LenProperties DEF StackOK
  <2>2. \A i \in 0 .. Len(stack) - 1 : Top(i) \in Value
    BY <2>1, DropTyped
  <2>3. QED
    BY <2>1, <2>2
<1>3. ASSUME op_add \/ op_sub \/ op_mul \/ op_div \/ op_mod \/ op_pow
      PROVE  \E o : \E v \in Value : Binary(o, v)
  <2>1. Len(stack) >= 2
    BY <1>3 DEF op_add, op_sub, op_mul, op_div, op_mod, op_pow
  <2>2. PICK a \in Value, b \in Value : a = Top(1) /\ b = Top(0)
    BY <1>2, <2>1
  <2>3. op_add => Binary("add", [b EXCEPT !.word = Wrap(a.word + @)])
    BY <2>2 DEF op_add
  <2>4. op_sub => Binary("sub", [b EXCEPT !.word = Wrap(a.word - @)])
    BY <2>2 DEF op_sub
  <2>5. op_mul => Binary("mul", Number(mul16(a.word, b.word)))
    BY <2>2 DEF op_mul
  <2>6. op_div => Binary("div", Number(IF b.word = 0 THEN 0 ELSE Quotient(a.word, b.word)))
    BY <2>2 DEF op_div
  <2>7. op_mod => Binary("mod", Number(IF b.word = 0 THEN 0 ELSE Remainder(a.word, b.word)))
    BY <2>2 DEF op_mod
  <2>8. op_pow => Binary("pow", Number(power(a.word, b.word)))
    BY <2>2 DEF op_pow
  <2>9. /\ [b EXCEPT !.word = Wrap(a.word + @)] \in Value /\ [b EXCEPT !.word = Wrap(a.word - @)] \in Value
        /\ Number(mul16(a.word, b.word)) \in Value
        /\ Number(IF b.word = 0 THEN 0 ELSE Quotient(a.word, b.word)) \in Value
        /\ Number(IF b.word = 0 THEN 0 ELSE Remainder(a.word, b.word)) \in Value
        /\ Number(power(a.word, b.word)) \in Value
    BY <1>1, Zenon
  <2>10. QED
    BY <1>3, <2>3, <2>4, <2>5, <2>6, <2>7, <2>8, <2>9, Zenon
<1>4. op_neg => \E v \in Value : Unary("neg", v)
  <2>1. ASSUME op_neg PROVE Top(0) \in Value /\ Unary("neg", Number(Negate(Top(0).word)))
    BY <1>2, <2>1 DEF op_neg
  <2>2. ASSUME op_neg PROVE Number(Negate(Top(0).word)) \in Value
    BY <1>1, <2>1, <2>2
  <2>3. QED
    BY <2>1, <2>2
<1>5. QED
  BY <1>3, <1>4, BinaryTyped, Zenon

LEMMA ComparisonTyped ==
  ASSUME StackOK, op_eq \/ op_ne \/ op_lt \/ op_le \/ op_gt \/ op_ge \/ op_not
  PROVE  StackOK'
<1>1. \A x : Bool(x) = Bool(x = TRUE)
  BY DEF Bool
<1>2. \A x : Bool(x) \in Value
  <2> TAKE x
  <2>1. PICK b \in BOOLEAN : b = (x = TRUE)
    OBVIOUS
  <2>2. QED
    BY <1>1, <2>1, FixedValues
<1>3. op_eq => \E v \in Value : Binary("eq", v)
  BY <1>2 DEF op_eq
<1>4. op_ne => \E v \in Value : Binary("ne", v)
  BY <1>2 DEF op_ne
<1>5. op_lt => \E v \in Value : Binary("lt", v)
  BY <1>2 DEF op_lt
<1>6. op_le => \E v \in Value : Binary("le", v)
  BY <1>2 DEF op_le
<1>7. op_gt => \E v \in Value : Binary("gt", v)
  BY <1>2 DEF op_gt
<1>8. op_ge => \E v \in Value : Binary("ge", v)
  BY <1>2 DEF op_ge
<1>9. op_not => \E v \in Value : Unary("not", v)
  BY <1>2 DEF op_not
<1>10. QED
  BY <1>3, <1>4, <1>5, <1>6, <1>7, <1>8, <1>9, BinaryTyped

LEMMA TextOpsTyped ==
  ASSUME StackOK, op_concat \/ op_len \/ op_type \/ op_tostring \/ op_tonumber
  PROVE  StackOK'
<1>1. Len(stack) \in Nat /\ (Len(stack) >= 1 => Top(0) \in Value) /\ (Len(stack) >= 2 => Top(1) \in Value)
  <2>1. Len(stack) \in Nat
    BY LenProperties DEF StackOK
  <2>2. \A i \in 0 .. Len(stack) - 1 : Top(i) \in Value
    BY <2>1, DropTyped
  <2>3. QED
    BY <2>1, <2>2
<1>2. op_concat => \E v \in Value : Binary("concat", v)
  <2>1. SUFFICES ASSUME op_concat PROVE \E v \in Value : Binary("concat", v)
    OBVIOUS
  <2>2. PICK s, t : s = text_of(Top(1)) /\ t = text_of(Top(0))
    OBVIOUS
  <2>3. s \in Seq(Char) /\ t \in Seq(Char)
    BY <1>1, <2>1, <2>2, CoercionTyped DEF op_concat, Text
  <2>4. s \o t \in Text
    BY <2>3, ConcatProperties DEF Text
  <2>5. \E v \in Made(s \o t) : Binary("concat", v)
    BY <2>1, <2>2 DEF op_concat
  <2>6. QED
    BY <2>4, <2>5, MadeTyped
<1>3. op_len => \E v \in Value : Unary("len", v)
  <2>1. SUFFICES ASSUME op_len PROVE \E v \in Value : Unary("len", v)
    OBVIOUS
  <2>2. PICK b \in Value : b = Top(0)
    BY <1>1, <2>1 DEF op_len
  <2>3. (IF b.type = "string" THEN Wrap(Len(b.text)) ELSE 0) \in Words
    <3>1. Len(b.text) \in Int
      BY LenProperties DEF Value, Text
    <3>2. QED
      BY <3>1, WrapWord, WordsAre
  <2>4. Unary("len", Number(IF b.type = "string" THEN Wrap(Len(b.text)) ELSE 0))
    BY <2>1, <2>2 DEF op_len
  <2>5. QED
    BY <2>3, <2>4, FixedValues
<1>4. op_type => \E v \in Value : Unary("type", v)
  BY <1>1, NamesTyped DEF op_type
<1>5. op_tostring => \E v \in Value : Unary("tostring", v)
  BY <1>1, CoercionTyped DEF op_tostring
<1>6. op_tonumber => \E v \in Value : Unary("tonumber", v)
  <2>1. SUFFICES ASSUME op_tonumber PROVE \E v \in Value : Unary("tonumber", v)
    OBVIOUS
  <2>2. PICK b \in Value : b = Top(0)
    BY <1>1, <2>1 DEF op_tonumber
  <2>3. PICK parsed : parsed = string_to_number(b.text)
    OBVIOUS
  <2>4. Unary("tonumber", CASE b.type = "number" -> b
                            [] b.type = "string" /\ parsed # <<>> -> Number(parsed[1])
                            [] OTHER -> Nil)
    BY <2>1, <2>2, <2>3, Zenon DEF op_tonumber
  <2>5. parsed # <<>> => parsed[1] \in Words
    <3>1. b.text \in Text
      BY DEF Value
    <3>2. parsed = <<>> \/ \E w \in Words : parsed = <<w>>
      BY <2>3, <3>1, TextToNumber
    <3>3. QED
      BY <3>2
  <2>6. (CASE b.type = "number" -> b
          [] b.type = "string" /\ parsed # <<>> -> Number(parsed[1])
          [] OTHER -> Nil) \in Value
    BY <2>5, FixedValues
  <2>7. QED
    BY <2>4, <2>6
<1>7. QED
  BY <1>2, <1>3, <1>4, <1>5, <1>6, BinaryTyped

LEMMA PrintTyped ==
  ASSUME StackOK, op_print
  PROVE  StackOK'
<1>1. PICK n \in 1 .. MaxStack[group] :
        /\ Takes("values", "print", n) /\ stack' = Drop(n)
        /\ printed' = [i \in 1 .. n |-> IF Top(i - 1).type = "number" THEN print_num(Top(i - 1).word)
                                        ELSE text_of(Top(i - 1))]
  BY DEF op_print
<1>2. n \in Nat /\ n <= Len(stack) /\ group' = group /\ Len(stack) \in Nat
  BY <1>1, LenProperties, ValueAssumption DEF Takes, StackOK
<1>3. stack' \in Seq(Value) /\ Len(stack') <= MaxStack[group]
  BY <1>1, <1>2, DropTyped
<1>4. ASSUME NEW i \in 1 .. n
      PROVE  (IF Top(i - 1).type = "number" THEN print_num(Top(i - 1).word) ELSE text_of(Top(i - 1))) \in Text
  <2>1. i - 1 \in 0 .. Len(stack) - 1
    BY <1>2
  <2>2. PICK v \in Value : v = Top(i - 1)
    BY <1>2, <2>1, DropTyped
  <2>3. v.word \in Words
    BY DEF Value
  <2>4. print_num(v.word) \in Text /\ text_of(v) \in Text
    BY <2>3, PrintedText, CoercionTyped
  <2>5. QED
    BY <2>2, <2>4
<1>5. printed' \in [1 .. n -> Text]
  BY <1>1, <1>4
<1>6. printed' \in Seq(Text)
  BY <1>2, <1>5, SeqDef
<1>7. QED
  BY <1>2, <1>3, <1>6 DEF StackOK

LEMMA ValuesTyped ==
  ASSUME StackOK, NextValues
  PROVE  StackOK'
<1>0. <<>> \in Seq(Text) /\ Len(stack) \in Nat
  BY LenProperties DEF StackOK
<1>1. CASE op_load
  <2>1. PICK v \in Literals[group] : stack' = Append(stack, v)
    BY <1>1 DEF op_load
  <2>2. v \in Value /\ group' = group /\ printed' = <<>> /\ Len(stack) < MaxStack[group]
    BY <1>1, LiteralValues DEF op_load, MayLoad, StackOK
  <2>3. stack' \in Seq(Value) /\ Len(stack') = Len(stack) + 1
    BY <2>1, <2>2, AppendProperties DEF StackOK
  <2>4. MaxStack[group] \in Nat
    BY ValueAssumption DEF StackOK
  <2>5. QED
    BY <1>0, <2>2, <2>3, <2>4 DEF StackOK
<1>2. CASE op_pop
  <2>1. stack' = Drop(1) /\ 1 <= Len(stack) /\ group' = group /\ printed' = <<>>
    BY <1>0, <1>2 DEF op_pop
  <2>2. QED
    BY <1>0, <2>1, DropTyped DEF StackOK
<1>3. QED
  BY <1>1, <1>2, ArithmeticTyped, ComparisonTyped, TextOpsTyped, PrintTyped, Zenon DEF NextValues


-----------------------------------------------------------------------------
(* The builtins: what each does, whatever of its system calls fails. *)

\* What is open holds its place in a file that there is.
FilesOK ==
  /\ DOMAIN files \subseteq Paths /\ \A p \in DOMAIN files : files[p] \in Text
  /\ DOMAIN devs \subseteq Devices
  /\ \A d \in DOMAIN devs : devs[d] \in [path : DOMAIN files, at : Nat, mode : {"read", "both"}]

SameDevs(ds, es) == DOMAIN es = DOMAIN ds /\ \A d \in DOMAIN ds : es[d] = ds[d]

\* A builtin takes n values, and the stack has room for the answer.
Room(n) == n \in Nat /\ n <= Len(stack) /\ (n > 0 \/ Len(stack) < MaxStack[group])

LEMMA TextParts ==
  ASSUME NEW t \in Text, NEW n \in Nat
  PROVE  /\ Past(t, n) \in Text /\ Prefix(t) \in Text /\ \A c : Cut(t, c) \in Text
         /\ n <= Len(t) => SubSeq(t, 1, n) \in Text
<1>1. Len(t) \in Nat /\ t \in Seq(Char) /\ Buffer \in Nat
  BY Chars, FileAssumption DEF Text
<1>2. Past(t, n) \in Text
  <2>1. \A i \in n + 1 .. Len(t) : t[i] \in Char
    BY <1>1, Chars
  <2>2. QED
    BY <1>1, <2>1, SubSeqProperties DEF Past, Text
<1>3. \A m \in 0 .. Len(t) : SubSeq(t, 1, m) \in Text
  BY <1>1, SubSeqProperties DEF Text
<1>4. \A c : Cut(t, c) \in Text
  <2>1. t # <<>> => Len(t) - 1 \in 0 .. Len(t)
    BY <1>1, EmptySeq
  <2>2. QED
    BY <1>3, <2>1 DEF Cut
<1>5. Prefix(t) \in Text
  BY <1>1, <1>3 DEF Prefix
<1>6. QED
  BY <1>2, <1>3, <1>4, <1>5

\* What the system calls do, one by one.
LEMMA OpenDoes ==
  ASSUME NEW p, NEW mode, NEW o \in SysOpen(p, mode)
  PROVE  \/ ~o.ok /\ o.files = files /\ o.devs = devs
         \/ /\ o.ok /\ o.dev \in Devices \ DOMAIN devs /\ p \in Paths
            /\ mode = "create" \/ p \in DOMAIN files
            /\ o.files = IF mode = "create" THEN WithFile(files, p, <<>>) ELSE files
            /\ o.devs = WithDev(devs, o.dev, [path |-> p, at |-> 0, mode |-> mode])
BY DEF SysOpen

LEMMA ReadDoes ==
  ASSUME NEW d, NEW fs, NEW ds, NEW r \in SysRead(d, fs, ds)
  PROVE  \/ ~r.ok /\ r.devs = ds
         \/ /\ r.ok /\ d \in DOMAIN ds /\ r.text = Prefix(Past(fs[ds[d].path], ds[d].at))
            /\ r.devs = [ds EXCEPT ![d].at = @ + Len(r.text)]
BY DEF SysRead

LEMMA WriteDoes ==
  ASSUME NEW d, NEW data, NEW fs, NEW ds, NEW w \in SysWrite(d, data, fs, ds)
  PROVE  \/ ~w.ok /\ w.files = fs /\ w.devs = ds
         \/ /\ w.ok /\ d \in DOMAIN ds
            /\ \E n \in 0 .. Len(data) :
                 /\ ds[d].at <= Len(fs[ds[d].path])
                 /\ w.devs = [ds EXCEPT ![d].at = @ + n]
                 /\ w.files = LET p == ds[d].path  a == ds[d].at IN
                      WithFile(fs, p, SubSeq(fs[p], 1, a) \o SubSeq(data, 1, n) \o Past(fs[p], a + n))
BY DEF SysWrite

\* A device that is opened and closed again leaves no trace.
LEMMA ClosedAgain ==
  ASSUME NEW d, d \notin DOMAIN devs, NEW x, NEW y, NEW es, NEW fs,
         \/ es = WithDev(devs, d, x)
         \/ es = [WithDev(devs, d, x) EXCEPT ![d] = y]
  PROVE  SameDevs(devs, SysClose(d, es))
<1>1. DOMAIN WithDev(devs, d, x) = DOMAIN devs \cup {d} /\ \A e \in DOMAIN devs : WithDev(devs, d, x)[e] = devs[e]
  BY DEF WithDev
<1>2. DOMAIN es = DOMAIN devs \cup {d} /\ \A e \in DOMAIN devs : es[e] = devs[e]
  BY <1>1
<1>3. QED
  BY <1>2 DEF SysClose, SameDevs

LEMMA StackTop ==
  ASSUME StackOK
  PROVE  /\ Len(stack) \in Nat
         /\ Len(stack) >= 1 => Top(0) \in Value /\ Top(0).word \in Nat /\ text_of(Top(0)) \in Text
         /\ Len(stack) >= 2 => Top(1) \in Value /\ Top(1).word \in Nat /\ text_of(Top(1)) \in Text
<1>1. Len(stack) \in Nat
  BY LenProperties DEF StackOK
<1>2. \A i \in 0 .. Len(stack) - 1 : Top(i) \in Value
  BY <1>1, DropTyped
<1>3. \A v \in Value : v.word \in Nat /\ text_of(v) \in Text
  BY CoercionTyped, WordsAre DEF Value
<1>4. QED
  BY <1>1, <1>2, <1>3

LEMMA InputDoes ==
  ASSUME StackOK, op_input
  PROVE  \E n \in {0, 1}, v \in Value, t \in Text :
           /\ Room(n) /\ Answers("input", n, <<>>, 0, t, v)
           /\ v = Nil \/ (v.type = "string" /\ v.text = Stripped(t))
           /\ files' = files /\ devs' = devs /\ printed' \in Seq(Text)
<1>1. PICK n \in {0, 1} :
        /\ Len(stack) >= n /\ Len(stack) - n < MaxStack[group]
        /\ printed' = [i \in 1 .. n |-> text_of(Top(0))]
        /\ \/ Answers("input", n, <<>>, 0, <<>>, Nil)
           \/ \E t \in Lines : AnswersText("input", n, <<>>, 0, t, Stripped(t))
        /\ UNCHANGED <<files, devs>>
  BY DEF op_input
<1>2. Room(n)
  BY <1>1, StackTop DEF Room
<1>3. printed' \in Seq(Text)
  <2>1. n = 1 => text_of(Top(0)) \in Text
    BY <1>1, StackTop
  <2>2. printed' \in [1 .. n -> Text]
    BY <1>1, <2>1
  <2>3. n \in Nat
    OBVIOUS
  <2>4. QED
    BY <2>2, <2>3, SeqDef
<1>4. \E v \in Value, t \in Text :
        Answers("input", n, <<>>, 0, t, v) /\ (v = Nil \/ (v.type = "string" /\ v.text = Stripped(t)))
  <2>1. CASE Answers("input", n, <<>>, 0, <<>>, Nil)
    BY <2>1, FixedValues, SmallWords
  <2>2. CASE \E t \in Lines : AnswersText("input", n, <<>>, 0, t, Stripped(t))
    <3>1. PICK t \in Lines : AnswersText("input", n, <<>>, 0, t, Stripped(t))
      BY <2>2
    <3>2. PICK v \in Made(Stripped(t)) : Answers("input", n, <<>>, 0, t, v)
      BY <3>1 DEF AnswersText
    <3>3. t \in Text
      BY FileAssumption
    <3>4. Stripped(t) \in Text
      BY <3>3, TextParts DEF Stripped
    <3>5. v \in Value /\ v.type = "string" /\ v.text = Stripped(t)
      BY <3>2, <3>4, MadeTyped
    <3>6. QED
      BY <3>2, <3>3, <3>5
  <2>3. QED
    BY <1>1, <2>1, <2>2
<1>5. QED
  BY <1>1, <1>2, <1>3, <1>4

LEMMA ReadfileDoes ==
  ASSUME StackOK, FilesOK, op_readfile
  PROVE  \E p \in Text, v \in Value :
           /\ Room(1) /\ Answers("readfile", 1, p, 0, <<>>, v)
           /\ v = Nil \/ (v.type = "string" /\ p \in DOMAIN files /\ v.text = Prefix(files[p]))
           /\ files' = files /\ SameDevs(devs, devs') /\ printed' = <<>>
<1>1. Len(stack) >= 1 /\ printed' = <<>> /\ files' = files /\ read_file_string(text_of(Top(0)))
  BY DEF op_readfile
<1>2. PICK p \in Text : p = text_of(Top(0)) /\ read_file_string(p)
  BY <1>1, StackTop
<1>3. Room(1)
  BY <1>1, StackTop DEF Room
<1>4. PICK o \in SysOpen(p, "read") :
        IF ~o.ok THEN Answers("readfile", 1, p, 0, <<>>, Nil) /\ devs' = o.devs
        ELSE \E r \in SysRead(o.dev, files, o.devs) :
               /\ IF r.ok THEN AnswersText("readfile", 1, p, 0, <<>>, r.text)
                  ELSE Answers("readfile", 1, p, 0, <<>>, Nil)
               /\ devs' = SysClose(o.dev, r.devs)
  BY <1>2 DEF read_file_string
<1>5. CASE ~o.ok
  <2>1. Answers("readfile", 1, p, 0, <<>>, Nil) /\ devs' = devs
    BY <1>4, <1>5, OpenDoes
  <2>2. QED
    BY <1>1, <1>3, <2>1, FixedValues DEF SameDevs
<1>6. CASE o.ok
  <2>1. PICK r \in SysRead(o.dev, files, o.devs) :
          /\ IF r.ok THEN AnswersText("readfile", 1, p, 0, <<>>, r.text)
             ELSE Answers("readfile", 1, p, 0, <<>>, Nil)
          /\ devs' = SysClose(o.dev, r.devs)
    BY <1>4, <1>6
  <2>2. PICK d : d = o.dev
    OBVIOUS
  <2>3. PICK x : x = [path |-> p, at |-> 0, mode |-> "read"]
    OBVIOUS
  <2>4. /\ d \notin DOMAIN devs /\ p \in DOMAIN files /\ o.devs = WithDev(devs, d, x)
    BY <1>6, <2>2, <2>3, OpenDoes
  <2>5. o.devs[d] = x /\ d \in DOMAIN o.devs
    BY <2>4 DEF WithDev
  <2>6. CASE ~r.ok
    <3>1. r.devs = o.devs
      BY <2>6, ReadDoes
    <3>2. SameDevs(devs, devs')
      BY <2>1, <2>2, <2>4, <3>1, ClosedAgain
    <3>3. QED
      BY <1>1, <1>3, <2>1, <2>6, <3>2, FixedValues
  <2>7. CASE r.ok
    <3>1. r.text = Prefix(Past(files[p], 0)) /\ r.devs = [o.devs EXCEPT ![d].at = @ + Len(r.text)]
      BY <2>2, <2>3, <2>5, <2>7, ReadDoes
    <3>2. files[p] \in Text
      BY <2>4 DEF FilesOK
    <3>3. Past(files[p], 0) = files[p]
      BY <3>2, Chars DEF Past, Text
    <3>4. \E y : r.devs = [o.devs EXCEPT ![d] = y]
      BY <3>1
    <3>5. SameDevs(devs, devs')
      BY <2>1, <2>2, <2>4, <3>4, ClosedAgain
    <3>6. PICK v \in Made(r.text) : Answers("readfile", 1, p, 0, <<>>, v)
      BY <2>1, <2>7 DEF AnswersText
    <3>7. r.text = Prefix(files[p]) /\ r.text \in Text
      BY <3>1, <3>2, <3>3, TextParts
    <3>8. v \in Value /\ v.type = "string" /\ v.text = r.text
      BY <3>6, <3>7, MadeTyped
    <3>9. QED
      BY <1>1, <1>3, <2>4, <3>5, <3>6, <3>7, <3>8
  <2>8. QED
    BY <2>6, <2>7
<1>7. QED
  BY <1>5, <1>6


LEMMA SameFileTwice ==
  ASSUME NEW f, NEW p, NEW s, NEW t
  PROVE  WithFile(WithFile(f, p, s), p, t) = WithFile(f, p, t)
BY DEF WithFile

LEMMA WritefileDoes ==
  ASSUME StackOK, FilesOK, op_writefile
  PROVE  \E p \in Text, data \in Text, b \in BOOLEAN :
           /\ Room(2) /\ Answers("writefile", 2, p, 0, data, Bool(b))
           /\ \/ b /\ p \in Paths /\ \E n \in 0 .. Len(data) : files' = WithFile(files, p, SubSeq(data, 1, n))
              \/ ~b /\ (files' = files \/ (p \in Paths /\ files' = WithFile(files, p, <<>>)))
           /\ SameDevs(devs, devs') /\ printed' = <<>>
<1>1. Len(stack) >= 2 /\ printed' = <<>> /\ write_file_string(text_of(Top(1)), text_of(Top(0)))
  BY DEF op_writefile
<1>2. Room(2)
  BY <1>1, StackTop DEF Room
<1>3. PICK p \in Text, data \in Text : p = text_of(Top(1)) /\ data = text_of(Top(0)) /\ write_file_string(p, data)
  BY <1>1, StackTop
<1>4. PICK o \in SysOpen(p, "create") :
        IF ~o.ok THEN Answers("writefile", 2, p, 0, data, Bool(FALSE)) /\ files' = files /\ devs' = devs
        ELSE \E w \in SysWrite(o.dev, data, o.files, o.devs) :
               /\ Answers("writefile", 2, p, 0, data, Bool(w.ok))
               /\ files' = w.files /\ devs' = SysClose(o.dev, w.devs)
  BY <1>3 DEF write_file_string
<1>5. CASE ~o.ok
  <2>1. Answers("writefile", 2, p, 0, data, Bool(FALSE)) /\ files' = files /\ devs' = devs
    BY <1>4, <1>5
  <2>2. SameDevs(devs, devs')
    BY <2>1 DEF SameDevs
  <2>3. QED
    BY <1>1, <1>2, <2>1, <2>2
<1>6. CASE o.ok
  <2>1. PICK w \in SysWrite(o.dev, data, o.files, o.devs) :
          /\ Answers("writefile", 2, p, 0, data, Bool(w.ok))
          /\ files' = w.files /\ devs' = SysClose(o.dev, w.devs)
    BY <1>4, <1>6
  <2>2. PICK d : d = o.dev
    OBVIOUS
  <2>3. PICK x : x = [path |-> p, at |-> 0, mode |-> "create"]
    OBVIOUS
  <2>4. PICK fs : fs = WithFile(files, p, <<>>)
    OBVIOUS
  <2>5. d \notin DOMAIN devs /\ p \in Paths /\ o.devs = WithDev(devs, d, x) /\ o.files = fs
    BY <1>6, <2>2, <2>3, <2>4, OpenDoes
  <2>6. o.devs[d] = x /\ d \in DOMAIN o.devs /\ fs[p] = <<>>
    BY <2>4, <2>5 DEF WithDev, WithFile
  <2>7. CASE ~w.ok
    <3>1. w.devs = o.devs /\ w.files = fs
      BY <2>5, <2>7, WriteDoes
    <3>2. SameDevs(devs, devs')
      BY <2>1, <2>2, <2>5, <3>1, ClosedAgain
    <3>3. Answers("writefile", 2, p, 0, data, Bool(FALSE))
      BY <2>1, <2>7 DEF Bool
    <3>4. QED
      BY <1>1, <1>2, <2>1, <2>4, <2>5, <3>1, <3>2, <3>3
  <2>8. CASE w.ok
    <3>1. PICK n \in 0 .. Len(data) :
            /\ w.devs = [o.devs EXCEPT ![d].at = @ + n]
            /\ w.files = WithFile(fs, p, SubSeq(fs[p], 1, 0) \o SubSeq(data, 1, n) \o Past(fs[p], 0 + n))
      <4>1. PICK n \in 0 .. Len(data) :
              /\ w.devs = [o.devs EXCEPT ![d].at = @ + n]
              /\ w.files = LET q == o.devs[d].path  a == o.devs[d].at IN
                   WithFile(fs, q, SubSeq(fs[q], 1, a) \o SubSeq(data, 1, n) \o Past(fs[q], a + n))
        BY <2>2, <2>5, <2>8, WriteDoes
      <4>2. o.devs[d].path = p /\ o.devs[d].at = 0
        BY <2>3, <2>6
      <4>3. QED
        BY <4>1, <4>2
    <3>2. \E y : w.devs = [o.devs EXCEPT ![d] = y]
      BY <3>1
    <3>3. SameDevs(devs, devs')
      BY <2>1, <2>2, <2>5, <3>2, ClosedAgain
    <3>4. SubSeq(<<>>, 1, 0) \o SubSeq(data, 1, n) \o Past(<<>>, 0 + n) = SubSeq(data, 1, n)
      <4>1. Len(data) \in Nat /\ n \in Nat /\ n <= Len(data)
        BY Chars
      <4>2. PICK t \in Seq(Char) : t = SubSeq(data, 1, n)
        BY <4>1, TextParts DEF Text
      <4>3. SubSeq(<<>>, 1, 0) = <<>> /\ Past(<<>>, 0 + n) = <<>>
        BY <4>1 DEF Past
      <4>4. <<>> \o t \o <<>> = t
        OBVIOUS
      <4>5. QED
        BY <4>2, <4>3, <4>4
    <3>5. files' = WithFile(files, p, SubSeq(data, 1, n))
      <4>1. PICK t : t = SubSeq(data, 1, n)
        OBVIOUS
      <4>2. files' = WithFile(fs, p, t)
        BY <2>1, <2>6, <3>1, <3>4, <4>1
      <4>3. WithFile(fs, p, t) = WithFile(files, p, t)
        BY <2>4, SameFileTwice
      <4>4. QED
        BY <4>1, <4>2, <4>3
    <3>6. Answers("writefile", 2, p, 0, data, Bool(TRUE))
      BY <2>1, <2>8 DEF Bool
    <3>7. QED
      BY <1>1, <1>2, <2>5, <3>3, <3>5, <3>6
  <2>9. QED
    BY <2>7, <2>8
<1>7. QED
  BY <1>5, <1>6

LEMMA OpDoes ==
  ASSUME StackOK, op_open
  PROVE  \E n \in {1, 2}, p \in Text, v \in Value :
           /\ Room(n) /\ Answers("open", n, p, 0, <<>>, v)
           /\ \/ v = Nil /\ devs' = devs
              \/ \E d \in Devices \ DOMAIN devs, mode \in {"read", "both"} :
                   /\ v = Number(d) /\ p \in DOMAIN files
                   /\ devs' = WithDev(devs, d, [path |-> p, at |-> 0, mode |-> mode])
           /\ files' = files /\ printed' = <<>>
<1>1. PICK n \in {1, 2} : Len(stack) >= n /\
        LET p    == text_of(Top(n - 1))
            mode == IF n = 2 /\ Top(0).type = "number" THEN "both" ELSE "read" IN
        \E o \in SysOpen(p, mode) :
          /\ Answers("open", n, p, 0, <<>>, IF o.ok THEN Number(o.dev) ELSE Nil)
          /\ devs' = o.devs
          /\ printed' = <<>> /\ UNCHANGED files
  BY Zenon DEF op_open
<1>2. Room(n)
  BY <1>1, StackTop DEF Room
<1>3. PICK p \in Text : p = text_of(Top(n - 1))
  BY <1>1, StackTop
<1>4. PICK mode \in {"read", "both"} : mode = IF n = 2 /\ Top(0).type = "number" THEN "both" ELSE "read"
  OBVIOUS
<1>5. PICK o \in SysOpen(p, mode) :
        /\ Answers("open", n, p, 0, <<>>, IF o.ok THEN Number(o.dev) ELSE Nil)
        /\ devs' = o.devs /\ printed' = <<>> /\ files' = files
  BY <1>1, <1>3, <1>4
<1>6. CASE ~o.ok
  <2>1. Answers("open", n, p, 0, <<>>, Nil) /\ devs' = devs
    BY <1>5, <1>6, OpenDoes
  <2>2. QED
    BY <1>2, <1>5, <2>1, FixedValues
<1>7. CASE o.ok
  <2>1. PICK d : d = o.dev
    OBVIOUS
  <2>2. d \in Devices \ DOMAIN devs /\ p \in DOMAIN files
        /\ devs' = WithDev(devs, d, [path |-> p, at |-> 0, mode |-> mode])
    BY <1>5, <1>7, <2>1, OpenDoes
  <2>3. PICK v \in Value : v = Number(d)
    BY <2>2, FixedValues, FileAssumption
  <2>4. Answers("open", n, p, 0, <<>>, v)
    BY <1>5, <1>7, <2>1, <2>3
  <2>5. QED
    BY <1>2, <1>5, <2>2, <2>3, <2>4
<1>8. QED
  BY <1>6, <1>7

LEMMA OpReads ==
  ASSUME StackOK, FilesOK, op_read
  PROVE  \E d \in Nat, v \in Value :
           /\ Room(1) /\ Answers("read", 1, <<>>, d, <<>>, v)
           /\ \/ v = Nil /\ SameDevs(devs, devs')
              \/ /\ d \in DOMAIN devs /\ v.type = "string" /\ v.text # <<>>
                 /\ v.text = Prefix(Past(files[devs[d].path], devs[d].at))
                 /\ devs' = [devs EXCEPT ![d].at = @ + Len(v.text)]
              \/ v = Nil /\ d \in DOMAIN devs /\ devs' = [devs EXCEPT ![d].at = @ + 0]
           /\ files' = files /\ printed' = <<>>
<1>1. Len(stack) >= 1 /\ printed' = <<>> /\ files' = files
  BY DEF op_read
<1>2. Room(1) /\ Top(0).word \in Nat
  BY <1>1, StackTop DEF Room
<1>3. PICK d \in Nat : d = LowByte(Top(0).word)
  <2>1. \A w \in Nat : w % ByteRange \in Nat
    BY FileAssumption
  <2>2. QED
    BY <1>2, <2>1 DEF LowByte
<1>4. IF Top(0).type # "number" THEN Answers("read", 1, <<>>, d, <<>>, Nil) /\ devs' = devs
      ELSE \E r \in SysRead(d, files, devs) :
             /\ IF r.ok /\ r.text # <<>> THEN AnswersText("read", 1, <<>>, d, <<>>, r.text)
                ELSE Answers("read", 1, <<>>, d, <<>>, Nil)
             /\ devs' = r.devs
  BY <1>3, Zenon DEF op_read
<1>5. CASE Top(0).type # "number"
  <2>1. Answers("read", 1, <<>>, d, <<>>, Nil) /\ devs' = devs
    BY <1>4, <1>5
  <2>2. SameDevs(devs, devs')
    BY <2>1 DEF SameDevs
  <2>3. QED
    BY <1>1, <1>2, <2>1, <2>2, FixedValues
<1>6. CASE Top(0).type = "number"
  <2>1. PICK r \in SysRead(d, files, devs) :
          /\ IF r.ok /\ r.text # <<>> THEN AnswersText("read", 1, <<>>, d, <<>>, r.text)
             ELSE Answers("read", 1, <<>>, d, <<>>, Nil)
          /\ devs' = r.devs
    BY <1>4, <1>6
  <2>2. CASE ~r.ok
    <3>1. devs' = devs /\ Answers("read", 1, <<>>, d, <<>>, Nil)
      BY <2>1, <2>2, ReadDoes
    <3>2. SameDevs(devs, devs')
      BY <3>1 DEF SameDevs
    <3>3. QED
      BY <1>1, <1>2, <3>1, <3>2, FixedValues
  <2>3. CASE r.ok
    <3>1. /\ d \in DOMAIN devs /\ r.text = Prefix(Past(files[devs[d].path], devs[d].at))
          /\ devs' = [devs EXCEPT ![d].at = @ + Len(r.text)]
      <4>1. d \in DOMAIN devs /\ r.text = Prefix(Past(files[devs[d].path], devs[d].at))
        BY <2>3 DEF SysRead
      <4>2. r.devs = [devs EXCEPT ![d].at = @ + Len(r.text)]
        BY <2>3 DEF SysRead
      <4>3. QED
        BY <2>1, <4>1, <4>2
    <3>2. r.text \in Text
      BY <3>1, TextParts DEF FilesOK
    <3>3. CASE r.text = <<>>
      <4>1. Answers("read", 1, <<>>, d, <<>>, Nil)
        BY <2>1, <3>3
      <4>2. devs' = [devs EXCEPT ![d].at = @ + 0]
        BY <3>1, <3>3
      <4>3. QED
        BY <1>1, <1>2, <3>1, <4>1, <4>2, FixedValues
    <3>4. CASE r.text # <<>>
      <4>1. PICK v \in Made(r.text) : Answers("read", 1, <<>>, d, <<>>, v)
        BY <2>1, <2>3, <3>4 DEF AnswersText
      <4>2. v \in Value /\ v.type = "string" /\ v.text = r.text
        BY <3>2, <4>1, MadeTyped
      <4>3. QED
        BY <1>1, <1>2, <3>1, <3>4, <4>1, <4>2
    <3>5. QED
      BY <3>3, <3>4
  <2>4. QED
    BY <2>2, <2>3
<1>7. QED
  BY <1>5, <1>6

LEMMA OpWrites ==
  ASSUME StackOK, FilesOK, op_write
  PROVE  \E d \in Nat, data \in Text, b \in BOOLEAN :
           /\ Room(2) /\ Answers("write", 2, <<>>, d, data, Bool(b))
           /\ \/ ~b /\ files' = files /\ devs' = devs
              \/ /\ b /\ d \in DOMAIN devs
                 /\ \E n \in 0 .. Len(data) :
                      LET p == devs[d].path  a == devs[d].at IN
                      /\ a <= Len(files[p])
                      /\ devs' = [devs EXCEPT ![d].at = @ + n]
                      /\ files' = WithFile(files, p, SubSeq(files[p], 1, a) \o SubSeq(data, 1, n)
                                                     \o Past(files[p], a + n))
           /\ printed' = <<>>
<1>1. Len(stack) >= 2 /\ printed' = <<>>
  BY DEF op_write
<1>2. Room(2) /\ Top(1).word \in Nat
  BY <1>1, StackTop DEF Room
<1>3. PICK d \in Nat : d = LowByte(Top(1).word)
  <2>1. \A w \in Nat : w % ByteRange \in Nat
    BY FileAssumption
  <2>2. QED
    BY <1>2, <2>1 DEF LowByte
<1>4. PICK data \in Text : data = text_of(Top(0))
  BY <1>1, StackTop
<1>5. IF Top(1).type # "number"
        THEN Answers("write", 2, <<>>, d, data, Bool(FALSE)) /\ UNCHANGED <<files, devs>>
        ELSE \E w \in SysWrite(d, data, files, devs) :
               Answers("write", 2, <<>>, d, data, Bool(w.ok)) /\ files' = w.files /\ devs' = w.devs
  BY <1>3, <1>4, Zenon DEF op_write
<1>6. CASE Top(1).type # "number"
  BY <1>1, <1>2, <1>5, <1>6
<1>7. CASE Top(1).type = "number"
  <2>1. PICK w \in SysWrite(d, data, files, devs) :
          Answers("write", 2, <<>>, d, data, Bool(w.ok)) /\ files' = w.files /\ devs' = w.devs
    BY <1>5, <1>7
  <2>2. CASE ~w.ok
    <3>1. files' = files /\ devs' = devs
      BY <2>1, <2>2, WriteDoes
    <3>2. Answers("write", 2, <<>>, d, data, Bool(FALSE))
      BY <2>1, <2>2 DEF Bool
    <3>3. QED
      BY <1>1, <1>2, <3>1, <3>2
  <2>3. CASE w.ok
    <3>1. d \in DOMAIN devs /\ \E n \in 0 .. Len(data) :
            LET p == devs[d].path  a == devs[d].at IN
            /\ a <= Len(files[p])
            /\ devs' = [devs EXCEPT ![d].at = @ + n]
            /\ files' = WithFile(files, p, SubSeq(files[p], 1, a) \o SubSeq(data, 1, n) \o Past(files[p], a + n))
      BY <2>1, <2>3, WriteDoes
    <3>2. Answers("write", 2, <<>>, d, data, Bool(TRUE))
      BY <2>1, <2>3 DEF Bool
    <3>3. QED
      BY <1>1, <1>2, <3>1, <3>2
  <2>4. QED
    BY <2>2, <2>3
<1>8. QED
  BY <1>6, <1>7

LEMMA OpCloses ==
  ASSUME StackOK, op_close
  PROVE  \E d \in Nat, b \in BOOLEAN :
           /\ Room(1) /\ Answers("close", 1, <<>>, d, <<>>, Bool(b))
           /\ \/ ~b /\ devs' = devs
              \/ b /\ d \in DOMAIN devs /\ devs' = SysClose(d, devs)
           /\ files' = files /\ printed' = <<>>
<1>1. Len(stack) >= 1
  BY DEF op_close
<1>2. Room(1) /\ Top(0).word \in Nat
  BY <1>1, StackTop DEF Room
<1>3. PICK d \in Nat : d = LowByte(Top(0).word)
  <2>1. \A w \in Nat : w % ByteRange \in Nat
    BY FileAssumption
  <2>2. QED
    BY <1>2, <2>1 DEF LowByte
<1>4. PICK b \in BOOLEAN : b = (Top(0).type = "number" /\ d \in DOMAIN devs)
  OBVIOUS
<1>5. /\ Answers("close", 1, <<>>, d, <<>>, Bool(b))
      /\ devs' = IF b THEN SysClose(d, devs) ELSE devs
      /\ printed' = <<>> /\ files' = files
  BY <1>3, <1>4 DEF op_close
<1>6. QED
  BY <1>2, <1>4, <1>5


-----------------------------------------------------------------------------
(* The whole machine. *)

LEMMA AnswersTyped ==
  ASSUME StackOK, NEW n, Room(n), NEW v \in Value, NEW name, NEW p, NEW d, NEW data,
         Answers(name, n, p, d, data, v), printed' \in Seq(Text)
  PROVE  StackOK'
<1>1. stack' = Append(Drop(n), v) /\ group' = group
  BY DEF Answers, Takes
<1>2. QED
  BY <1>1, GivesTyped DEF Room

LEMMA SameDevsOK ==
  ASSUME FilesOK, SameDevs(devs, devs'), files' = files
  PROVE  FilesOK'
BY DEF FilesOK, SameDevs

LEMMA NewFileOK ==
  ASSUME FilesOK, SameDevs(devs, devs'), NEW p \in Paths, NEW t \in Text, files' = WithFile(files, p, t)
  PROVE  FilesOK'
<1>1. DOMAIN files' = DOMAIN files \cup {p} /\ \A q \in DOMAIN files' : files'[q] \in Text
  BY DEF WithFile, FilesOK
<1>2. \A d \in DOMAIN devs' : devs'[d] \in [path : DOMAIN files', at : Nat, mode : {"read", "both"}]
  <2> TAKE d \in DOMAIN devs'
  <2>1. devs'[d] \in [path : DOMAIN files, at : Nat, mode : {"read", "both"}]
    BY DEF FilesOK, SameDevs
  <2>2. QED
    BY <1>1, <2>1
<1>3. QED
  BY <1>1, <1>2 DEF FilesOK, SameDevs

\* A handle moves forward in its file, which may change under it.
LEMMA MovedOK ==
  ASSUME FilesOK, NEW d \in DOMAIN devs, NEW n \in Nat, devs' = [devs EXCEPT ![d].at = @ + n],
         DOMAIN files' = DOMAIN files, \A p \in DOMAIN files : files'[p] \in Text
  PROVE  FilesOK'
<1>1. DOMAIN devs' = DOMAIN devs
  OBVIOUS
<1>2. \A e \in DOMAIN devs' : devs'[e] \in [path : DOMAIN files', at : Nat, mode : {"read", "both"}]
  <2> TAKE e \in DOMAIN devs'
  <2>1. devs[e] \in [path : DOMAIN files, at : Nat, mode : {"read", "both"}]
    BY <1>1 DEF FilesOK
  <2>2. devs'[e] = IF e = d THEN [devs[e] EXCEPT !.at = @ + n] ELSE devs[e]
    BY <1>1
  <2>3. [devs[e] EXCEPT !.at = @ + n] \in [path : DOMAIN files, at : Nat, mode : {"read", "both"}]
    BY <2>1
  <2>4. QED
    BY <2>1, <2>2, <2>3
<1>3. QED
  BY <1>1, <1>2 DEF FilesOK

LEMMA FileStepsTyped ==
  ASSUME StackOK, FilesOK, FileSteps
  PROVE  StackOK' /\ FilesOK'
<1>0. <<>> \in Seq(Text) /\ \A b \in BOOLEAN : Bool(b) \in Value
  BY FixedValues
<1>1. CASE op_input
  <2>1. PICK n \in {0, 1}, v \in Value, t \in Text :
           /\ Room(n) /\ Answers("input", n, <<>>, 0, t, v)
           /\ files' = files /\ devs' = devs /\ printed' \in Seq(Text)
    BY <1>1, InputDoes
  <2>2. StackOK'
    BY <2>1, AnswersTyped
  <2>3. QED
    BY <2>1, <2>2, SameDevsOK DEF SameDevs
<1>2. CASE op_readfile
  <2>1. PICK p \in Text, v \in Value :
           /\ Room(1) /\ Answers("readfile", 1, p, 0, <<>>, v)
           /\ files' = files /\ SameDevs(devs, devs') /\ printed' = <<>>
    BY <1>2, ReadfileDoes
  <2>2. StackOK'
    BY <1>0, <2>1, AnswersTyped
  <2>3. QED
    BY <2>1, <2>2, SameDevsOK
<1>3. CASE op_writefile
  <2>1. PICK p \in Text, data \in Text, b \in BOOLEAN :
           /\ Room(2) /\ Answers("writefile", 2, p, 0, data, Bool(b))
           /\ \/ b /\ p \in Paths /\ \E n \in 0 .. Len(data) : files' = WithFile(files, p, SubSeq(data, 1, n))
              \/ ~b /\ (files' = files \/ (p \in Paths /\ files' = WithFile(files, p, <<>>)))
           /\ SameDevs(devs, devs') /\ printed' = <<>>
    BY <1>3, WritefileDoes
  <2>2. StackOK'
    <3>1. PICK v \in Value : v = Bool(b)
      BY <1>0
    <3>2. QED
      BY <1>0, <2>1, <3>1, AnswersTyped
  <2>3. files' = files \/ (p \in Paths /\ \E t \in Text : files' = WithFile(files, p, t))
    <3>1. \A n \in 0 .. Len(data) : SubSeq(data, 1, n) \in Text
      BY TextParts, Chars
    <3>2. <<>> \in Text
      BY SmallWords
    <3>3. QED
      BY <2>1, <3>1, <3>2
  <2>4. FilesOK'
    BY <2>1, <2>3, SameDevsOK, NewFileOK
  <2>5. QED
    BY <2>2, <2>4
<1>4. CASE op_open
  <2>1. PICK n \in {1, 2}, p \in Text, v \in Value :
           /\ Room(n) /\ Answers("open", n, p, 0, <<>>, v)
           /\ \/ v = Nil /\ devs' = devs
              \/ \E d \in Devices \ DOMAIN devs, mode \in {"read", "both"} :
                   /\ v = Number(d) /\ p \in DOMAIN files
                   /\ devs' = WithDev(devs, d, [path |-> p, at |-> 0, mode |-> mode])
           /\ files' = files /\ printed' = <<>>
    BY <1>4, OpDoes
  <2>2. StackOK'
    BY <1>0, <2>1, AnswersTyped
  <2>3. CASE devs' = devs
    BY <2>1, <2>2, <2>3, SameDevsOK DEF SameDevs
  <2>4. CASE \E d \in Devices \ DOMAIN devs, mode \in {"read", "both"} :
               p \in DOMAIN files /\ devs' = WithDev(devs, d, [path |-> p, at |-> 0, mode |-> mode])
    <3>1. PICK d \in Devices \ DOMAIN devs, mode \in {"read", "both"} :
               p \in DOMAIN files /\ devs' = WithDev(devs, d, [path |-> p, at |-> 0, mode |-> mode])
      BY <2>4
    <3>2. PICK x \in [path : DOMAIN files, at : Nat, mode : {"read", "both"}] :
            x = [path |-> p, at |-> 0, mode |-> mode]
      BY <3>1
    <3>3. DOMAIN devs' = DOMAIN devs \cup {d} /\ \A e \in DOMAIN devs' : devs'[e] = IF e = d THEN x ELSE devs[e]
      BY <3>1, <3>2 DEF WithDev
    <3>4. FilesOK'
      BY <2>1, <3>2, <3>3 DEF FilesOK
    <3>5. QED
      BY <2>2, <3>4
  <2>5. QED
    BY <2>1, <2>3, <2>4
<1>5. CASE op_read
  <2>1. PICK d \in Nat, v \in Value :
           /\ Room(1) /\ Answers("read", 1, <<>>, d, <<>>, v)
           /\ \/ v = Nil /\ SameDevs(devs, devs')
              \/ /\ d \in DOMAIN devs /\ v.type = "string" /\ v.text # <<>>
                 /\ v.text = Prefix(Past(files[devs[d].path], devs[d].at))
                 /\ devs' = [devs EXCEPT ![d].at = @ + Len(v.text)]
              \/ v = Nil /\ d \in DOMAIN devs /\ devs' = [devs EXCEPT ![d].at = @ + 0]
           /\ files' = files /\ printed' = <<>>
    BY <1>5, OpReads
  <2>2. StackOK'
    BY <1>0, <2>1, AnswersTyped
  <2>3. CASE SameDevs(devs, devs')
    BY <2>1, <2>2, <2>3, SameDevsOK
  <2>4. CASE d \in DOMAIN devs /\ \E n \in Nat : devs' = [devs EXCEPT ![d].at = @ + n]
    <3>1. \A p \in DOMAIN files : files'[p] \in Text
      BY <2>1 DEF FilesOK
    <3>2. QED
      BY <2>1, <2>2, <2>4, <3>1, MovedOK
  <2>5. Len(v.text) \in Nat /\ 0 \in Nat
    BY Chars DEF Value
  <2>6. SameDevs(devs, devs') \/ (d \in DOMAIN devs /\ \E n \in Nat : devs' = [devs EXCEPT ![d].at = @ + n])
    BY <2>1, <2>5
  <2>7. QED
    BY <2>3, <2>4, <2>6
<1>6. CASE op_write
  <2>1. PICK d \in Nat, data \in Text, b \in BOOLEAN :
           /\ Room(2) /\ Answers("write", 2, <<>>, d, data, Bool(b))
           /\ \/ ~b /\ files' = files /\ devs' = devs
              \/ /\ b /\ d \in DOMAIN devs
                 /\ \E n \in 0 .. Len(data) :
                      LET p == devs[d].path  a == devs[d].at IN
                      /\ a <= Len(files[p])
                      /\ devs' = [devs EXCEPT ![d].at = @ + n]
                      /\ files' = WithFile(files, p, SubSeq(files[p], 1, a) \o SubSeq(data, 1, n)
                                                     \o Past(files[p], a + n))
           /\ printed' = <<>>
    BY <1>6, OpWrites
  <2>2. StackOK'
    <3>1. PICK v \in Value : v = Bool(b)
      BY <1>0
    <3>2. QED
      BY <1>0, <2>1, <3>1, AnswersTyped
  <2>3. CASE files' = files /\ devs' = devs
    BY <2>2, <2>3, SameDevsOK DEF SameDevs
  <2>4. CASE ~(files' = files /\ devs' = devs)
    <3>1. PICK p, a : p = devs[d].path /\ a = devs[d].at
      OBVIOUS
    <3>2. d \in DOMAIN devs /\ p \in DOMAIN files /\ a \in Nat /\ files[p] \in Text
      BY <2>1, <2>4, <3>1 DEF FilesOK
    <3>3. PICK n \in 0 .. Len(data) :
            /\ a <= Len(files[p]) /\ devs' = [devs EXCEPT ![d].at = @ + n]
            /\ files' = WithFile(files, p, SubSeq(files[p], 1, a) \o SubSeq(data, 1, n) \o Past(files[p], a + n))
      BY <2>1, <2>4, <3>1
    <3>4. n \in Nat /\ n <= Len(data)
      BY Chars
    <3>5. SubSeq(files[p], 1, a) \in Text /\ SubSeq(data, 1, n) \in Text /\ Past(files[p], a + n) \in Text
      BY <3>2, <3>3, <3>4, TextParts
    <3>6. PICK t \in Text : t = SubSeq(files[p], 1, a) \o SubSeq(data, 1, n) \o Past(files[p], a + n)
      BY <3>5, ConcatProperties DEF Text
    <3>7. DOMAIN files' = DOMAIN files /\ \A q \in DOMAIN files : files'[q] \in Text
      BY <3>2, <3>3, <3>6 DEF WithFile, FilesOK
    <3>8. FilesOK'
      BY <3>2, <3>3, <3>4, <3>7, MovedOK
    <3>9. QED
      BY <2>2, <3>8
  <2>5. QED
    BY <2>3, <2>4
<1>7. CASE op_close
  <2>1. PICK d \in Nat, b \in BOOLEAN :
           /\ Room(1) /\ Answers("close", 1, <<>>, d, <<>>, Bool(b))
           /\ \/ ~b /\ devs' = devs
              \/ b /\ d \in DOMAIN devs /\ devs' = SysClose(d, devs)
           /\ files' = files /\ printed' = <<>>
    BY <1>7, OpCloses
  <2>2. StackOK'
    <3>1. PICK v \in Value : v = Bool(b)
      BY <1>0
    <3>2. QED
      BY <1>0, <2>1, <3>1, AnswersTyped
  <2>3. CASE devs' = devs
    BY <2>1, <2>2, <2>3, SameDevsOK DEF SameDevs
  <2>4. CASE devs' = SysClose(d, devs)
    <3>1. DOMAIN devs' \subseteq DOMAIN devs /\ \A e \in DOMAIN devs' : devs'[e] = devs[e]
      BY <2>4 DEF SysClose
    <3>2. FilesOK'
      BY <2>1, <3>1 DEF FilesOK
    <3>3. QED
      BY <2>2, <3>2
  <2>5. QED
    BY <2>1, <2>3, <2>4
<1>8. QED
  BY <1>1, <1>2, <1>3, <1>4, <1>5, <1>6, <1>7 DEF FileSteps


LEMMA AppendLen ==
  ASSUME NEW s \in Seq(Value), NEW v
  PROVE  Len(Append(s, v)) = Len(s) + 1
<1>1. s \in Seq(Value \cup {v}) /\ v \in Value \cup {v}
  BY SeqDef
<1>2. QED
  BY <1>1, AppendProperties

LEMMA TablesTyped ==
  ASSUME StackOK, TableInv, TableSteps
  PROVE  StackOK'
<1>1. group = "tables" /\ group' = group
  BY DEF TableSteps, op_newtable, op_settable, op_gettable, op_len_table, op_load_table, Takes
<1>2. stack' \in Seq(Value) /\ <<>> \in Seq(Text)
  BY <1>1, TablePreserves DEF TableInv
<1>3. Len(stack) \in Nat /\ MaxStack[group] \in Nat /\ Len(stack) <= MaxStack[group]
  BY LenProperties, ValueAssumption DEF StackOK
<1>4. ASSUME NEW n \in Nat, n <= Len(stack), NEW v, n > 0 \/ Len(stack) < MaxStack[group],
             stack' = Append(Drop(n), v)
      PROVE  Len(stack') <= MaxStack[group]
  <2>1. Drop(n) \in Seq(Value) /\ Len(Drop(n)) = Len(stack) - n
    BY <1>4, DropTyped
  <2>2. Len(stack') = Len(stack) - n + 1
    BY <1>4, <2>1, AppendLen
  <2>3. QED
    BY <1>3, <1>4, <2>2
<1>5. Len(stack') <= MaxStack[group] /\ printed' = <<>>
  <2>1. CASE op_newtable
    <3>1. stack' = Append(Drop(0), Table) /\ Len(stack) < MaxStack[group] /\ printed' = <<>>
      BY <2>1 DEF op_newtable, MayLoad, Gives
    <3>2. QED
      BY <1>3, <1>4, <3>1
  <2>2. CASE op_settable
    <3>1. stack' = Drop(3) /\ 3 <= Len(stack) /\ printed' = <<>>
      BY <1>3, <2>2 DEF op_settable, Takes
    <3>2. QED
      BY <3>1, DropTyped
  <2>3. CASE op_gettable
    <3>1. PICK v : stack' = Append(Drop(2), v) /\ 2 <= Len(stack) /\ printed' = <<>>
      BY <1>3, <2>3 DEF op_gettable, Takes, Gives
    <3>2. QED
      BY <1>4, <3>1
  <2>4. CASE op_len_table
    <3>1. PICK v : stack' = Append(Drop(1), v) /\ 1 <= Len(stack) /\ printed' = <<>>
      BY <1>3, <2>4 DEF op_len_table, Takes, Gives
    <3>2. QED
      BY <1>4, <3>1
  <2>5. CASE op_load_table
    <3>1. stack' = Append(Drop(0), Table) /\ Len(stack) < MaxStack[group] /\ printed' = <<>>
      BY <2>5 DEF op_load_table, MayLoad, Gives
    <3>2. QED
      BY <1>3, <1>4, <3>1
  <2>6. QED
    BY <2>1, <2>2, <2>3, <2>4, <2>5 DEF TableSteps
<1>6. QED
  BY <1>1, <1>2, <1>5 DEF StackOK

\* The inductive invariant of the machine.
MachineInv == StackOK /\ FilesOK /\ TableInv

LEMMA InitMachine == Init => MachineInv
<1> SUFFICES ASSUME Init PROVE MachineInv
  OBVIOUS
<1>1. StackOK
  <2>1. group \in Groups /\ stack = <<>> /\ printed = <<>> /\ MaxStack[group] \in Nat
    BY ValueAssumption DEF Init, InitTables, InitValues
  <2>2. stack \in Seq(Value) /\ Len(stack) = 0 /\ printed \in Seq(Text)
    BY <2>1
  <2>3. QED
    BY <2>1, <2>2 DEF StackOK
<1>2. FilesOK
  <2>1. PICK P \in SUBSET (IF group = "files" THEN Paths ELSE {}) : files \in [P -> Contents]
    BY DEF Init
  <2>2. DOMAIN files \subseteq Paths /\ \A p \in DOMAIN files : files[p] \in Text
    BY <2>1, FileAssumption
  <2>3. DOMAIN devs = {}
    BY DEF Init
  <2>4. QED
    BY <2>2, <2>3 DEF FilesOK
<1>3. QED
  BY <1>1, <1>2, InitTableInv DEF MachineInv

LEMMA StepMachine == MachineInv /\ [Next]_vars => MachineInv'
<1> SUFFICES ASSUME MachineInv, [Next]_vars PROVE MachineInv'
  OBVIOUS
<1>1. TableInv'
  BY NextPreserves DEF MachineInv
<1>2. CASE NextValues /\ UNCHANGED <<files, devs>>
  <2>1. StackOK'
    BY <1>2, ValuesTyped DEF MachineInv
  <2>2. FilesOK'
    BY <1>2, SameDevsOK DEF MachineInv, SameDevs
  <2>3. QED
    BY <1>1, <2>1, <2>2 DEF MachineInv
<1>3. CASE TableSteps /\ UNCHANGED <<files, devs>>
  <2>1. StackOK'
    BY <1>3, TablesTyped DEF MachineInv
  <2>2. FilesOK'
    BY <1>3, SameDevsOK DEF MachineInv, SameDevs
  <2>3. QED
    BY <1>1, <2>1, <2>2 DEF MachineInv
<1>4. CASE FileSteps
  BY <1>1, <1>4, FileStepsTyped DEF MachineInv
<1>5. CASE UNCHANGED vars
  <2>1. StackOK'
    BY <1>5 DEF MachineInv, StackOK, vars, values
  <2>2. FilesOK'
    BY <1>5, SameDevsOK DEF MachineInv, SameDevs, vars, system
  <2>3. QED
    BY <1>1, <2>1, <2>2 DEF MachineInv
<1>6. QED
  BY <1>2, <1>3, <1>4, <1>5 DEF Next, OtherSteps, NextTables

LEMMA MachineTypes == MachineInv => TypeOK
<1> SUFFICES ASSUME MachineInv PROVE TypeOK
  OBVIOUS
<1>1. entries \in Seq(Entry)
  <2>1. <<>> \in Seq(Entry)
    OBVIOUS
  <2>2. QED
    BY <2>1 DEF MachineInv, TableInv
<1>2. \A d \in DOMAIN devs : devs[d].path \in DOMAIN files /\ devs[d].mode \in {"read", "both"}
  BY DEF MachineInv, FilesOK
<1>3. QED
  BY <1>1, <1>2 DEF MachineInv, StackOK, FilesOK, TypeOK

(* The machine keeps its shape: whatever a program does, the values on the  *)
(* stack and in the table are words with a type and their texts characters, *)
(* files hold text, and every open device is in a file that there is.       *)
THEOREM TypeCorrect == Spec => []TypeOK
<1>1. QED
  BY InitMachine, StepMachine, MachineTypes, PTL DEF Spec


-----------------------------------------------------------------------------
(* What the builtins promise. *)

LineEnds == {<<LineFeed>>, <<CarriageReturn>>, <<CarriageReturn, LineFeed>>}

LEMMA EndsAre ==
  /\ LineFeed \in Char /\ CarriageReturn \in Char /\ LineFeed # CarriageReturn
  /\ \A e \in LineEnds : e \in Text
<1>1. LineFeed \in Char /\ CarriageReturn \in Char /\ LineFeed # CarriageReturn
  BY Chars DEF LineFeed, CarriageReturn
<1>2. QED
  BY <1>1 DEF LineEnds, Text

LEMMA EndShapes ==
  \A f \in LineEnds :
    \/ (f = <<LineFeed>> /\ Len(f) = 1 /\ f[Len(f)] = LineFeed)
    \/ (f = <<CarriageReturn>> /\ Len(f) = 1)
    \/ (f = <<CarriageReturn, LineFeed>> /\ Len(f) = 2 /\ f[1] = CarriageReturn /\ f[Len(f)] = LineFeed)
<1> TAKE f \in LineEnds
<1>1. CASE f = <<LineFeed>>
  BY <1>1
<1>2. CASE f = <<CarriageReturn>>
  BY <1>2
<1>3. CASE f = <<CarriageReturn, LineFeed>>
  BY <1>3
<1>4. QED
  BY <1>1, <1>2, <1>3, Zenon DEF LineEnds

\* What a text that ends with another ends with.
LEMMA SuffixEnds ==
  ASSUME NEW t \in Text, NEW f \in LineEnds, F!IsSuffix(f, t)
  PROVE  /\ Len(f) <= Len(t) /\ t # <<>>
         /\ t[Len(t)] = f[Len(f)]
         /\ Len(f) = 2 => t[Len(t) - 1] = CarriageReturn
<1>1. PICK m \in {1, 2} : m = Len(f)
  BY DEF LineEnds
<1>2. f \in Seq(Char) /\ t \in Seq(Char) /\ Len(t) \in Nat
  BY EndsAre, Chars DEF Text
<1> DEFINE rf == F!Reverse(f)
           rt == F!Reverse(t)
<1>3. rf \in Seq(Char) /\ Len(rf) = m /\ \A i \in 1 .. m : rf[i] = f[m - i + 1]
  <2>1. rf = [i \in 1 .. m |-> f[m - i + 1]]
    BY <1>1 DEF F!Reverse
  <2>2. \A i \in 1 .. m : m - i + 1 \in 1 .. m
    BY <1>1
  <2>3. rf \in [1 .. m -> Char] /\ m \in Nat
    BY <1>1, <1>2, <2>1, <2>2
  <2>4. rf \in Seq(Char)
    BY <2>3, SeqDef
  <2> HIDE DEF rf
  <2>5. Len(rf) = m
    BY <2>3, <2>4, LenProperties
  <2>6. QED
    BY <2>1, <2>4, <2>5
<1>4. rt \in Seq(Char) /\ Len(rt) = Len(t) /\ \A i \in 1 .. Len(t) : rt[i] = t[Len(t) - i + 1]
  <2>1. rt = [i \in 1 .. Len(t) |-> t[Len(t) - i + 1]]
    BY DEF F!Reverse
  <2>2. \A i \in 1 .. Len(t) : Len(t) - i + 1 \in 1 .. Len(t)
    BY <1>2
  <2>3. rt \in [1 .. Len(t) -> Char]
    BY <1>2, <2>1, <2>2
  <2>4. rt \in Seq(Char)
    BY <1>2, <2>3, SeqDef
  <2> HIDE DEF rt
  <2>5. Len(rt) = Len(t)
    BY <1>2, <2>3, <2>4, LenProperties
  <2>6. QED
    BY <2>1, <2>4, <2>5
<1>5. Len(rf) <= Len(rt) /\ SubSeq(rf, 1, Len(rf)) = SubSeq(rt, 1, Len(rf))
  BY DEF F!IsSuffix, F!IsPrefix
<1> HIDE DEF rf, rt
<1>6. \A i \in 1 .. m : rf[i] = rt[i]
  <2> TAKE i \in 1 .. m
  <2>1. SubSeq(rf, 1, m)[i] = rf[i] /\ SubSeq(rt, 1, m)[i] = rt[i]
    BY <1>1, <1>3, <1>4, <1>5
  <2>2. QED
    BY <1>3, <1>5, <2>1
<1>7. m <= Len(t) /\ 1 \in 1 .. m /\ 1 \in 1 .. Len(t)
  BY <1>1, <1>2, <1>3, <1>4, <1>5
<1>8. t[Len(t)] = f[m]
  <2>1. rf[1] = f[m - 1 + 1] /\ rt[1] = t[Len(t) - 1 + 1] /\ rf[1] = rt[1]
    BY <1>3, <1>4, <1>6, <1>7
  <2>2. m - 1 + 1 = m /\ Len(t) - 1 + 1 = Len(t)
    BY <1>1, <1>2
  <2>3. QED
    BY <2>1, <2>2
<1>9. m = 2 => t[Len(t) - 1] = CarriageReturn
  <2>1. SUFFICES ASSUME m = 2 PROVE t[Len(t) - 1] = CarriageReturn
    OBVIOUS
  <2>2. 2 \in 1 .. m /\ 2 \in 1 .. Len(t) /\ m - 2 + 1 = 1 /\ Len(t) - 2 + 1 = Len(t) - 1
    BY <1>2, <1>7, <2>1
  <2>3. rf[2] = f[1] /\ rt[2] = t[Len(t) - 1] /\ rf[2] = rt[2]
    BY <1>3, <1>4, <1>6, <2>2
  <2>4. f[1] = CarriageReturn
    <3>1. Len(f) # 1
      BY <1>1, <2>1
    <3>2. QED
      BY <3>1, EndShapes, Zenon
  <2>5. QED
    BY <2>3, <2>4
<1>10. QED
  BY <1>1, <1>2, <1>7, <1>8, <1>9

LEMMA CutIs ==
  ASSUME NEW t \in Text, NEW c \in Char
  PROVE  \/ t = Cut(t, c) \o <<c>> /\ Len(Cut(t, c)) = Len(t) - 1 /\ t # <<>> /\ t[Len(t)] = c
            /\ \A i \in 1 .. Len(t) - 1 : Cut(t, c)[i] = t[i]
         \/ Cut(t, c) = t /\ (t # <<>> => t[Len(t)] # c)
<1>1. t \in Seq(Char) /\ Len(t) \in Nat
  BY Chars DEF Text
<1>2. CASE t # <<>> /\ t[Len(t)] = c
  <2>1. Len(t) >= 1
    BY <1>1, <1>2, EmptySeq
  <2>2. PICK n \in Nat : n = Len(t) - 1
    BY <1>1, <2>1
  <2>3. PICK s : s = SubSeq(t, 1, n)
    OBVIOUS
  <2>4. s \in Seq(Char) /\ Len(s) = n /\ \A i \in 1 .. n : s[i] = t[i]
    BY <1>1, <2>1, <2>2, <2>3
  <2>5. <<c>> \in Seq(Char) /\ Len(<<c>>) = 1 /\ <<c>>[1] = c
    OBVIOUS
  <2>6. PICK u : u = s \o <<c>>
    OBVIOUS
  <2>7. u \in Seq(Char) /\ Len(u) = n + 1 /\ \A i \in 1 .. n + 1 : u[i] = IF i <= n THEN s[i] ELSE c
    BY <2>2, <2>4, <2>5, <2>6
  <2>8. \A i \in 1 .. n + 1 : u[i] = t[i]
    <3> TAKE i \in 1 .. n + 1
    <3>1. CASE i <= n
      BY <2>4, <2>7, <3>1
    <3>2. CASE ~(i <= n)
      <4>1. i = Len(t)
        BY <1>1, <2>2, <3>2
      <4>2. QED
        BY <1>2, <2>7, <3>2, <4>1
    <3>3. QED
      BY <3>1, <3>2
  <2>9. u = t
    BY <1>1, <2>2, <2>7, <2>8, SeqEqual
  <2>10. Cut(t, c) = s
    BY <1>2, <2>2, <2>3 DEF Cut
  <2>11. QED
    BY <1>2, <2>2, <2>4, <2>6, <2>9, <2>10
<1>3. CASE ~(t # <<>> /\ t[Len(t)] = c)
  BY <1>3 DEF Cut
<1>4. QED
  BY <1>2, <1>3

(* op_input takes off the longest end that the line has. *)
LEMMA StrippedIs ==
  ASSUME NEW t \in Text
  PROVE  \E e \in LineEnds \cup {<<>>} :
           t = Stripped(t) \o e /\ \A f \in LineEnds : F!IsSuffix(f, t) => Len(f) <= Len(e)
<1>1. LineFeed \in Char /\ CarriageReturn \in Char /\ LineFeed # CarriageReturn
  BY EndsAre
<1>2. PICK s \in Text : s = Cut(t, LineFeed)
  BY TextParts
<1>3. PICK r \in Text : r = Cut(s, CarriageReturn) /\ r = Stripped(t)
  BY <1>2, TextParts DEF Stripped
<1>4. Len(t) \in Nat /\ Len(s) \in Nat /\ r \in Seq(Char) /\ s \in Seq(Char) /\ t \in Seq(Char)
  BY Chars DEF Text
<1>5. CASE t = s \o <<LineFeed>> /\ Len(s) = Len(t) - 1 /\ t # <<>> /\ t[Len(t)] = LineFeed
           /\ \A i \in 1 .. Len(t) - 1 : s[i] = t[i]
  <2>1. CASE s = r \o <<CarriageReturn>>
    <3>1. t = r \o <<CarriageReturn, LineFeed>>
      <4>1. t = (r \o <<CarriageReturn>>) \o <<LineFeed>>
        BY <1>5, <2>1
      <4>2. (r \o <<CarriageReturn>>) \o <<LineFeed>> = r \o <<CarriageReturn, LineFeed>>
        <5>1. <<CarriageReturn>> \in Seq(Char) /\ <<LineFeed>> \in Seq(Char)
              /\ <<CarriageReturn>> \o <<LineFeed>> = <<CarriageReturn, LineFeed>>
          <6>1. PICK c \in Char, l \in Char : c = CarriageReturn /\ l = LineFeed
            BY <1>1
          <6>2. <<c>> \in Seq(Char) /\ <<l>> \in Seq(Char)
            OBVIOUS
          <6>3. <<c>> \o <<l>> = <<c, l>>
            <7>1. PICK a \in Seq(Char), b \in Seq(Char) : a = <<c>> /\ b = <<l>>
              BY <6>2
            <7>2. Len(a) = 1 /\ a[1] = c /\ Len(b) = 1 /\ b[1] = l
              BY <7>1
            <7>3. a \o b \in Seq(Char) /\ Len(a \o b) = 2 /\ (a \o b)[1] = c /\ (a \o b)[2] = l
              <8>1. a \o b \in Seq(Char) /\ Len(a \o b) = Len(a) + Len(b)
                OBVIOUS
              <8>2. \A i \in 1 .. Len(a) + Len(b) : (a \o b)[i] = IF i <= Len(a) THEN a[i] ELSE b[i - Len(a)]
                OBVIOUS
              <8>3. Len(a) + Len(b) = 2 /\ 1 <= Len(a) /\ ~(2 <= Len(a)) /\ 2 - Len(a) = 1
                BY <7>2
              <8>4. QED
                BY <7>2, <8>1, <8>2, <8>3
            <7>4. <<c, l>> \in Seq(Char) /\ Len(<<c, l>>) = 2
              OBVIOUS
            <7>5. \A i \in 1 .. 2 : (a \o b)[i] = <<c, l>>[i]
              BY <7>3
            <7>6. a \o b = <<c, l>>
              BY <7>3, <7>4, <7>5, SeqEqual
            <7>7. QED
              BY <7>1, <7>6
          <6>4. QED
            BY <6>1, <6>2, <6>3
        <5>2. (r \o <<CarriageReturn>>) \o <<LineFeed>> = r \o (<<CarriageReturn>> \o <<LineFeed>>)
          BY <1>4, <5>1, ConcatAssociative
        <5>3. QED
          BY <5>1, <5>2
      <4>3. QED
        BY <4>1, <4>2
    <3>2. \A f \in LineEnds : Len(f) <= 2
      <4> TAKE f \in LineEnds
      <4>1. Len(f) = 1 \/ Len(f) = 2
        BY EndShapes, Zenon
      <4>2. QED
        BY <4>1
    <3>3. Len(<<CarriageReturn, LineFeed>>) = 2 /\ <<CarriageReturn, LineFeed>> \in LineEnds
      BY DEF LineEnds
    <3>4. QED
      BY <1>3, <3>1, <3>2, <3>3
  <2>2. CASE r = s /\ (s # <<>> => s[Len(s)] # CarriageReturn)
    <3>1. ASSUME NEW f \in LineEnds, F!IsSuffix(f, t) PROVE Len(f) <= 1
      <4>1. SUFFICES ASSUME Len(f) = 2 PROVE FALSE
        <5>1. Len(f) = 1 \/ Len(f) = 2
          BY <3>1, EndShapes, Zenon
        <5>2. QED
          BY <5>1
      <4>2. Len(f) <= Len(t) /\ t[Len(t) - 1] = CarriageReturn
        BY <3>1, <4>1, SuffixEnds
      <4>3. Len(s) = Len(t) - 1 /\ Len(s) \in 1 .. Len(t) - 1
        BY <1>4, <1>5, <4>1, <4>2
      <4>4. s[Len(s)] = CarriageReturn /\ s # <<>>
        BY <1>5, <4>2, <4>3
      <4>5. QED
        BY <2>2, <4>4
    <3>2. Len(<<LineFeed>>) = 1 /\ <<LineFeed>> \in LineEnds
      BY DEF LineEnds
    <3>3. QED
      BY <1>3, <1>5, <2>2, <3>1, <3>2
  <2>3. QED
    BY <1>1, <1>3, <2>1, <2>2, CutIs
<1>6. CASE s = t /\ (t # <<>> => t[Len(t)] # LineFeed)
  <2>1. ASSUME NEW f \in LineEnds, F!IsSuffix(f, t)
        PROVE  f = <<CarriageReturn>> /\ t # <<>> /\ t[Len(t)] = CarriageReturn
    <3>1. t # <<>> /\ t[Len(t)] = f[Len(f)]
      BY <2>1, SuffixEnds
    <3>2. f[Len(f)] # LineFeed
      BY <1>6, <3>1
    <3>3. f = <<CarriageReturn>>
      BY <2>1, <3>2, EndShapes, Zenon
    <3>4. QED
      BY <3>1, <3>3
  <2>2. CASE s = r \o <<CarriageReturn>>
    <3>1. Len(<<CarriageReturn>>) = 1 /\ <<CarriageReturn>> \in LineEnds
      BY DEF LineEnds
    <3>2. \A f \in LineEnds : F!IsSuffix(f, t) => Len(f) <= 1
      <4> TAKE f \in LineEnds
      <4> SUFFICES ASSUME F!IsSuffix(f, t) PROVE Len(f) <= 1
        OBVIOUS
      <4>1. Len(f) = 1
        BY <2>1, <3>1, Zenon
      <4>2. QED
        BY <4>1
    <3>3. QED
      BY <1>3, <1>6, <2>2, <3>1, <3>2
  <2>3. CASE r = s /\ (s # <<>> => s[Len(s)] # CarriageReturn)
    <3>1. \A f \in LineEnds : ~F!IsSuffix(f, t)
      BY <1>6, <2>1, <2>3
    <3>2. t = r \o <<>>
      BY <1>4, <1>6, <2>3
    <3>3. QED
      BY <1>3, <3>1, <3>2
  <2>4. QED
    BY <1>1, <1>3, <2>2, <2>3, CutIs
<1>7. QED
  BY <1>1, <1>2, <1>5, <1>6, CutIs

-----------------------------------------------------------------------------
(* The machine implements what the file service promises. *)

HandlesOf(ds) == [d \in DOMAIN ds |-> [path |-> ds[d].path, at |-> ds[d].at]]

LEMMA HandlesKept ==
  ASSUME NEW ds, NEW es, SameDevs(ds, es)
  PROVE  HandlesOf(es) = HandlesOf(ds)
BY DEF SameDevs, HandlesOf

LEMMA HandlesMoved ==
  ASSUME FilesOK, NEW d \in DOMAIN devs, NEW n \in Nat, devs' = [devs EXCEPT ![d].at = @ + n]
  PROVE  HandlesOf(devs') = [HandlesOf(devs) EXCEPT ![d].at = @ + n]
<1>1. DOMAIN devs' = DOMAIN devs /\ \A e \in DOMAIN devs : e # d => devs'[e] = devs[e]
  OBVIOUS
<1>2. devs'[d].path = devs[d].path /\ devs'[d].at = devs[d].at + n
  BY DEF FilesOK
<1>3. PICK hs : hs = HandlesOf(devs)
  OBVIOUS
<1>4. DOMAIN hs = DOMAIN devs /\ \A e \in DOMAIN devs : hs[e] = [path |-> devs[e].path, at |-> devs[e].at]
  BY <1>3 DEF HandlesOf
<1>5. PICK gs : gs = [hs EXCEPT ![d].at = @ + n]
  OBVIOUS
<1>6. /\ gs = [e \in DOMAIN devs |-> gs[e]]
      /\ gs[d] = [path |-> devs[d].path, at |-> devs[d].at + n]
      /\ \A e \in DOMAIN devs : e # d => gs[e] = hs[e]
  <2>1. gs = [e \in DOMAIN devs |-> gs[e]] /\ \A e \in DOMAIN devs : e # d => gs[e] = hs[e]
    BY <1>4, <1>5
  <2>2. gs[d] = [hs[d] EXCEPT !.at = @ + n]
    BY <1>4, <1>5
  <2>3. hs[d] = [path |-> devs[d].path, at |-> devs[d].at]
    BY <1>4
  <2>4. gs[d] = [path |-> devs[d].path, at |-> devs[d].at + n]
    BY <2>2, <2>3
  <2>5. QED
    BY <2>1, <2>4
<1>7. \A e \in DOMAIN devs : gs[e] = [path |-> devs'[e].path, at |-> devs'[e].at]
  BY <1>1, <1>2, <1>4, <1>6
<1>8. HandlesOf(devs') = gs
  BY <1>1, <1>6, <1>7 DEF HandlesOf
<1>9. QED
  BY <1>3, <1>5, <1>8

LEMMA HandlesDropped ==
  ASSUME NEW ds, NEW d, NEW es, es = SysClose(d, ds)
  PROVE  HandlesOf(es) = [h \in DOMAIN HandlesOf(ds) \ {d} |-> HandlesOf(ds)[h]]
BY DEF SysClose, HandlesOf

LEMMA AnswerMeans ==
  /\ Meaning(Nil).type = "nil"
  /\ \A b \in BOOLEAN : Meaning(Bool(b)).type = "bool" /\ Meaning(Bool(b)).int = IF b THEN 1 ELSE 0
  /\ \A v : v.type = "string" => Meaning(v).type = "string" /\ Meaning(v).text = v.text
  /\ \A d \in Devices : Meaning(Number(d)).type = "number" /\ Meaning(Number(d)).int = d
<1>1. \A d \in Devices : d \in Nat /\ d < Half
  BY FileAssumption, WordsAre
<1>2. \A d \in Devices : ~Negative(d)
  BY <1>1, WordsAre DEF Negative
<1>3. QED
  BY <1>2 DEF Meaning, Nil, Bool, Number

LEMMA Recorded ==
  ASSUME NEW name, NEW n, NEW p, NEW h, NEW data, NEW v, Answers(name, n, p, h, data, v)
  PROVE  /\ io'.op = name /\ io'.path = p /\ io'.handle = h /\ io'.data = data
         /\ io'.answer = Meaning(v)
BY DEF Answers

LEMMA ServesInput ==
  ASSUME MachineInv, op_input
  PROVE  F!Input
<1>1. PICK n \in {0, 1}, v \in Value, t \in Text :
           /\ Answers("input", n, <<>>, 0, t, v)
           /\ v = Nil \/ (v.type = "string" /\ v.text = Stripped(t))
           /\ files' = files /\ devs' = devs
  BY InputDoes DEF MachineInv
<1>2. F!Call("input") /\ F!Keeps /\ F!Answer = Meaning(v) /\ F!Data = t
  BY <1>1, Recorded DEF F!Call, F!Keeps, F!Answer, F!Data
<1>3. CASE v = Nil
  BY <1>2, <1>3, AnswerMeans DEF F!Input, F!Fails
<1>4. CASE v.type = "string" /\ v.text = Stripped(t)
  <2>1. Meaning(v).type = "string" /\ Meaning(v).text = Stripped(t)
    BY <1>4, AnswerMeans
  <2>2. PICK e \in LineEnds \cup {<<>>} :
          t = Stripped(t) \o e /\ \A f \in LineEnds : F!IsSuffix(f, t) => Len(f) <= Len(e)
    BY StrippedIs
  <2>3. QED
    BY <1>2, <2>1, <2>2 DEF F!Input, LineEnds
<1>5. QED
  BY <1>1, <1>3, <1>4

LEMMA ServesReadFile ==
  ASSUME MachineInv, op_readfile
  PROVE  F!ReadFile
<1>1. PICK p \in Text, v \in Value :
           /\ Answers("readfile", 1, p, 0, <<>>, v)
           /\ v = Nil \/ (v.type = "string" /\ p \in DOMAIN files /\ v.text = Prefix(files[p]))
           /\ files' = files /\ SameDevs(devs, devs')
  BY ReadfileDoes DEF MachineInv
<1>2. HandlesOf(devs') = HandlesOf(devs)
  BY <1>1, HandlesKept
<1>3. F!Call("readfile") /\ F!Keeps /\ F!Answer = Meaning(v) /\ F!Path = p
  BY <1>1, <1>2, Recorded DEF F!Call, F!Keeps, F!Answer, F!Path, HandlesOf
<1>4. CASE v = Nil
  BY <1>3, <1>4, AnswerMeans DEF F!ReadFile, F!Fails
<1>5. CASE v.type = "string" /\ p \in DOMAIN files /\ v.text = Prefix(files[p])
  BY <1>3, <1>5, AnswerMeans DEF F!ReadFile, F!Tells, Prefix
<1>6. QED
  BY <1>1, <1>4, <1>5

LEMMA ServesWriteFile ==
  ASSUME MachineInv, op_writefile
  PROVE  F!WriteFile
<1>1. PICK p \in Text, data \in Text, b \in BOOLEAN :
           /\ Answers("writefile", 2, p, 0, data, Bool(b))
           /\ \/ b /\ p \in Paths /\ \E n \in 0 .. Len(data) : files' = WithFile(files, p, SubSeq(data, 1, n))
              \/ ~b /\ (files' = files \/ (p \in Paths /\ files' = WithFile(files, p, <<>>)))
           /\ SameDevs(devs, devs')
  BY WritefileDoes DEF MachineInv
<1>2. HandlesOf(devs') = HandlesOf(devs)
  BY <1>1, HandlesKept
<1>3. F!Call("writefile") /\ F!Answer = Meaning(Bool(b)) /\ F!Path = p /\ F!Data = data
  BY <1>1, Recorded DEF F!Call, F!Answer, F!Path, F!Data
<1>4. \A t : F!WithFile(p, t) = WithFile(files, p, t)
  BY DEF F!WithFile, WithFile
<1>5. CASE b
  <2>1. F!Agrees
    BY <1>3, <1>5, AnswerMeans DEF F!Agrees
  <2>2. \E n \in 0 .. Len(data) : files' = F!WithFile(p, SubSeq(data, 1, n))
    BY <1>1, <1>4, <1>5
  <2>3. QED
    BY <1>2, <1>3, <2>1, <2>2 DEF F!WriteFile, HandlesOf
<1>6. CASE ~b
  <2>1. F!Refuses
    BY <1>3, <1>6, AnswerMeans DEF F!Refuses
  <2>2. files' = files \/ files' = F!WithFile(p, <<>>)
    BY <1>1, <1>4, <1>6
  <2>3. QED
    BY <1>2, <1>3, <2>1, <2>2 DEF F!WriteFile, HandlesOf
<1>7. QED
  BY <1>5, <1>6

LEMMA ServesOpen ==
  ASSUME MachineInv, op_open
  PROVE  F!Open
<1>1. PICK n \in {1, 2}, p \in Text, v \in Value :
           /\ Answers("open", n, p, 0, <<>>, v)
           /\ \/ v = Nil /\ devs' = devs
              \/ \E d \in Devices \ DOMAIN devs, mode \in {"read", "both"} :
                   /\ v = Number(d) /\ p \in DOMAIN files
                   /\ devs' = WithDev(devs, d, [path |-> p, at |-> 0, mode |-> mode])
           /\ files' = files
  BY OpDoes DEF MachineInv
<1>2. F!Call("open") /\ files' = files /\ F!Answer = Meaning(v) /\ F!Path = p
  BY <1>1, Recorded DEF F!Call, F!Answer, F!Path
<1>3. CASE v = Nil /\ devs' = devs
  BY <1>2, <1>3, AnswerMeans DEF F!Open, F!Fails
<1>4. ASSUME NEW d \in Devices \ DOMAIN devs, NEW mode, v = Number(d), p \in DOMAIN files,
             devs' = WithDev(devs, d, [path |-> p, at |-> 0, mode |-> mode])
      PROVE  F!Open
  <2>1. F!Answer.type = "number" /\ F!Answer.int = d
    BY <1>2, <1>4, AnswerMeans
  <2>2. PICK m : m = F!Answer.int
    OBVIOUS
  <2>3. PICK q : q = F!Path
    OBVIOUS
  <2>4. m = d /\ q = p
    BY <1>2, <2>1, <2>2, <2>3
  <2>5. HandlesOf(devs') = [h \in DOMAIN HandlesOf(devs) \cup {m} |->
                              IF h = m THEN [path |-> q, at |-> 0] ELSE HandlesOf(devs)[h]]
    BY <1>4, <2>4 DEF WithDev, HandlesOf
  <2>6. DOMAIN HandlesOf(devs) = DOMAIN devs
    BY DEF HandlesOf
  <2>7. F!Answer.type = "number" /\ q \in DOMAIN files /\ m \notin DOMAIN HandlesOf(devs)
    BY <1>4, <2>1, <2>4, <2>6
  <2>8. QED
    BY <1>2, <2>2, <2>3, <2>5, <2>7, Zenon DEF F!Open, HandlesOf
<1>5. CASE \E d \in Devices \ DOMAIN devs, mode \in {"read", "both"} :
             /\ v = Number(d) /\ p \in DOMAIN files
             /\ devs' = WithDev(devs, d, [path |-> p, at |-> 0, mode |-> mode])
  <2>1. PICK d \in Devices \ DOMAIN devs, mode \in {"read", "both"} :
             /\ v = Number(d) /\ p \in DOMAIN files
             /\ devs' = WithDev(devs, d, [path |-> p, at |-> 0, mode |-> mode])
    BY <1>5
  <2>2. QED
    BY <1>4, <2>1, Zenon
<1>6. QED
  BY <1>1, <1>3, <1>5

\* What is read is what the file holds behind the handle.
LEMMA PartBehind ==
  ASSUME NEW t \in Text, NEW a \in Nat, Prefix(Past(t, a)) # <<>>
  PROVE  /\ Len(Prefix(Past(t, a))) \in 1 .. Buffer
         /\ Len(Prefix(Past(t, a))) <= Len(Past(t, a))
         /\ Prefix(Past(t, a)) = SubSeq(t, a + 1, a + Len(Prefix(Past(t, a))))
<1>1. t \in Seq(Char) /\ Len(t) \in Nat /\ Buffer \in Nat \ {0}
  BY Chars, FileAssumption DEF Text
<1>2. PICK u \in Text : u = Past(t, a)
  BY TextParts
<1>3. PICK w \in Text : w = Prefix(u)
  BY TextParts
<1>4. u \in Seq(Char) /\ w \in Seq(Char) /\ Len(u) \in Nat /\ Len(w) \in Nat /\ w # <<>>
  BY <1>2, <1>3, Chars DEF Text
<1>5. PICK m \in Nat : m = IF Len(u) < Buffer THEN Len(u) ELSE Buffer
  BY <1>1, <1>4
<1>6. m <= Len(u) /\ m <= Buffer
  BY <1>1, <1>4, <1>5
<1>7. w = SubSeq(u, 1, m)
  BY <1>3, <1>5 DEF Prefix
<1>8. Len(w) = m /\ \A i \in 1 .. m : w[i] = u[i]
  BY <1>4, <1>6, <1>7, SubSeqProperties
<1>9. m >= 1
  BY <1>4, <1>8, EmptySeq
<1>10. u = SubSeq(t, a + 1, Len(t))
  BY <1>2 DEF Past
<1>11. a < Len(t)
  <2>1. SUFFICES ASSUME ~(a < Len(t)) PROVE FALSE
    OBVIOUS
  <2>2. u = <<>>
    BY <1>1, <1>10, <2>1
  <2>3. QED
    BY <1>6, <1>9, <2>2
<1>12. Len(u) = Len(t) - a /\ \A i \in 1 .. Len(u) : u[i] = t[a + i]
  BY <1>1, <1>10, <1>11
<1>13. a + m <= Len(t)
  BY <1>1, <1>6, <1>12
<1>14. PICK s : s = SubSeq(t, a + 1, a + m)
  OBVIOUS
<1>15. s \in Seq(Char) /\ Len(s) = m /\ \A i \in 1 .. m : s[i] = t[a + i]
  BY <1>1, <1>9, <1>13, <1>14
<1>16. \A i \in 1 .. m : w[i] = s[i]
  <2> TAKE i \in 1 .. m
  <2>1. i \in 1 .. Len(u)
    BY <1>4, <1>6
  <2>2. w[i] = u[i] /\ u[i] = t[a + i] /\ s[i] = t[a + i]
    BY <1>8, <1>12, <1>15, <2>1
  <2>3. QED
    BY <2>2
<1>17. w = s
  BY <1>4, <1>8, <1>15, <1>16, SeqEqual
<1>18. QED
  BY <1>2, <1>3, <1>6, <1>8, <1>9, <1>14, <1>17

LEMMA ServesRead ==
  ASSUME MachineInv, op_read
  PROVE  F!Read
<1>1. PICK d \in Nat, v \in Value :
           /\ Answers("read", 1, <<>>, d, <<>>, v)
           /\ \/ v = Nil /\ SameDevs(devs, devs')
              \/ /\ d \in DOMAIN devs /\ v.type = "string" /\ v.text # <<>>
                 /\ v.text = Prefix(Past(files[devs[d].path], devs[d].at))
                 /\ devs' = [devs EXCEPT ![d].at = @ + Len(v.text)]
              \/ v = Nil /\ d \in DOMAIN devs /\ devs' = [devs EXCEPT ![d].at = @ + 0]
           /\ files' = files
  BY OpReads DEF MachineInv
<1>2. F!Call("read") /\ files' = files /\ F!Answer = Meaning(v) /\ F!Handle = d
  BY <1>1, Recorded DEF F!Call, F!Answer, F!Handle
<1>3. d \in DOMAIN devs => devs[d] \in [path : DOMAIN files, at : Nat, mode : {"read", "both"}]
  BY DEF MachineInv, FilesOK
<1>4. CASE v = Nil
  <2>1. SameDevs(devs, devs')
    <3>1. CASE d \in DOMAIN devs /\ devs' = [devs EXCEPT ![d].at = @ + 0]
      <4>1. [devs[d] EXCEPT !.at = @ + 0] = devs[d]
        BY <1>3, <3>1
      <4>2. QED
        BY <3>1, <4>1 DEF SameDevs
    <3>2. QED
      BY <1>1, <1>4, <3>1 DEF Nil
  <2>2. HandlesOf(devs') = HandlesOf(devs)
    BY <2>1, HandlesKept
  <2>3. QED
    BY <1>2, <1>4, <2>2, AnswerMeans DEF F!Read, F!Fails, HandlesOf
<1>5. CASE /\ d \in DOMAIN devs /\ v.type = "string" /\ v.text # <<>>
           /\ v.text = Prefix(Past(files[devs[d].path], devs[d].at))
           /\ devs' = [devs EXCEPT ![d].at = @ + Len(v.text)]
  <2>1. PICK p \in DOMAIN files, a \in Nat : p = devs[d].path /\ a = devs[d].at
    BY <1>3, <1>5
  <2>2. PICK t \in Text : t = files[p]
    BY <2>1 DEF MachineInv, FilesOK
  <2>3. PICK n : n = Len(v.text)
    OBVIOUS
  <2>4. n \in 1 .. Buffer /\ n <= Len(F!Beyond(t, a)) /\ v.text = SubSeq(t, a + 1, a + n)
    BY <1>5, <2>1, <2>2, <2>3, PartBehind DEF Past, F!Beyond
  <2>5. n \in Nat
    BY <2>4, FileAssumption
  <2>6. HandlesOf(devs') = [HandlesOf(devs) EXCEPT ![d].at = @ + n]
    BY <1>3, <1>5, <2>3, <2>5, HandlesMoved DEF MachineInv
  <2>7. DOMAIN HandlesOf(devs) = DOMAIN devs /\ HandlesOf(devs)[d] = [path |-> p, at |-> a]
    BY <1>5, <2>1 DEF HandlesOf
  <2>8. F!Tells(SubSeq(t, a + 1, a + n))
    BY <1>2, <1>5, <2>4, AnswerMeans DEF F!Tells
  <2>9. QED
    BY <1>2, <1>5, <2>2, <2>4, <2>6, <2>7, <2>8 DEF F!Read, HandlesOf
<1>6. QED
  BY <1>1, <1>4, <1>5

LEMMA ServesWrite ==
  ASSUME MachineInv, op_write
  PROVE  F!Write
<1>1. PICK d \in Nat, data \in Text, b \in BOOLEAN :
           /\ Answers("write", 2, <<>>, d, data, Bool(b))
           /\ \/ ~b /\ files' = files /\ devs' = devs
              \/ /\ b /\ d \in DOMAIN devs
                 /\ \E n \in 0 .. Len(data) :
                      LET p == devs[d].path  a == devs[d].at IN
                      /\ devs' = [devs EXCEPT ![d].at = @ + n]
                      /\ files' = WithFile(files, p, SubSeq(files[p], 1, a) \o SubSeq(data, 1, n)
                                                     \o Past(files[p], a + n))
  <2>1. \E d \in Nat, data \in Text, b \in BOOLEAN :
           /\ Room(2) /\ Answers("write", 2, <<>>, d, data, Bool(b))
           /\ \/ ~b /\ files' = files /\ devs' = devs
              \/ /\ b /\ d \in DOMAIN devs
                 /\ \E n \in 0 .. Len(data) :
                      LET p == devs[d].path  a == devs[d].at IN
                      /\ a <= Len(files[p])
                      /\ devs' = [devs EXCEPT ![d].at = @ + n]
                      /\ files' = WithFile(files, p, SubSeq(files[p], 1, a) \o SubSeq(data, 1, n)
                                                     \o Past(files[p], a + n))
           /\ printed' = <<>>
    BY OpWrites DEF MachineInv
  <2>2. QED
    BY <2>1
<1>2. F!Call("write") /\ F!Answer = Meaning(Bool(b)) /\ F!Handle = d /\ F!Data = data
  BY <1>1, Recorded DEF F!Call, F!Answer, F!Handle, F!Data
<1>3. CASE ~b
  <2>1. F!Refuses
    BY <1>2, <1>3, AnswerMeans DEF F!Refuses
  <2>2. QED
    BY <1>1, <1>2, <1>3, <2>1 DEF F!Write, F!Keeps
<1>4. CASE b
  <2>1. F!Agrees
    BY <1>2, <1>4, AnswerMeans DEF F!Agrees
  <2>2. d \in DOMAIN devs /\ devs[d] \in [path : DOMAIN files, at : Nat, mode : {"read", "both"}]
    BY <1>1, <1>4 DEF MachineInv, FilesOK
  <2>3. PICK p \in DOMAIN files, a \in Nat : p = devs[d].path /\ a = devs[d].at
    BY <2>2
  <2>4. PICK n \in 0 .. Len(data) :
          /\ devs' = [devs EXCEPT ![d].at = @ + n]
          /\ files' = WithFile(files, p, SubSeq(files[p], 1, a) \o SubSeq(data, 1, n) \o Past(files[p], a + n))
    BY <1>1, <1>4, <2>3
  <2>5. n \in Nat
    BY Chars
  <2>6. HandlesOf(devs') = [HandlesOf(devs) EXCEPT ![d].at = @ + n]
    BY <2>2, <2>4, <2>5, HandlesMoved DEF MachineInv
  <2>7. DOMAIN HandlesOf(devs) = DOMAIN devs /\ HandlesOf(devs)[d] = [path |-> p, at |-> a]
    BY <2>2, <2>3 DEF HandlesOf
  <2>8. files' = F!WithFile(p, SubSeq(files[p], 1, a) \o SubSeq(data, 1, n) \o F!Beyond(files[p], a + n))
    BY <2>4 DEF WithFile, Past, F!WithFile, F!Beyond
  <2>9. QED
    BY <1>2, <2>1, <2>2, <2>6, <2>7, <2>8 DEF F!Write, HandlesOf
<1>5. QED
  BY <1>3, <1>4

LEMMA ServesClose ==
  ASSUME MachineInv, op_close
  PROVE  F!Close
<1>1. PICK d \in Nat, b \in BOOLEAN :
           /\ Answers("close", 1, <<>>, d, <<>>, Bool(b))
           /\ \/ ~b /\ devs' = devs
              \/ b /\ d \in DOMAIN devs /\ devs' = SysClose(d, devs)
           /\ files' = files
  BY OpCloses DEF MachineInv
<1>2. F!Call("close") /\ files' = files /\ F!Answer = Meaning(Bool(b)) /\ F!Handle = d
  BY <1>1, Recorded DEF F!Call, F!Answer, F!Handle
<1>3. CASE ~b
  <2>1. F!Refuses
    BY <1>2, <1>3, AnswerMeans DEF F!Refuses
  <2>2. QED
    BY <1>1, <1>2, <1>3, <2>1 DEF F!Close
<1>4. CASE b
  <2>1. F!Agrees
    BY <1>2, <1>4, AnswerMeans DEF F!Agrees
  <2>2. HandlesOf(devs') = [h \in DOMAIN HandlesOf(devs) \ {d} |-> HandlesOf(devs)[h]]
    BY <1>1, <1>4, HandlesDropped
  <2>3. d \in DOMAIN HandlesOf(devs)
    BY <1>1, <1>4 DEF HandlesOf
  <2>4. QED
    BY <1>2, <2>1, <2>2, <2>3 DEF F!Close, HandlesOf
<1>5. QED
  BY <1>3, <1>4

LEMMA ServesFromTheStart == Init => F!Init
BY DEF Init, NoCall, F!Init

LEMMA ServesOnward ==
  MachineInv /\ [Next]_vars => [F!Next]_<<files, [d \in DOMAIN devs |-> [path |-> devs[d].path, at |-> devs[d].at]], io>>
<1> SUFFICES ASSUME MachineInv, [Next]_vars
             PROVE  [F!Next]_<<files, [d \in DOMAIN devs |-> [path |-> devs[d].path, at |-> devs[d].at]], io>>
  OBVIOUS
<1>1. CASE OtherSteps
  <2>1. F!Other
    BY <1>1 DEF OtherSteps, NoCall, F!Other, F!Call, F!Keeps
  <2>2. QED
    BY <2>1 DEF F!Next
<1>2. CASE FileSteps
  BY <1>2, ServesInput, ServesReadFile, ServesWriteFile, ServesOpen, ServesRead, ServesWrite, ServesClose
     DEF FileSteps, F!Next
<1>3. CASE UNCHANGED vars
  BY <1>3 DEF vars, system
<1>4. QED
  BY <1>1, <1>2, <1>3 DEF Next

(* Every behaviour of the machine is one of the file service: whichever     *)
(* system call fails inside a builtin and however much of a write the       *)
(* system takes, the answer tells what became of the files, and the devices *)
(* that stay open are those the program holds a handle for.                 *)
THEOREM FilesImplemented == Spec => ImplementsFiles
<1>1. QED
  BY InitMachine, StepMachine, ServesFromTheStart, ServesOnward, PTL DEF Spec, ImplementsFiles, F!Spec

-----------------------------------------------------------------------------
(***************************************************************************)
(* The machine implements LuaMachine: what every operation does to the      *)
(* meanings of the values, which string objects there are, and the table as *)
(* a map.                                                                   *)
(***************************************************************************)

(* The stack of meanings. *)

Meanings == [type : Types, int : Int, text : Text]
MeaningsOf(s) == [i \in DOMAIN s |-> Meaning(s[i])]

LEMMA MeaningTyped ==
  ASSUME NEW v \in Value
  PROVE  /\ Meaning(v) \in Meanings
         /\ Meaning(v).type = v.type /\ Meaning(v).text = v.text
         /\ v.type = "number" => Meaning(v).int = SignedOf(v.word)
         /\ v.type = "string" => Meaning(v).int = 0
         /\ v.type \notin {"number", "string"} => Meaning(v).int = v.word
<1>1. v.word \in Nat /\ v.word \in Int /\ v.type \in Types /\ v.text \in Text /\ SignedOf(v.word) \in Int
  BY WordsAre, SignedIs DEF Value
<1>2. v.type = "number" => Meaning(v).int = SignedOf(v.word)
  BY DEF Meaning, SignedOf
<1>3. v.type = "string" => Meaning(v).int = 0
  BY DEF Meaning
<1>4. v.type \notin {"number", "string"} => Meaning(v).int = v.word
  BY DEF Meaning
<1>5. PICK n \in Int : n = Meaning(v).int
  BY <1>1, <1>2, <1>3, <1>4
<1>6. Meaning(v) = [type |-> v.type, int |-> n, text |-> v.text]
  BY <1>5 DEF Meaning
<1>7. QED
  BY <1>1, <1>2, <1>3, <1>4, <1>6 DEF Meanings

LEMMA MeaningsAre ==
  ASSUME NEW s \in Seq(Value)
  PROVE  /\ MeaningsOf(s) \in Seq(Meanings) /\ Len(MeaningsOf(s)) = Len(s) /\ Len(s) \in Nat
         /\ \A i \in 1 .. Len(s) : MeaningsOf(s)[i] = Meaning(s[i])
<1>1. Len(s) \in Nat /\ DOMAIN s = 1 .. Len(s) /\ \A i \in 1 .. Len(s) : s[i] \in Value
  BY LenProperties
<1>2. PICK ms : ms = MeaningsOf(s)
  OBVIOUS
<1>3. ms = [i \in 1 .. Len(s) |-> Meaning(s[i])]
  BY <1>1, <1>2 DEF MeaningsOf
<1>4. \A i \in 1 .. Len(s) : Meaning(s[i]) \in Meanings
  BY <1>1, MeaningTyped
<1>5. ms \in [1 .. Len(s) -> Meanings]
  BY <1>3, <1>4
<1>6. ms \in Seq(Meanings)
  BY <1>1, <1>5, SeqDef
<1>7. Len(ms) = Len(s)
  BY <1>1, <1>5, <1>6, LenProperties
<1>8. QED
  BY <1>1, <1>2, <1>3, <1>6, <1>7

LEMMA LastMeans ==
  ASSUME StackOK, NEW i \in 0 .. Len(stack) - 1
  PROVE  L!Last(i) = Meaning(Top(i)) /\ Top(i) \in Value
<1>1. stack \in Seq(Value) /\ Len(stack) \in Nat
  BY MeaningsAre DEF StackOK
<1>2. Len(stack) - i \in 1 .. Len(stack)
  BY <1>1
<1>3. MeaningsOf(stack)[Len(MeaningsOf(stack)) - i] = Meaning(stack[Len(stack) - i])
  BY <1>1, <1>2, MeaningsAre
<1>4. Top(i) \in Value
  BY <1>1, <1>2, DropTyped
<1>5. QED
  BY <1>3, <1>4 DEF MeaningsOf, Top, L!Last

\* A sequence that begins like the stack without its last n values.
LEMMA TakesMeans ==
  ASSUME StackOK, StackOK', NEW n \in Nat, n <= Len(stack), NEW m \in Nat,
         Len(stack') = Len(stack) - n + m, \A i \in 1 .. Len(stack) - n : stack'[i] = stack[i]
  PROVE  L!Takes(n, m)
<1>1. PICK s \in Seq(Value), t \in Seq(Value) : s = stack /\ t = stack'
  BY DEF StackOK
<1>2. PICK k \in Nat : k = Len(s) - n
  <2>1. Len(s) \in Nat /\ n <= Len(s)
    BY <1>1, MeaningsAre
  <2>2. Len(s) - n \in Nat
    BY <2>1
  <2>3. QED
    BY <2>2, Zenon
<1>3. Len(s) \in Nat /\ Len(t) \in Nat /\ k <= Len(s) /\ k <= Len(t) /\ Len(t) - m = k
  BY <1>1, <1>2, MeaningsAre
<1>4. PICK x \in Seq(Meanings), y \in Seq(Meanings) : x = MeaningsOf(s) /\ y = MeaningsOf(t)
  BY MeaningsAre
<1>5. Len(x) = Len(s) /\ Len(y) = Len(t)
  BY <1>4, MeaningsAre
<1>6. \A i \in 1 .. k : x[i] = y[i]
  <2> TAKE i \in 1 .. k
  <2>1. i \in 1 .. Len(s) /\ i \in 1 .. Len(t) /\ i \in 1 .. Len(s) - n
    BY <1>2, <1>3
  <2>2. s[i] = t[i]
    BY <1>1, <2>1
  <2>3. QED
    BY <1>4, <2>1, <2>2, MeaningsAre
<1>7. SubSeq(x, 1, k) = SubSeq(y, 1, k)
  <2>1. PICK u, w : u = SubSeq(x, 1, k) /\ w = SubSeq(y, 1, k)
    OBVIOUS
  <2>2. u \in Seq(Meanings) /\ Len(u) = k /\ \A i \in 1 .. k : u[i] = x[i]
    BY <1>3, <1>5, <2>1
  <2>3. w \in Seq(Meanings) /\ Len(w) = k /\ \A i \in 1 .. k : w[i] = y[i]
    BY <1>3, <1>5, <2>1
  <2>4. u = w
    BY <1>6, <2>2, <2>3, SeqEqual
  <2>5. QED
    BY <2>1, <2>4
<1>8. /\ Len(x) >= n /\ Len(y) = Len(x) - n + m
      /\ SubSeq(y, 1, Len(y) - m) = SubSeq(x, 1, Len(x) - n)
  BY <1>1, <1>2, <1>3, <1>5, <1>7
<1>9. QED
  BY <1>1, <1>4, <1>8 DEF MeaningsOf, L!Takes

LEMMA GivesMeans ==
  ASSUME StackOK, StackOK', NEW n \in Nat, n <= Len(stack), NEW v \in Value, stack' = Append(Drop(n), v)
  PROVE  L!Takes(n, 1) /\ L!Result = Meaning(v)
<1>1. Drop(n) \in Seq(Value) /\ Len(Drop(n)) = Len(stack) - n /\ Len(stack) \in Nat
      /\ \A i \in 1 .. Len(stack) - n : Drop(n)[i] = stack[i]
  BY DropTyped
<1>2. PICK d \in Seq(Value) : d = Drop(n)
  BY <1>1
<1>3. PICK t \in Seq(Value) : t = stack'
  BY DEF StackOK
<1>4. /\ t = Append(d, v) /\ Len(t) = Len(d) + 1 /\ t[Len(d) + 1] = v
      /\ \A i \in 1 .. Len(d) : t[i] = d[i]
  BY <1>2, <1>3, AppendProperties
<1>5. Len(stack') = Len(stack) - n + 1 /\ \A i \in 1 .. Len(stack) - n : stack'[i] = stack[i]
  BY <1>1, <1>2, <1>3, <1>4
<1>6. L!Takes(n, 1)
  BY <1>5, TakesMeans
<1>7. MeaningsOf(t)[Len(MeaningsOf(t))] = Meaning(v)
  <2>1. Len(t) \in 1 .. Len(t) /\ t[Len(t)] = v
    BY <1>1, <1>2, <1>4
  <2>2. QED
    BY <2>1, MeaningsAre
<1>8. QED
  BY <1>3, <1>6, <1>7 DEF MeaningsOf, L!Result

LEMMA DropMeans ==
  ASSUME StackOK, StackOK', NEW n \in Nat, n <= Len(stack), stack' = Drop(n)
  PROVE  L!Takes(n, 0)
<1>1. Len(Drop(n)) = Len(stack) - n /\ Len(stack) \in Nat /\ \A i \in 1 .. Len(stack) - n : Drop(n)[i] = stack[i]
  BY DropTyped
<1>2. Len(stack') = Len(stack) - n + 0 /\ \A i \in 1 .. Len(stack) - n : stack'[i] = stack[i]
  BY <1>1
<1>3. QED
  BY <1>2, TakesMeans
-----------------------------------------------------------------------------
(* The operations on numbers. *)

LEMMA AddsSigned ==
  ASSUME NEW l \in Words, NEW r \in Words
  PROVE  /\ SignedOf(Wrap(l + r)) = L!Signed(SignedOf(l) + SignedOf(r))
         /\ SignedOf(Wrap(l - r)) = L!Signed(SignedOf(l) - SignedOf(r))
         /\ SignedOf(Negate(l)) = L!Signed(-SignedOf(l))
<1>1. l \in Int /\ r \in Int /\ SignedOf(l) \in Int /\ SignedOf(r) \in Int /\ Half \in Int
  BY WordsAre, SignedIs
<1>2. PICK i \in Int : SignedOf(l) = l + i * (2 * Half)
  BY SignedIs
<1>3. PICK j \in Int : SignedOf(r) = r + j * (2 * Half)
  BY SignedIs
<1>4. PICK x \in Int, y \in Int : x = SignedOf(l) /\ y = SignedOf(r)
  BY <1>1
<1>5. x + y = (l + r) + (i + j) * (2 * Half) /\ l + r \in Int /\ i + j \in Int
  BY <1>1, <1>2, <1>3, <1>4
<1>6. x - y = (l - r) + (i - j) * (2 * Half) /\ l - r \in Int /\ i - j \in Int
  BY <1>1, <1>2, <1>3, <1>4
<1>7. -x = (-l) + (-i) * (2 * Half) /\ -l \in Int /\ -i \in Int
  BY <1>1, <1>2, <1>4
<1>8. Wrap(x + y) = Wrap(l + r)
  BY <1>5, WrapShift
<1>9. Wrap(x - y) = Wrap(l - r)
  BY <1>6, WrapShift
<1>10. Wrap(-x) = Wrap(-l)
  BY <1>7, WrapShift
<1>11. x + y \in Int /\ x - y \in Int /\ -x \in Int
  BY <1>4
<1>12. SignedOf(Wrap(x + y)) = L!Signed(x + y) /\ SignedOf(Wrap(x - y)) = L!Signed(x - y)
       /\ SignedOf(Wrap(-x)) = L!Signed(-x)
  BY <1>11, MeaningOfWrap
<1>13. Negate(l) = Wrap(-l)
  BY NegateIs
<1>14. QED
  BY <1>4, <1>8, <1>9, <1>10, <1>12, <1>13

LEMMA DividesUnsigned ==
  ASSUME NEW l \in Words, NEW r \in Words, ~Negative(l), ~Negative(r)
  PROVE  /\ L!Arithmetic("div", SignedOf(l), SignedOf(r), SignedOf(IF r = 0 THEN 0 ELSE Quotient(l, r)))
         /\ L!Arithmetic("mod", SignedOf(l), SignedOf(r), SignedOf(IF r = 0 THEN 0 ELSE Remainder(l, r)))
<1>1. l \in Nat /\ r \in Nat /\ Half \in Nat /\ l < 2 * Half /\ r < 2 * Half /\ Half >= 16
  BY WordsAre
<1>2. SignedOf(l) = l /\ SignedOf(r) = r /\ l < Half /\ r < Half
  BY <1>1 DEF SignedOf, Negative
<1>3. CASE r = 0
  BY <1>1, <1>2, <1>3 DEF SignedOf, Negative, L!Arithmetic
<1>4. CASE r # 0
  <2>1. PICK q \in Words, m \in Words : q = Quotient(l, r) /\ m = Remainder(l, r) /\ q = l \div r /\ m = l % r /\ q <= l
    BY <1>4, QuotientIsDiv
  <2>2. m < r
    BY <1>1, <1>4, <2>1
  <2>3. q < Half /\ m < Half /\ q \in Nat /\ m \in Nat
    BY <1>1, <1>2, <2>1, <2>2, WordsAre
  <2>4. SignedOf(q) = q /\ SignedOf(m) = m
    BY <1>1, <2>3 DEF SignedOf, Negative
  <2>5. L!Half = Half /\ L!Signed(q) = q
    <3>1. L!Half = Half
      BY DEF Half, L!Half
    <3>2. (q + Half) % (2 * Half) = q + Half
      BY <1>1, <2>3
    <3>3. QED
      BY <1>1, <2>3, <3>1, <3>2 DEF L!Signed
  <2>6. l \div r \in L!Quotients(l, r) /\ l % r \in L!Remainders(l, r)
    BY <1>1, <1>4 DEF L!Quotients, L!Remainders
  <2>7. QED
    BY <1>2, <1>4, <2>1, <2>4, <2>5, <2>6 DEF L!Arithmetic
<1>5. QED
  BY <1>3, <1>4

LEMMA IsBinary ==
  ASSUME StackOK, NEW o \in L!Binaries, NEW v \in Value, Binary(o, v), entries' = entries,
         L!BinaryResult(o, Meaning(Top(1)), Meaning(Top(0)), Meaning(v))
  PROVE  L!Binary
<1>1. Len(stack) >= 2 /\ did' = o /\ stack' = Append(Drop(2), v) /\ printed' = <<>>
  BY DEF Binary, Takes, Gives
<1>2. StackOK' /\ Len(stack) \in Nat
  BY BinaryTyped, StackTop
<1>3. L!Takes(2, 1) /\ L!Result = Meaning(v)
  BY <1>1, <1>2, GivesMeans
<1>4. L!Last(0) = Meaning(Top(0)) /\ L!Last(1) = Meaning(Top(1))
  BY <1>1, <1>2, LastMeans
<1>5. L!BinaryResult(did', L!Last(1), L!Last(0), L!Result)
  BY <1>1, <1>3, <1>4
<1>6. QED
  BY <1>1, <1>3, <1>5 DEF L!Binary

LEMMA IsUnary ==
  ASSUME StackOK, NEW o \in L!Unaries, NEW v \in Value, Unary(o, v), entries' = entries,
         L!UnaryResult(o, Meaning(Top(0)), Meaning(v))
  PROVE  L!Unary
<1>1. Len(stack) >= 1 /\ did' = o /\ stack' = Append(Drop(1), v) /\ printed' = <<>>
  BY DEF Unary, Takes, Gives
<1>2. StackOK' /\ Len(stack) \in Nat
  BY BinaryTyped, StackTop
<1>3. L!Takes(1, 1) /\ L!Result = Meaning(v)
  BY <1>1, <1>2, GivesMeans
<1>4. L!Last(0) = Meaning(Top(0))
  BY <1>1, <1>2, LastMeans
<1>5. L!UnaryResult(did', L!Last(0), L!Result)
  BY <1>1, <1>3, <1>4
<1>6. QED
  BY <1>1, <1>3, <1>5 DEF L!Unary

LEMMA AddSubMean ==
  ASSUME StackOK, entries' = entries, op_add \/ op_sub
  PROVE  L!Binary
<1>0. PICK a \in Value, b \in Value : a = Top(1) /\ b = Top(0) /\ Len(stack) >= 2
  BY StackTop DEF op_add, op_sub
<1>1. a.word \in Words /\ b.word \in Words /\ a.word \in Nat /\ b.word \in Nat
  BY WordsAre DEF Value
<1>2. Wrap(a.word + b.word) \in Words /\ Wrap(a.word - b.word) \in Words
  BY <1>1, WordResults
<1>3. ASSUME NEW w \in Words PROVE [b EXCEPT !.word = w] \in Value
  BY DEF Value
<1>4. CASE op_add
  <2>1. PICK v \in Value : v = [b EXCEPT !.word = Wrap(a.word + b.word)]
    BY <1>2, <1>3
  <2>2. Binary("add", v)
    BY <1>0, <1>4, <2>1 DEF op_add
  <2>3. v.type = b.type /\ v.word = Wrap(a.word + b.word)
    BY <2>1 DEF Value
  <2>4. a.type = "number" /\ b.type = "number" => Meaning(v).int = L!Signed(Meaning(a).int + Meaning(b).int)
    BY <1>1, <2>3, MeaningTyped, AddsSigned
  <2>5. Meaning(a).type = a.type /\ Meaning(b).type = b.type /\ Meaning(v).type = b.type
    BY <2>3, MeaningTyped
  <2>6. L!BinaryResult("add", Meaning(a), Meaning(b), Meaning(v))
    BY <2>4, <2>5 DEF L!BinaryResult, L!Arithmetic
  <2>7. "add" \in L!Binaries
    BY DEF L!Binaries
  <2>8. QED
    BY <1>0, <2>2, <2>6, <2>7, IsBinary
<1>5. CASE op_sub
  <2>1. PICK v \in Value : v = [b EXCEPT !.word = Wrap(a.word - b.word)]
    BY <1>2, <1>3
  <2>2. Binary("sub", v)
    BY <1>0, <1>5, <2>1 DEF op_sub
  <2>3. v.type = b.type /\ v.word = Wrap(a.word - b.word)
    BY <2>1 DEF Value
  <2>4. a.type = "number" /\ b.type = "number" => Meaning(v).int = L!Signed(Meaning(a).int - Meaning(b).int)
    BY <1>1, <2>3, MeaningTyped, AddsSigned
  <2>5. Meaning(a).type = a.type /\ Meaning(b).type = b.type /\ Meaning(v).type = b.type
    BY <2>3, MeaningTyped
  <2>6. L!BinaryResult("sub", Meaning(a), Meaning(b), Meaning(v))
    BY <2>4, <2>5 DEF L!BinaryResult, L!Arithmetic
  <2>7. "sub" \in L!Binaries
    BY DEF L!Binaries
  <2>8. QED
    BY <1>0, <2>2, <2>6, <2>7, IsBinary
<1>6. QED
  BY <1>4, <1>5

LEMMA NumberMeans ==
  ASSUME NEW w \in Words
  PROVE  /\ Number(w) \in Value /\ Meaning(Number(w)) = L!Number(SignedOf(w))
         /\ Meaning(Number(w)).type = "number" /\ Meaning(Number(w)).int = SignedOf(w)
<1>1. Number(w) \in Value
  BY FixedValues
<1>2. Meaning(Number(w)) = L!Number(SignedOf(w))
  BY DEF Meaning, Number, L!Number, SignedOf
<1>3. QED
  BY <1>1, <1>2 DEF L!Number

LEMMA BoolMeans ==
  ASSUME NEW b \in BOOLEAN
  PROVE  /\ Bool(b) \in Value /\ Meaning(Bool(b)) = L!Bool(b)
         /\ Meaning(Bool(b)).type = "bool" /\ Meaning(Bool(b)).int = IF b THEN 1 ELSE 0
<1>1. Bool(b) \in Value
  BY FixedValues
<1>2. Meaning(Bool(b)) = L!Bool(b)
  BY DEF Meaning, Bool, L!Bool
<1>3. QED
  BY <1>1, <1>2 DEF L!Bool

\* An operation on numbers that always leaves one.
LEMMA ArithmeticMeans ==
  ASSUME StackOK, entries' = entries, NEW o \in {"mul", "div", "mod", "pow"}, NEW w \in Words,
         Binary(o, Number(w)),
         Top(1).type = "number" /\ Top(0).type = "number" =>
           L!Arithmetic(o, SignedOf(Top(1).word), SignedOf(Top(0).word), SignedOf(w))
  PROVE  L!Binary
<1>1. PICK a \in Value, b \in Value : a = Top(1) /\ b = Top(0)
  BY StackTop DEF Binary, Takes
<1>2. PICK v \in Value : v = Number(w)
  BY NumberMeans
<1>3. Meaning(v).type = "number" /\ Meaning(v).int = SignedOf(w)
  BY <1>2, NumberMeans
<1>4. Meaning(a).type = "number" /\ Meaning(b).type = "number" =>
        /\ a.type = "number" /\ b.type = "number"
        /\ Meaning(a).int = SignedOf(a.word) /\ Meaning(b).int = SignedOf(b.word)
  BY MeaningTyped
<1>5. Meaning(a).type = "number" /\ Meaning(b).type = "number" =>
        Meaning(v).type = "number" /\ L!Arithmetic(o, Meaning(a).int, Meaning(b).int, Meaning(v).int)
  BY <1>1, <1>3, <1>4
<1>6. L!BinaryResult(o, Meaning(a), Meaning(b), Meaning(v))
  BY <1>5 DEF L!BinaryResult
<1>7. o \in L!Binaries /\ Binary(o, v)
  BY <1>2 DEF L!Binaries
<1>8. QED
  BY <1>1, <1>6, <1>7, IsBinary

LEMMA MulDivMean ==
  ASSUME StackOK, entries' = entries, op_mul \/ op_div \/ op_mod \/ op_pow, "divide" \notin Departs
  PROVE  L!Binary
<1>0. PICK a \in Value, b \in Value : a = Top(1) /\ b = Top(0)
  BY StackTop DEF op_mul, op_div, op_mod, op_pow
<1>1. PICK l \in Words, r \in Words : l = a.word /\ r = b.word
  BY DEF Value
<1>2. PICK x \in Int, y \in Int : x = SignedOf(l) /\ y = SignedOf(r)
  BY SignedIs
<1>3. CASE op_mul
  <2>1. PICK w \in Words : w = mul16(l, r) /\ SignedOf(w) = L!Signed(x * y)
    BY <1>2, ProductIsSigned
  <2>2. Binary("mul", Number(w))
    BY <1>0, <1>1, <1>3, <2>1 DEF op_mul
  <2>3. L!Arithmetic("mul", x, y, SignedOf(w))
    BY <2>1 DEF L!Arithmetic
  <2>4. QED
    BY <1>0, <1>1, <1>2, <2>2, <2>3, ArithmeticMeans
<1>4. CASE op_div
  <2>1. PICK w \in Words : w = IF r = 0 THEN 0 ELSE Quotient(l, r)
    BY WordResults
  <2>2. Binary("div", Number(w))
    BY <1>0, <1>1, <1>4, <2>1 DEF op_div
  <2>3. a.type = "number" /\ b.type = "number" => L!Arithmetic("div", x, y, SignedOf(w))
    BY <1>0, <1>1, <1>2, <1>4, <2>1, DividesUnsigned DEF op_div, Unsigned
  <2>4. QED
    BY <1>0, <1>1, <1>2, <2>2, <2>3, ArithmeticMeans
<1>5. CASE op_mod
  <2>1. PICK w \in Words : w = IF r = 0 THEN 0 ELSE Remainder(l, r)
    BY WordResults
  <2>2. Binary("mod", Number(w))
    BY <1>0, <1>1, <1>5, <2>1 DEF op_mod
  <2>3. a.type = "number" /\ b.type = "number" => L!Arithmetic("mod", x, y, SignedOf(w))
    BY <1>0, <1>1, <1>2, <1>5, <2>1, DividesUnsigned DEF op_mod, Unsigned
  <2>4. QED
    BY <1>0, <1>1, <1>2, <2>2, <2>3, ArithmeticMeans
<1>6. CASE op_pow
  <2>1. PICK w \in Words : w = power(l, r) /\ SignedOf(w) = IF y < 0 THEN 0 ELSE L!Power(x, y)
    BY <1>2, PowerIsSigned
  <2>2. Binary("pow", Number(w))
    BY <1>0, <1>1, <1>6, <2>1 DEF op_pow
  <2>3. L!Arithmetic("pow", x, y, SignedOf(w))
    BY <2>1 DEF L!Arithmetic
  <2>4. QED
    BY <1>0, <1>1, <1>2, <2>2, <2>3, ArithmeticMeans
<1>7. QED
  BY <1>3, <1>4, <1>5, <1>6

LEMMA OrderMeans ==
  ASSUME StackOK, entries' = entries, op_lt \/ op_le \/ op_gt \/ op_ge
  PROVE  L!Binary
<1>0. PICK a \in Value, b \in Value : a = Top(1) /\ b = Top(0)
  BY StackTop DEF op_lt, op_le, op_gt, op_ge
<1>1. PICK l \in Words, r \in Words : l = a.word /\ r = b.word
  BY DEF Value
<1>2. ASSUME NEW o \in {"lt", "le", "gt", "ge"}, NEW q \in BOOLEAN, Binary(o, Bool(q)),
             L!Compares(o, SignedOf(l), SignedOf(r), q)
      PROVE  L!Binary
  <2>1. PICK v \in Value : v = Bool(q) /\ Meaning(v).type = "bool" /\ Meaning(v).int = IF q THEN 1 ELSE 0
    BY BoolMeans
  <2>2. (Meaning(v).int = 1) = q
    BY <2>1
  <2>3. Meaning(a).type = "number" /\ Meaning(b).type = "number" =>
          Meaning(a).int = SignedOf(l) /\ Meaning(b).int = SignedOf(r)
    BY <1>1, MeaningTyped
  <2>4. Meaning(a).type = "number" /\ Meaning(b).type = "number" =>
          L!Compares(o, Meaning(a).int, Meaning(b).int, Meaning(v).int = 1)
    BY <1>2, <2>2, <2>3
  <2>5. L!BinaryResult(o, Meaning(a), Meaning(b), Meaning(v))
    BY <2>1, <2>4 DEF L!BinaryResult
  <2>6. o \in L!Binaries /\ Binary(o, v)
    BY <1>2, <2>1 DEF L!Binaries
  <2>7. QED
    BY <1>0, <2>5, <2>6, IsBinary
<1>3. SignedOf(l) \in Int /\ SignedOf(r) \in Int
  BY SignedIs
<1>4. CASE op_lt
  <2>1. PICK q \in BOOLEAN : q <=> Less(l, r)
    OBVIOUS
  <2>2. Binary("lt", Bool(q)) /\ L!Compares("lt", SignedOf(l), SignedOf(r), q)
    BY <1>0, <1>1, <1>4, <2>1, LessIsSigned DEF op_lt, Bool, L!Compares
  <2>3. QED
    BY <1>2, <2>2
<1>5. CASE op_le
  <2>1. PICK q \in BOOLEAN : q <=> AtMost(l, r)
    OBVIOUS
  <2>2. Binary("le", Bool(q)) /\ L!Compares("le", SignedOf(l), SignedOf(r), q)
    BY <1>0, <1>1, <1>5, <2>1, AtMostIsSigned DEF op_le, Bool, L!Compares
  <2>3. QED
    BY <1>2, <2>2
<1>6. CASE op_gt
  <2>1. PICK q \in BOOLEAN : q <=> Less(r, l)
    OBVIOUS
  <2>2. Binary("gt", Bool(q)) /\ (q <=> SignedOf(r) < SignedOf(l))
    BY <1>0, <1>1, <1>6, <2>1, LessIsSigned DEF op_gt, Bool
  <2>3. L!Compares("gt", SignedOf(l), SignedOf(r), q)
    BY <1>3, <2>2 DEF L!Compares
  <2>4. QED
    BY <1>2, <2>2, <2>3
<1>7. CASE op_ge
  <2>1. PICK q \in BOOLEAN : q <=> AtMost(r, l)
    OBVIOUS
  <2>2. Binary("ge", Bool(q)) /\ (q <=> SignedOf(r) <= SignedOf(l))
    BY <1>0, <1>1, <1>7, <2>1, AtMostIsSigned DEF op_ge, Bool
  <2>3. L!Compares("ge", SignedOf(l), SignedOf(r), q)
    BY <1>3, <2>2 DEF L!Compares
  <2>4. QED
    BY <1>2, <2>2, <2>3
<1>8. QED
  BY <1>4, <1>5, <1>6, <1>7

-----------------------------------------------------------------------------
(* The operations on texts. *)

LEMMA NamesMean ==
  ASSUME NEW v \in Value
  PROVE  /\ TypeName(v).text = L!Name(Meaning(v)) /\ TypeName(v).type = "string"
         /\ ValueName(v).text = L!Name(Meaning(v)) /\ ValueName(v).type = "string"
<1>1. Meaning(v).type = v.type
  BY MeaningTyped
<1>2. TypeName(v).text = L!Name(Meaning(v)) /\ TypeName(v).type = "string"
  BY <1>1 DEF TypeName, Fixed, String, L!Name
<1>3. QED
  BY <1>2 DEF ValueName, String

LEMMA CoercionShows ==
  ASSUME NEW v \in Value
  PROVE  /\ L!Shows(text_of(v), Meaning(v)) /\ text_of(v) \in Text
         /\ \A s \in coerce_to_string(v) : s \in Value /\ s.type = "string" /\ L!Shows(s.text, Meaning(v))
<1>0. Meaning(v).type = v.type /\ v.word \in Words /\ text_of(v) \in Text /\ coerce_to_string(v) \subseteq Value
  BY MeaningTyped, CoercionTyped DEF Value
<1>1. CASE v.type = "number"
  <2>1. PICK t \in Text : t = number_to_string(v.word) /\ L!Writes(t, SignedOf(v.word))
    BY <1>0, NumberToText
  <2>2. Meaning(v).int = SignedOf(v.word)
    BY <1>1, MeaningTyped
  <2>3. L!Shows(t, Meaning(v))
    BY <1>0, <1>1, <2>1, <2>2 DEF L!Shows
  <2>4. text_of(v) = t /\ coerce_to_string(v) = Made(t)
    BY <1>1, <2>1 DEF text_of, coerce_to_string
  <2>5. QED
    BY <1>0, <2>3, <2>4, MadeTyped
<1>2. CASE v.type # "number"
  <2>1. PICK s : coerce_to_string(v) = {s} /\ s.type = "string" /\ L!Shows(s.text, Meaning(v))
    <3>1. CASE v.type = "string"
      BY <1>0, <3>1, MeaningTyped DEF coerce_to_string, L!Shows
    <3>2. CASE v.type = "bool"
      <4>1. Meaning(v).int = v.word
        BY <3>2, MeaningTyped
      <4>2. Truth(v.word # 0).text = <<IF v.word # 0 THEN Radix + 7 ELSE Radix + 8>>
            /\ Truth(v.word # 0).type = "string"
        BY DEF Truth, Fixed, String
      <4>3. QED
        BY <1>0, <3>2, <4>1, <4>2 DEF coerce_to_string, L!Shows
    <3>3. CASE v.type \notin {"string", "bool"}
      BY <1>0, <1>2, <3>3, NamesMean DEF coerce_to_string, L!Shows
    <3>4. QED
      BY <3>1, <3>2, <3>3
  <2>2. text_of(v) = s.text
    BY <1>2, <2>1 DEF text_of
  <2>3. QED
    BY <1>0, <2>1, <2>2
<1>3. QED
  BY <1>1, <1>2

LEMMA PartsOfConcat ==
  ASSUME NEW s \in Text, NEW t \in Text
  PROVE  /\ s \o t \in Text /\ Len(s) \in 0 .. Len(s \o t)
         /\ SubSeq(s \o t, 1, Len(s)) = s /\ SubSeq(s \o t, Len(s) + 1, Len(s \o t)) = t
<1>1. s \in Seq(Char) /\ t \in Seq(Char) /\ Len(s) \in Nat /\ Len(t) \in Nat
  BY Chars DEF Text
<1>2. PICK u \in Seq(Char) : u = s \o t /\ Len(u) = Len(s) + Len(t)
        /\ \A i \in 1 .. Len(s) + Len(t) : u[i] = IF i <= Len(s) THEN s[i] ELSE t[i - Len(s)]
  <2>1. s \o t \in Seq(Char) /\ Len(s \o t) = Len(s) + Len(t)
        /\ \A i \in 1 .. Len(s) + Len(t) : (s \o t)[i] = IF i <= Len(s) THEN s[i] ELSE t[i - Len(s)]
    BY <1>1, ConcatProperties
  <2>2. QED
    BY <2>1, Zenon
<1>3. PICK x : x = SubSeq(u, 1, Len(s))
  OBVIOUS
<1>4. x \in Seq(Char) /\ Len(x) = Len(s) /\ \A i \in 1 .. Len(s) : x[i] = u[i]
  BY <1>1, <1>2, <1>3
<1>5. x = s
  BY <1>1, <1>2, <1>4, SeqEqual
<1>6. PICK y : y = SubSeq(u, Len(s) + 1, Len(u))
  OBVIOUS
<1>7. y \in Seq(Char) /\ Len(y) = Len(t) /\ \A i \in 1 .. Len(t) : y[i] = u[Len(s) + i]
  <2>1. CASE Len(t) = 0
    BY <1>1, <1>2, <1>6, <2>1
  <2>2. CASE Len(t) > 0
    <3>1. \A i \in Len(s) + 1 .. Len(u) : u[i] \in Char
      BY <1>1, <1>2
    <3>2. Len(s) + 1 \in Int /\ Len(u) \in Int /\ Len(s) + 1 <= Len(u) /\ Len(u) - (Len(s) + 1) + 1 = Len(t)
      BY <1>1, <1>2, <2>2
    <3>3. QED
      BY <1>1, <1>2, <1>6, <3>1, <3>2, SubSeqProperties
  <2>3. QED
    BY <1>1, <2>1, <2>2
<1>8. \A i \in 1 .. Len(t) : y[i] = t[i]
  <2> TAKE i \in 1 .. Len(t)
  <2>1. Len(s) + i \in 1 .. Len(s) + Len(t) /\ ~(Len(s) + i <= Len(s)) /\ Len(s) + i - Len(s) = i
    BY <1>1
  <2>2. QED
    BY <1>2, <1>7, <2>1
<1>9. y = t
  BY <1>1, <1>7, <1>8, SeqEqual
<1>10. QED
  BY <1>1, <1>2, <1>3, <1>5, <1>6, <1>9 DEF Text

LEMMA ConcatMeans ==
  ASSUME StackOK, entries' = entries, op_concat
  PROVE  L!Binary
<1>0. PICK a \in Value, b \in Value : a = Top(1) /\ b = Top(0)
  BY StackTop DEF op_concat
<1>1. PICK s \in Text, u \in Text : s = text_of(a) /\ u = text_of(b)
  BY CoercionShows
<1>2. PICK t \in Text : t = s \o u
  BY PartsOfConcat
<1>3. PICK v \in Made(t) : Binary("concat", v)
  BY <1>0, <1>1, <1>2 DEF op_concat
<1>4. v \in Value /\ v.type = "string" /\ v.text = t
  BY <1>3, MadeTyped
<1>5. Meaning(v).type = "string" /\ Meaning(v).text = t
  BY <1>4, MeaningTyped
<1>6. PICK n \in 0 .. Len(t) : SubSeq(t, 1, n) = s /\ SubSeq(t, n + 1, Len(t)) = u
  BY <1>2, PartsOfConcat
<1>7. L!Shows(SubSeq(t, 1, n), Meaning(a)) /\ L!Shows(SubSeq(t, n + 1, Len(t)), Meaning(b))
  BY <1>1, <1>6, CoercionShows
<1>8. L!BinaryResult("concat", Meaning(a), Meaning(b), Meaning(v))
  BY <1>5, <1>7 DEF L!BinaryResult
<1>9. "concat" \in L!Binaries
  BY DEF L!Binaries
<1>10. QED
  BY <1>0, <1>3, <1>4, <1>8, <1>9, IsBinary

LEMMA UnariesMean ==
  ASSUME StackOK, entries' = entries, op_neg \/ op_len \/ op_type \/ op_tostring \/ op_tonumber
  PROVE  L!Unary
<1>0. PICK a \in Value : a = Top(0)
  BY StackTop DEF op_neg, op_len, op_type, op_tostring, op_tonumber
<1>1. a.word \in Words /\ a.text \in Text /\ Meaning(a).type = a.type /\ Meaning(a).text = a.text
  BY MeaningTyped DEF Value
<1>2. "neg" \in L!Unaries /\ "len" \in L!Unaries /\ "type" \in L!Unaries
      /\ "tostring" \in L!Unaries /\ "tonumber" \in L!Unaries
  BY DEF L!Unaries
<1>3. CASE op_neg
  <2>1. PICK w \in Words : w = Negate(a.word)
    BY <1>1, NegateIs
  <2>2. PICK v \in Value : v = Number(w) /\ Meaning(v) = L!Number(SignedOf(w))
    BY NumberMeans
  <2>3. Unary("neg", v)
    BY <1>0, <1>3, <2>1, <2>2 DEF op_neg
  <2>4. a.type = "number" => SignedOf(w) = L!Signed(-Meaning(a).int)
    BY <1>1, <2>1, AddsSigned, MeaningTyped
  <2>5. L!UnaryResult("neg", Meaning(a), Meaning(v))
    BY <1>1, <2>2, <2>4 DEF L!UnaryResult
  <2>6. QED
    BY <1>0, <1>2, <2>3, <2>5, IsUnary
<1>4. CASE op_len
  <2>1. Len(a.text) \in Int /\ a.type # "table"
    BY <1>0, <1>1, <1>4, Chars DEF op_len
  <2>2. PICK w \in Words : w = IF a.type = "string" THEN Wrap(Len(a.text)) ELSE 0
    BY <2>1, WrapWord, SmallWords
  <2>3. PICK v \in Value : v = Number(w) /\ Meaning(v).type = "number" /\ Meaning(v).int = SignedOf(w)
    BY NumberMeans
  <2>4. Unary("len", v)
    BY <1>0, <1>4, <2>2, <2>3 DEF op_len
  <2>5. a.type = "string" => SignedOf(w) = L!Signed(Len(a.text))
    BY <2>1, <2>2, MeaningOfWrap
  <2>6. L!UnaryResult("len", Meaning(a), Meaning(v))
    BY <1>1, <2>1, <2>3, <2>5 DEF L!UnaryResult
  <2>7. QED
    BY <1>0, <1>2, <2>4, <2>6, IsUnary
<1>5. CASE op_type
  <2>1. PICK v \in Value : v = TypeName(a) /\ Meaning(v).type = "string" /\ Meaning(v).text = L!Name(Meaning(a))
    BY NamesTyped, NamesMean, MeaningTyped
  <2>2. Unary("type", v)
    BY <1>0, <1>5, <2>1 DEF op_type
  <2>3. L!UnaryResult("type", Meaning(a), Meaning(v))
    BY <2>1 DEF L!UnaryResult
  <2>4. QED
    BY <1>0, <1>2, <2>2, <2>3, IsUnary
<1>6. CASE op_tostring
  <2>1. PICK v \in coerce_to_string(a) : Unary("tostring", v)
    BY <1>0, <1>6 DEF op_tostring
  <2>2. v \in Value /\ v.type = "string" /\ L!Shows(v.text, Meaning(a))
    BY <2>1, CoercionShows
  <2>3. Meaning(v).type = "string" /\ Meaning(v).text = v.text
    BY <2>2, MeaningTyped
  <2>4. L!UnaryResult("tostring", Meaning(a), Meaning(v))
    BY <2>2, <2>3 DEF L!UnaryResult
  <2>5. QED
    BY <1>0, <1>2, <2>1, <2>2, <2>4, IsUnary
<1>7. CASE op_tonumber
  <2>1. PICK p : p = string_to_number(a.text)
    OBVIOUS
  <2>2. Unary("tonumber", CASE a.type = "number" -> a
                            [] a.type = "string" /\ p # <<>> -> Number(p[1])
                            [] OTHER -> Nil)
    BY <1>0, <1>7, <2>1 DEF op_tonumber
  <2>3. CASE a.type = "number"
    <3>1. Unary("tonumber", a)
      BY <2>2, <2>3
    <3>2. L!UnaryResult("tonumber", Meaning(a), Meaning(a))
      BY <1>1, <2>3 DEF L!UnaryResult
    <3>3. QED
      BY <1>0, <1>2, <3>1, <3>2, IsUnary
  <2>4. CASE a.type = "string" /\ L!IsNumeral(a.text)
    <3>1. PICK w \in Words : p = <<w>> /\ SignedOf(w) = L!Signed(L!Numeral(a.text))
      BY <1>1, <2>1, <2>4, TextToNumber
    <3>2. PICK v \in Value : v = Number(w) /\ Meaning(v) = L!Number(SignedOf(w))
      BY NumberMeans
    <3>3. Unary("tonumber", v)
      BY <2>2, <2>4, <3>1, <3>2
    <3>4. L!UnaryResult("tonumber", Meaning(a), Meaning(v))
      BY <1>1, <2>4, <3>1, <3>2 DEF L!UnaryResult
    <3>5. QED
      BY <1>0, <1>2, <3>3, <3>4, IsUnary
  <2>5. CASE a.type # "number" /\ ~(a.type = "string" /\ L!IsNumeral(a.text))
    <3>1. a.type = "string" => p = <<>>
      BY <1>1, <2>1, <2>5, TextToNumber
    <3>2. Unary("tonumber", Nil)
      BY <2>2, <2>5, <3>1
    <3>3. Meaning(Nil) = L!Nil /\ Nil \in Value
      BY FixedValues DEF Meaning, Nil, L!Nil
    <3>4. L!UnaryResult("tonumber", Meaning(a), Meaning(Nil))
      BY <1>1, <2>5, <3>3 DEF L!UnaryResult
    <3>5. QED
      BY <1>0, <1>2, <3>2, <3>3, <3>4, IsUnary
  <2>6. QED
    BY <2>3, <2>4, <2>5
<1>8. QED
  BY <1>3, <1>4, <1>5, <1>6, <1>7

LEMMA PrintMeans ==
  ASSUME StackOK, entries' = entries, op_print, "print" \notin Departs
  PROVE  L!Prints
<1>1. PICK n \in 1 .. MaxStack[group] :
        /\ n <= Len(stack) /\ did' = "print" /\ group' = group /\ stack' = Drop(n)
        /\ \A i \in 0 .. n - 1 : Top(i).type = "number" => ~Negative(Top(i).word)
        /\ printed' = [i \in 1 .. n |-> IF Top(i - 1).type = "number" THEN print_num(Top(i - 1).word)
                                        ELSE text_of(Top(i - 1))]
  BY DEF op_print, Takes
<1>2. n \in Nat /\ Len(stack) \in Nat
  BY StackTop, ValueAssumption DEF StackOK
<1>3. PICK ts : ts = printed'
  OBVIOUS
<1>4. \A i \in 1 .. n : /\ Top(i - 1) \in Value /\ L!Last(i - 1) = Meaning(Top(i - 1)) /\ ts[i] \in Text
                        /\ L!Shows(ts[i], Meaning(Top(i - 1)))
  <2> TAKE i \in 1 .. n
  <2>1. i - 1 \in 0 .. Len(stack) - 1
    BY <1>1, <1>2
  <2>2. PICK a \in Value : a = Top(i - 1) /\ L!Last(i - 1) = Meaning(a)
    BY <2>1, LastMeans
  <2>3. ts[i] = IF a.type = "number" THEN print_num(a.word) ELSE text_of(a)
    BY <1>1, <1>3, <2>2
  <2>4. CASE a.type = "number"
    <3>1. a.word \in Words /\ Meaning(a).type = "number" /\ Meaning(a).int = SignedOf(a.word)
      BY <2>4, MeaningTyped DEF Value
    <3>2. print_num(a.word) \in Text /\ (SignedOf(a.word) >= 0 => L!Writes(print_num(a.word), SignedOf(a.word)))
      BY <3>1, PrintedText
    <3>3. SignedOf(a.word) >= 0
      <4>1. ~Negative(a.word) /\ a.word \in Nat
        BY <1>1, <1>2, <2>2, <2>4, <3>1, WordsAre
      <4>2. QED
        BY <4>1 DEF SignedOf
    <3>4. QED
      BY <2>2, <2>3, <2>4, <3>1, <3>2, <3>3 DEF L!Shows
  <2>5. CASE a.type # "number"
    BY <2>2, <2>3, <2>5, CoercionShows
  <2>6. QED
    BY <2>4, <2>5
<1>5. DOMAIN ts = 1 .. n /\ ts \in Seq(Text) /\ Len(ts) = n
  <2>1. ts \in [1 .. n -> Text]
    BY <1>1, <1>3, <1>4
  <2>2. ts \in Seq(Text)
    BY <1>2, <2>1, SeqDef
  <2>3. QED
    BY <1>2, <2>1, <2>2, LenProperties
<1>6. StackOK'
  BY PrintTyped
<1>7. L!Takes(n, 0)
  BY <1>1, <1>2, <1>6, DropMeans
<1>8. L!Takes(Len(printed'), 0)
  BY <1>3, <1>5, <1>7
<1>9. \A i \in DOMAIN printed' : L!Shows(printed'[i], L!Last(i - 1))
  BY <1>3, <1>4, <1>5
<1>10. QED
  BY <1>1, <1>8, <1>9 DEF L!Prints

LEMMA LoadPopMean ==
  ASSUME StackOK, StackOK', entries' = entries, op_load \/ op_pop
  PROVE  L!Load \/ L!Pop
<1>1. CASE op_load
  <2>1. PICK v \in Literals[group] : stack' = Append(stack, v)
    BY <1>1 DEF op_load
  <2>2. v \in Value
    BY LiteralValues DEF StackOK
  <2>3. Drop(0) = stack /\ Len(stack) \in Nat
    <3>1. \A s \in Seq(Value) : SubSeq(s, 1, Len(s) - 0) = s
      OBVIOUS
    <3>2. QED
      BY <3>1, StackTop DEF Drop, StackOK
  <2>4. L!Takes(0, 1)
    BY <2>1, <2>2, <2>3, GivesMeans
  <2>5. QED
    BY <1>1, <2>4 DEF op_load, L!Load
<1>2. CASE op_pop
  <2>1. L!Takes(1, 0)
    BY <1>2, StackTop, DropMeans DEF op_pop
  <2>2. QED
    BY <1>2, <2>1 DEF op_pop, L!Pop
<1>3. QED
  BY <1>1, <1>2

-----------------------------------------------------------------------------
(* String objects: one address has one text. *)

\* The text of a string object of the image.
ImageText(k) ==
  CASE k = 9 -> <<>> [] k = 10 -> <<Radix + 1>> [] k = 11 -> <<Radix + 5>> [] k = 12 -> <<Radix + 6>>
    [] OTHER -> <<Radix + k>>

\* What values a program of group g has.
Object(g, v) ==
  /\ v.type # "string" => v.text = <<>>
  /\ v.type = "string" =>
       \/ v \in Literals[g]
       \/ v.word \in 1 .. 12 /\ v.text = ImageText(v.word)
       \/ v.word \in Heap
OneText(S) ==
  \A v, w \in S : v.type = "string" /\ w.type = "string" /\ v.word = w.word => v.text = w.text
Objects(g, S) == (\A v \in S : Object(g, v)) /\ OneText(S)

\* The values on the stack and in the table.
OnStack(s) == {s[i] : i \in DOMAIN s}
InTable(es) == {es[i].key : i \in DOMAIN es} \cup {es[i].val : i \in DOMAIN es}
Live == OnStack(stack) \cup InTable(entries)

LiveObjects == group # "files" => Objects(group, Live)

\* A value may come to others if it is no string of the heap, or one of them, or a new one.
Joins(v, g, S) ==
  /\ Object(g, v)
  /\ v.type = "string" /\ v.word \in Heap => v \in S \/ \A u \in S : u.word # v.word

LEMMA JoinsObjects ==
  ASSUME NEW g \in Groups, NEW S, Objects(g, S), NEW v, Joins(v, g, S), NEW T, T \subseteq S \cup {v}
  PROVE  Objects(g, T)
<1>1. ASSUME NEW w \in S, v.type = "string", w.type = "string", v.word = w.word PROVE v.text = w.text
  <2>1. Object(g, v) /\ Object(g, w) /\ OneText(S)
    BY DEF Objects, Joins
  <2>2. CASE v.word \in Heap
    <3>1. v \in S
      BY <1>1, <2>2 DEF Joins
    <3>2. QED
      BY <1>1, <2>1, <3>1 DEF OneText
  <2>3. CASE v.word \notin Heap
    <3>1. v \in Literals[g] \/ (v.word \in 1 .. 12 /\ v.text = ImageText(v.word))
      BY <1>1, <2>1, <2>3 DEF Object
    <3>2. w \in Literals[g] \/ (w.word \in 1 .. 12 /\ w.text = ImageText(w.word))
      BY <1>1, <2>1, <2>3 DEF Object
    <3>3. ASSUME NEW x \in Literals[g], x.type = "string" PROVE ~(x.word \in 1 .. 12)
      <4>1. x.word \in 13 .. 2 * Half /\ Half \in Nat
        BY <3>3, ValueAssumption
      <4>2. QED
        BY <4>1
    <3>4. CASE v \in Literals[g] /\ w \in Literals[g]
      <4>1. v = w \/ w.type # "string"
        BY <1>1, <3>4, ValueAssumption
      <4>2. QED
        BY <1>1, <4>1
    <3>5. CASE v.text = ImageText(v.word) /\ w.text = ImageText(w.word)
      BY <1>1, <3>5
    <3>6. QED
      BY <1>1, <3>1, <3>2, <3>3, <3>4, <3>5
  <2>4. QED
    BY <2>2, <2>3
<1>2. OneText(T)
  <2>1. OneText(S)
    BY DEF Objects
  <2>2. SUFFICES ASSUME NEW x \in T, NEW y \in T, x.type = "string", y.type = "string", x.word = y.word
                 PROVE  x.text = y.text
    BY DEF OneText
  <2>3. CASE x \in S /\ y \in S
    BY <2>1, <2>2, <2>3 DEF OneText
  <2>4. CASE x = v /\ y \in S
    BY <1>1, <2>2, <2>4
  <2>5. CASE x \in S /\ y = v
    BY <1>1, <2>2, <2>5
  <2>6. CASE x = v /\ y = v
    BY <2>6
  <2>7. QED
    BY <2>3, <2>4, <2>5, <2>6
<1>3. \A x \in T : Object(g, x)
  BY DEF Objects, Joins
<1>4. QED
  BY <1>2, <1>3 DEF Objects

LEMMA FewerObjects ==
  ASSUME NEW g, NEW S, Objects(g, S), NEW T, T \subseteq S
  PROVE  Objects(g, T)
BY DEF Objects, OneText

LEMMA StackShrinks ==
  ASSUME StackOK, NEW n \in Nat, n <= Len(stack)
  PROVE  /\ OnStack(Drop(n)) \subseteq OnStack(stack)
         /\ \A v \in Value : OnStack(Append(Drop(n), v)) \subseteq OnStack(stack) \cup {v}
         /\ \A i \in 0 .. Len(stack) - 1 : Top(i) \in OnStack(stack)
<1>1. stack \in Seq(Value) /\ Len(stack) \in Nat /\ DOMAIN stack = 1 .. Len(stack)
  BY LenProperties DEF StackOK
<1>2. PICK d \in Seq(Value) : d = Drop(n)
  BY DropTyped
<1>3. DOMAIN d = 1 .. Len(stack) - n /\ Len(d) = Len(stack) - n /\ \A i \in 1 .. Len(stack) - n : d[i] = stack[i]
  BY <1>2, DropTyped, LenProperties
<1>4. OnStack(d) \subseteq OnStack(stack)
  <2> SUFFICES ASSUME NEW i \in DOMAIN d PROVE d[i] \in OnStack(stack)
    BY DEF OnStack
  <2>1. i \in DOMAIN stack /\ d[i] = stack[i]
    BY <1>1, <1>3
  <2>2. QED
    BY <2>1 DEF OnStack
<1>5. ASSUME NEW v \in Value PROVE OnStack(Append(d, v)) \subseteq OnStack(stack) \cup {v}
  <2>1. PICK a \in Seq(Value) : a = Append(d, v) /\ Len(a) = Len(d) + 1 /\ a[Len(d) + 1] = v
                                /\ \A i \in 1 .. Len(d) : a[i] = d[i]
    <3>1. /\ Append(d, v) \in Seq(Value) /\ Len(Append(d, v)) = Len(d) + 1 /\ Append(d, v)[Len(d) + 1] = v
          /\ \A i \in 1 .. Len(d) : Append(d, v)[i] = d[i]
      BY AppendProperties
    <3>2. QED
      BY <3>1, Zenon
  <2>2. DOMAIN a = 1 .. Len(d) + 1
    BY <2>1, LenProperties
  <2> SUFFICES ASSUME NEW i \in DOMAIN a PROVE a[i] \in OnStack(stack) \cup {v}
    BY <2>1 DEF OnStack
  <2>3. CASE i = Len(d) + 1
    BY <2>1, <2>3
  <2>4. CASE i # Len(d) + 1
    <3>1. i \in 1 .. Len(d)
      BY <1>1, <1>3, <2>2, <2>4
    <3>2. i \in DOMAIN stack /\ a[i] = stack[i]
      BY <1>1, <1>3, <2>1, <3>1
    <3>3. QED
      BY <3>2 DEF OnStack
  <2>5. QED
    BY <2>3, <2>4
<1>6. \A i \in 0 .. Len(stack) - 1 : Top(i) \in OnStack(stack)
  <2> TAKE i \in 0 .. Len(stack) - 1
  <2>1. Len(stack) - i \in DOMAIN stack
    BY <1>1
  <2>2. QED
    BY <2>1 DEF Top, OnStack
<1>7. QED
  BY <1>2, <1>4, <1>5, <1>6

LEMMA PlainJoins ==
  ASSUME NEW v, v.type # "string", v.text = <<>>, NEW g, NEW S
  PROVE  Joins(v, g, S)
BY DEF Joins, Object

LEMMA PlainResults ==
  /\ Nil.type # "string" /\ Nil.text = <<>>
  /\ Table.type # "string" /\ Table.text = <<>>
  /\ \A w : Number(w).type # "string" /\ Number(w).text = <<>>
  /\ \A b : Bool(b).type # "string" /\ Bool(b).text = <<>>
BY DEF Nil, Table, Number, Bool

LEMMA ImageJoins ==
  ASSUME NEW k \in 1 .. 12, NEW t, t = ImageText(k), NEW g, NEW S
  PROVE  Joins(String(k, t), g, S)
<1>1. k \notin Heap
  BY ValueAssumption
<1>2. QED
  BY <1>1 DEF Joins, Object, String

LEMMA ImageResults ==
  ASSUME NEW v \in Value
  PROVE  /\ \E k \in 1 .. 12 : TypeName(v) = String(k, ImageText(k))
         /\ \A b : \E k \in 1 .. 12 : Truth(b) = String(k, ImageText(k))
         /\ v.type \notin {"string", "bool", "number"} => \E k \in 1 .. 12 : ValueName(v) = String(k, ImageText(k))
         /\ \E k \in 1 .. 12 : Empty = String(k, ImageText(k))
<1>1. \A k \in 1 .. 8 : Fixed(k) = String(k, ImageText(k)) /\ k \in 1 .. 12
  BY DEF Fixed, ImageText
<1>2. \E k \in 1 .. 8 : TypeName(v) = Fixed(k)
  BY DEF TypeName
<1>3. \A b : \E k \in 1 .. 8 : Truth(b) = Fixed(k)
  BY DEF Truth
<1>4. ASSUME v.type \notin {"string", "bool", "number"}
      PROVE  \E k \in 1 .. 12 : ValueName(v) = String(k, ImageText(k))
  <2>1. v.type \in Types
    BY DEF Value
  <2>2. CASE v.type = "nil"
    <3>1. ValueName(v) = String(10, <<Radix + 1>>)
      BY <2>2 DEF ValueName, TypeName, Fixed, String
    <3>2. ImageText(10) = <<Radix + 1>>
      BY DEF ImageText
    <3>3. QED
      BY <3>1, <3>2
  <2>3. CASE v.type = "table"
    <3>1. ValueName(v) = String(11, <<Radix + 5>>)
      BY <2>3 DEF ValueName, TypeName, Fixed, String
    <3>2. ImageText(11) = <<Radix + 5>>
      BY DEF ImageText
    <3>3. QED
      BY <3>1, <3>2
  <2>4. CASE v.type = "function"
    <3>1. ValueName(v) = String(12, <<Radix + 6>>)
      BY <2>4 DEF ValueName, TypeName, Fixed, String
    <3>2. ImageText(12) = <<Radix + 6>>
      BY DEF ImageText
    <3>3. QED
      BY <3>1, <3>2
  <2>5. QED
    BY <1>4, <2>1, <2>2, <2>3, <2>4 DEF Types
<1>5. Empty = String(9, ImageText(9))
  BY DEF Empty, ImageText
<1>6. QED
  BY <1>1, <1>2, <1>3, <1>4, <1>5

LEMMA LiveJoins ==
  ASSUME LiveObjects, group # "files", NEW v \in Live
  PROVE  Joins(v, group, Live)
BY DEF Joins, LiveObjects, Objects

LEMMA LiteralJoins ==
  ASSUME group \in Groups, NEW v \in Literals[group], NEW S
  PROVE  Joins(v, group, S)
<1>1. IF v.type # "string" THEN v.text = <<>> ELSE v.word \notin Heap
  BY ValueAssumption
<1>2. QED
  BY <1>1 DEF Joins, Object

LEMMA MadeJoins ==
  ASSUME entries = <<>>, NEW t, NEW v \in Made(t)
  PROVE  Joins(v, group, Live)
<1>1. CASE t = <<>>
  <2>1. v = String(9, <<>>) /\ 9 \in 1 .. 12 /\ ImageText(9) = <<>>
    BY <1>1 DEF Made, Empty, ImageText
  <2>2. QED
    BY <2>1, ImageJoins
<1>2. CASE t # <<>>
  <2>1. PICK a \in Heap : v = String(a, t) /\ \A i \in DOMAIN stack : stack[i].word # a
    BY <1>2 DEF Made
  <2>2. \A u \in Live : u.word # a
    <3>1. Live = OnStack(stack)
      BY DEF Live, InTable
    <3>2. QED
      BY <2>1, <3>1 DEF OnStack
  <2>3. QED
    BY <2>1, <2>2 DEF Joins, Object, String
<1>3. QED
  BY <1>1, <1>2

LEMMA CoercionJoins ==
  ASSUME LiveObjects, group # "files", entries = <<>>, NEW v \in Value, v \in Live, NEW s \in coerce_to_string(v)
  PROVE  Joins(s, group, Live)
<1>1. CASE v.type = "string"
  <2>1. s = v
    BY <1>1 DEF coerce_to_string
  <2>2. QED
    BY <2>1, LiveJoins
<1>2. CASE v.type = "number"
  <2>1. s \in Made(number_to_string(v.word))
    BY <1>2 DEF coerce_to_string
  <2>2. QED
    BY <2>1, MadeJoins
<1>3. CASE v.type \notin {"string", "number"}
  <2>1. \E k \in 1 .. 12 : s = String(k, ImageText(k))
    BY <1>3, ImageResults DEF coerce_to_string
  <2>2. QED
    BY <2>1, ImageJoins
<1>4. QED
  BY <1>1, <1>2, <1>3

LEMMA GivesObjects ==
  ASSUME StackOK, LiveObjects, NEW n \in Nat, n <= Len(stack), NEW v \in Value,
         group # "files" => Joins(v, group, Live),
         stack' = Append(Drop(n), v), group' = group, InTable(entries') \subseteq Live
  PROVE  LiveObjects'
<1> SUFFICES ASSUME group # "files" PROVE Objects(group, Live')
  BY DEF LiveObjects
<1>1. OnStack(stack') \subseteq OnStack(stack) \cup {v}
  BY StackShrinks
<1>2. Live' \subseteq Live \cup {v}
  BY <1>1 DEF Live
<1>3. Objects(group, Live) /\ group \in Groups
  BY DEF LiveObjects, StackOK
<1>4. QED
  BY <1>2, <1>3, JoinsObjects

LEMMA DropsObjects ==
  ASSUME StackOK, LiveObjects, NEW n \in Nat, n <= Len(stack),
         stack' = Drop(n), group' = group, InTable(entries') \subseteq Live
  PROVE  LiveObjects'
<1> SUFFICES ASSUME group # "files" PROVE Objects(group, Live')
  BY DEF LiveObjects
<1>1. OnStack(stack') \subseteq OnStack(stack)
  BY StackShrinks
<1>2. Live' \subseteq Live
  BY <1>1 DEF Live
<1>3. QED
  BY <1>2, FewerObjects DEF LiveObjects

\* Words are as good as meanings where the types agree, except for strings.
LEMMA WordsTellMeanings ==
  ASSUME LiveObjects, group # "files", NEW v \in Value, NEW w \in Value, v \in Live, w \in Live, v.type = w.type
  PROVE  /\ v.word = w.word => Meaning(v) = Meaning(w)
         /\ v.type # "string" /\ Meaning(v) = Meaning(w) => v.word = w.word
<1>1. OneText(Live) /\ Object(group, v) /\ Object(group, w)
  BY DEF LiveObjects, Objects
<1>2. v.word = w.word => v.text = w.text
  BY <1>1 DEF OneText, Object
<1>3. v.word = w.word => Meaning(v) = Meaning(w)
  BY <1>2 DEF Meaning
<1>4. ASSUME v.type # "string", Meaning(v) = Meaning(w) PROVE v.word = w.word
  BY <1>4, SameMeaningMatches DEF Matches
<1>5. QED
  BY <1>3, <1>4

LEMMA EqualMeans ==
  ASSUME StackOK, LiveObjects, entries' = entries, op_eq \/ op_ne, "equal" \notin Departs
  PROVE  L!Binary
<1>1. Len(stack) >= 2 /\ group = "values"
  BY DEF op_eq, op_ne, Binary, Takes
<1>2. PICK a \in Value, b \in Value : a = Top(1) /\ b = Top(0)
  BY <1>1, StackTop
<1>3. a \in Live /\ b \in Live
  <2>1. 0 \in 0 .. Len(stack) - 1 /\ 1 \in 0 .. Len(stack) - 1
    BY <1>1, StackTop
  <2>2. QED
    BY <1>1, <1>2, <2>1, StackTop, StackShrinks DEF Live
<1>4. Meaning(a).type = a.type /\ Meaning(b).type = b.type /\ (a.type = "string" => Meaning(a).text = a.text)
      /\ (b.type = "string" => Meaning(b).text = b.text)
  BY MeaningTyped DEF Meaning
<1>5. a.word = b.word <=> Meaning(a) = Meaning(b)
  <2>1. Comparable(a, b)
    BY <1>2 DEF op_eq, op_ne
  <2>2. CASE a.type = b.type
    BY <1>1, <1>3, <1>4, <2>1, <2>2, WordsTellMeanings DEF Comparable
  <2>3. CASE a.type # b.type
    BY <1>4, <2>1, <2>3 DEF Comparable
  <2>4. QED
    BY <2>2, <2>3
<1>6. CASE op_eq
  <2>1. PICK q \in BOOLEAN : q <=> a.word = b.word
    OBVIOUS
  <2>2. PICK v \in Value : v = Bool(q) /\ Meaning(v).type = "bool" /\ Meaning(v).int = IF q THEN 1 ELSE 0
    BY BoolMeans
  <2>3. Binary("eq", v)
    BY <1>2, <1>6, <2>1, <2>2 DEF op_eq, Bool
  <2>4. (Meaning(v).int = 1) = ((Meaning(a) = Meaning(b)) = TRUE)
    BY <1>5, <2>1, <2>2
  <2>5. L!BinaryResult("eq", Meaning(a), Meaning(b), Meaning(v))
    BY <2>2, <2>4 DEF L!BinaryResult
  <2>6. "eq" \in L!Binaries
    BY DEF L!Binaries
  <2>7. QED
    BY <1>2, <2>3, <2>5, <2>6, IsBinary
<1>7. CASE op_ne
  <2>1. PICK q \in BOOLEAN : q <=> a.word # b.word
    OBVIOUS
  <2>2. PICK v \in Value : v = Bool(q) /\ Meaning(v).type = "bool" /\ Meaning(v).int = IF q THEN 1 ELSE 0
    BY BoolMeans
  <2>3. Binary("ne", v)
    BY <1>2, <1>7, <2>1, <2>2 DEF op_ne, Bool
  <2>4. (Meaning(v).int = 1) = ((Meaning(a) = Meaning(b)) = FALSE)
    BY <1>5, <2>1, <2>2
  <2>5. L!BinaryResult("ne", Meaning(a), Meaning(b), Meaning(v))
    BY <2>2, <2>4 DEF L!BinaryResult
  <2>6. "ne" \in L!Binaries
    BY DEF L!Binaries
  <2>7. QED
    BY <1>2, <2>3, <2>5, <2>6, IsBinary
<1>8. QED
  BY <1>6, <1>7

LEMMA NotMeans ==
  ASSUME StackOK, LiveObjects, entries' = entries, op_not
  PROVE  L!Unary
<1>1. Len(stack) >= 1 /\ group = "values"
  BY DEF op_not, Unary, Takes
<1>2. PICK a \in Value : a = Top(0)
  BY <1>1, StackTop
<1>3. a \in Live
  <2>1. 0 \in 0 .. Len(stack) - 1
    BY <1>1, StackTop
  <2>2. QED
    BY <1>1, <1>2, <2>1, StackTop, StackShrinks DEF Live
<1>4. a.type = "bool" => a.text = <<>>
  BY <1>1, <1>3 DEF LiveObjects, Objects, Object
<1>5. L!False(Meaning(a)) <=> a.type = "nil" \/ (a.type = "bool" /\ a.word = 0)
  <2>1. Meaning(a).type = a.type
    BY MeaningTyped
  <2>2. CASE a.type = "bool"
    <3>1. Meaning(a) = [type |-> "bool", int |-> a.word, text |-> <<>>]
      BY <1>4, <2>2 DEF Meaning
    <3>2. QED
      BY <2>2, <3>1 DEF L!False, L!Bool
  <2>3. CASE a.type # "bool"
    BY <2>1, <2>3 DEF L!False, L!Bool
  <2>4. QED
    BY <2>2, <2>3
<1>6. PICK q \in BOOLEAN : q <=> L!False(Meaning(a))
  OBVIOUS
<1>7. PICK v \in Value : v = Bool(q) /\ Meaning(v) = L!Bool(q)
  BY BoolMeans
<1>8. Unary("not", v)
  BY <1>2, <1>5, <1>6, <1>7 DEF op_not, Bool
<1>9. L!UnaryResult("not", Meaning(a), Meaning(v))
  BY <1>6, <1>7 DEF L!UnaryResult, L!Bool
<1>10. "not" \in L!Unaries
  BY DEF L!Unaries
<1>11. QED
  BY <1>2, <1>7, <1>8, <1>9, <1>10, IsUnary

\* An operation on values leaves objects of the kinds above.
LEMMA BinaryObjects ==
  ASSUME StackOK, LiveObjects, entries' = entries, NEW o, NEW v \in Value, Binary(o, v) \/ Unary(o, v),
         Joins(v, group, Live)
  PROVE  LiveObjects'
<1>1. InTable(entries') \subseteq Live
  BY DEF Live
<1>2. CASE Binary(o, v)
  <2>1. group' = group /\ 2 <= Len(stack) /\ stack' = Append(Drop(2), v)
    BY <1>2, StackTop DEF Binary, Takes, Gives
  <2>2. QED
    BY <1>1, <2>1, GivesObjects
<1>3. CASE Unary(o, v)
  <2>1. group' = group /\ 1 <= Len(stack) /\ stack' = Append(Drop(1), v)
    BY <1>3, StackTop DEF Unary, Takes, Gives
  <2>2. QED
    BY <1>1, <2>1, GivesObjects
<1>4. QED
  BY <1>2, <1>3

LEMMA ValuesObjects ==
  ASSUME StackOK, TableInv, LiveObjects, NextValues, entries' = entries
  PROVE  LiveObjects'
<1>0. InTable(entries') \subseteq Live /\ group \in Groups /\ Len(stack) \in Nat
  BY StackTop DEF Live, StackOK
<1>1. CASE op_load
  <2>1. PICK v \in Literals[group] : stack' = Append(stack, v) /\ group' = group
    BY <1>1 DEF op_load
  <2>2. v \in Value /\ Joins(v, group, Live)
    BY <1>0, LiteralValues, LiteralJoins
  <2>3. Drop(0) = stack
    <3>1. \A s \in Seq(Value) : SubSeq(s, 1, Len(s) - 0) = s
      OBVIOUS
    <3>2. QED
      BY <3>1 DEF Drop, StackOK
  <2>4. QED
    BY <1>0, <2>1, <2>2, <2>3, GivesObjects
<1>2. CASE op_pop
  BY <1>0, <1>2, DropsObjects DEF op_pop
<1>3. CASE op_print
  <2>1. PICK n \in 1 .. MaxStack[group] : n <= Len(stack) /\ stack' = Drop(n) /\ group' = group
    BY <1>3 DEF op_print, Takes
  <2>2. n \in Nat
    BY ValueAssumption DEF StackOK
  <2>3. QED
    BY <1>0, <2>1, <2>2, DropsObjects
<1>4. CASE op_add \/ op_sub
  <2>1. PICK a \in Value, b \in Value : a = Top(1) /\ b = Top(0) /\ Len(stack) >= 2 /\ b.type # "string" /\ group = "values"
    BY <1>4, StackTop DEF op_add, op_sub, Binary, Takes
  <2>2. b \in Live
    <3>1. 0 \in 0 .. Len(stack) - 1
      BY <1>0, <2>1
    <3>2. QED
      BY <1>0, <2>1, <3>1, StackShrinks DEF Live
  <2>3. b.text = <<>>
    BY <2>1, <2>2 DEF LiveObjects, Objects, Object
  <2>4. PICK o \in {"add", "sub"}, w \in Words : Binary(o, [b EXCEPT !.word = w])
    <3>1. a.word \in Words /\ b.word \in Words
      BY DEF Value
    <3>2. Wrap(a.word + b.word) \in Words /\ Wrap(a.word - b.word) \in Words
      BY <3>1, WordResults
    <3>3. QED
      BY <1>4, <2>1, <3>2 DEF op_add, op_sub
  <2>5. PICK v \in Value : v = [b EXCEPT !.word = w]
    BY DEF Value
  <2>6. v.type # "string" /\ v.text = <<>>
    BY <2>1, <2>3, <2>5 DEF Value
  <2>7. Joins(v, group, Live)
    BY <2>6, PlainJoins
  <2>8. QED
    BY <2>4, <2>5, <2>7, BinaryObjects
<1>5. ASSUME NEW o, NEW v \in Value, Binary(o, v) \/ Unary(o, v), v.type # "string", v.text = <<>>
      PROVE  LiveObjects'
  <2>1. Joins(v, group, Live)
    BY <1>5, PlainJoins
  <2>2. QED
    BY <1>5, <2>1, BinaryObjects
<1>6. CASE op_mul \/ op_div \/ op_mod \/ op_pow \/ op_neg \/ op_len
  <2>1. PICK w \in Words : \E o : Binary(o, Number(w)) \/ Unary(o, Number(w))
    <3>1. CASE op_neg \/ op_len
      <4>1. PICK a \in Value : a = Top(0)
        BY <3>1, StackTop DEF op_neg, op_len
      <4>2. a.word \in Words /\ Len(a.text) \in Int /\ 0 \in Words
        BY Chars, SmallWords DEF Value
      <4>3. Negate(a.word) \in Words /\ (IF a.type = "string" THEN Wrap(Len(a.text)) ELSE 0) \in Words
        BY <4>2, NegateIs, WrapWord
      <4>4. QED
        BY <3>1, <4>1, <4>3 DEF op_neg, op_len
    <3>2. CASE op_mul \/ op_div \/ op_mod \/ op_pow
      <4>1. PICK a \in Value, b \in Value : a = Top(1) /\ b = Top(0)
        BY <3>2, StackTop DEF op_mul, op_div, op_mod, op_pow
      <4>2. PICK l \in Words, r \in Words : l = a.word /\ r = b.word
        BY DEF Value
      <4>3. mul16(l, r) \in Words /\ power(l, r) \in Words
            /\ (IF r = 0 THEN 0 ELSE Quotient(l, r)) \in Words /\ (IF r = 0 THEN 0 ELSE Remainder(l, r)) \in Words
        BY WordResults
      <4>4. QED
        BY <3>2, <4>1, <4>2, <4>3 DEF op_mul, op_div, op_mod, op_pow
    <3>3. QED
      BY <1>6, <3>1, <3>2
  <2>2. PICK v \in Value : v = Number(w)
    BY FixedValues
  <2>3. QED
    BY <1>5, <2>1, <2>2, PlainResults
<1>7. CASE op_eq \/ op_ne \/ op_lt \/ op_le \/ op_gt \/ op_ge \/ op_not
  <2>1. PICK q \in BOOLEAN : \E o : Binary(o, Bool(q)) \/ Unary(o, Bool(q))
    <3>1. \A p : \E q \in BOOLEAN : Bool(p) = Bool(q)
      <4> TAKE p
      <4>1. CASE p
        BY <4>1 DEF Bool
      <4>2. CASE ~p
        BY <4>2 DEF Bool
      <4>3. QED
        BY <4>1, <4>2
    <3>2. \E o, p : Binary(o, Bool(p)) \/ Unary(o, Bool(p))
      BY <1>7, Zenon DEF op_eq, op_ne, op_lt, op_le, op_gt, op_ge, op_not
    <3>3. PICK o, p : Binary(o, Bool(p)) \/ Unary(o, Bool(p))
      BY <3>2
    <3>4. PICK q \in BOOLEAN : Bool(p) = Bool(q)
      BY <3>1
    <3>5. QED
      BY <3>3, <3>4
  <2>2. PICK v \in Value : v = Bool(q)
    BY FixedValues
  <2>3. QED
    BY <1>5, <2>1, <2>2, PlainResults
<1>8. CASE op_concat
  <2>1. PICK a \in Value, b \in Value : a = Top(1) /\ b = Top(0) /\ group = "values"
    BY <1>8, StackTop DEF op_concat, Binary, Takes
  <2>2. PICK t \in Text : t = text_of(a) \o text_of(b)
    BY CoercionShows, PartsOfConcat
  <2>3. PICK v \in Made(t) : Binary("concat", v)
    BY <1>8, <2>1, <2>2 DEF op_concat
  <2>4. v \in Value /\ Joins(v, group, Live)
    BY <2>1, MadeTyped, MadeJoins DEF TableInv
  <2>5. QED
    BY <2>3, <2>4, BinaryObjects
<1>9. CASE op_type \/ op_tostring \/ op_tonumber
  <2>1. PICK a \in Value : a = Top(0) /\ group = "values" /\ Len(stack) >= 1
    BY <1>9, StackTop DEF op_type, op_tostring, op_tonumber, Unary, Takes
  <2>2. a \in Live
    <3>1. 0 \in 0 .. Len(stack) - 1
      BY <1>0, <2>1
    <3>2. QED
      BY <1>0, <2>1, <3>1, StackShrinks DEF Live
  <2>3. CASE op_type
    <3>1. PICK v \in Value : v = TypeName(a)
      BY NamesTyped
    <3>2. Unary("type", v)
      BY <2>1, <2>3, <3>1 DEF op_type
    <3>3. Joins(v, group, Live)
      BY <3>1, ImageResults, ImageJoins
    <3>4. QED
      BY <3>2, <3>3, BinaryObjects
  <2>4. CASE op_tostring
    <3>1. PICK v \in coerce_to_string(a) : Unary("tostring", v)
      BY <2>1, <2>4 DEF op_tostring
    <3>2. v \in Value /\ Joins(v, group, Live)
      BY <2>1, <2>2, CoercionShows, CoercionJoins DEF TableInv
    <3>3. QED
      BY <3>1, <3>2, BinaryObjects
  <2>5. CASE op_tonumber
    <3>1. PICK p : p = string_to_number(a.text)
      OBVIOUS
    <3>2. Unary("tonumber", CASE a.type = "number" -> a
                              [] a.type = "string" /\ p # <<>> -> Number(p[1])
                              [] OTHER -> Nil)
      BY <2>1, <2>5, <3>1 DEF op_tonumber
    <3>3. a.type = "string" /\ p # <<>> => p[1] \in Words
      <4>1. a.text \in Text
        BY DEF Value
      <4>2. CASE L!IsNumeral(a.text)
        <5>1. \E w \in Words : p = <<w>>
          BY <3>1, <4>1, <4>2, TextToNumber
        <5>2. QED
          BY <5>1
      <4>3. CASE ~L!IsNumeral(a.text)
        BY <3>1, <4>1, <4>3, TextToNumber
      <4>4. QED
        BY <4>2, <4>3
    <3>4. CASE a.type = "number"
      <4>1. Unary("tonumber", a)
        BY <3>2, <3>4
      <4>2. Joins(a, group, Live)
        BY <2>1, <2>2, LiveJoins
      <4>3. QED
        BY <4>1, <4>2, BinaryObjects
    <3>5. CASE a.type = "string" /\ p # <<>>
      <4>1. PICK v \in Value : v = Number(p[1])
        BY <3>3, <3>5, FixedValues
      <4>2. Unary("tonumber", v)
        BY <3>2, <3>5, <4>1
      <4>3. QED
        BY <1>5, <4>1, <4>2, PlainResults
    <3>6. CASE a.type # "number" /\ ~(a.type = "string" /\ p # <<>>)
      <4>1. Unary("tonumber", Nil)
        BY <3>2, <3>6
      <4>2. QED
        BY <1>5, <4>1, PlainResults, FixedValues
    <3>7. QED
      BY <3>4, <3>5, <3>6
  <2>6. QED
    BY <1>9, <2>3, <2>4, <2>5
<1>10. QED
  BY <1>1, <1>2, <1>3, <1>4, <1>6, <1>7, <1>8, <1>9 DEF NextValues

-----------------------------------------------------------------------------
(* The table as a map. *)

KeyMeanings(es) == {Meaning(es[i].key) : i \in DOMAIN es}
MapOf(es) == [k \in KeyMeanings(es) |-> Meaning((CHOOSE e \in {es[i] : i \in DOMAIN es} : Meaning(e.key) = k).val)]
Distinct(es) == \A i, j \in DOMAIN es : Meaning(es[i].key) = Meaning(es[j].key) => i = j

LEMMA MapIs ==
  ASSUME NEW es, Distinct(es)
  PROVE  /\ DOMAIN MapOf(es) = KeyMeanings(es)
         /\ \A i \in DOMAIN es : MapOf(es)[Meaning(es[i].key)] = Meaning(es[i].val)
<1>1. DOMAIN MapOf(es) = KeyMeanings(es)
  BY DEF MapOf
<1>2. ASSUME NEW i \in DOMAIN es PROVE MapOf(es)[Meaning(es[i].key)] = Meaning(es[i].val)
  <2>1. PICK k : k = Meaning(es[i].key)
    OBVIOUS
  <2>2. PICK E : E = {es[j] : j \in DOMAIN es}
    OBVIOUS
  <2>3. PICK e : e = CHOOSE x \in E : Meaning(x.key) = k
    OBVIOUS
  <2>4. es[i] \in E /\ Meaning(es[i].key) = k
    BY <2>1, <2>2
  <2>5. e \in E /\ Meaning(e.key) = k
    BY <2>3, <2>4
  <2>6. PICK j \in DOMAIN es : e = es[j]
    BY <2>2, <2>5
  <2>7. i = j
    BY <2>1, <2>5, <2>6 DEF Distinct
  <2>8. k \in KeyMeanings(es)
    BY <2>1 DEF KeyMeanings
  <2>9. MapOf(es)[k] = Meaning(e.val)
    BY <2>2, <2>3, <2>8 DEF MapOf
  <2>10. QED
    BY <2>1, <2>6, <2>7, <2>9
<1>3. QED
  BY <1>1, <1>2

LEMMA MapUnique ==
  ASSUME NEW es, Distinct(es), NEW m, m = [k \in KeyMeanings(es) |-> m[k]],
         \A i \in DOMAIN es : m[Meaning(es[i].key)] = Meaning(es[i].val)
  PROVE  MapOf(es) = m
<1>1. PICK f : f = MapOf(es)
  OBVIOUS
<1>2. f = [k \in KeyMeanings(es) |-> f[k]]
  BY <1>1 DEF MapOf
<1>3. \A k \in KeyMeanings(es) : f[k] = m[k]
  BY <1>1, MapIs DEF KeyMeanings
<1>4. QED
  BY <1>1, <1>2, <1>3

LEMMA MapSize ==
  ASSUME NEW S, NEW es \in Seq(S), Distinct(es)
  PROVE  Cardinality(KeyMeanings(es)) = Len(es) /\ IsFiniteSet(KeyMeanings(es))
<1>1. Len(es) \in Nat /\ DOMAIN es = 1 .. Len(es)
  BY LenProperties
<1>2. IsFiniteSet(1 .. Len(es)) /\ Cardinality(1 .. Len(es)) = Len(es)
  <2>1. Cardinality(1 .. Len(es)) = (IF 1 > Len(es) THEN 0 ELSE Len(es) - 1 + 1) /\ IsFiniteSet(1 .. Len(es))
    BY <1>1, FS_Interval
  <2>2. QED
    BY <1>1, <2>1
<1>3. PICK f : f = [i \in DOMAIN es |-> Meaning(es[i].key)]
  OBVIOUS
<1>4. f \in Surjection(DOMAIN es, KeyMeanings(es))
  BY <1>3 DEF Surjection, KeyMeanings
<1>5. f \in Injection(DOMAIN es, KeyMeanings(es))
  BY <1>3, <1>4 DEF Surjection, Injection, IsInjective, Distinct
<1>6. QED
  BY <1>1, <1>2, <1>4, <1>5, FS_Surjection

\* In a program with a table.
LEMMA TableFacts ==
  ASSUME TableInv, group = "tables"
  PROVE  /\ entries \in Seq(Entry) /\ Len(entries) \in Nat /\ DOMAIN entries = 1 .. Len(entries)
         /\ Distinct(entries) /\ Len(entries) <= Capacity
         /\ \A i \in DOMAIN entries : /\ entries[i].key \in Value /\ entries[i].val \in Value
                                      /\ entries[i].key \in Live /\ entries[i].val \in Live
<1>1. entries \in Seq(Entry) /\ KeysDistinct
  BY DEF TableInv
<1>2. Len(entries) \in Nat /\ DOMAIN entries = 1 .. Len(entries) /\ \A i \in DOMAIN entries : entries[i] \in Entry
  BY <1>1, LenProperties
<1>3. Distinct(entries) /\ Len(entries) <= Capacity
  BY <1>1 DEF KeysDistinct, Distinct
<1>4. \A i \in DOMAIN entries : entries[i].key \in Live /\ entries[i].val \in Live
  BY DEF Live, InTable
<1>5. QED
  BY <1>1, <1>2, <1>3, <1>4 DEF Entry

(* The search finds the entries whose key means the same. *)
LEMMA FoundMeans ==
  ASSUME TableInv, LiveObjects, group = "tables", NEW k \in Value, k \in Live
  PROVE  Found(k) = {i \in DOMAIN entries : Meaning(entries[i].key) = Meaning(k)}
<1>1. ASSUME NEW i \in DOMAIN entries PROVE Matches(entries[i].key, k) <=> Meaning(entries[i].key) = Meaning(k)
  <2>1. PICK l \in Value : l = entries[i].key /\ l \in Live
    BY TableFacts
  <2>2. ASSUME Matches(l, k) PROVE Meaning(l) = Meaning(k)
    <3>1. l.type = k.type /\ (l.word = k.word \/ (l.type = "string" /\ l.text = k.text))
      BY <2>2 DEF Matches
    <3>2. CASE l.word = k.word
      BY <2>1, <3>1, <3>2, WordsTellMeanings
    <3>3. CASE l.type = "string" /\ l.text = k.text
      BY <3>1, <3>3 DEF Meaning
    <3>4. QED
      BY <3>1, <3>2, <3>3
  <2>3. QED
    BY <2>1, <2>2, SameMeaningMatches
<1>2. QED
  BY <1>1 DEF Found

LEMMA FoundOne ==
  ASSUME TableInv, LiveObjects, group = "tables", NEW k \in Value, k \in Live
  PROVE  /\ Found(k) = {} <=> Meaning(k) \notin KeyMeanings(entries)
         /\ Found(k) # {} => /\ FirstOf(Found(k)) \in DOMAIN entries
                             /\ Meaning(entries[FirstOf(Found(k))].key) = Meaning(k)
<1>1. Found(k) = {i \in DOMAIN entries : Meaning(entries[i].key) = Meaning(k)}
  BY FoundMeans
<1>2. Found(k) = {} <=> Meaning(k) \notin KeyMeanings(entries)
  BY <1>1 DEF KeyMeanings
<1>3. ASSUME Found(k) # {} PROVE FirstOf(Found(k)) \in Found(k)
  <2>1. Found(k) \in SUBSET Nat
    BY <1>1, TableFacts
  <2>2. QED
    BY <1>3, <2>1, FirstIsFound
<1>4. QED
  BY <1>1, <1>2, <1>3

LEMMA GetMeans ==
  ASSUME StackOK, StackOK', TableInv, LiveObjects, op_gettable
  PROVE  L!Binary /\ LiveObjects'
<1>1. /\ group = "tables" /\ Len(stack) >= 2 /\ did' = "get" /\ group' = group /\ printed' = <<>> /\ entries' = entries
      /\ Top(1) = Table
      /\ stack' = Append(Drop(2), IF Found(Top(0)) = {} THEN Nil ELSE entries[FirstOf(Found(Top(0)))].val)
  BY DEF op_gettable, Takes, Gives
<1>2. PICK k \in Value : k = Top(0) /\ Len(stack) \in Nat
  BY <1>1, StackTop
<1>3. k \in Live
  <2>1. 0 \in 0 .. Len(stack) - 1
    BY <1>1, <1>2
  <2>2. QED
    BY <1>1, <1>2, <2>1, StackShrinks DEF Live
<1>4. PICK v \in Value : v = (IF Found(k) = {} THEN Nil ELSE entries[FirstOf(Found(k))].val)
                         /\ ((v.type = "nil" /\ v.text = <<>>) \/ v \in Live)
  <2>1. CASE Found(k) = {}
    BY <2>1, FixedValues DEF Nil
  <2>2. CASE Found(k) # {}
    <3>1. FirstOf(Found(k)) \in DOMAIN entries
      BY <1>1, <1>3, <2>2, FoundOne
    <3>2. QED
      BY <1>1, <2>2, <3>1, TableFacts
  <2>3. QED
    BY <2>1, <2>2
<1>5. Meaning(v) = IF Meaning(k) \in DOMAIN MapOf(entries) THEN MapOf(entries)[Meaning(k)] ELSE L!Nil
  <2>1. DOMAIN MapOf(entries) = KeyMeanings(entries)
        /\ \A i \in DOMAIN entries : MapOf(entries)[Meaning(entries[i].key)] = Meaning(entries[i].val)
    BY <1>1, TableFacts, MapIs
  <2>2. CASE Found(k) = {}
    <3>1. Meaning(k) \notin DOMAIN MapOf(entries)
      BY <1>1, <1>3, <2>1, <2>2, FoundOne
    <3>2. Meaning(Nil) = L!Nil
      BY DEF Meaning, Nil, L!Nil
    <3>3. QED
      BY <1>4, <2>2, <3>1, <3>2
  <2>3. CASE Found(k) # {}
    <3>1. PICK i \in DOMAIN entries : i = FirstOf(Found(k)) /\ Meaning(entries[i].key) = Meaning(k)
      BY <1>1, <1>3, <2>3, FoundOne
    <3>2. Meaning(k) \in DOMAIN MapOf(entries)
      BY <1>1, <1>3, <2>1, <2>3, FoundOne
    <3>3. QED
      BY <1>4, <2>1, <2>3, <3>1, <3>2
  <2>4. QED
    BY <2>2, <2>3
<1>6. stack' = Append(Drop(2), v)
  BY <1>1, <1>2, <1>4
<1>7. L!Takes(2, 1) /\ L!Result = Meaning(v)
  BY <1>1, <1>6, GivesMeans
<1>8. L!Last(0) = Meaning(k) /\ L!Last(1) = Meaning(Table)
  <2>1. 0 \in 0 .. Len(stack) - 1 /\ 1 \in 0 .. Len(stack) - 1
    BY <1>1, <1>2
  <2>2. QED
    BY <1>1, <1>2, <2>1, LastMeans
<1>9. Meaning(Table).type = "table"
  BY DEF Meaning, Table
<1>10. L!BinaryResult("get", Meaning(Table), Meaning(k), Meaning(v))
  BY <1>5, <1>9 DEF L!BinaryResult, MapOf, KeyMeanings
<1>11. L!Binary
  <2>1. L!BinaryResult(did', L!Last(1), L!Last(0), L!Result)
    BY <1>1, <1>7, <1>8, <1>10
  <2>2. did' \in L!Binaries
    BY <1>1 DEF L!Binaries
  <2>3. QED
    BY <1>1, <1>7, <2>1, <2>2 DEF L!Binary
<1>12. Joins(v, group, Live)
  BY <1>1, <1>4, PlainJoins, LiveJoins
<1>13. InTable(entries') \subseteq Live
  BY <1>1 DEF Live
<1>14. LiveObjects'
  BY <1>1, <1>6, <1>12, <1>13, GivesObjects
<1>15. QED
  BY <1>11, <1>14

\* What an assignment makes of the entries, and of the map.
Replaced(es, old, k, v) ==
  /\ DOMAIN es = DOMAIN old
  /\ \E i \in DOMAIN old :
       /\ Meaning(old[i].key) = Meaning(k)
       /\ es[i].key = old[i].key /\ es[i].val = v
       /\ \A j \in DOMAIN old \ {i} : es[j] = old[j]
Added(es, old, k, v) ==
  \E n : /\ DOMAIN es = DOMAIN old \cup {n}
         /\ es[n].key = k /\ es[n].val = v
         /\ \A j \in DOMAIN old : es[j] = old[j]

LEMMA StoredShape ==
  ASSUME TableInv, LiveObjects, group = "tables", NEW k \in Value, k \in Live, NEW v \in Value,
         NEW es, es = Stored(k, v)
  PROVE  \/ Meaning(k) \in KeyMeanings(entries) /\ Replaced(es, entries, k, v)
         \/ Meaning(k) \notin KeyMeanings(entries) /\ Len(entries) < Capacity /\ Added(es, entries, k, v)
         \/ Meaning(k) \notin KeyMeanings(entries) /\ ~(Len(entries) < Capacity) /\ es = entries
<1>1. /\ entries \in Seq(Entry) /\ Len(entries) \in Nat /\ DOMAIN entries = 1 .. Len(entries)
      /\ \A i \in DOMAIN entries : entries[i] \in Entry
  BY TableFacts, LenProperties
<1>2. CASE Found(k) # {}
  <2>1. PICK i \in DOMAIN entries : i = FirstOf(Found(k)) /\ Meaning(entries[i].key) = Meaning(k)
    BY <1>2, FoundOne
  <2>2. es = [entries EXCEPT ![i].val = v]
    BY <1>2, <2>1 DEF Stored
  <2>3. entries[i] \in [key : Value, val : Value]
    BY <1>1 DEF Entry
  <2>4. DOMAIN es = DOMAIN entries /\ \A j \in DOMAIN entries \ {i} : es[j] = entries[j]
    BY <2>2
  <2>5. es[i] = [entries[i] EXCEPT !.val = v]
    BY <2>2, <2>1
  <2>6. es[i].key = entries[i].key /\ es[i].val = v
    BY <2>3, <2>5
  <2>7. Meaning(k) \in KeyMeanings(entries)
    BY <2>1 DEF KeyMeanings
  <2>8. Replaced(es, entries, k, v)
    BY <2>1, <2>4, <2>6 DEF Replaced
  <2>9. QED
    BY <2>7, <2>8
<1>3. CASE Found(k) = {} /\ Len(entries) < Capacity
  <2>1. Meaning(k) \notin KeyMeanings(entries)
    BY <1>3, FoundOne
  <2>2. PICK e \in Entry : e = [key |-> k, val |-> v]
    BY DEF Entry
  <2>3. es = Append(entries, e)
    BY <1>3, <2>2 DEF Stored
  <2>4. /\ Len(es) = Len(entries) + 1 /\ es[Len(entries) + 1] = e /\ es \in Seq(Entry)
        /\ \A j \in 1 .. Len(entries) : es[j] = entries[j]
    BY <1>1, <2>3, AppendProperties
  <2>5. DOMAIN es = 1 .. Len(entries) + 1
    BY <2>4, LenProperties
  <2>6. PICK n : n = Len(entries) + 1
    OBVIOUS
  <2>7. /\ DOMAIN es = DOMAIN entries \cup {n}
        /\ es[n].key = k /\ es[n].val = v
        /\ \A j \in DOMAIN entries : es[j] = entries[j]
    BY <1>1, <2>2, <2>4, <2>5, <2>6
  <2>8. Added(es, entries, k, v)
    BY <2>7 DEF Added
  <2>9. QED
    BY <1>3, <2>1, <2>8
<1>4. CASE Found(k) = {} /\ ~(Len(entries) < Capacity)
  <2>1. Meaning(k) \notin KeyMeanings(entries)
    BY <1>4, FoundOne
  <2>2. es = entries
    BY <1>4 DEF Stored
  <2>3. QED
    BY <1>4, <2>1, <2>2
<1>5. QED
  BY <1>2, <1>3, <1>4

MapWith(es, k, v) ==
  [x \in KeyMeanings(es) \cup {Meaning(k)} |-> IF x = Meaning(k) THEN Meaning(v) ELSE MapOf(es)[x]]

LEMMA StoredMap ==
  ASSUME TableInv, LiveObjects, group = "tables", NEW k \in Value, k \in Live, NEW v \in Value,
         NEW es, es = Stored(k, v), Distinct(es)
  PROVE  /\ InTable(es) \subseteq InTable(entries) \cup {k, v}
         /\ MapOf(es) = IF Meaning(k) \in KeyMeanings(entries) \/ Len(entries) < Capacity
                           THEN MapWith(entries, k, v) ELSE MapOf(entries)
<1>1. Distinct(entries)
  BY TableFacts
<1>2. DOMAIN MapOf(entries) = KeyMeanings(entries)
      /\ \A i \in DOMAIN entries : MapOf(entries)[Meaning(entries[i].key)] = Meaning(entries[i].val)
  BY <1>1, MapIs
<1>0. PICK m : m = MapWith(entries, k, v)
  OBVIOUS
<1>3. m = [x \in KeyMeanings(entries) \cup {Meaning(k)} |->
             IF x = Meaning(k) THEN Meaning(v) ELSE MapOf(entries)[x]]
  BY <1>0 DEF MapWith
<1>4. CASE Meaning(k) \in KeyMeanings(entries) /\ Replaced(es, entries, k, v)
  <2>0. DOMAIN es = DOMAIN entries
    BY <1>4 DEF Replaced
  <2>1. PICK i \in DOMAIN entries :
          /\ Meaning(entries[i].key) = Meaning(k)
          /\ es[i].key = entries[i].key /\ es[i].val = v
          /\ \A j \in DOMAIN entries \ {i} : es[j] = entries[j]
    BY <1>4 DEF Replaced
  <2>2. \A j \in DOMAIN entries : es[j].key = entries[j].key
    BY <2>1
  <2>3. InTable(es) \subseteq InTable(entries) \cup {k, v}
    BY <2>0, <2>1, <2>2 DEF InTable
  <2>4. KeyMeanings(es) = KeyMeanings(entries) /\ KeyMeanings(entries) \cup {Meaning(k)} = KeyMeanings(es)
    <3>1. KeyMeanings(es) = KeyMeanings(entries)
      BY <2>0, <2>2 DEF KeyMeanings
    <3>2. QED
      BY <1>4, <3>1
  <2>5. m = [x \in KeyMeanings(es) |-> m[x]]
    BY <1>3, <2>4
  <2>6. ASSUME NEW j \in DOMAIN es PROVE m[Meaning(es[j].key)] = Meaning(es[j].val)
    <3>1. Meaning(es[j].key) \in KeyMeanings(es) /\ Meaning(es[j].key) = Meaning(entries[j].key) /\ j \in DOMAIN entries
      BY <2>0, <2>2 DEF KeyMeanings
    <3>2. CASE j = i
      BY <1>3, <2>1, <2>4, <3>1, <3>2
    <3>3. CASE j # i
      <4>1. Meaning(entries[j].key) # Meaning(k)
        BY <1>1, <2>1, <3>1, <3>3 DEF Distinct
      <4>2. m[Meaning(es[j].key)] = MapOf(entries)[Meaning(entries[j].key)]
        BY <1>3, <2>4, <3>1, <4>1
      <4>3. QED
        BY <1>2, <2>1, <3>1, <3>3, <4>2
    <3>4. QED
      BY <3>2, <3>3
  <2>7. MapOf(es) = m
    BY <2>5, <2>6, MapUnique
  <2>8. QED
    BY <1>0, <1>4, <2>3, <2>7
<1>5. CASE Meaning(k) \notin KeyMeanings(entries) /\ Len(entries) < Capacity /\ Added(es, entries, k, v)
  <2>2. PICK n : /\ DOMAIN es = DOMAIN entries \cup {n} /\ es[n].key = k /\ es[n].val = v
                 /\ \A j \in DOMAIN entries : es[j] = entries[j]
    BY <1>5 DEF Added
  <2>3. InTable(es) \subseteq InTable(entries) \cup {k, v}
    BY <2>2 DEF InTable
  <2>4. KeyMeanings(es) = KeyMeanings(entries) \cup {Meaning(k)}
    BY <2>2 DEF KeyMeanings
  <2>5. m = [x \in KeyMeanings(es) |-> m[x]]
    BY <1>3, <2>4
  <2>6. ASSUME NEW j \in DOMAIN es PROVE m[Meaning(es[j].key)] = Meaning(es[j].val)
    <3>1. Meaning(es[j].key) \in KeyMeanings(es)
      BY DEF KeyMeanings
    <3>2. CASE j = n
      BY <1>3, <2>2, <2>4, <3>1, <3>2
    <3>3. CASE j \in DOMAIN entries
      <4>1. es[j] = entries[j] /\ Meaning(entries[j].key) \in KeyMeanings(entries)
        BY <2>2, <3>3 DEF KeyMeanings
      <4>2. m[Meaning(es[j].key)] = MapOf(entries)[Meaning(entries[j].key)]
        BY <1>3, <1>5, <2>4, <3>1, <4>1
      <4>3. QED
        BY <1>2, <3>3, <4>1, <4>2
    <3>4. QED
      BY <2>2, <3>2, <3>3
  <2>7. MapOf(es) = m
    BY <2>5, <2>6, MapUnique
  <2>8. QED
    BY <1>0, <1>5, <2>3, <2>7
<1>6. CASE Meaning(k) \notin KeyMeanings(entries) /\ ~(Len(entries) < Capacity) /\ es = entries
  <2>1. InTable(es) \subseteq InTable(entries) \cup {k, v} /\ MapOf(es) = MapOf(entries)
    BY <1>6
  <2>2. ~(Meaning(k) \in KeyMeanings(entries) \/ Len(entries) < Capacity)
    BY <1>6
  <2>3. QED
    BY <2>1, <2>2, Zenon
<1>7. QED
  BY <1>4, <1>5, <1>6, StoredShape

LEMMA CardinalityMeans ==
  ASSUME NEW S
  PROVE  L!Cardinality(S) = Cardinality(S)
BY Zenon DEF L!Cardinality, Cardinality

LEMMA SetMeans ==
  ASSUME StackOK, StackOK', TableInv, LiveObjects, op_settable
  PROVE  L!Set /\ LiveObjects'
<1>1. /\ group = "tables" /\ Len(stack) >= 3 /\ did' = "set" /\ group' = group /\ printed' = <<>>
      /\ Top(2) = Table /\ entries' = Stored(Top(1), Top(0)) /\ stack' = Drop(3)
  BY DEF op_settable, Takes
<1>2. Len(stack) \in Nat /\ 0 \in 0 .. Len(stack) - 1 /\ 1 \in 0 .. Len(stack) - 1 /\ 2 \in 0 .. Len(stack) - 1 /\ 3 <= Len(stack)
  BY <1>1, StackTop
<1>3. PICK k \in Value, v \in Value : k = Top(1) /\ v = Top(0) /\ k \in Live /\ v \in Live
  <2>1. Top(0) \in Value /\ Top(1) \in Value
    BY <1>2, LastMeans
  <2>2. Top(0) \in OnStack(stack) /\ Top(1) \in OnStack(stack)
    BY <1>2, StackShrinks
  <2>3. QED
    BY <2>1, <2>2 DEF Live
<1>4. L!Takes(3, 0)
  BY <1>1, <1>2, DropMeans
<1>5. L!Last(2) = Meaning(Table) /\ L!Last(1) = Meaning(k) /\ L!Last(0) = Meaning(v) /\ Meaning(Table).type = "table"
  BY <1>1, <1>2, <1>3, LastMeans DEF Meaning, Table
<1>6. PICK es : es = entries'
  OBVIOUS
<1>7. Distinct(es) /\ es = Stored(k, v)
  <2>1. entries \in Seq(Entry) /\ KeysDistinct
    BY <1>1 DEF TableInv
  <2>2. KeysDistinct'
    BY <1>1, <1>3, <2>1, StoredInv
  <2>3. QED
    BY <1>1, <1>3, <1>6, <2>2 DEF KeysDistinct, Distinct
<1>8. /\ InTable(es) \subseteq InTable(entries) \cup {k, v}
      /\ MapOf(es) = IF Meaning(k) \in KeyMeanings(entries) \/ Len(entries) < Capacity
                        THEN MapWith(entries, k, v) ELSE MapOf(entries)
  BY <1>1, <1>3, <1>7, StoredMap
<1>9. Cardinality(KeyMeanings(entries)) = Len(entries) /\ DOMAIN MapOf(entries) = KeyMeanings(entries)
  BY <1>1, TableFacts, MapSize, MapIs
<1>10. MapOf(entries') =
         IF L!Last(1) \in DOMAIN MapOf(entries) \/ Cardinality(DOMAIN MapOf(entries)) < Capacity
           THEN [x \in DOMAIN MapOf(entries) \cup {L!Last(1)} |->
                   IF x = L!Last(1) THEN L!Last(0) ELSE MapOf(entries)[x]]
           ELSE MapOf(entries)
  <2>1. MapWith(entries, k, v) = [x \in DOMAIN MapOf(entries) \cup {L!Last(1)} |->
                                    IF x = L!Last(1) THEN L!Last(0) ELSE MapOf(entries)[x]]
    BY <1>5, <1>9 DEF MapWith
  <2>2. QED
    BY <1>5, <1>6, <1>8, <1>9, <2>1
<1>11. L!Set
  <2>1. L!Last(2).type = "table" /\ did' = "set" /\ printed' = <<>>
    BY <1>1, <1>5
  <2>2. /\ did' = "set" /\ L!Takes(3, 0) /\ L!Last(2).type = "table"
        /\ MapOf(entries') =
             IF L!Last(1) \in DOMAIN MapOf(entries) \/ Cardinality(DOMAIN MapOf(entries)) < Capacity
               THEN [x \in DOMAIN MapOf(entries) \cup {L!Last(1)} |->
                       IF x = L!Last(1) THEN L!Last(0) ELSE MapOf(entries)[x]]
               ELSE MapOf(entries)
        /\ printed' = <<>>
        => L!Set
    <3>1. L!Cardinality(DOMAIN MapOf(entries)) = Cardinality(DOMAIN MapOf(entries))
      BY CardinalityMeans
    <3>2. QED
      BY <3>1 DEF L!Set, MapOf, KeyMeanings
  <2>3. QED
    BY <1>4, <1>10, <2>1, <2>2
<1>12. InTable(entries') \subseteq Live
  BY <1>3, <1>6, <1>8 DEF Live
<1>13. QED
  BY <1>1, <1>2, <1>11, <1>12, DropsObjects

-----------------------------------------------------------------------------
(* The length of a table. *)

\* The number 1, 2, ... is a key if the search for its word finds one.
LEMMA NumbersFound ==
  ASSUME TableInv, LiveObjects, group = "tables", NEW n \in Nat, n <= Half
  PROVE  /\ L!Number(n) \in KeyMeanings(entries) => HasNumber(n)
         /\ n < Half /\ HasNumber(n) => L!Number(n) \in KeyMeanings(entries)
<1>1. Half \in Nat /\ Half >= 16 /\ n \in Words
  BY WordsAre
<1>2. Wrap(n) = n
  BY <1>1, SMT DEF Wrap
<1>3. ASSUME NEW i \in DOMAIN entries, Meaning(entries[i].key) = L!Number(n)
      PROVE  entries[i].key.type = "number" /\ entries[i].key.word = n
  <2>1. PICK k \in Value : k = entries[i].key
    BY TableFacts
  <2>2. Meaning(k).type = "number" /\ Meaning(k).int = n
    BY <1>3, <2>1 DEF L!Number
  <2>3. k.type = "number" /\ SignedOf(k.word) = n /\ k.word \in Words
    BY <2>2, MeaningTyped DEF Value
  <2>4. k.word = n
    BY <1>1, <1>2, <2>3, SignedIs
  <2>5. QED
    BY <2>1, <2>3, <2>4
<1>4. ASSUME NEW i \in DOMAIN entries, entries[i].key.type = "number", entries[i].key.word = n, n < Half
      PROVE  Meaning(entries[i].key) = L!Number(n)
  <2>1. PICK k \in Value : k = entries[i].key /\ k \in Live
    BY TableFacts
  <2>2. k.text = <<>>
    BY <1>4, <2>1 DEF LiveObjects, Objects, Object
  <2>3. k.word = n /\ k.type = "number" /\ ~Negative(k.word)
    BY <1>1, <1>4, <2>1 DEF Negative
  <2>4. Meaning(k) = [type |-> "number", int |-> n, text |-> <<>>]
    BY <2>2, <2>3 DEF Meaning
  <2>5. QED
    BY <2>1, <2>4 DEF L!Number
<1>5. QED
  BY <1>2, <1>3, <1>4 DEF HasNumber, KeyMeanings

\* The keys counted are those from 1 up to the last before a gap.
LEMMA CountedIs ==
  ASSUME TableInv, group = "tables"
  PROVE  /\ Counted \in 0 .. Len(entries)
         /\ \A i \in 1 .. Counted : HasNumber(i)
         /\ Counted < Len(entries) => ~HasNumber(Counted + 1)
<1>1. PICK m \in Nat : m = Len(entries)
  BY TableFacts
<1>2. PICK S : S = {n \in 1 .. m : \A i \in 1 .. n : HasNumber(i)}
  OBVIOUS
<1>3. Counted = Cardinality(S)
  BY <1>1, <1>2 DEF Counted
<1>4. ASSUME NEW c \in 0 .. m, S = 1 .. c PROVE Counted = c
  <2>1. Cardinality(1 .. c) = IF 1 > c THEN 0 ELSE c - 1 + 1
    BY FS_Interval
  <2>2. QED
    BY <1>3, <1>4, <2>1
<1>5. CASE S = 1 .. m
  <2>1. Counted = m
    BY <1>4, <1>5
  <2>2. \A i \in 1 .. m : HasNumber(i)
    BY <1>2, <1>5
  <2>3. QED
    BY <1>1, <2>1, <2>2
<1>6. CASE S # 1 .. m
  <2>1. PICK W \in SUBSET Nat : W = (1 .. m) \ S
    <3>1. (1 .. m) \ S \in SUBSET Nat
      OBVIOUS
    <3>2. QED
      BY <3>1, Zenon
  <2>2. W # {}
    BY <1>2, <1>6, <2>1
  <2>3. PICK g \in W : \A j \in W : g <= j
    BY <2>2, LeastElement
  <2>4. g \in 1 .. m /\ g \notin S /\ g \in Nat
    BY <2>1
  <2>5. PICK c \in 0 .. m : c = g - 1 /\ c + 1 = g /\ c < m
    <3>1. g - 1 \in 0 .. m /\ g - 1 + 1 = g /\ g - 1 < m
      BY <2>4
    <3>2. QED
      BY <3>1, Zenon
  <2>6. \A i \in 1 .. c : i \in S
    BY <2>1, <2>3, <2>5
  <2>7. \A i \in 1 .. c : HasNumber(i)
    BY <1>2, <2>6
  <2>8. ~HasNumber(g)
    <3>1. PICK i \in 1 .. g : ~HasNumber(i)
      BY <1>2, <2>4
    <3>2. i = g
      BY <2>4, <2>5, <2>7, <3>1
    <3>3. QED
      BY <3>1, <3>2
  <2>9. S = 1 .. c
    <3>1. ASSUME NEW i \in S PROVE i \in 1 .. c
      <4>1. i \in 1 .. m /\ (g \in 1 .. i => HasNumber(g))
        BY <1>2
      <4>2. QED
        BY <2>4, <2>5, <2>8, <4>1
    <3>2. QED
      BY <2>6, <3>1
  <2>10. Counted = c
    BY <1>4, <2>9
  <2>11. QED
    BY <1>1, <2>5, <2>7, <2>8, <2>10
<1>7. QED
  BY <1>5, <1>6

\* There is a gap before the entries run out.
LEMMA GapExists ==
  ASSUME TableInv, group = "tables"
  PROVE  ~\A i \in 1 .. Len(entries) + 1 : HasNumber(i)
<1>1. PICK m \in Nat : m = Len(entries) /\ DOMAIN entries = 1 .. m /\ m + 1 <= Half
  <2>1. PICK m \in Nat : m = Len(entries) /\ DOMAIN entries = 1 .. m /\ m <= Capacity
    BY TableFacts
  <2>2. m + 1 <= Half
    BY <2>1, TableAssumption, WordsAre
  <2>3. QED
    BY <2>1, <2>2
<1>2. SUFFICES ASSUME \A i \in 1 .. m + 1 : HasNumber(i) PROVE FALSE
  BY <1>1
<1>3. \A i \in 1 .. m + 1 : Wrap(i) = i
  BY <1>1, WordsAre, SMT DEF Wrap
<1>4. PICK f : f = [i \in 1 .. m + 1 |-> CHOOSE j \in DOMAIN entries : entries[j].key.type = "number" /\ entries[j].key.word = i]
  OBVIOUS
<1>5. ASSUME NEW i \in 1 .. m + 1 PROVE f[i] \in 1 .. m /\ entries[f[i]].key.word = i
  <2>1. \E j \in DOMAIN entries : entries[j].key.type = "number" /\ entries[j].key.word = i
    BY <1>2, <1>3 DEF HasNumber
  <2>2. QED
    BY <1>1, <1>4, <2>1
<1>6. f \in [1 .. m + 1 -> 1 .. m]
  BY <1>4, <1>5
<1>7. /\ IsFiniteSet(1 .. m + 1) /\ IsFiniteSet(1 .. m)
      /\ Cardinality(1 .. m + 1) = m + 1 /\ Cardinality(1 .. m) = m
  <2>1. m + 1 \in Int /\ m \in Int /\ 1 \in Int
    OBVIOUS
  <2>2. /\ IsFiniteSet(1 .. m + 1) /\ Cardinality(1 .. m + 1) = IF 1 > m + 1 THEN 0 ELSE (m + 1) - 1 + 1
        /\ IsFiniteSet(1 .. m) /\ Cardinality(1 .. m) = IF 1 > m THEN 0 ELSE m - 1 + 1
    BY <2>1, FS_Interval
  <2>3. QED
    BY <2>2
<1>8. \E x, y \in 1 .. m + 1 : x # y /\ f[x] = f[y]
  BY <1>6, <1>7, FS_PigeonHole
<1>9. QED
  BY <1>5, <1>8

LEMMA LenMeans ==
  ASSUME StackOK, StackOK', TableInv, LiveObjects, op_len_table
  PROVE  L!Unary /\ LiveObjects'
<1>1. /\ group = "tables" /\ Len(stack) >= 1 /\ did' = "len" /\ group' = group /\ printed' = <<>> /\ entries' = entries
      /\ Top(0) = Table /\ stack' = Append(Drop(1), Number(Wrap(Counted)))
  BY DEF op_len_table, Takes, Gives
<1>2. Len(stack) \in Nat /\ 0 \in 0 .. Len(stack) - 1 /\ 1 <= Len(stack)
  BY <1>1, StackTop
<1>3. PICK c \in Nat : c = Counted /\ c <= Len(entries) /\ c + 1 <= Half /\ c < Half
  <2>1. Counted \in 0 .. Len(entries) /\ Len(entries) \in Nat /\ Len(entries) <= Capacity
    BY <1>1, CountedIs, TableFacts
  <2>2. Counted \in Nat /\ Counted + 1 <= Half /\ Counted < Half
    BY <2>1, TableAssumption, WordsAre
  <2>3. QED
    BY <2>1, <2>2
<1>4. ~HasNumber(c + 1)
  <2>1. CASE c < Len(entries)
    BY <1>1, <1>3, <2>1, CountedIs
  <2>2. CASE c = Len(entries)
    <3>1. \A i \in 1 .. c : HasNumber(i)
      BY <1>1, <1>3, CountedIs
    <3>2. PICK i \in 1 .. c + 1 : ~HasNumber(i)
      BY <1>1, <2>2, GapExists
    <3>3. i = c + 1
      BY <3>1, <3>2
    <3>4. QED
      BY <3>2, <3>3
  <2>3. Len(entries) \in Nat
    BY <1>1, TableFacts
  <2>4. QED
    BY <1>3, <2>1, <2>2, <2>3
<1>5. \A i \in 1 .. c : L!Number(i) \in KeyMeanings(entries)
  <2> TAKE i \in 1 .. c
  <2>1. HasNumber(i) /\ i \in Nat /\ i < Half /\ i <= Half
    BY <1>1, <1>3, CountedIs, WordsAre
  <2>2. QED
    BY <1>1, <2>1, NumbersFound
<1>6. L!Number(c + 1) \notin KeyMeanings(entries)
  <2>1. c + 1 \in Nat
    OBVIOUS
  <2>2. QED
    BY <1>1, <1>3, <1>4, <2>1, NumbersFound
<1>7. DOMAIN MapOf(entries) = KeyMeanings(entries)
  BY DEF MapOf
<1>8. L!Border(c)
  BY <1>5, <1>6, <1>7 DEF L!Border, MapOf, KeyMeanings
<1>9. PICK w \in Words : w = Wrap(Counted) /\ SignedOf(w) = c
  <2>1. c \in Words /\ Wrap(c) = c /\ SignedOf(c) = c
    BY <1>3, WordsAre, SMT DEF Wrap, SignedOf, Negative
  <2>2. QED
    BY <1>3, <2>1
<1>10. PICK v \in Value : v = Number(w) /\ Meaning(v).type = "number" /\ Meaning(v).int = c
  BY <1>9, NumberMeans
<1>11. stack' = Append(Drop(1), v)
  BY <1>1, <1>9, <1>10
<1>12. L!Takes(1, 1) /\ L!Result = Meaning(v) /\ L!Last(0) = Meaning(Table)
  BY <1>1, <1>2, <1>11, GivesMeans, LastMeans
<1>13. L!UnaryResult("len", Meaning(Table), Meaning(v))
  BY <1>8, <1>10 DEF L!UnaryResult, Meaning, Table
<1>14. L!Unary
  BY <1>1, <1>12, <1>13 DEF L!Unary, L!Unaries
<1>15. Joins(v, group, Live)
  BY <1>10, PlainJoins, PlainResults
<1>16. InTable(entries') \subseteq Live
  BY <1>1 DEF Live
<1>17. QED
  BY <1>1, <1>2, <1>11, <1>14, <1>15, <1>16, GivesObjects


-----------------------------------------------------------------------------
(* Steps. *)

LEMMA NoEntriesNoMap == MapOf(<<>>) = <<>> /\ InTable(<<>>) = {}
<1>1. DOMAIN <<>> = {}
  OBVIOUS
<1>2. KeyMeanings(<<>>) = {} /\ InTable(<<>>) = {}
  BY <1>1 DEF KeyMeanings, InTable
<1>3. PICK f : f = MapOf(<<>>)
  OBVIOUS
<1>4. f = [k \in {} |-> f[k]]
  BY <1>2, <1>3 DEF MapOf
<1>5. f = <<>>
  BY <1>4
<1>6. QED
  BY <1>2, <1>3, <1>5

LEMMA TableOnto ==
  ASSUME StackOK, StackOK', LiveObjects, stack' = Append(Drop(0), Table), group' = group,
         InTable(entries') \subseteq Live
  PROVE  L!Takes(0, 1) /\ L!Result.type = "table" /\ LiveObjects'
<1>1. PICK v \in Value : v = Table
  <2>1. Table \in Value
    BY TableAssumption, SmallWords DEF Table, Value, Types
  <2>2. QED
    BY <2>1, Zenon
<1>2. 0 <= Len(stack) /\ 0 \in Nat
  BY StackTop
<1>3. Joins(v, group, Live)
  BY <1>1, PlainJoins, PlainResults
<1>4. L!Takes(0, 1) /\ L!Result = Meaning(v)
  BY <1>1, <1>2, GivesMeans
<1>5. LiveObjects'
  BY <1>1, <1>2, <1>3, GivesObjects
<1>6. QED
  BY <1>1, <1>4, <1>5 DEF Meaning, Table

LEMMA NewTableMeans ==
  ASSUME StackOK, StackOK', LiveObjects, op_newtable
  PROVE  L!NewTable /\ LiveObjects'
<1>1. /\ did' = "newtable" /\ group' = group /\ printed' = <<>> /\ entries' = <<>>
      /\ stack' = Append(Drop(0), Table)
  BY DEF op_newtable, Takes, Gives
<1>2. InTable(entries') \subseteq Live
  BY <1>1, NoEntriesNoMap
<1>3. L!Takes(0, 1) /\ L!Result.type = "table" /\ LiveObjects'
  BY <1>1, <1>2, TableOnto
<1>4. MapOf(entries') = <<>>
  BY <1>1, NoEntriesNoMap
<1>5. did' = "newtable" /\ L!Takes(0, 1) /\ L!Result.type = "table" /\ MapOf(entries') = <<>> /\ printed' = <<>>
      => L!NewTable
  BY DEF L!NewTable, MapOf, KeyMeanings
<1>6. QED
  BY <1>1, <1>3, <1>4, <1>5

LEMMA LoadTableMeans ==
  ASSUME StackOK, StackOK', LiveObjects, op_load_table
  PROVE  L!Load /\ LiveObjects'
<1>1. /\ did' = "load" /\ group' = group /\ printed' = <<>> /\ entries' = entries
      /\ stack' = Append(Drop(0), Table)
  BY DEF op_load_table, Takes, Gives
<1>2. InTable(entries') \subseteq Live
  BY <1>1 DEF Live
<1>3. L!Takes(0, 1) /\ LiveObjects'
  BY <1>1, <1>2, TableOnto
<1>4. QED
  BY <1>1, <1>3 DEF L!Load

LEMMA BuiltinMeans ==
  ASSUME StackOK, StackOK', FilesOK, FileSteps
  PROVE  L!Builtin /\ LiveObjects'
<1>1. ASSUME NEW n \in 0 .. 2, Room(n), NEW v \in Value, NEW name, NEW p, NEW d, NEW data,
             Answers(name, n, p, d, data, v)
      PROVE  L!Builtin /\ LiveObjects'
  <2>1. /\ n \in Nat /\ n <= Len(stack) /\ did' = "builtin" /\ group' = "files" /\ entries' = entries
        /\ stack' = Append(Drop(n), v)
    BY <1>1 DEF Room, Answers, Takes
  <2>2. L!Takes(n, 1)
    BY <2>1, GivesMeans
  <2>3. L!Builtin
    BY <2>1, <2>2 DEF L!Builtin
  <2>4. QED
    BY <2>1, <2>3 DEF LiveObjects
<1>2. 0 \in 0 .. 2 /\ 1 \in 0 .. 2 /\ 2 \in 0 .. 2 /\ \A b \in BOOLEAN : Bool(b) \in Value
  BY FixedValues
<1>3. CASE op_input
  <2>1. PICK n \in {0, 1}, v \in Value, t \in Text : Room(n) /\ Answers("input", n, <<>>, 0, t, v)
    BY <1>3, InputDoes
  <2>2. n \in 0 .. 2
    BY <1>2
  <2>3. QED
    BY <1>1, <2>1, <2>2
<1>4. CASE op_readfile
  <2>1. PICK p \in Text, v \in Value : Room(1) /\ Answers("readfile", 1, p, 0, <<>>, v)
    BY <1>4, ReadfileDoes
  <2>2. QED
    BY <1>1, <1>2, <2>1
<1>5. CASE op_writefile
  <2>1. PICK p \in Text, data \in Text, b \in BOOLEAN : Room(2) /\ Answers("writefile", 2, p, 0, data, Bool(b))
    BY <1>5, WritefileDoes
  <2>2. QED
    BY <1>1, <1>2, <2>1
<1>6. CASE op_open
  <2>1. PICK n \in {1, 2}, p \in Text, v \in Value : Room(n) /\ Answers("open", n, p, 0, <<>>, v)
    BY <1>6, OpDoes
  <2>2. n \in 0 .. 2
    BY <1>2
  <2>3. QED
    BY <1>1, <2>1, <2>2
<1>7. CASE op_read
  <2>1. PICK d \in Nat, v \in Value : Room(1) /\ Answers("read", 1, <<>>, d, <<>>, v)
    BY <1>7, OpReads
  <2>2. QED
    BY <1>1, <1>2, <2>1
<1>8. CASE op_write
  <2>1. PICK d \in Nat, data \in Text, b \in BOOLEAN : Room(2) /\ Answers("write", 2, <<>>, d, data, Bool(b))
    BY <1>8, OpWrites
  <2>2. QED
    BY <1>1, <1>2, <2>1
<1>9. CASE op_close
  <2>1. PICK d \in Nat, b \in BOOLEAN : Room(1) /\ Answers("close", 1, <<>>, d, <<>>, Bool(b))
    BY <1>9, OpCloses
  <2>2. QED
    BY <1>1, <1>2, <2>1
<1>10. QED
  BY <1>3, <1>4, <1>5, <1>6, <1>7, <1>8, <1>9 DEF FileSteps

LEMMA ValuesMean ==
  ASSUME StackOK, StackOK', LiveObjects, NextValues, entries' = entries, Departs = {}
  PROVE  L!Load \/ L!Pop \/ L!Binary \/ L!Unary \/ L!Prints
<1>1. CASE op_load \/ op_pop
  BY <1>1, LoadPopMean
<1>2. CASE op_add \/ op_sub
  BY <1>2, AddSubMean
<1>3. CASE op_mul \/ op_div \/ op_mod \/ op_pow
  BY <1>3, MulDivMean
<1>4. CASE op_lt \/ op_le \/ op_gt \/ op_ge
  BY <1>4, OrderMeans
<1>5. CASE op_eq \/ op_ne
  BY <1>5, EqualMeans
<1>6. CASE op_concat
  BY <1>6, ConcatMeans
<1>7. CASE op_neg \/ op_len \/ op_type \/ op_tostring \/ op_tonumber
  BY <1>7, UnariesMean
<1>8. CASE op_not
  BY <1>8, NotMeans
<1>9. CASE op_print
  BY <1>9, PrintMeans
<1>10. QED
  BY <1>1, <1>2, <1>3, <1>4, <1>5, <1>6, <1>7, <1>8, <1>9 DEF NextValues

LEMMA MeansFromTheStart == Init => L!Init /\ LiveObjects
<1> SUFFICES ASSUME Init PROVE L!Init /\ LiveObjects
  OBVIOUS
<1>1. stack = <<>> /\ did = "load" /\ printed = <<>> /\ entries = <<>>
  BY DEF Init, InitTables, InitValues
<1>2. Live = {}
  <2>1. OnStack(<<>>) = {}
    BY DEF OnStack
  <2>2. QED
    BY <1>1, <2>1, NoEntriesNoMap DEF Live
<1>3. LiveObjects
  BY <1>2 DEF LiveObjects, Objects, OneText
<1>4. MapOf(entries) = <<>>
  BY <1>1, NoEntriesNoMap
<1>5. MeaningsOf(stack) = <<>>
  <2>1. PICK f : f = MeaningsOf(<<>>)
    OBVIOUS
  <2>2. f = [i \in {} |-> f[i]]
    BY <2>1 DEF MeaningsOf
  <2>3. QED
    BY <1>1, <2>1, <2>2
<1>6. MeaningsOf(stack) = <<>> /\ did = "load" /\ printed = <<>> /\ MapOf(entries) = <<>> => L!Init
  BY DEF L!Init, MeaningsOf, MapOf, KeyMeanings
<1>7. QED
  BY <1>1, <1>3, <1>4, <1>5, <1>6

LuaInv == MachineInv /\ LiveObjects

LEMMA MeansOnward ==
  ASSUME Departs = {}
  PROVE  LuaInv /\ [Next]_vars =>
           /\ LuaInv'
           /\ L!Next \/ (MeaningsOf(stack)' = MeaningsOf(stack) /\ did' = did /\ printed' = printed /\ MapOf(entries)' = MapOf(entries))
<1> SUFFICES ASSUME LuaInv, [Next]_vars
    PROVE  /\ LuaInv'
           /\ L!Next \/ (MeaningsOf(stack)' = MeaningsOf(stack) /\ did' = did /\ printed' = printed /\ MapOf(entries)' = MapOf(entries))
  OBVIOUS
<1>1. MachineInv /\ MachineInv' /\ StackOK /\ StackOK' /\ FilesOK /\ TableInv /\ LiveObjects
  BY StepMachine DEF LuaInv, MachineInv
<1>2. CASE NextValues /\ UNCHANGED entries
  <2>1. LiveObjects' /\ L!Next
    BY <1>1, <1>2, ValuesObjects, ValuesMean DEF L!Next
  <2>2. QED
    BY <1>1, <2>1 DEF LuaInv
<1>3. CASE TableSteps
  <2>1. LiveObjects' /\ L!Next
    BY <1>1, <1>3, NewTableMeans, SetMeans, GetMeans, LenMeans, LoadTableMeans DEF TableSteps, L!Next
  <2>2. QED
    BY <1>1, <2>1 DEF LuaInv
<1>4. CASE FileSteps
  <2>1. LiveObjects' /\ L!Next
    BY <1>1, <1>4, BuiltinMeans DEF L!Next
  <2>2. QED
    BY <1>1, <2>1 DEF LuaInv
<1>5. CASE UNCHANGED vars
  <2>1. group' = group /\ stack' = stack /\ did' = did /\ printed' = printed /\ entries' = entries
    BY <1>5 DEF vars, values
  <2>2. MeaningsOf(stack)' = MeaningsOf(stack) /\ MapOf(entries)' = MapOf(entries)
    BY <2>1
  <2>3. LiveObjects'
    BY <1>1, <2>1 DEF LiveObjects, Live
  <2>4. QED
    BY <1>1, <2>1, <2>2, <2>3 DEF LuaInv
<1>6. QED
  BY <1>2, <1>3, <1>4, <1>5 DEF Next, OtherSteps, NextTables


(* Every behaviour of the machine is one of LuaMachine: each operation on     *)
(* words, addresses and entries gives the value that the operation on        *)
(* numbers, texts and maps gives, whatever the program, if it compares no     *)
(* strings of one text in two objects nor values of two types with one word, *)
(* and neither divides nor prints negative numbers: there the code departs   *)
(* from the language.  Comparing addresses compares other values, as one      *)
(* address never has two texts among the values that are live.               *)
THEOREM LuaImplemented ==
  ASSUME Departs = {}
  PROVE  Spec => ImplementsLua
<1>1. LuaInv /\ [Next]_vars =>
        [L!Next]_<<[i \in DOMAIN stack |-> Meaning(stack[i])], did, printed,
                   [k \in {Meaning(entries[i].key) : i \in DOMAIN entries} |->
                     Meaning((CHOOSE e \in {entries[i] : i \in DOMAIN entries} : Meaning(e.key) = k).val)]>>
  BY MeansOnward DEF MeaningsOf, MapOf, KeyMeanings
<1>2. Init => LuaInv
  BY InitMachine, MeansFromTheStart DEF LuaInv
<1>3. LuaInv /\ [Next]_vars => LuaInv'
  BY MeansOnward
<1>4. QED
  BY <1>1, <1>2, <1>3, MeansFromTheStart, PTL DEF Spec, ImplementsLua, L!Spec

=============================================================================
