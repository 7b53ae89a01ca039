------------------------------ MODULE TableOps ------------------------------
(***************************************************************************)
(* The operations of the virtual machine on tables: op_newtable,            *)
(* op_gettable, op_settable and the table half of op_len                   *)
(* (codegen_emit_ops.c, emit_table_ops).                                   *)
(*                                                                         *)
(* A table is an object of Capacity entries, filled from the first on and   *)
(* searched one by one.  The program has one table at a time; how objects   *)
(* are found, kept and reclaimed is TableHeap's affair.  Programs index     *)
(* nothing but tables: the code does not look at the type.                  *)
(*                                                                         *)
(* A name with a suffix is the named operator with a plausible fault.       *)
(***************************************************************************)
EXTENDS ValueOps, FiniteSets

CONSTANTS
  Capacity,   \* TABLE_CAPACITY
  TableAt     \* the address of the table

ASSUME TableAssumption == Capacity \in 1 .. Half - 1 /\ TableAt \in Words

VARIABLE entries    \* the entries up to the count in the header: [key, val]

Table == [type |-> "table", word |-> TableAt, text |-> <<>>]
Entry == [key : Value, val : Value]

-----------------------------------------------------------------------------
Matches_address(k, l) == k.type = l.type /\ k.word = l.word

\* Keys of one type match by their words; two strings match by content too (strcmp_hl_de).
Matches(k, l) ==
  /\ k.type = l.type
  /\ k.word = l.word \/ (k.type = "string" /\ k.text = l.text)

\* The entries that the search for k stops at; it stops at the first.
Found(k)   == {i \in DOMAIN entries : Matches(entries[i].key, k)}
FirstOf(S) == CHOOSE i \in S : \A j \in S : i <= j

\* The entries after val has been stored under k: a new entry only while there is room.
Stored(k, v) ==
  CASE Found(k) # {} -> [entries EXCEPT ![FirstOf(Found(k))].val = v]
    [] Found(k) = {} /\ Len(entries) < Capacity -> Append(entries, [key |-> k, val |-> v])
    [] OTHER -> entries

\* len_table: the keys from 1 on are searched for until one is not found; a value that is nil
\* counts like any other.
HasNumber(n) == \E i \in DOMAIN entries : entries[i].key.type = "number" /\ entries[i].key.word = Wrap(n)
Counted == Cardinality({n \in 1 .. Len(entries) : \A i \in 1 .. n : HasNumber(i)})

-----------------------------------------------------------------------------
op_newtable ==
  /\ MayLoad /\ \A i \in DOMAIN stack : stack[i].type # "table"
  /\ Takes("tables", "newtable", 0) /\ Gives(0, Table)
  /\ entries' = <<>>

op_settable ==
  /\ Takes("tables", "set", 3) /\ Top(2) = Table
  /\ entries' = Stored(Top(1), Top(0))
  /\ stack' = Drop(3) /\ printed' = <<>>

op_gettable ==
  /\ Takes("tables", "get", 2) /\ Top(1) = Table
  /\ Gives(2, IF Found(Top(0)) = {} THEN Nil ELSE entries[FirstOf(Found(Top(0)))].val)
  /\ UNCHANGED entries

op_len_table ==
  /\ Takes("tables", "len", 1) /\ Top(0) = Table
  /\ Gives(1, Number(Wrap(Counted)))
  /\ UNCHANGED entries

\* The program keeps its table in a variable.
op_load_table ==
  /\ MayLoad
  /\ Takes("tables", "load", 0) /\ Gives(0, Table)
  /\ UNCHANGED entries

TableSteps == op_newtable \/ op_settable \/ op_gettable \/ op_len_table \/ op_load_table

InitTables == InitValues /\ entries = <<>>
NextTables == (NextValues /\ UNCHANGED entries) \/ TableSteps

-----------------------------------------------------------------------------
(* Properties. *)

\* What a value means to the program.
Meaning(v) ==
  [type |-> v.type,
   int  |-> CASE v.type = "number" -> IF Negative(v.word) THEN v.word - 2 * Half ELSE v.word
              [] v.type = "string" -> 0
              [] OTHER -> v.word,
   text |-> v.text]

(* No two entries answer to one key, however often and through whichever    *)
(* string object a key is assigned, and there are never more than fit: a    *)
(* second entry for a key would hide an assignment from a later search.     *)
KeysDistinct ==
  /\ Len(entries) <= Capacity
  /\ \A i, j \in DOMAIN entries : Meaning(entries[i].key) = Meaning(entries[j].key) => i = j

(* Each operation gives the result that the values stand for: 16-bit        *)
(* arithmetic with a sign, equality of contents, numbers that survive a way *)
(* through text, a table that is a map from keys to values.  It holds of    *)
(* programs that apply no operation where it departs from that; the three   *)
(* properties below are what those operations then break.                  *)
L == INSTANCE LuaMachine WITH
  stack <- [i \in DOMAIN stack |-> Meaning(stack[i])],
  map   <- [k \in {Meaning(entries[i].key) : i \in DOMAIN entries} |->
             Meaning((CHOOSE e \in {entries[i] : i \in DOMAIN entries} : Meaning(e.key) = k).val)]
ImplementsLua == L!Spec

(* Numbers are "16-bit signed integers" (README.md:46) and strings are      *)
(* "compared by content" (README.md:47), whatever the operation.  It does   *)
(* not hold of ==, ~=, /, % and print: op_eq and op_ne compare the addresses *)
(* of strings, op_div, op_mod and print_num take words without a sign.      *)
ValuesAsDocumented ==
  [][/\ did' \in {"eq", "ne"} /\ Top(0).type = "string" /\ Top(1).type = "string" => L!Binary
     /\ did' \in {"div", "mod"} => L!Binary
     /\ did' = "print" => L!Prints]_<<values, entries>>
=============================================================================
