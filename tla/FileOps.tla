------------------------------ MODULE FileOps ------------------------------
(***************************************************************************)
(* The builtins for the console and for files (codegen_emit_ops.c, op_input *)
(* to op_close and their helpers) and the system calls of Zeal 8-bit OS     *)
(* they are made of; with TableOps and ValueOps the whole machine but for   *)
(* variables, calls and control.                                           *)
(*                                                                         *)
(* The system is known from its use only: it runs one program, so a builtin *)
(* is one step; any of its calls may fail, a write may take a part only.    *)
(* A device is what a program holds as a handle, a number.                  *)
(*                                                                         *)
(* A name with a suffix is the named operator with a plausible fault.       *)
(***************************************************************************)
EXTENDS TableOps

CONSTANTS
  Paths,       \* texts that may name files
  Contents,    \* what the files hold at the start
  Lines,       \* what the system may return of a line of input
  Devices,     \* numbers of devices
  Buffer,      \* 63, the bytes that a read asks for
  ByteRange,   \* 256
  MaxFile      \* bound: length of a file; the system then has no room

LineFeed       == Radix + 9
CarriageReturn == Radix + 10

ASSUME FileAssumption ==
  /\ Paths \subseteq Text /\ Contents \subseteq Text
  /\ Lines \subseteq Text /\ \A t \in Lines : Len(t) \in 1 .. Buffer
  /\ Devices \subseteq Words /\ \A d \in Devices : d < ByteRange
  /\ Buffer \in Nat \ {0} /\ ByteRange \in 1 .. Half /\ MaxFile \in Nat

VARIABLES
  files,    \* the files: a function from the paths that there are to texts
  devs,     \* the open devices: where they stand in which file, and what for
  io        \* history: the builtin that ran last, if one did: its path, handle, data and answer

system == <<files, devs, io>>
vars   == <<values, entries, system>>

-----------------------------------------------------------------------------
(* The system.  A call is the set of its outcomes: each says whether it is   *)
(* one of success and what it changes and yields.                           *)

WithFile(f, p, t) == [q \in DOMAIN f \cup {p} |-> IF q = p THEN t ELSE f[q]]
WithDev(ds, d, x) == [e \in DOMAIN ds \cup {d} |-> IF e = d THEN x ELSE ds[e]]
Past(t, n) == SubSeq(t, n + 1, Len(t))
Prefix(t)  == SubSeq(t, 1, IF Len(t) < Buffer THEN Len(t) ELSE Buffer)

\* open: mode is "read", "both" or "create", which also empties the file.
SysOpen(p, mode) ==
  {[ok |-> FALSE, files |-> files, devs |-> devs, dev |-> 0]} \cup
  {[ok |-> TRUE, dev |-> d,
    files |-> IF mode = "create" THEN WithFile(files, p, <<>>) ELSE files,
    devs  |-> WithDev(devs, d, [path |-> p, at |-> 0, mode |-> mode])]
   : d \in {e \in Devices \ DOMAIN devs : p \in Paths /\ (mode = "create" \/ p \in DOMAIN files)}}

SysRead(d, fs, ds) ==
  {[ok |-> FALSE, devs |-> ds, text |-> <<>>]} \cup
  {[ok |-> TRUE, devs |-> [ds EXCEPT ![e].at = @ + Len(t)], text |-> t]
   : e \in {x \in {d} \cap DOMAIN ds : ds[x].mode # "create"},
     t \in {Prefix(Past(fs[ds[x].path], ds[x].at)) : x \in {d} \cap DOMAIN ds}}

SysWrite(d, data, fs, ds) ==
  {[ok |-> FALSE, files |-> fs, devs |-> ds]} \cup
  {[ok |-> TRUE, devs |-> [ds EXCEPT ![d].at = @ + n],
    files |-> LET p == ds[d].path  a == ds[d].at IN
      WithFile(fs, p, SubSeq(fs[p], 1, a) \o SubSeq(data, 1, n) \o Past(fs[p], a + n))]
   : n \in {m \in 0 .. Len(data) :
       d \in DOMAIN ds /\ ds[d].mode # "read" /\ ds[d].at <= Len(fs[ds[d].path]) /\ ds[d].at + m <= MaxFile}}

SysClose(d, ds) == [e \in DOMAIN ds \ {d} |-> ds[e]]

-----------------------------------------------------------------------------
(* The builtins. *)

LowByte(w) == w % ByteRange

\* Builtin name takes n values, among them a path or a handle and data, and gives v.
Answers(name, n, path, handle, data, v) ==
  /\ Takes("files", "builtin", n)
  /\ stack' = Append(Drop(n), v)
  /\ io' = [op |-> name, path |-> path, handle |-> handle, data |-> data, answer |-> Meaning(v)]
  /\ UNCHANGED entries

\* What is passed on where a text is wanted.
AnswersText(name, n, path, handle, data, t) ==
  \E s \in Made(t) : Answers(name, n, path, handle, data, s)

\* The end of a line: a line feed, then a carriage return.
Cut(t, c) == IF t # <<>> /\ t[Len(t)] = c THEN SubSeq(t, 1, Len(t) - 1) ELSE t
Stripped(t) == Cut(Cut(t, LineFeed), CarriageReturn)

\* The prompt is printed if there is one; no input and a failure are nil.
op_input == \E n \in {0, 1} :
  /\ Len(stack) >= n /\ Len(stack) - n < MaxStack[group]
  /\ printed' = [i \in 1 .. n |-> text_of(Top(0))]
  /\ \/ Answers("input", n, <<>>, 0, <<>>, Nil)
     \/ \E t \in Lines : AnswersText("input", n, <<>>, 0, t, Stripped(t))
  /\ UNCHANGED <<files, devs>>

\* The device is closed whether the read went well or not.
read_file_string_leaks(p) ==
  \E o \in SysOpen(p, "read") :
    IF ~o.ok THEN Answers("readfile", 1, p, 0, <<>>, Nil) /\ devs' = o.devs
    ELSE \E r \in SysRead(o.dev, files, o.devs) :
           IF r.ok THEN AnswersText("readfile", 1, p, 0, <<>>, r.text) /\ devs' = SysClose(o.dev, r.devs)
           ELSE Answers("readfile", 1, p, 0, <<>>, Nil) /\ devs' = r.devs

read_file_string(p) ==
  \E o \in SysOpen(p, "read") :
    IF ~o.ok THEN Answers("readfile", 1, p, 0, <<>>, Nil) /\ devs' = o.devs
    ELSE \E r \in SysRead(o.dev, files, o.devs) :
           /\ IF r.ok THEN AnswersText("readfile", 1, p, 0, <<>>, r.text)
              ELSE Answers("readfile", 1, p, 0, <<>>, Nil)
           /\ devs' = SysClose(o.dev, r.devs)

op_readfile ==
  /\ Len(stack) >= 1 /\ read_file_string(text_of(Top(0)))
  /\ printed' = <<>> /\ UNCHANGED files

\* The file is emptied before it is written; how much the system took is not looked at.
write_file_string_leaks(p, data) ==
  \E o \in SysOpen(p, "create") :
    IF ~o.ok THEN Answers("writefile", 2, p, 0, data, Bool(FALSE)) /\ files' = files /\ devs' = devs
    ELSE \E w \in SysWrite(o.dev, data, o.files, o.devs) :
           /\ Answers("writefile", 2, p, 0, data, Bool(w.ok))
           /\ files' = w.files /\ devs' = IF w.ok THEN SysClose(o.dev, w.devs) ELSE w.devs

write_file_string(p, data) ==
  \E o \in SysOpen(p, "create") :
    IF ~o.ok THEN Answers("writefile", 2, p, 0, data, Bool(FALSE)) /\ files' = files /\ devs' = devs
    ELSE \E w \in SysWrite(o.dev, data, o.files, o.devs) :
           /\ Answers("writefile", 2, p, 0, data, Bool(w.ok))
           /\ files' = w.files /\ devs' = SysClose(o.dev, w.devs)

op_writefile ==
  /\ Len(stack) >= 2 /\ write_file_string(text_of(Top(1)), text_of(Top(0)))
  /\ printed' = <<>>

\* With two arguments the flags are the type byte of the second, which for a number is O_RDWR
\* and stands for "both", else zero; its value is lost.
op_open == \E n \in {1, 2} : Len(stack) >= n /\
  LET p    == text_of(Top(n - 1))
      mode == IF n = 2 /\ Top(0).type = "number" THEN "both" ELSE "read" IN
  \E o \in SysOpen(p, mode) :
    /\ Answers("open", n, p, 0, <<>>, IF o.ok THEN Number(o.dev) ELSE Nil)
    /\ devs' = o.devs
    /\ printed' = <<>> /\ UNCHANGED files

\* Nothing read is nil as well, but the end of the file is no failure of the system.
op_read == Len(stack) >= 1 /\
  LET d == LowByte(Top(0).word) IN
  /\ IF Top(0).type # "number" THEN Answers("read", 1, <<>>, d, <<>>, Nil) /\ devs' = devs
     ELSE \E r \in SysRead(d, files, devs) :
            /\ IF r.ok /\ r.text # <<>> THEN AnswersText("read", 1, <<>>, d, <<>>, r.text)
               ELSE Answers("read", 1, <<>>, d, <<>>, Nil)
            /\ devs' = r.devs
  /\ printed' = <<>> /\ UNCHANGED files

op_write == Len(stack) >= 2 /\
  LET d == LowByte(Top(1).word)  data == text_of(Top(0)) IN
  /\ IF Top(1).type # "number" THEN Answers("write", 2, <<>>, d, data, Bool(FALSE)) /\ UNCHANGED <<files, devs>>
     ELSE \E w \in SysWrite(d, data, files, devs) :
            Answers("write", 2, <<>>, d, data, Bool(w.ok)) /\ files' = w.files /\ devs' = w.devs
  /\ printed' = <<>>

op_close == Len(stack) >= 1 /\
  LET d == LowByte(Top(0).word)  ok == Top(0).type = "number" /\ d \in DOMAIN devs IN
  /\ Answers("close", 1, <<>>, d, <<>>, Bool(ok))
  /\ devs' = IF ok THEN SysClose(d, devs) ELSE devs
  /\ printed' = <<>> /\ UNCHANGED files

FileSteps ==
  op_input \/ op_readfile \/ op_writefile \/ op_open \/ op_read \/ op_write \/ op_close

NoCall == [op |-> "none", path |-> <<>>, handle |-> 0, data |-> <<>>, answer |-> Meaning(Nil)]

Init ==
  /\ InitTables
  /\ \E P \in SUBSET (IF group = "files" THEN Paths ELSE {}) : files \in [P -> Contents]
  /\ devs = <<>>
  /\ io = NoCall

OtherSteps == NextTables /\ io' = NoCall /\ UNCHANGED <<files, devs>>

Next == OtherSteps \/ FileSteps

Spec == Init /\ [][Next]_vars

-----------------------------------------------------------------------------
(* Properties. *)

(* The machine keeps its shape: values on the stack are words with a type,   *)
(* every key and value in the table too, and a device stands inside the file *)
(* it was opened for.                                                       *)
TypeOK ==
  /\ group \in Groups
  /\ stack \in Seq(Value) /\ Len(stack) <= MaxStack[group]
  /\ printed \in Seq(Text)
  /\ entries \in Seq(Entry)
  /\ DOMAIN files \subseteq Paths /\ \A p \in DOMAIN files : files[p] \in Text
  /\ DOMAIN devs \subseteq Devices
  /\ \A d \in DOMAIN devs : devs[d].path \in DOMAIN files /\ devs[d].mode \in {"read", "both"}

(* A builtin is what it promises to be whatever fails inside it: the answer  *)
(* tells what became of the files, and the only devices open are those the   *)
(* program has a handle for.                                                *)
F == INSTANCE FileService WITH
  handles  <- [d \in DOMAIN devs |-> [path |-> devs[d].path, at |-> devs[d].at]],
  LineEnds <- {<<LineFeed>>, <<CarriageReturn>>, <<CarriageReturn, LineFeed>>}
ImplementsFiles == F!Spec
=============================================================================
