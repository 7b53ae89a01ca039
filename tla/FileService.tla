---------------------------- MODULE FileService ----------------------------
(***************************************************************************)
(* What the builtins for the console and for files promise: one answer for  *)
(* each call, and what that answer says of the files.  No system calls, no  *)
(* devices of the builtins' own.                                           *)
(***************************************************************************)
EXTENDS Naturals, Sequences, SequencesExt

CONSTANTS
  Buffer,      \* the longest answer to a read
  LineEnds     \* the texts that end a line

VARIABLES
  files,    \* for every path that there is the text of the file
  handles,  \* for every handle the program holds where it stands in which file
  io        \* the last call: its name, path or handle, data and answer

Beyond(t, n) == SubSeq(t, n + 1, Len(t))
Call(name) == io'.op = name
Answer     == io'.answer
Path       == io'.path
Handle     == io'.handle
Data       == io'.data
Fails      == Answer.type = "nil"
Refuses    == Answer.type = "bool" /\ Answer.int = 0
Agrees     == Answer.type = "bool" /\ Answer.int = 1
Tells(t)   == Answer.type = "string" /\ Answer.text = t
Keeps      == UNCHANGED <<files, handles>>
WithFile(p, t) == [q \in DOMAIN files \cup {p} |-> IF q = p THEN t ELSE files[q]]

\* The answer is the line without its end, if it has one.
Input ==
  /\ Call("input") /\ Keeps
  /\ \/ Fails
     \/ \E e \in LineEnds \cup {<<>>} :
          /\ Answer.type = "string" /\ Data = Answer.text \o e
          /\ \A f \in LineEnds : IsSuffix(f, Data) => Len(f) <= Len(e)

\* The answer is the file as far as the buffer reaches.
ReadFile ==
  /\ Call("readfile") /\ Keeps
  /\ Fails \/ (Path \in DOMAIN files /\ Tells(SubSeq(files[Path], 1, IF Len(files[Path]) < Buffer THEN Len(files[Path]) ELSE Buffer)))

\* If the builtin agrees the file holds what the system has taken of the data and nothing else.
WriteFile ==
  /\ Call("writefile") /\ UNCHANGED handles
  /\ \/ Agrees /\ \E n \in 0 .. Len(Data) : files' = WithFile(Path, SubSeq(Data, 1, n))
     \/ Refuses /\ (files' = files \/ files' = WithFile(Path, <<>>))

\* A new handle is one the program does not hold, and stands at the beginning.
Open ==
  /\ Call("open") /\ UNCHANGED files
  /\ \/ Fails /\ UNCHANGED handles
     \/ /\ Answer.type = "number" /\ Path \in DOMAIN files /\ Answer.int \notin DOMAIN handles
        /\ handles' = [h \in DOMAIN handles \cup {Answer.int} |->
                         IF h = Answer.int THEN [path |-> Path, at |-> 0] ELSE handles[h]]

\* The next characters, never none, and the handle moves behind them.
Read ==
  /\ Call("read") /\ UNCHANGED files
  /\ \/ Fails /\ UNCHANGED handles
     \/ /\ Handle \in DOMAIN handles
        /\ LET h == handles[Handle] IN \E n \in 1 .. Buffer :
             /\ n <= Len(Beyond(files[h.path], h.at)) /\ Tells(SubSeq(files[h.path], h.at + 1, h.at + n))
             /\ handles' = [handles EXCEPT ![Handle].at = @ + n]

\* If the builtin agrees what the system has taken of the data is in its place.
Write ==
  /\ Call("write")
  /\ \/ Refuses /\ Keeps
     \/ /\ Agrees /\ Handle \in DOMAIN handles
        /\ LET h == handles[Handle]  t == files[h.path] IN \E n \in 0 .. Len(Data) :
             /\ files' = WithFile(h.path, SubSeq(t, 1, h.at) \o SubSeq(Data, 1, n) \o Beyond(t, h.at + n))
             /\ handles' = [handles EXCEPT ![Handle].at = @ + n]

Close ==
  /\ Call("close") /\ UNCHANGED files
  /\ \/ Refuses /\ UNCHANGED handles
     \/ /\ Agrees /\ Handle \in DOMAIN handles
        /\ handles' = [h \in DOMAIN handles \ {Handle} |-> handles[h]]

\* Anything else the program does.
Other == Call("none") /\ Keeps

Init == handles = <<>> /\ io.op = "none"

Next == Other \/ Input \/ ReadFile \/ WriteFile \/ Open \/ Read \/ Write \/ Close

Spec == Init /\ [][Next]_<<files, handles, io>>
=============================================================================
