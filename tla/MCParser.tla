------------------------------ MODULE MCParser ------------------------------
(***************************************************************************)
(* The instance for TLC: classes of programs, each of a few tokens and as   *)
(* long as its constructs need to occur, in one another and broken off.     *)
(***************************************************************************)
EXTENDS Grammar

\* What a class is about |-> its tokens and the length of its programs.
Class(read, most) == [read |-> read, most |-> most]
MCPrograms ==
  [binary    |-> Class({"return", "name", "or", "<", "..", "-", "^"}, 6),
   unary     |-> Class({"return", "name", "(", ")", "not", "#", "and", "+", "*"}, 4),
   suffixes  |-> Class({"name", "string", "(", ")", "[", "]", ".", ":", "=", ",", "error"}, 4),
   tables    |-> Class({"return", "name", "{", "}", "[", "]", "=", ","}, 5),
   fields    |-> Class({"return", "const", "{", "}", ",", ";", "error"}, 5),
   branches  |-> Class({"name", "if", "then", "elseif", "else", "end"}, 7),
   loops     |-> Class({"name", "while", "do", "end", "repeat", "until"}, 5),
   generic   |-> Class({"for", "name", "in", "do", "end"}, 6),
   counting  |-> Class({"for", "name", "=", ",", "do", "end"}, 8),
   functions |-> Class({"function", "local", "name", "(", ")", "end"}, 6),
   params    |-> Class({"function", "name", "(", ")", ",", "end", "error"}, 5),
   locals    |-> Class({"local", "name", ",", "=", "error"}, 6),
   blocks    |-> Class({"break", "do", "end", ";", "return", "const"}, 5)]

MCClasses   == DOMAIN MCPrograms
MCTokensOf  == [c \in MCClasses |-> MCPrograms[c].read]
MCMaxTokens == [c \in MCClasses |-> MCPrograms[c].most]
=============================================================================
