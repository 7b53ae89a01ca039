------------------------------- MODULE Parser -------------------------------
(***************************************************************************)
(* The parser (parser.c): recursive descent with one token of look-ahead.   *)
(*                                                                         *)
(* todo is the stack of the active routines: what each still has to do.  A  *)
(* token in it is a call of expect.  Each call takes the token the parser   *)
(* stands at, or leaves it.  built holds what the routines have in their    *)
(* variables: a tree is a label followed by its subtrees, and a list is one *)
(* that grows.  After an error nobody looks at the trees any more (main.c  *)
(* exits), so they are dropped.                                            *)
(*                                                                         *)
(* The lexer is any source of tokens: which one comes next is chosen when   *)
(* it is read.  Its end and its errors repeat.  Names, literals and         *)
(* positions are no part of a token.  "<" stands for all comparisons, "*"   *)
(* for *, / and %, "const" for numbers, nil, true and false; tokens that no *)
(* routine asks for are left out.  The pools of the AST are large enough.   *)
(*                                                                         *)
(* A name with a suffix is the named operator with a plausible fault.       *)
(***************************************************************************)
EXTENDS Naturals, Sequences

CONSTANTS
  Classes,    \* classes of programs
  TokensOf,   \* the tokens a class of programs is made of
  MaxTokens   \* bound: the tokens of a program, for each class

Operators == {"or", "and", "<", "..", "+", "-", "*", "^", "not", "#"}
Keywords  == {"function", "local", "if", "then", "elseif", "else", "end", "while", "do", "repeat",
              "until", "for", "in", "return", "break"}
Token == Operators \cup Keywords \cup
  {"name", "const", "string", "(", ")", "{", "}", "[", "]", ".", ":", ",", ";", "=", "eof", "error"}
Routine ==
  {"Block", "Statements", "More", "Statement", "Name", "Params", "MoreNames", "NextName", "Names", "Local",
   "LocalValues", "For", "Step", "Clauses", "ReturnValues", "Assignment", "Targets", "Target", "Values",
   "Expr", "MoreExprs", "unary", "pow", "mul", "add", "concat", "comparison", "and_", "or_", "Prefix",
   "Suffixes", "Field", "Method", "Args", "Table", "Fields", "Separator", "append", "End"}

ASSUME ParserAssumption ==
  /\ TokensOf \in [Classes -> SUBSET (Token \ {"eof"})]
  /\ MaxTokens \in [Classes -> Nat]

VARIABLES
  class,    \* the class of the program
  tokens,   \* the tokens that have been read: the last is next, the last but one curr
  error,    \* the token that the error reported is at, 0 if there is none (has_error)
  todo,     \* what is left to do
  built     \* the trees in the variables of the routines

vars == <<class, tokens, error, todo, built>>

-----------------------------------------------------------------------------
(* Tokens. *)

at   == Len(tokens) - 1
curr == tokens[at]
next == tokens[at + 1]

\* lexer_next_token
Coming(read) ==
  LET last == read[Len(read)] IN
  IF read # <<>> /\ last \in {"eof", "error"} THEN {last}
  ELSE {"eof"} \cup (IF Len(read) < MaxTokens[class] THEN TokensOf[class] ELSE {})

\* parser_set_error: the first error stays.
Reports_last(n) == error' = n
Reports(n) == error' = IF error = 0 THEN n ELSE error
fail   == Reports(at) /\ UNCHANGED tokens
stay   == UNCHANGED <<error, tokens>>

\* advance: an error of the lexer is reported as soon as it is read.
advance == \E t \in Coming(tokens) :
  /\ tokens' = Append(tokens, t)
  /\ IF t = "error" THEN Reports(Len(tokens) + 1) ELSE UNCHANGED error

-----------------------------------------------------------------------------
(* Routines. *)

\* The routine on top leaves these calls to be made.
In(routine) == todo # <<>> /\ Head(todo) = routine /\ UNCHANGED class
Calls(s)    == todo' = s \o Tail(todo)
Returns     == Calls(<<>>)

Gives(b)  == built' = IF error' = 0 THEN b ELSE <<>>
Top       == Head(built)
Made      == built                          \* nothing new
With(l)   == <<<<l>>>> \o built             \* a new tree
Around(l) == <<<<l, Top>>>> \o Tail(built)  \* the tree becomes part of a new one

\* What a routine has returned goes into the tree or list below it.
append == In("append") /\ Returns /\ stay
  /\ Gives(<<Append(built[2], Top)>> \o SubSeq(built, 3, Len(built)))

expect == /\ todo # <<>> /\ Head(todo) \in Token /\ Returns /\ UNCHANGED class
          /\ IF curr = Head(todo) THEN advance ELSE fail
          /\ Gives(Made)

-----------------------------------------------------------------------------
(* Expressions. *)

\* parse_or_expr calls parse_and_expr, and so on; the calls come down to parse_unary_expr before
\* a token is looked at.
mul        == <<"unary", "mul">>
add        == mul \o <<"add">>
concat     == add \o <<"concat">>
comparison == concat \o <<"comparison">>
and        == comparison \o <<"and_">>
or         == and \o <<"or_">>

parse_expr == In("Expr") /\ Calls(or) /\ stay /\ Gives(Made)

\* In a routine of a binary operator, with its left operand on top: the calls for the right one.
Binary(routine, operators, calls) == In(routine) /\
  \/ curr \in operators /\ advance /\ Calls(calls) /\ Gives(Around(curr))
  \/ curr \notin operators /\ stay /\ Returns /\ Gives(Made)

parse_or_expr         == Binary("or_", {"or"}, and \o <<"append", "or_">>)
parse_and_expr        == Binary("and_", {"and"}, comparison \o <<"append", "and_">>)
parse_comparison_expr == Binary("comparison", {"<"}, concat \o <<"append", "comparison">>)
parse_concat_expr_left == Binary("concat", {".."}, add \o <<"append", "concat">>)
parse_concat_expr     == Binary("concat", {".."}, concat \o <<"append">>)
parse_add_expr        == Binary("add", {"+", "-"}, mul \o <<"append", "add">>)
parse_mul_expr        == Binary("mul", {"*"}, <<"unary", "append", "mul">>)
parse_pow_expr        == Binary("pow", {"^"}, <<"unary", "append">>)

parse_unary_expr == In("unary") /\
  \/ curr \in {"not", "-", "#"} /\ advance /\ Calls(<<"unary", "append">>) /\ Gives(With(curr))
  \/ curr \notin {"not", "-", "#"} /\ stay /\ Calls(<<"Prefix", "pow">>) /\ Gives(Made)

parse_function_expr == curr = "function" /\ stay /\ Gives(With("function expression"))
  /\ Calls(<<"function", "(", "Params", "append", ")", "Block", "append", "end", "Suffixes">>)
parse_prefix_expr == In("Prefix") /\
  \/ parse_function_expr
  \/ curr = "(" /\ advance /\ Gives(Made) /\ Calls(<<"Expr", ")", "Suffixes">>)
  \/ curr \in {"name", "const", "string"} /\ advance /\ Gives(With(curr)) /\ Calls(<<"Suffixes">>)
  \/ curr = "{" /\ stay /\ Gives(Made) /\ Calls(<<"Table", "Suffixes">>)
  \/ curr \notin {"function", "(", "name", "const", "string", "{"} /\ fail /\ Gives(With("null")) /\ Returns

\* The second half of parse_prefix_expr.
HandleSuffixes == In("Suffixes") /\
  \/ curr = "(" /\ advance /\ Gives(Around("call")) /\ Calls(<<"Args", ")", "Suffixes">>)
  \/ curr = "[" /\ advance /\ Gives(Around("index")) /\ Calls(<<"Expr", "append", "]", "Suffixes">>)
  \/ curr = "." /\ advance /\ Gives(Made) /\ Calls(<<"Field", "Suffixes">>)
  \/ curr = ":" /\ advance /\ Gives(Made) /\ Calls(<<"Method", "Suffixes">>)
  \/ curr = "string" /\ advance /\ Gives(<<<<"call", Top, <<"string">>>>>> \o Tail(built)) /\ Calls(<<"Suffixes">>)
  \/ curr = "{" /\ stay /\ Gives(Around("call")) /\ Calls(<<"Table", "append", "Suffixes">>)
  \/ curr \notin {"(", "[", ".", ":", "string", "{"} /\ stay /\ Gives(Made) /\ Returns
Field == In("Field") /\ Returns /\
  \/ curr = "name" /\ advance /\ Gives(Around("field"))
  \/ curr # "name" /\ fail /\ Gives(Made)
Method == In("Method") /\
  \/ curr = "name" /\ advance /\ Gives(Around("method")) /\ Calls(<<"(", "Args", ")">>)
  \/ curr # "name" /\ fail /\ Gives(Made) /\ Returns

parse_args == In("Args") /\ stay /\ Gives(Made) /\
  Calls(IF curr = ")" THEN <<>> ELSE <<"Expr", "append", "MoreExprs">>)

\* while (match(TOK_COMMA)) exprlist_append, in five places
MoreExprs == In("MoreExprs")
  /\ \/ curr = "," /\ advance /\ Calls(<<"Expr", "append", "MoreExprs">>)
     \/ curr # "," /\ stay /\ Returns
  /\ Gives(Made)

parse_table == In("Table") /\ stay /\ Gives(With("table")) /\ Calls(<<"{", "Fields", "}">>)
Fields == In("Fields") /\
  \/ curr \in {"}", "eof"} /\ stay /\ Returns /\ Gives(Made)
  \/ curr = "[" /\ advance /\ Gives(With("entry"))
       /\ Calls(<<"Expr", "append", "]", "=", "Expr", "append", "append", "Separator">>)
  \/ curr = "name" /\ next = "=" /\ stay /\ Gives(With("pair"))
       /\ Calls(<<"name", "=", "Expr", "append", "append", "Separator">>)
  \/ curr \notin {"}", "eof", "["} /\ ~(curr = "name" /\ next = "=") /\ stay /\ Gives(With("item"))
       /\ Calls(<<"Expr", "append", "append", "Separator">>)
Separator == In("Separator")
  /\ \/ curr \in {",", ";"} /\ advance /\ Calls(<<"Fields">>)
     \/ curr \notin {",", ";"} /\ stay /\ Returns
  /\ Gives(Made)

-----------------------------------------------------------------------------
(* Statements. *)

Name == In("Name") /\ Returns /\ (IF curr = "name" THEN advance ELSE fail) /\ Gives(Made)

\* The loop over names that parse_param_list and parse_local have in common.
MoreNames == In("MoreNames")
  /\ \/ curr = "," /\ advance /\ Calls(<<"NextName">>)
     \/ curr # "," /\ stay /\ Returns
  /\ Gives(Made)
NextName == In("NextName") /\
  \/ curr = "name" /\ advance /\ Gives(<<Append(Top, <<"name">>)>> \o Tail(built)) /\ Calls(<<"MoreNames">>)
  \/ curr # "name" /\ fail /\ Gives(Made) /\ Returns

parse_param_list == In("Params") /\
  \/ curr = "name" /\ stay /\ Gives(With("params")) /\ Calls(<<"NextName">>)
  \/ curr # "name" /\ stay /\ Gives(With("params")) /\ Returns

parse_local == In("Local") /\
  \/ curr = "function" /\ advance /\ Gives(With("local function"))
       /\ Calls(<<"Name", "(", "Params", "append", ")", "Block", "append", "end">>)
  \/ curr # "function" /\ stay /\ Gives(With("local")) /\ Calls(<<"Names", "append", "LocalValues">>)
Names == In("Names") /\
  \/ curr = "name" /\ stay /\ Gives(With("names")) /\ Calls(<<"NextName">>)
  \/ curr # "name" /\ fail /\ Gives(With("names")) /\ Calls(<<"MoreNames">>)
LocalValues == In("LocalValues")
  /\ \/ curr = "=" /\ advance /\ Calls(<<"Expr", "append", "MoreExprs">>)
     \/ curr # "=" /\ stay /\ Returns
  /\ Gives(Made)

parse_for == In("For") /\
  \/ curr = "name" /\ next = "=" /\ stay /\ Gives(With("for"))
       /\ Calls(<<"Name", "=", "Expr", "append", ",", "Expr", "append", "Step", "do", "Block", "append", "end">>)
  \/ curr = "name" /\ next # "=" /\ stay /\ Gives(With("for in"))
       /\ Calls(<<"Name", "in", "Expr", "append", "do", "Block", "append", "end">>)
  \/ curr # "name" /\ fail /\ Gives(With("do")) /\ Returns
Step == In("Step")
  /\ \/ curr = "," /\ advance /\ Calls(<<"Expr", "append">>)
     \/ curr # "," /\ stay /\ Returns
  /\ Gives(Made)

\* The loop over elseif, and else, of parse_if.
Clauses == In("Clauses")
  /\ \/ curr = "elseif" /\ advance /\ Calls(<<"Expr", "append", "then", "Block", "append", "Clauses">>)
     \/ curr = "else" /\ advance /\ Calls(<<"Block", "append", "end">>)
     \/ curr \notin {"elseif", "else"} /\ stay /\ Calls(<<"end">>)
  /\ Gives(Made)

BlockEnds == {"end", "else", "elseif", "until", "eof"}

ReturnValues == In("ReturnValues") /\ stay /\ Gives(Made) /\
  Calls(IF curr \in BlockEnds \cup {";"} THEN <<>> ELSE <<"Expr", "append", "MoreExprs">>)

\* parse_assignment_or_call, after the first parse_prefix_expr; expr_to_lvalue is in IsTarget.
IsTarget == Top[1] \in {"null", "name", "index", "field"}
Assignment == In("Assignment") /\
  IF curr \in {"=", ","}
    THEN /\ IF error = 0 /\ ~IsTarget THEN fail ELSE stay
         /\ Gives(Around("targets")) /\ Calls(<<"Targets", "=", "Values">>)
    ELSE /\ IF error = 0 /\ Top[1] \notin {"call", "method"} THEN fail ELSE stay
         /\ Gives(Around("eval")) /\ Returns
Targets == In("Targets")
  /\ \/ curr = "," /\ advance /\ Calls(<<"Prefix", "Target", "append", "Targets">>)
     \/ curr # "," /\ stay /\ Returns
  /\ Gives(Made)
Target == In("Target") /\ Returns /\ (IF error = 0 /\ ~IsTarget THEN fail ELSE stay) /\ Gives(Made)
Values == In("Values") /\ stay /\ Gives(Around("assign")) /\ Calls(<<"Expr", "append", "MoreExprs">>)

parse_function_stmt == curr = "function" /\ stay /\ Gives(With("function"))
  /\ Calls(<<"function", "Name", "(", "Params", "append", ")", "Block", "append", "end">>)
parse_if == curr = "if" /\ stay /\ Gives(With("if"))
  /\ Calls(<<"if", "Expr", "append", "then", "Block", "append", "Clauses">>)
parse_while == curr = "while" /\ stay /\ Gives(With("while"))
  /\ Calls(<<"while", "Expr", "append", "do", "Block", "append", "end">>)
parse_repeat == curr = "repeat" /\ stay /\ Gives(With("repeat"))
  /\ Calls(<<"repeat", "Block", "append", "until", "Expr", "append">>)

parse_stmt == In("Statement") /\
  \/ parse_function_stmt \/ parse_if \/ parse_while \/ parse_repeat
  \/ curr = "for" /\ stay /\ Gives(Made) /\ Calls(<<"for", "For">>)
  \/ curr = "local" /\ stay /\ Gives(Made) /\ Calls(<<"local", "Local">>)
  \/ curr = "break" /\ advance /\ Gives(With("break")) /\ Returns
  \/ curr = "do" /\ advance /\ Gives(With("do")) /\ Calls(<<"Block", "append", "end">>)
  \/ curr = "return" /\ advance /\ Gives(With("return")) /\ Calls(<<"ReturnValues">>)
  \/ curr \notin {"function", "if", "while", "repeat", "for", "local", "break", "do", "return"}
       /\ stay /\ Gives(Made) /\ Calls(<<"Prefix", "Assignment">>)

\* A return ends its block; an error does once the statement is over.
parse_block == In("Block") /\ stay /\ Gives(With("block")) /\ Calls(<<"Statements">>)
Statements == In("Statements")
  /\ \/ curr = ";" /\ advance /\ Calls(<<"Statements">>)
     \/ curr \in BlockEnds /\ stay /\ Returns
     \/ curr = "return" /\ stay /\ Calls(<<"Statement", "append">>)
     \/ curr \notin BlockEnds \cup {";", "return"} /\ stay /\ Calls(<<"Statement", "append", "More">>)
  /\ Gives(Made)
More_always == In("More") /\ stay /\ Gives(Made) /\ Calls(<<"Statements">>)
More == In("More") /\ stay /\ Gives(Made) /\ Calls(IF error # 0 THEN <<>> ELSE <<"Statements">>)

\* The end of parser_parse.
parser_parse == In("End") /\ Returns /\ (IF curr # "eof" THEN fail ELSE stay) /\ Gives(Made)

-----------------------------------------------------------------------------
\* parser_init reads two tokens; an error is at the first of them that is one.
Init ==
  /\ class \in Classes
  /\ \E t \in Coming(<<>>) : \E u \in Coming(<<t>>) : tokens = <<t, u>>
  /\ error = CASE tokens[1] = "error" -> 1 [] tokens[1] # "error" /\ tokens[2] = "error" -> 2 [] OTHER -> 0
  /\ todo = <<"Block", "End">> /\ built = <<>>

Next ==
  \/ append \/ expect \/ parse_expr \/ parse_or_expr \/ parse_and_expr \/ parse_comparison_expr
  \/ parse_concat_expr \/ parse_add_expr \/ parse_mul_expr \/ parse_pow_expr \/ parse_unary_expr
  \/ parse_prefix_expr \/ HandleSuffixes \/ Field \/ Method \/ parse_args \/ MoreExprs \/ parse_table \/ Fields
  \/ Separator \/ Name \/ MoreNames \/ NextName \/ parse_param_list \/ parse_local \/ Names \/ LocalValues
  \/ parse_for \/ Step \/ Clauses \/ ReturnValues \/ Assignment \/ Targets \/ Target \/ Values \/ parse_stmt
  \/ parse_block \/ Statements \/ More \/ parser_parse

\* The parser runs until it is done.
Spec == Init /\ [][Next]_vars /\ WF_vars(Next)

-----------------------------------------------------------------------------
(* Properties. *)

(* Whatever it is given the parser comes to an end: no routine waits for a   *)
(* token that does not come, or goes round without taking one.             *)
ParserReturns == <>(todo = <<>>)
=============================================================================
