------------------------------ MODULE Grammar ------------------------------
(***************************************************************************)
(* The language of zeallua as a grammar, and what the parser promises of    *)
(* it: exactly the sentences are accepted, each with the tree the grammar   *)
(* gives it, and an error is at the first token no sentence goes on with.   *)
(*                                                                         *)
(* A rule says what a symbol may consist of, and which label the tree has   *)
(* that is made of the parts' trees; without a label they stay a list.  A   *)
(* part is the set of the symbols and tokens that can stand there.         *)
(***************************************************************************)
EXTENDS Parser, SequencesExt

Rule(symbol, label, parts) == [symbol |-> symbol, label |-> label, parts |-> parts]
\* The rules of a symbol with several forms.
Forms(symbol, label, all) == {Rule(symbol, label, parts) : parts \in all}

\* The levels of precedence: what an operand can be.
Prefixed == {"Simple", "Called", "Place"}
Unary    == Prefixed \cup {"Power", "Unary"}
Product  == Unary    \cup {"Product"}
Sum      == Product  \cup {"Sum"}
Concat   == Sum      \cup {"Concat"}
Compared == Concat   \cup {"Compared"}
And      == Compared \cup {"And"}
Expr     == And      \cup {"Or"}
Exprs    == {"Exprs"}
Block    == {"Block"}

Expressions ==
  \* The left operand is of the operator's own level if the operator groups to the left.
  {Rule("Or", "or", <<Expr, {"or"}, And>>), Rule("And", "and", <<And, {"and"}, Compared>>),
   Rule("Compared", "<", <<Compared, {"<"}, Concat>>), Rule("Concat", "..", <<Sum, {".."}, Concat>>),
   Rule("Sum", "+", <<Sum, {"+"}, Product>>), Rule("Sum", "-", <<Sum, {"-"}, Product>>),
   Rule("Product", "*", <<Product, {"*"}, Unary>>), Rule("Power", "^", <<Prefixed, {"^"}, Unary>>)}
  \cup {Rule("Unary", o, <<{o}, Unary>>) : o \in {"not", "-", "#"}}
  \* Operands.
  \cup {Rule("Simple", l, <<{l}>>) : l \in {"name", "const", "string"}}
  \cup {Rule("Simple", "function expression", <<{"function"}, {"Params"}, Block, {"end"}>>)}
  \cup Forms("Simple", "", {<<{"("}, Expr, {")"}>>, <<{"Table"}>>})
  \cup {Rule("Called", "call", <<Prefixed, {"Args"}>>), Rule("Args", "string", <<{"string"}>>)}
  \cup Forms("Called", "method", {<<Prefixed, {":"}, {"name"}, {"("}, {")"}>>,
                                  <<Prefixed, {":"}, {"name"}, {"("}, Exprs, {")"}>>})
  \cup Forms("Args", "", {<<{"("}, {")"}>>, <<{"("}, Exprs, {")"}>>, <<{"Table"}>>})
  \cup {Rule("Place", "index", <<Prefixed, {"["}, Expr, {"]"}>>), Rule("Place", "field", <<Prefixed, {"."}, {"name"}>>)}
  \cup Forms("Exprs", "", {<<Expr>>, <<Exprs, {","}, Expr>>})
  \* Tables.
  \cup Forms("Table", "table", {<<{"{"}, {"}"}>>, <<{"{"}, {"Fields"}, {"}"}>>, <<{"{"}, {"Fields"}, {",", ";"}, {"}"}>>})
  \cup Forms("Fields", "", {<<{"OneField"}>>, <<{"Fields"}, {",", ";"}, {"OneField"}>>})
  \cup {Rule("OneField", "item", <<Expr>>), Rule("OneField", "pair", <<{"name"}, {"="}, Expr>>),
        Rule("OneField", "entry", <<{"["}, Expr, {"]"}, {"="}, Expr>>)}

Statement ==
  Forms("Params", "params", {<<{"("}, {")"}>>, <<{"("}, {"Names"}, {")"}>>})
  \cup Forms("Names", "", {<<{"Named"}>>, <<{"Names"}, {","}, {"Named"}>>}) \cup {Rule("Named", "name", <<{"name"}>>)}
  \* Statements that end with an expression, and the others.
  \cup {Rule("Open", "assign", <<{"Targets"}, {"="}, Exprs>>), Rule("Open", "eval", <<{"CallIn"}>>),
        Rule("Open", "local", <<{"local"}, {"Locals"}, {"="}, Exprs>>),
        Rule("Open", "repeat", <<{"repeat"}, Block, {"until"}, Expr>>),
        Rule("Shut", "local", <<{"local"}, {"Locals"}>>),
        Rule("Shut", "local function", <<{"local"}, {"function"}, {"name"}, {"Params"}, Block, {"end"}>>),
        Rule("Shut", "function", <<{"function"}, {"name"}, {"Params"}, Block, {"end"}>>),
        Rule("Shut", "if", <<{"if"}, {"Branches"}, {"end"}>>),
        Rule("Shut", "if", <<{"if"}, {"Branches"}, {"else"}, Block, {"end"}>>),
        Rule("Shut", "while", <<{"while"}, Expr, {"do"}, Block, {"end"}>>),
        Rule("Shut", "for", <<{"for"}, {"name"}, {"="}, Expr, {","}, Expr, {"do"}, Block, {"end"}>>),
        Rule("Shut", "for", <<{"for"}, {"name"}, {"="}, Expr, {","}, Expr, {","}, Expr, {"do"}, Block, {"end"}>>),
        Rule("Shut", "for in", <<{"for"}, {"name"}, {"in"}, Expr, {"do"}, Block, {"end"}>>),
        Rule("Shut", "do", <<{"do"}, Block, {"end"}>>), Rule("Shut", "break", <<{"break"}>>),
        Rule("Return", "return", <<{"return"}>>), Rule("Return", "return", <<{"return"}, Exprs>>),
        Rule("Locals", "names", <<{"Names"}>>), Rule("Targets", "targets", <<{"Places"}>>),
        Rule("PlaceIn", "name", <<{"name"}>>)}
  \cup Forms("Branches", "", {<<Expr, {"then"}, Block>>, <<{"Branches"}, {"elseif"}, Expr, {"then"}, Block>>})
  \* What is assigned and what is called may stand in brackets.
  \cup Forms("Places", "", {<<{"PlaceIn"}>>, <<{"Places"}, {","}, {"PlaceIn"}>>})
  \cup Forms("PlaceIn", "", {<<{"Place"}>>, <<{"("}, {"PlaceIn"}, {")"}>>})
  \cup Forms("CallIn", "", {<<{"Called"}>>, <<{"("}, {"CallIn"}, {")"}>>})

Blocks ==
  LET ends == {"EndsOpen", "EndsShut"} IN
  Forms("Block", "block", {<<>>, <<{"Return"}>>, <<ends>>, <<ends, {"Return"}>>})
  \cup Forms("EndsOpen", "", {<<{"Open"}>>, <<{"EndsShut"}, {"Open"}>>, <<{"EndsOpen"}, {"Fresh"}>>})
  \cup Forms("Fresh", "", {<<{"Open"}>>})
  \cup Forms("EndsShut", "", {<<{"Shut", ";"}>>, <<ends, {"Shut", ";"}>>})
  \cup Forms("Chunk", "", {<<Block, {"eof"}>>})

\* A statement that begins with "function" is the declaration of one, and a statement that ends with an
\* expression goes on with whatever can continue the expression.
NotFirst(symbol) == CASE symbol = "Open"  -> {"function"}
                      [] symbol = "Fresh" -> {"(", "{", "string"}
                      [] OTHER -> {}

Rules == Expressions \cup Statement \cup Blocks

\* The symbols: one that may consist of just another comes after it.
Order == <<"Table", "Simple", "Args", "Called", "Place", "Power", "Unary", "Product", "Sum", "Concat", "Compared",
           "And", "Or", "Exprs", "OneField", "Fields", "Named", "Names", "Params", "Locals", "PlaceIn", "Places",
           "Targets", "CallIn", "Branches", "Open", "Fresh", "Shut", "Return", "EndsOpen", "EndsShut", "Block", "Chunk">>
Symbols == Range(Order)
RulesFor(s) == {r \in Rules : r.symbol = s}

-----------------------------------------------------------------------------
(* What the symbols yield.  A parse is what a symbol consists of and the     *)
(* list of its trees; parses[n + 1][s] are those of n tokens of symbol s,  *)
(* and begun[n + 1][s] the sequences of n tokens that parses of s begin     *)
(* with.  Both are made length by length, and symbol by symbol.            *)

Tokens(read, n) == [s \in Symbols \cup Token |-> IF n = 1 /\ s \in read THEN {[yield |-> <<s>>, trees |-> <<>>]} ELSE {}]
Least(part) == IF part = Block THEN 0 ELSE 1
LeastOf(parts) == FoldLeft(LAMBDA sum, part : sum + Least(part), 0, parts)

\* The lists of parses, of n tokens together, one for each of the parts.
RECURSIVE Lists(_, _, _)
Lists(parses, parts, n) ==
  IF parts = <<>> THEN (IF n = 0 THEN {[yield |-> <<>>, trees |-> <<>>]} ELSE {})
  ELSE UNION {LET firsts == UNION {parses[k + 1][s] : s \in Head(parts)}
                  others == IF firsts = {} THEN {} ELSE Lists(parses, Tail(parts), n - k)
              IN {[yield |-> f.yield \o l.yield, trees |-> f.trees \o l.trees] : f \in firsts, l \in others}
              : k \in Least(Head(parts)) .. n - LeastOf(Tail(parts))}

Allowed(symbol, yield) == yield = <<>> \/ yield[1] \notin NotFirst(symbol)
Labelled(r, l) == [yield |-> l.yield, trees |-> IF r.label = "" THEN l.trees ELSE <<<<r.label>> \o l.trees>>]

RECURSIVE ParsesUpTo(_, _)
ParsesUpTo(read, n) ==
  LET shorter == IF n = 0 THEN <<>> ELSE ParsesUpTo(read, n - 1)
      Filled(row, s) == [row EXCEPT ![s] = UNION {
        {Labelled(r, l) : l \in {x \in Lists(Append(shorter, row), r.parts, n) : Allowed(s, x.yield)}} : r \in RulesFor(s)}]
  IN Append(shorter, FoldLeft(Filled, Tokens(read, n), Order))

\* What the parts begin with: the beginning of the first, or all of it and the beginning of the others.
RECURSIVE BeginningsOf(_, _, _, _)
BeginningsOf(parses, begun, parts, n) ==
  IF parts = <<>> THEN {}
  ELSE UNION ({begun[n + 1][s] : s \in Head(parts)} \cup
    {LET others == BeginningsOf(parses, begun, Tail(parts), n - k)
     IN {f.yield \o b : f \in (IF others = {} THEN {} ELSE UNION {parses[k + 1][s] : s \in Head(parts)}), b \in others}
     : k \in Least(Head(parts)) .. n - 1})
RECURSIVE Closed(_, _, _)
Closed(parses, shorter, row) ==
  LET Filled(old, s) == [old EXCEPT ![s] = UNION {
        {b \in BeginningsOf(parses, Append(shorter, old), r.parts, Len(shorter)) : Allowed(s, b)} : r \in RulesFor(s)}]
      more == FoldLeft(Filled, row, Order)
  IN IF more = row THEN row ELSE Closed(parses, shorter, more)
RECURSIVE BegunUpTo(_, _, _)
BegunUpTo(read, parses, n) ==
  IF n = 0 THEN <<[s \in Symbols \cup Token |-> {<<>>}]>>
  ELSE LET shorter == BegunUpTo(read, parses, n - 1)
       IN Append(shorter, Closed(parses, shorter, [s \in Symbols \cup Token |-> IF n = 1 /\ s \in read THEN {<<s>>} ELSE {}]))

-----------------------------------------------------------------------------
\* The sentences of a class of programs, within its bound, and what its programs can begin with.
Language == [c \in Classes |->
  LET read     == TokensOf[c] \cup {"eof"}
      parses   == ParsesUpTo(read, MaxTokens[c] + 1)
      begun    == BegunUpTo(read, parses, MaxTokens[c] + 1)
      Chunks(rows) == UNION {rows[n]["Chunk"] : n \in DOMAIN rows}
  IN [sentences |-> Chunks(parses), beginnings |-> Chunks(begun)]]

(* The parser accepts exactly the sentences, and with the tree of the        *)
(* grammar: precedence, grouping, and what belongs to which call or block.  *)
(* The error it reports is at the first token that no sentence goes on     *)
(* with, unless the lexer reported one of its own in the token after.      *)
ReadsTheGrammar ==
  todo = <<>> =>
    IF error = 0 THEN [yield |-> SubSeq(tokens, 1, at), trees |-> built] \in Language[class].sentences
    ELSE /\ SubSeq(tokens, 1, error) \notin Language[class].beginnings
         /\ tokens[error] # "error" => SubSeq(tokens, 1, error - 1) \in Language[class].beginnings
=============================================================================
