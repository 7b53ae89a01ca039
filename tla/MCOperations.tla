---------------------------- MODULE MCOperations ----------------------------
(* Five-bit words and base three; each program uses one group of operations. *)
EXTENDS FileOps

Num(n) == Number(n % 32)
Texts  == {String(13, <<0>>), String(14, <<2, 1>>), String(15, <<Minus>>), String(16, <<Minus, 1, 1, 2>>),
           String(17, <<1, Minus>>), String(18, <<2, 2, 2, 2>>), String(19, <<>>)}

MCGroups == {"values", "tables", "files"}
MCHeap   == {20, 21}
MCLiterals == [g \in MCGroups |->
  CASE g = "values" -> {Number(w) : w \in Words} \cup {Nil, Bool(TRUE), Bool(FALSE)} \cup Texts
    [] g = "tables" -> {Num(1), Num(2), Nil, String(13, <<1>>), String(14, <<1>>)}
    [] g = "files"  -> {String(13, <<1>>), Num(12)}]
MCLoadsFirst == MCGroups
MCMaxStack   == [g \in MCGroups |-> IF g = "tables" THEN 3 ELSE 2]

MCPaths    == {<<1>>}
MCContents == {<<0, 1, 0>>}
MCLines    == {<<0, LineFeed>>, <<CarriageReturn, LineFeed>>, <<0, 1>>}
MCDevices  == {3, 4}
=============================================================================
