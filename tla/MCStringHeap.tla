---------------------------- MODULE MCStringHeap ----------------------------
EXTENDS StringHeap
CONSTANTS c1, c2, x, y, gone
MCCells == {c1, c2}
MCChars == {x, y}
MCLiterals == {<<x>>, <<y>>, <<x, x, x>>, <<x, x, x, x>>}
MCShort == {<<x>>, <<y, x>>}
=============================================================================
