---------------------------- MODULE MCCallFrames ----------------------------
EXTENDS CallFrames
\* function 1 with a captured local; 2(x) in 1, with an upvalue; 3 in 2, through it.
MCParams   == <<0, 1, 0>>
MCEnvCells == [f \in 0 .. 3 |-> IF f = 1 THEN 1 ELSE 0]
MCCaptures == <<<<>>, <<[parent |-> FALSE, index |-> 0]>>,
                <<[parent |-> TRUE, index |-> 0]>>>>
MCEncl     == <<0, 1, 2>>
MCNone     == {}
MCOne      == {1}
=============================================================================
