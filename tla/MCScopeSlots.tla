---------------------------- MODULE MCScopeSlots ----------------------------
EXTENDS ScopeSlots, TLC
CONSTANTS a, b
MCNames == {a, b}
Renaming == Permutations(Names)
=============================================================================
