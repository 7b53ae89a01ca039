----------------------------- MODULE MCTableHeap -----------------------------
EXTENDS TableHeap, TLC
CONSTANTS c1, c2, c3
MCCells1 == {c1}
MCCells2 == {c1, c2}
MCCells3 == {c1, c2, c3}
SymmetricCells == Permutations(Cells)
=============================================================================
