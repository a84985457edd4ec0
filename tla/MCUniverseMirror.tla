--------------------------- MODULE MCUniverseMirror ---------------------------
EXTENDS UniverseMirror, TLC
CONSTANTS m1, m2
Symmetry == Permutations(Memory)
=============================================================================
