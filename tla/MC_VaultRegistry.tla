--------------------------- MODULE MC_VaultRegistry ---------------------------
EXTENDS VaultRegistry, TLC

CONSTANTS d, a, p1, p2

Symmetric == Permutations(Proc)
=============================================================================
