------------------------ MODULE MC_WorkspaceRegistry ------------------------
EXTENDS WorkspaceRegistry, TLC

CONSTANTS d, a, pd, pa, p1, p2

Symmetric == Permutations(Proc)
=============================================================================
