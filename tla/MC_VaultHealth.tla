--------------------------- MODULE MC_VaultHealth ---------------------------
EXTENDS VaultHealth, TLC

CONSTANTS a, c, r1, r2, p1

(* A picture; the text may come. *)
Vaults == {{a}}

Symmetric == Permutations({r1, r2})
=============================================================================
