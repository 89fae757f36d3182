-------------------------- MODULE MC_OnlineIngest --------------------------
EXTENDS OnlineIngest, TLC

CONSTANTS u1, u2, u3, p1, p2

(* Two links of one platform, one of another. *)
Platforms == [u \in Url |-> IF u = u3 THEN p2 ELSE p1]
=============================================================================
