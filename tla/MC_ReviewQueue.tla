---------------------------- MODULE MC_ReviewQueue ----------------------------
EXTENDS ReviewQueue, TLC

CONSTANTS a, b, p1, p2

(* One file waits, with or without a sidecar, or was left behind by a failed
   cleanup. *)
None3(x) == [n \in Name |-> IF n = 1 THEN x ELSE None]
Waiting(sc) == [media |-> None3(b), sidecar |-> None3(sc), vault |-> {a}]
Left(state) == [media |-> None3(a), sidecar |-> None3([hash |-> a, state |-> state]), vault |-> {a}]
Start == {Waiting(None), Waiting([hash |-> b, state |-> "pending"]), Left("resolved")}
Symmetric == Permutations(Proc)
=============================================================================
