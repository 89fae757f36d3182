-------------------------- MODULE MC_BrowserCapture --------------------------
EXTENDS BrowserCapture, TLC

CONSTANTS c1, c2, x, v1, v2, t1, t2

(* The same picture captured twice. *)
Same == [c \in Capture |-> x]
Threads == Permutations(Thread)
=============================================================================
