---------------------------- MODULE MC_LocalIngest ----------------------------
EXTENDS LocalIngest, TLC

CONSTANTS f1, f2, v1, v2

(* Two files, or one that is named twice. *)
Handed == {<<f1, f2>>, <<f1, f1>>}
=============================================================================
