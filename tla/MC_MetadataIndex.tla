-------------------------- MODULE MC_MetadataIndex --------------------------
EXTENDS MetadataIndex, TLC

CONSTANTS a, b, t1, t2, c1

(* Two items with a topic in common, or one item and another to come. *)
Vaults == {[h \in Item |-> IF h = a THEN {t1, t2} ELSE x] : x \in {{t1}, Gone}}

(* One note is spoilt, or loses a topic. *)
SomeEdits == [h \in Item |-> IF h = a THEN {Poison, {t2}} ELSE {}]

(* Notes are spoilt one at a time, and mended: both wait in the dirty queue when
   the second is read before the first is read again. *)
OneTopic == {[h \in Item |-> {t1}]}
SpoilAndMend == [h \in Item |-> {Poison, {t1}}]
=============================================================================
