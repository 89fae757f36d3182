--------------------------- MODULE MC_SearchIndex ---------------------------
EXTENDS SearchIndex, TLC

CONSTANTS v1, v2, i1

(* Two videos with sound, one image. *)
Signatures == [h \in Hash |-> IF h = i1 THEN {"image"}
                              ELSE IF h = v1 THEN {"video", "audio"} ELSE {"video"}]
OneVideo == {v1}
Nothing == {}
=============================================================================
