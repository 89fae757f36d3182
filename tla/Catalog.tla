------------------------------ MODULE Catalog ------------------------------
(***************************************************************************)
(* What the vault's catalogue promises to everything that remembers a      *)
(* storage id (notes, thumbnails, WD caches, links between notes):         *)
(* contents come and go, but an id that named one item never names         *)
(* another one, and an item keeps its id for as long as it exists.         *)
(***************************************************************************)
EXTENDS Naturals

CONSTANTS Hash, Id, None

VARIABLES
    item,   \* content -> its storage id, or None
    used    \* ids handed out, for good or in vain

Init == item = [h \in Hash |-> None] /\ used = {}

(* A new item takes an id nobody ever had. *)
Add(h, i) ==
    /\ item[h] = None /\ i \in Id \ used
    /\ item' = [item EXCEPT ![h] = i]
    /\ used' = used \cup {i}

(* An id is spent on a content that is already there. *)
Waste(i) ==
    /\ i \in Id \ used
    /\ used' = used \cup {i}
    /\ UNCHANGED item

(* One item, or all items of a URL, disappear at once. *)
Remove(H) ==
    /\ item' = [h \in Hash |-> IF h \in H THEN None ELSE item[h]]
    /\ UNCHANGED used

Next ==
    \/ \E h \in Hash, i \in Id : Add(h, i)
    \/ \E i \in Id : Waste(i)
    \/ \E H \in SUBSET Hash : Remove(H)

Spec == Init /\ [][Next]_<<item, used>>
=============================================================================
