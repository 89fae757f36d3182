-------------------------- MODULE MC_ItemLifecycle --------------------------
EXTENDS ItemLifecycle, TLC

CONSTANTS w1, w2, w3, h1, h2, s1, s2, p1, p2

OneShard == [h \in Hash |-> s1]
ManyStripes == [i \in 1..MaxId |-> IF i = 1 THEN p1 ELSE p2]
NoPairs == {}
TwoShards == [h \in Hash |-> IF h = h2 THEN s2 ELSE s1]
ClosePair == {<<h1, h2>>, <<h2, h1>>}
Anything == [w \in Worker |-> Hash]

(* Sound where all threads and all contents are alike: one shard, Anything,
   no pair or ClosePair, nobody online, and no liveness property. *)
Alike == Permutations(Worker) \cup Permutations(Hash)
=============================================================================
