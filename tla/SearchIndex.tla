----------------------------- MODULE SearchIndex -----------------------------
(***************************************************************************)
(* The RAM indexes of one vault (backend/db/search_manager.py and          *)
(* searchers.py): a BK-tree of image hashes, kept current by every call,   *)
(* and two VP-trees (video, audio) that cannot be changed in place.  New   *)
(* items wait in pending_items; a removal throws the tree away; a rebuild  *)
(* takes a plan under sync_lock, builds the new trees without it, and      *)
(* applies them under it again, while calls go on changing the lists.      *)
(*                                                                         *)
(* Every action is one critical section of sync_lock.  rebuild_lock admits *)
(* one rebuild, so there is one rebuild state; threads and callers that    *)
(* have still to try for it are counted in waiting.                        *)
(***************************************************************************)
EXTENDS Naturals, FiniteSets

CONSTANTS
    Hash,        \* contents
    SigOf,       \* the indexes a content has a signature for
    Stored,      \* contents in the items table when the vault is activated
    Threshold,   \* VP_PENDING_REBUILD_THRESHOLD
    MaxCalls     \* bound: calls that change the indexes

VPTree == {"video", "audio"}
RebuildPhase == {"none", "plan", "apply", "check", "release"}
NoTree == {"no tree"}      \* not a set of contents

ASSUME IndexParametersOK ==
    /\ SigOf \in [Hash -> SUBSET (VPTree \cup {"image"})]
    /\ Stored \subseteq Hash
    /\ "no tree" \notin Hash

ASSUME BoundsOK == Threshold \in Nat \ {0} /\ MaxCalls \in Nat

VARIABLES
    images,      \* BKTreeSearcher: contents in global_tree and tile_tree
    tree,        \* VPTreeSearcher.tree: the contents it finds, or NoTree
    indexed,     \* VPTreeSearcher.indexed_items
    pending,     \* VPTreeSearcher.pending_items
    dirty,       \* VPTreeSearcher.dirty
    version,     \* VPTreeSearcher.mutation_version
    hydrated,    \* _SearchIndexState.is_hydrated
    phase,       \* where the thread holding rebuild_lock is
    plan,        \* its plans, by tree; NoPlan where there is nothing to do
    waiting,     \* threads that have still to try rebuild_lock
    follow,      \* needs_follow_up
    calls,
    known,       \* history: contents reported added and not removed since
    early,       \* history: trees whose plan in flight is older than hydrate()
    overrun      \* history: contents such a plan threw out of its tree's lists

NoPlan == [indexed |-> {}, pending |-> {}, version |-> 0, needed |-> FALSE]
Plan == [indexed : SUBSET Hash, pending : SUBSET Hash, version : Nat, needed : BOOLEAN]

lists == <<images, tree, indexed, pending, dirty, version>>
rebuild == <<phase, plan, follow>>
accident == <<early, overrun>>
indexVars == <<lists, hydrated, rebuild, waiting, calls, known, accident>>

Of(t, H) == {h \in H : t \in SigOf[h]}
Members(t) == indexed[t] \cup pending[t]

(* As reset_all() leaves them; the context is published, so calls come before
   hydrate() as well as after it. *)
IndexInit ==
    /\ images = {} /\ tree = [t \in VPTree |-> NoTree]
    /\ indexed = [t \in VPTree |-> {}] /\ pending = [t \in VPTree |-> {}]
    /\ dirty = [t \in VPTree |-> FALSE] /\ version = [t \in VPTree |-> 0]
    /\ hydrated = FALSE
    /\ phase = "none" /\ plan = [t \in VPTree |-> NoPlan] /\ follow = FALSE
    /\ waiting = 0 /\ calls = 0 /\ known = Stored
    /\ early = {} /\ overrun = [t \in VPTree |-> {}]

PendingCount == Cardinality(pending["video"]) + Cardinality(pending["audio"])

(* BKTreeSearcher.add and VPTreeSearcher.add for every signature there is. *)
Added(H) ==
    /\ images' = images \cup Of("image", H)
    /\ pending' = [t \in VPTree |-> pending[t] \cup Of(t, H)]
    /\ dirty' = [t \in VPTree |-> dirty[t] \/ Of(t, H) # {}]

-----------------------------------------------------------------------------
(* build_index, after H was added to the pending items. *)
Built(t, H) ==
    IF Members(t) \cup H = {} THEN NoTree
    ELSE IF pending[t] \cup H = {} /\ ~dirty[t] THEN tree[t] ELSE Members(t) \cup H

(* hydrate: everything in the table, and both trees built on the spot, under
   sync_lock but not under rebuild_lock. *)
Hydrate ==
    /\ ~hydrated
    /\ hydrated' = TRUE
    /\ images' = images \cup Of("image", known)
    /\ indexed' = [t \in VPTree |-> Members(t) \cup Of(t, known)]
    /\ tree' = [t \in VPTree |-> Built(t, Of(t, known))]
    /\ pending' = [t \in VPTree |-> {}]
    /\ dirty' = [t \in VPTree |-> FALSE]
    /\ early' = {t \in VPTree : plan[t].needed}
    /\ UNCHANGED <<version, rebuild, waiting, calls, known, overrun>>

(* History: a call about a content settles it again. *)
Settled(H) == early' = early /\ overrun' = [t \in VPTree |-> overrun[t] \ H]

(* update_indexes: one content; a rebuild once enough is pending. *)
Update(h) ==
    /\ calls < MaxCalls /\ calls' = calls + 1
    /\ Added({h})
    /\ waiting' = IF PendingCount' >= Threshold THEN waiting + 1 ELSE waiting
    /\ known' = known \cup {h} /\ Settled({h})
    /\ UNCHANGED <<tree, indexed, version, hydrated, rebuild>>

(* update_indexes_batch: a rebuild as soon as anything is pending. *)
UpdateBatch(H) ==
    /\ calls < MaxCalls /\ calls' = calls + 1
    /\ H # {}
    /\ Added(H)
    /\ waiting' = IF PendingCount' > 0 THEN waiting + 1 ELSE waiting
    /\ known' = known \cup H /\ Settled(H)
    /\ UNCHANGED <<tree, indexed, version, hydrated, rebuild>>

(* VPTreeSearcher.remove_hashes, on both trees whatever the contents are. *)
DirtyAfter(t, H) ==
    IF indexed[t] \cap H # {} THEN Members(t) \ H # {} ELSE pending[t] \ H # {}
TreeKept(t, H) == tree[t]                                                \* mutant
TreeAfter(t, H) == IF indexed[t] \cap H # {} THEN NoTree ELSE tree[t]
VersionAfter(t, H) == version[t] + (IF Members(t) \cap H # {} THEN 1 ELSE 0)

(* remove_indexes_batch: the trees that lost an indexed item are rebuilt by
   a new thread. *)
RemoveBatch(H) ==
    /\ calls < MaxCalls /\ calls' = calls + 1
    /\ H # {}
    /\ images' = images \ H
    /\ tree' = [t \in VPTree |-> TreeAfter(t, H)]
    /\ indexed' = [t \in VPTree |-> indexed[t] \ H]
    /\ pending' = [t \in VPTree |-> pending[t] \ H]
    /\ dirty' = [t \in VPTree |-> DirtyAfter(t, H)]
    /\ version' = [t \in VPTree |-> VersionAfter(t, H)]
    /\ waiting' = IF \E t \in VPTree : indexed[t] \cap H # {} THEN waiting + 1 ELSE waiting
    /\ known' = known \ H /\ Settled(H)
    /\ UNCHANGED <<hydrated, rebuild>>

-----------------------------------------------------------------------------
(* mutant: tries again after it gave up *)
TryAgain ==
    /\ waiting' = waiting - 1
    /\ phase' = IF phase = "none" THEN "plan" ELSE phase
    /\ UNCHANGED <<lists, hydrated, plan, follow, calls, known, accident>>

(* rebuild_lock.acquire(blocking=False) *)
TryRebuild ==
    /\ waiting > 0 /\ waiting' = waiting - 1
    /\ phase' = IF phase = "none" THEN "plan" ELSE phase
    /\ UNCHANGED <<lists, hydrated, plan, follow, calls, known, accident>>

(* rebuild_plan of both trees. *)
PlanNeeded(t) == pending[t] # {} \/ dirty[t]

MakePlans ==
    /\ phase = "plan" /\ phase' = "apply"
    /\ plan' = [t \in VPTree |->
                  IF PlanNeeded(t)
                    THEN [indexed |-> indexed[t], pending |-> pending[t],
                          version |-> version[t], needed |-> TRUE]
                    ELSE NoPlan]
    /\ UNCHANGED <<lists, hydrated, follow, waiting, calls, known, accident>>

(* apply_replacement of the tree built from the plan.  Removals made since
   then are seen by the version: the tree is thrown away, and what the plan
   had but the lists no longer have is left out. *)
Combined(t) == plan[t].indexed \cup plan[t].pending
Resurrected(t) == Combined(t)                                            \* mutant
Surviving(t) == Combined(t) \cap Members(t)
IsStale(t) == version[t] # plan[t].version
StillPending(t) == pending[t] \ plan[t].pending
DirtyKept(t) == dirty[t]                                                 \* mutant
DirtyApplied(t) ==
    IF IsStale(t) THEN Surviving(t) # {} \/ StillPending(t) # {} ELSE StillPending(t) # {}

(* What the plan of a rebuild older than hydrate() loses of hydrate()'s work. *)
Overrun(t) == IF t \in early THEN indexed[t] \ (Combined(t) \cup StillPending(t)) ELSE {}

Apply(t) ==
    /\ phase = "apply" /\ plan[t].needed
    /\ t = "audio" => ~plan["video"].needed
    /\ pending' = [pending EXCEPT ![t] = StillPending(t)]
    /\ indexed' = [indexed EXCEPT ![t] = IF IsStale(t) THEN Surviving(t) ELSE Combined(t)]
    /\ tree' = [tree EXCEPT ![t] = IF IsStale(t) \/ Combined(t) = {} THEN NoTree ELSE Combined(t)]
    /\ dirty' = [dirty EXCEPT ![t] = DirtyApplied(t)]
    /\ plan' = [plan EXCEPT ![t] = NoPlan]
    /\ early' = early \ {t}
    /\ overrun' = [overrun EXCEPT ![t] = @ \cup Overrun(t)]
    /\ UNCHANGED <<images, version, hydrated, phase, follow, waiting, calls, known>>

(* The last look at the lists before the lock is given back. *)
CheckFollowUp ==
    /\ phase = "apply" /\ \A t \in VPTree : ~plan[t].needed
    /\ phase' = "release"
    /\ follow' = (PendingCount >= Threshold \/ \E t \in VPTree : PlanNeeded(t))
    /\ UNCHANGED <<lists, hydrated, plan, waiting, calls, known, accident>>

Release ==
    /\ phase = "release" /\ phase' = "none"
    /\ waiting' = IF follow THEN waiting + 1 ELSE waiting
    /\ follow' = FALSE
    /\ UNCHANGED <<lists, hydrated, plan, calls, known, accident>>

Rebuild == TryRebuild \/ MakePlans \/ (\E t \in VPTree : Apply(t)) \/ CheckFollowUp \/ Release

NoRebuild == waiting = 0 /\ phase = "none"
NoMoreCalls == calls = MaxCalls /\ NoRebuild /\ hydrated /\ UNCHANGED indexVars

IndexNext ==
    \/ Hydrate
    \/ \E h \in Hash : Update(h)
    \/ \E H \in SUBSET Hash : UpdateBatch(H) \/ RemoveBatch(H)
    \/ Rebuild
    \/ NoMoreCalls

IndexSpec == IndexInit /\ [][IndexNext]_indexVars

(* The rebuild threads run; nobody has to call again. *)
IndexFairSpec == IndexSpec /\ WF_indexVars(Rebuild)

-----------------------------------------------------------------------------
(* The lists, the trees and the plan of a rebuild hold contents. *)
IndexTypeOK ==
    /\ images \subseteq Hash
    /\ tree \in [VPTree -> (SUBSET Hash) \cup {NoTree}]
    /\ indexed \in [VPTree -> SUBSET Hash] /\ pending \in [VPTree -> SUBSET Hash]
    /\ dirty \in [VPTree -> BOOLEAN] /\ version \in [VPTree -> Nat]
    /\ hydrated \in BOOLEAN
    /\ phase \in RebuildPhase /\ plan \in [VPTree -> Plan] /\ follow \in BOOLEAN
    /\ waiting \in Nat /\ calls \in 0..MaxCalls /\ known \subseteq Hash
    /\ early \subseteq VPTree /\ overrun \in [VPTree -> SUBSET Hash]

(* No rebuild in flight loses an item added meanwhile, or brings back one
   removed meanwhile: the lists hold what the callers reported, hydrate() puts
   in the rest.  The accident: a rebuild started by a call before hydrate()
   and applied after it replaces what hydrate() indexed by its own plan. *)
MembersKept ==
    \A t \in VPTree : IF hydrated THEN Members(t) = Of(t, known) \ overrun[t]
                                   ELSE Members(t) \subseteq Of(t, known)

(* A tree is thrown away as soon as it is out of date: queries never find a
   removed item, in particular not in a tree built before its removal. *)
TreeIsCurrent == \A t \in VPTree : tree[t] \in {NoTree, indexed[t]}

(* Rebuilding comes to rest: a follow-up is not caused by its own work. *)
RebuildSettles == []<>NoRebuild
=============================================================================
