------------------------------ MODULE ReviewQueue ------------------------------
(***************************************************************************)
(* The review queue of one vault: files that looked like something stored, *)
(* each with a sidecar, waiting for the user (backend/api/review.py and    *)
(* processor._move_to_review), and the cache of the sidecars that the      *)
(* ingest asks before it takes a file (backend/review_cache.py).           *)
(*                                                                         *)
(* Every step of the cache is taken under its lock; files are read,        *)
(* written and deleted outside it.  File names carry a time stamp and a    *)
(* random token: they are numbered in the order they are given out.        *)
(***************************************************************************)
EXTENDS Naturals, FiniteSets, FiniteSetsExt

CONSTANTS
    Hash,      \* contents, all similar to one another
    None,
    Proc,      \* threads
    Starts,    \* the review directories and vaults this instance starts from
    MaxFiles,  \* bound: files that come into review
    MaxCalls,  \* bound: calls
    MaxCrashes \* bound: process crashes

Name == 1..MaxFiles
State == {"pending", "cleanup", "resolved"}
Sidecar == [hash : Hash \cup {None}, state : State]
Entry == [hash : Hash \cup {None}, state : {"pending", "cleanup"}]
Action == {"delete", "variant", "replace"}

ASSUME ReviewOK ==
    /\ IsFiniteSet(Hash) /\ IsFiniteSet(Proc) /\ MaxFiles \in Nat /\ MaxCalls \in Nat /\ MaxCrashes \in Nat
    /\ None \notin Hash \cup Name \cup Sidecar \cup Entry \cup Action
    /\ None \notin [entry : Entry, changed : BOOLEAN]
    /\ \A s \in Starts :
          /\ s.media \in [Name -> Hash \cup {None}]
          /\ s.sidecar \in [Name -> Sidecar \cup {None}]
          /\ s.vault \in SUBSET Hash /\ s.vault # {}
          /\ \A n \in Name : s.media[n] # None <=> n <= Cardinality({m \in Name : s.media[m] # None})
          /\ \A n \in Name : s.sidecar[n] # None =>
                /\ s.media[n] # None /\ s.sidecar[n].hash \in {None, s.media[n]}
                /\ s.sidecar[n].state # "pending" => s.media[n] \in s.vault

VARIABLES
    media, sidecar,  \* the review directory
    fresh,           \* the next name
    cache,           \* _ReviewCacheState
    vault,           \* the contents stored
    th,              \* what each thread is doing
    calls, crashes,
    given,           \* history: contents the user gave up
    late,            \* history: files that changed while a listing was under way
    twin             \* history: contents that a file had while something was left of another

disk == <<media, sidecar, fresh>>
history == <<given, late, twin>>
vars == <<disk, cache, vault, th, calls, crashes, history>>

-----------------------------------------------------------------------------
(***************************************************************************)
(* The cache.                                                              *)
(***************************************************************************)
(* _entry_for: a file with a resolved state is left over from a cleanup. *)
EntryOf(sc) ==
    IF sc = None THEN [hash |-> None, state |-> "pending"]
    ELSE [hash |-> sc.hash, state |-> IF sc.state = "pending" THEN "pending" ELSE "cleanup"]

Listed(E, state) == {n \in Name : E[n] # None /\ E[n].state = state}
Tally == {"pending", "cleanup", "total"}
Counted(E, s) == {n \in Name : E[n] # None /\ s \in {E[n].state, "total"}}
Counts(E) == [s \in Tally |-> Cardinality(Counted(E, s))]

(* _rebuild_unlocked and replace_review_cache_entries: of two files with one
   hash the later is found. *)
CacheOf(E) ==
    [dirty |-> FALSE, entry |-> E, counts |-> Counts(E),
     index |-> [h \in Hash |-> LET S == {n \in Listed(E, "pending") : E[n].hash = h}
                               IN IF S = {} THEN None ELSE Max(S)]]

OnDisk == [n \in Name |-> IF media[n] = None THEN None ELSE EntryOf(sidecar[n])]

(* _ensure_unlocked *)
NotRebuilt == [cache EXCEPT !.dirty = FALSE]
Ensured == IF cache.dirty THEN CacheOf(OnDisk) ELSE cache

Without(index, e) ==
    IF e = None \/ e.hash = None THEN index ELSE [index EXCEPT ![e.hash] = None]
OneLess(k) == IF k > 0 THEN k - 1 ELSE 0
Less(counts, e) ==
    IF e = None THEN counts
    ELSE [s \in Tally |-> IF s \in {e.state, "total"} THEN OneLess(counts[s]) ELSE counts[s]]
More(counts, e) == [s \in Tally |-> IF s \in {e.state, "total"} THEN counts[s] + 1 ELSE counts[s]]

(* upsert_review_cache_entry *)
UpsertCountedTwice(C, n, sc) ==
    LET e == EntryOf(sc) IN
    IF C.dirty THEN C
    ELSE [C EXCEPT !.entry[n] = e, !.counts = More(@, e),
                   !.index = IF e.state = "pending" /\ e.hash # None
                               THEN [Without(@, C.entry[n]) EXCEPT ![e.hash] = n]
                               ELSE Without(@, C.entry[n])]
Upsert(C, n, sc) ==
    LET e == EntryOf(sc) IN
    IF C.dirty THEN C
    ELSE [C EXCEPT !.entry[n] = e, !.counts = More(Less(@, C.entry[n]), e),
                   !.index = IF e.state = "pending" /\ e.hash # None
                               THEN [Without(@, C.entry[n]) EXCEPT ![e.hash] = n]
                               ELSE Without(@, C.entry[n])]

(* remove_review_cache_entry *)
Removed(C, n) ==
    IF C.dirty THEN C
    ELSE [C EXCEPT !.entry[n] = None, !.counts = Less(@, C.entry[n]),
                   !.index = Without(@, C.entry[n])]

(* mark_review_cache_dirty *)
Dirty(C) == [C EXCEPT !.dirty = TRUE]

-----------------------------------------------------------------------------
NoEntry == [n \in Name |-> None]
Idle == [op |-> "none", pc |-> "idle", name |-> None, hash |-> None, state |-> "pending",
         target |-> None, todo |-> {}, got |-> NoEntry, kept |-> FALSE, failed |-> FALSE]

Init ==
    /\ \E s \in Starts :
          /\ media = s.media /\ sidecar = s.sidecar /\ vault = s.vault
          /\ fresh = 1 + Cardinality({n \in Name : s.media[n] # None})
    /\ cache = [CacheOf(NoEntry) EXCEPT !.dirty = TRUE]
    /\ th = [p \in Proc |-> Idle]
    /\ calls = 0 /\ crashes = 0
    /\ given = {} /\ late = {}
    /\ twin = {h \in Hash : \E m, n \in Name : m # n /\ media[m] = h /\ media[n] = h}

Become(p, r) == th' = [th EXCEPT ![p] = r]

Begin(p) ==
    /\ th[p].op = "none" /\ calls < MaxCalls /\ calls' = calls + 1
    /\ UNCHANGED crashes

(* A listing that has begun and not yet replaced the cache. *)
Listing == {p \in Proc : th[p].op \in {"list", "clean"} /\ th[p].pc \in {"examine", "persist"}}
Touched(p, n) == IF Listing \ {p} = {} THEN late ELSE late \cup {n}

(* A file of this content, or what outlives it: its entry in the cache, or a
   thread that has yet to write one. *)
Remains(p, h) ==
    \/ \E n \in Name : media[n] = h
    \/ \E n \in Name : ~ cache.dirty /\ cache.entry[n] # None /\ cache.entry[n].hash = h
    \/ \E q \in Proc \ {p} : th[q].name # None /\ th[q].hash = h

-----------------------------------------------------------------------------
(***************************************************************************)
(* process_file, as far as review is concerned.                            *)
(***************************************************************************)
(* _pending_review_match, then check_duplicate_hash *)
Ingest(p, c) ==
    /\ Begin(p) /\ fresh <= MaxFiles
    /\ cache' = Ensured
    /\ IF Ensured.index[c] # None \/ c \in vault THEN UNCHANGED th
       ELSE Become(p, [Idle EXCEPT !.op = "ingest", !.pc = "similar", !.hash = c])
    /\ UNCHANGED <<disk, vault, history>>

IngestStores(p) ==
    /\ th[p].pc = "similar"
    /\ vault' = vault \cup {th[p].hash}
    /\ Become(p, Idle)
    /\ UNCHANGED <<disk, cache, calls, crashes, history>>

(* _move_to_review: the file, its sidecar, the cache. *)
IngestMoves(p) ==
    /\ th[p].pc = "similar" /\ fresh <= MaxFiles
    /\ media' = [media EXCEPT ![fresh] = th[p].hash]
    /\ fresh' = fresh + 1
    /\ late' = Touched(p, fresh)
    /\ twin' = IF Remains(p, th[p].hash) THEN twin \cup {th[p].hash} ELSE twin
    /\ Become(p, [th[p] EXCEPT !.pc = "sidecar", !.name = fresh])
    /\ UNCHANGED <<sidecar, cache, vault, calls, crashes, given>>

IngestSidecar(p) ==
    /\ th[p].pc = "sidecar"
    /\ sidecar' = [sidecar EXCEPT ![th[p].name] = [hash |-> th[p].hash, state |-> "pending"]]
    /\ late' = Touched(p, th[p].name)
    /\ Become(p, [th[p] EXCEPT !.pc = "upsert"])
    /\ UNCHANGED <<media, fresh, cache, vault, calls, crashes, given, twin>>

IngestUpsert(p) ==
    /\ th[p].pc = "upsert"
    /\ cache' = Upsert(cache, th[p].name, [hash |-> th[p].hash, state |-> "pending"])
    /\ late' = Touched(p, th[p].name)
    /\ Become(p, Idle)
    /\ UNCHANGED <<disk, vault, calls, crashes, given, twin>>

-----------------------------------------------------------------------------
(***************************************************************************)
(* The page lists the queue (_resolve_review_entries): it looks at file    *)
(* after file, completes what the sidecars lack and puts the result in     *)
(* place of the cache.  A cleanup starts with the same listing.            *)
(***************************************************************************)
ListStart(p, op) ==
    /\ Begin(p)
    /\ Become(p, [Idle EXCEPT !.op = op, !.pc = "examine",
                              !.todo = {n \in Name : media[n] # None}])
    /\ UNCHANGED <<disk, cache, vault, history>>

(* The hash is computed from the file when the sidecar has none. *)
Examined(n) == [EntryOf(sidecar[n]) EXCEPT !.hash = media[n]]
Incomplete(n) == sidecar[n] = None \/ sidecar[n].hash = None \/ sidecar[n].state = "resolved"

(* A file that is gone by now makes the whole call fail. *)
ListExamine(p, n) ==
    /\ th[p].pc = "examine" /\ n \in th[p].todo
    /\ IF media[n] = None THEN Become(p, Idle)
       ELSE Become(p, [th[p] EXCEPT !.todo = @ \ {n}, !.got[n] =
                         [entry |-> Examined(n), changed |-> Incomplete(n)]])
    /\ UNCHANGED <<disk, cache, vault, calls, crashes, history>>

Found(p) == [n \in Name |-> IF th[p].got[n] = None THEN None ELSE th[p].got[n].entry]

ListExamined(p) ==
    /\ th[p].pc = "examine" /\ th[p].todo = {}
    /\ Become(p, [th[p] EXCEPT !.pc = "persist",
                    !.todo = {n \in Name : th[p].got[n] # None /\ th[p].got[n].changed}])
    /\ UNCHANGED <<disk, cache, vault, calls, crashes, history>>

(* A sidecar that cannot be written is let be. *)
ListPersist(p, n) ==
    /\ th[p].pc = "persist" /\ n \in th[p].todo
    /\ \/ /\ sidecar' = [sidecar EXCEPT ![n] = Found(p)[n]]
          /\ cache' = Upsert(cache, n, Found(p)[n])
          /\ late' = Touched(p, n)
       \/ UNCHANGED <<sidecar, cache, late>>
    /\ Become(p, [th[p] EXCEPT !.todo = @ \ {n}])
    /\ UNCHANGED <<media, fresh, vault, calls, crashes, given, twin>>

ListReplace(p) ==
    /\ th[p].pc = "persist" /\ th[p].todo = {}
    /\ cache' = CacheOf(Found(p))
    /\ IF th[p].op = "list" THEN Become(p, Idle)
       ELSE Become(p, [th[p] EXCEPT !.pc = "purge", !.todo = Listed(Found(p), "cleanup")])
    /\ UNCHANGED <<disk, vault, calls, crashes, history>>

-----------------------------------------------------------------------------
(***************************************************************************)
(* _review_cleanup_path, for the file and then for its sidecar.  Deleting  *)
(* may fail, and a path that does not exist counts as deleted.             *)
(***************************************************************************)
CleanMedia(p, next) ==
    LET n == th[p].name IN
    \/ /\ media[n] = None
       /\ Become(p, next) /\ UNCHANGED <<media, cache, late>>
    \/ /\ media[n] # None
       /\ media' = [media EXCEPT ![n] = None] /\ cache' = Removed(cache, n)
       /\ late' = Touched(p, n)
       /\ Become(p, next)
    \/ /\ media[n] # None
       /\ Become(p, [next EXCEPT !.kept = TRUE]) /\ UNCHANGED <<media, cache, late>>

CleanSidecar(n) ==
    \/ /\ sidecar[n] # None
       /\ sidecar' = [sidecar EXCEPT ![n] = None] /\ cache' = Dirty(cache)
    \/ UNCHANGED <<sidecar, cache>>

UnlinkMedia(p) ==
    /\ th[p].pc = "unlink"
    /\ CleanMedia(p, [th[p] EXCEPT !.pc = "meta"])
    /\ UNCHANGED <<sidecar, fresh, vault, calls, crashes, given, twin>>

AfterClean(p) ==
    IF th[p].kept THEN [th[p] EXCEPT !.pc = "mark"]
    ELSE IF th[p].op = "replace" /\ ~ th[p].failed THEN [th[p] EXCEPT !.pc = "target"]
    ELSE IF th[p].op = "clean" THEN [th[p] EXCEPT !.pc = "purge", !.name = None]
    ELSE Idle

UnlinkSidecar(p) ==
    /\ th[p].pc = "meta"
    /\ CleanSidecar(th[p].name)
    /\ Become(p, AfterClean(p))
    /\ UNCHANGED <<media, fresh, vault, calls, crashes, history>>

(* The file that would not go waits for the next cleanup; a delete and a
   cleanup read its sidecar again, which may be gone. *)
Marked(p) ==
    LET n == th[p].name IN
    [state |-> "cleanup",
     hash |-> IF th[p].op \in {"variant", "replace"} THEN th[p].hash
              ELSE IF sidecar[n] = None THEN None ELSE sidecar[n].hash]

MarkCleanup(p) ==
    /\ th[p].pc = "mark"
    /\ LET n == th[p].name IN
       IF media[n] = None /\ th[p].op \in {"delete", "clean"} THEN UNCHANGED <<sidecar, cache, late>>
       ELSE /\ sidecar' = [sidecar EXCEPT ![n] = Marked(p)]
            /\ cache' = Upsert(cache, n, Marked(p))
            /\ late' = Touched(p, n)
    /\ Become(p, IF th[p].op = "clean" THEN [th[p] EXCEPT !.pc = "purge", !.name = None, !.kept = FALSE]
                 ELSE Idle)
    /\ UNCHANGED <<media, fresh, vault, calls, crashes, given, twin>>

(* _cleanup_review_resolved_sync *)
Purge(p, n) ==
    /\ th[p].pc = "purge" /\ n \in th[p].todo
    /\ Become(p, [th[p] EXCEPT !.pc = "unlink", !.name = n, !.todo = @ \ {n}])
    /\ UNCHANGED <<disk, cache, vault, calls, crashes, history>>

(* Then sidecars whose file is gone, but for those of the files just purged. *)
Purged(p) ==
    /\ th[p].pc = "purge" /\ th[p].todo = {}
    /\ Become(p, [th[p] EXCEPT !.pc = "orphans",
                    !.todo = {n \in Name : sidecar[n] # None} \ Listed(Found(p), "cleanup")])
    /\ UNCHANGED <<disk, cache, vault, calls, crashes, history>>

PurgeOrphan(p, n) ==
    /\ th[p].pc = "orphans" /\ n \in th[p].todo
    /\ IF media[n] = None THEN CleanSidecar(n) ELSE UNCHANGED <<sidecar, cache>>
    /\ Become(p, [th[p] EXCEPT !.todo = @ \ {n}])
    /\ UNCHANGED <<media, fresh, vault, calls, crashes, history>>

CleanEnds(p) ==
    /\ th[p].pc = "orphans" /\ th[p].todo = {}
    /\ Become(p, Idle)
    /\ UNCHANGED <<disk, cache, vault, calls, crashes, history>>

-----------------------------------------------------------------------------
(***************************************************************************)
(* review_action.  One action at a time works on a file.                   *)
(***************************************************************************)
Locked(n) == \E p \in Proc : th[p].op \in Action /\ th[p].name = n

(* A file waiting for cleanup is refused. *)
Act(p, n, action, target) ==
    /\ Begin(p) /\ ~ Locked(n) /\ media[n] # None
    /\ action # "replace" => target = None
    /\ LET state == IF sidecar[n] = None THEN "pending" ELSE sidecar[n].state IN
       IF state = "cleanup" THEN UNCHANGED th
       ELSE Become(p, [Idle EXCEPT !.op = action, !.pc = "note", !.name = n, !.hash = media[n],
                                   !.state = state, !.target = target])
    /\ UNCHANGED <<disk, cache, vault, history>>

(* The sidecar is written with the hash.  A replacement needs a target that is
   still stored. *)
ActNote(p) ==
    /\ th[p].pc = "note"
    /\ LET n == th[p].name
           sc == [hash |-> th[p].hash, state |-> th[p].state] IN
          /\ sidecar' = [sidecar EXCEPT ![n] = sc]
          /\ cache' = Upsert(cache, n, sc)
          /\ late' = Touched(p, n)
    /\ IF th[p].op = "replace" /\ th[p].target \notin vault THEN Become(p, Idle)
       ELSE Become(p, [th[p] EXCEPT !.pc = IF th[p].op = "delete" THEN "unlink" ELSE "store"])
    /\ given' = IF th[p].op = "delete" THEN given \cup {th[p].hash} ELSE given
    /\ UNCHANGED <<media, fresh, vault, calls, crashes, twin>>

(* process_file with allow_pending_review: a content that is stored already is
   refused, and so is a file that is gone; anything else may go wrong. *)
RefusesGone(p) == media[th[p].name] = None
Refuses(p) == th[p].hash \in vault \/ media[th[p].name] = None

ActStoreUnchecked(p) ==
    /\ th[p].pc = "store"
    /\ vault' \in {vault, IF Refuses(p) THEN vault ELSE vault \cup {th[p].hash}}
    /\ Become(p, [th[p] EXCEPT !.pc = "source"])
    /\ UNCHANGED <<disk, cache, calls, crashes, history>>

ActStore(p) ==
    /\ th[p].pc = "store"
    /\ \/ /\ ~ Refuses(p)
          /\ vault' = vault \cup {th[p].hash}
          /\ Become(p, [th[p] EXCEPT !.pc = "source"])
       \/ UNCHANGED vault /\ Become(p, Idle)
    /\ UNCHANGED <<disk, cache, calls, crashes, history>>

(* delete_source, which the cache is not told of; a replacement takes over what
   the user wrote of the target, which may fail. *)
ActSource(p) ==
    /\ th[p].pc = "source"
    /\ LET n == th[p].name IN
       \/ media' = [media EXCEPT ![n] = None] /\ late' = Touched(p, n)
       \/ UNCHANGED <<media, late>>
    /\ \E failed \in {FALSE, th[p].op = "replace"} :
          Become(p, [th[p] EXCEPT !.pc = "unlink", !.failed = failed])
    /\ UNCHANGED <<sidecar, fresh, cache, vault, calls, crashes, given, twin>>

(* _delete_item_after_replacement, which may fail: then both are kept. *)
ActTarget(p) ==
    /\ th[p].pc = "target"
    /\ vault' \in {vault, vault \ {th[p].target}}
    /\ given' = given \cup (vault \ vault')
    /\ Become(p, Idle)
    /\ UNCHANGED <<disk, cache, calls, crashes, late, twin>>

Crash ==
    /\ crashes < MaxCrashes /\ crashes' = crashes + 1
    /\ th' = [p \in Proc |-> Idle] /\ cache' = [CacheOf(NoEntry) EXCEPT !.dirty = TRUE]
    /\ UNCHANGED <<disk, vault, calls, history>>

Step(p) ==
    \/ IngestStores(p) \/ IngestMoves(p) \/ IngestSidecar(p) \/ IngestUpsert(p)
    \/ \E n \in Name : ListExamine(p, n) \/ ListPersist(p, n) \/ Purge(p, n) \/ PurgeOrphan(p, n)
    \/ ListExamined(p) \/ ListReplace(p) \/ Purged(p) \/ CleanEnds(p)
    \/ UnlinkMedia(p) \/ UnlinkSidecar(p) \/ MarkCleanup(p)
    \/ ActNote(p) \/ ActStore(p) \/ ActSource(p) \/ ActTarget(p)

Call(p) ==
    \/ \E c \in Hash : Ingest(p, c)
    \/ \E op \in {"list", "clean"} : ListStart(p, op)
    \/ \E n \in Name, action \in Action, target \in Hash \cup {None} : Act(p, n, action, target)

Next == (\E p \in Proc : Step(p) \/ Call(p)) \/ Crash

Spec == Init /\ [][Next]_vars

-----------------------------------------------------------------------------
(***************************************************************************)
(* Properties.                                                             *)
(***************************************************************************)
(* Types; names that were not given out name nothing; and the counts of the
   page and the hash index are those of the entries, however entries came,
   changed and went. *)
ReviewTypeOK ==
    /\ media \in [Name -> Hash \cup {None}] /\ sidecar \in [Name -> Sidecar \cup {None}]
    /\ vault \subseteq Hash /\ fresh \in 1..(MaxFiles + 1)
    /\ cache.entry \in [Name -> Entry \cup {None}] /\ cache.index \in [Hash -> Name \cup {None}]
    /\ \A n \in Name : n >= fresh => media[n] = None /\ sidecar[n] = None
    /\ ~ cache.dirty =>
        /\ cache.counts = Counts(cache.entry)
        /\ \A h \in Hash : cache.index[h] # None =>
              cache.entry[cache.index[h]] = [hash |-> h, state |-> "pending"]

(* A content that waits in the queue is not taken a second time, also after a
   restart: the cache finds its file - but for a file that changed while a
   listing was under way, and contents that came a second time while a file, an
   entry or a step was left of the first: writing or removing that entry makes
   the cache forget the hash, whichever file it leads to by then. *)
PendingBlocked ==
    ~ cache.dirty =>
        \A n \in Name :
            /\ media[n] # None /\ sidecar[n] = [hash |-> media[n], state |-> "pending"]
            /\ n \notin late /\ media[n] \notin twin
            /\ ~ \E p \in Proc : th[p].name = n
            => cache.index[media[n]] = n

(* Of contents that are similar to each other one stays stored: replacing never
   takes the last of them, also when two replacements name each other. *)
SimilarKept == vault # {}

(* A file leaves the queue only when its content is stored or was given up. *)
NothingDropped ==
    [][\A n \in Name : media[n] # None /\ media'[n] = None => media[n] \in vault \cup given]_vars
=============================================================================
