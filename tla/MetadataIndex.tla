---------------------------- MODULE MetadataIndex ----------------------------
(***************************************************************************)
(* The metadata index of one vault: what the database remembers of the     *)
(* notes on disk (backend/metadata_index.py), and the calls that rewrite   *)
(* notes and bring the index along (metadata_maintenance.py and the item   *)
(* routes of api/library.py).                                              *)
(*                                                                         *)
(* A note is its version - the mtime and size the index compares - and its *)
(* topics.  A row of the index is the version it was taken from and the    *)
(* topics found.  Facet counts are kept per topic and adjusted a few       *)
(* topics at a time.  SQLite lets one connection write: tx is the working  *)
(* copy of the thread that holds the write lock, db what is committed.     *)
(***************************************************************************)
EXTENDS Naturals, FiniteSets

CONSTANTS
    Item, Topic,
    Bad,          \* a note whose front matter does not parse
    Poison,       \* a note whose topics raise while they are parsed
    Gone,         \* no note
    None,
    Callers,      \* threads that serve item calls
    Calls,        \* the calls this instance exercises
    Starts,       \* the notes this instance starts from
    Edits,        \* what the user's editor may write into each note
    MaxPoison,    \* bound: notes that raise at a time
    RepairBatch,  \* REPAIR_BATCH_SIZE
    FullBatch,    \* FULL_REBUILD_BATCH_SIZE
    MaxWrites,    \* bound: versions of one note, but for those a rename adds
    MaxCalls,     \* bound: calls
    MaxRepairs,   \* bound: runs of the repair worker
    MaxCrashes    \* bound: process crashes

Call == {"insert", "patch", "detail", "delete", "rename"}
Repair == "repair"
Watchdog == "watchdog"
Proc == {Repair, Watchdog} \cup Callers
Topics == SUBSET Topic
Parses(text) == text \notin {Bad, Poison, Gone}
Version == Nat

ASSUME MetadataOK ==
    /\ IsFiniteSet(Item) /\ IsFiniteSet(Topic)
    /\ \A T \in Topics : Parses(T)
    /\ Cardinality({Bad, Poison, Gone}) = 3
    /\ None \notin Item \cup Proc /\ {Repair, Watchdog} \cap Callers = {}
    /\ \A s \in Starts : \A h \in Item : s[h] = Gone \/ (Parses(s[h]) /\ s[h] \subseteq Topic)
    /\ Calls \subseteq Call /\ DOMAIN Edits = Item
    /\ \A h \in Item : \A e \in Edits[h] : e # Gone /\ (Parses(e) => e \subseteq Topic)
    /\ RepairBatch \in Nat \ {0} /\ FullBatch \in Nat \ {0}
    /\ MaxPoison \in Nat /\ MaxWrites \in Nat /\ MaxCalls \in Nat /\ MaxRepairs \in Nat /\ MaxCrashes \in Nat

VARIABLES
    note,        \* the notes on disk: version (0: no file) and text
    fresh,       \* the next version of each note
    db,          \* the committed database
    tx, owner,   \* the writer's copy, and the thread that holds the write lock
    th,          \* what each thread is doing
    running,     \* repair_running
    events,      \* file events not yet delivered
    pending, timer, flushing,   \* _watchdog_pending, _timer, _flushing
    known,       \* _watchdog_storage_map
    calls, repairs, crashes,
    drift,       \* history: topics counted from an outdated reading of the index
    blurred      \* history: items stamped with a version nobody read, or left without
                 \* their note by an ingest that failed

disk     == <<note, fresh, events>>
watch    == <<pending, timer, flushing>>
bounds   == <<calls, repairs, crashes>>
history  == <<drift, blurred>>
vars     == <<disk, db, tx, owner, th, running, watch, known, bounds, history>>

-----------------------------------------------------------------------------
(***************************************************************************)
(* The database.                                                           *)
(***************************************************************************)
(* ensure_metadata_schema: the tables, and the items they refer to. *)
Row == [items : SUBSET Item, topics : [Item -> Topics], sig : [Item -> Version],
        status : [Item -> {"none", "ok", "error"}], facet : [Topic -> Nat],
        counted : BOOLEAN, dirty : SUBSET Item, owed : Nat, ready : BOOLEAN]

ASSUME NoneIsNoRow == None \notin Row

Count(D, t) == Cardinality({h \in D.items : t \in D.topics[h]})

(* refresh_metadata_facet_counts_for_values *)
Recount(D, T) ==
    [D EXCEPT !.facet = [t \in Topic |-> IF t \in T THEN Count(D, t) ELSE D.facet[t]],
              !.counted = @ \/ T # {}]

(* rebuild_metadata_facet_counts *)
RecountAll(D) == [Recount(D, Topic) EXCEPT !.counted = TRUE]

(* refresh_metadata_index_counters *)
Refreshed(D) == [D EXCEPT !.owed = Cardinality(D.dirty)]

(* enqueue_metadata_dirty and clear_metadata_dirty: the counter follows only
   when the row comes or goes. *)
AlwaysCounted(D, h) == [D EXCEPT !.dirty = @ \cup {h}, !.owed = @ + 1]
Enqueued(D, h) ==
    [D EXCEPT !.dirty = @ \cup {h}, !.owed = IF h \in D.dirty THEN @ ELSE @ + 1]
Cleared(D, h) ==
    [D EXCEPT !.dirty = @ \ {h}, !.owed = IF h \in D.dirty THEN @ - 1 ELSE @]

(* DELETE FROM items; the rows that refer to the item go by cascade. *)
Without(D, h) ==
    [D EXCEPT !.items = @ \ {h}, !.dirty = @ \ {h},
              !.topics[h] = {}, !.sig[h] = 0, !.status[h] = "none"]
Dropped(D, h, T) == Refreshed(Recount(Without(D, h), T))

TopicsOf(text) == IF Parses(text) THEN text ELSE {}

(* reindex_item_metadata from the version v and the text it read. *)
IndexedNewOnly(D, h, v, text) ==
    LET E == [D EXCEPT !.topics[h] = TopicsOf(text), !.sig[h] = v, !.status[h] = "ok"]
    IN Cleared(Recount(E, TopicsOf(text)), h)
Indexed(D, h, v, text) ==
    LET E == [D EXCEPT !.topics[h] = TopicsOf(text), !.sig[h] = v,
                       !.status[h] = IF text = Bad THEN "error" ELSE "ok"]
    IN Cleared(Recount(E, D.topics[h] \cup TopicsOf(text)), h)

(* mark_metadata_index_error: the topics of the item stay as they were. *)
Marked(D, h, v) == [D EXCEPT !.sig[h] = v, !.status[h] = "error"]

(* rebuild_all_metadata starts from nothing. *)
EmptiedReady(D) ==
    [D EXCEPT !.dirty = {}, !.owed = 0,
              !.topics = [h \in Item |-> {}], !.sig = [h \in Item |-> 0],
              !.status = [h \in Item |-> "none"], !.facet = [t \in Topic |-> 0]]
Emptied(D) ==
    [D EXCEPT !.ready = FALSE, !.counted = FALSE, !.dirty = {}, !.owed = 0,
              !.topics = [h \in Item |-> {}], !.sig = [h \in Item |-> 0],
              !.status = [h \in Item |-> "none"], !.facet = [t \in Topic |-> 0]]

(* _row_stale; an error row is no different. *)
Stale(D, h) == D.status[h] = "none" \/ D.sig[h] # note[h].version

Idle == [op |-> "none", pc |-> "idle", todo |-> {}, item |-> None, seen |-> 0,
         queued |-> 0, rows |-> {}, keep |-> {}, arg |-> <<>>]

(* A vault whose index is up to date. *)
Init ==
    /\ \E text \in Starts :
          LET S == {h \in Item : text[h] # Gone}
              v == [h \in Item |-> IF h \in S THEN 1 ELSE 0] IN
          /\ note = [h \in Item |-> [version |-> v[h], text |-> text[h]]]
          /\ fresh = [h \in Item |-> v[h] + 1]
          /\ known = S
          /\ db = [items |-> S, topics |-> [h \in Item |-> TopicsOf(text[h])], sig |-> v,
                   status |-> [h \in Item |-> IF h \in S THEN "ok" ELSE "none"],
                   facet |-> [t \in Topic |-> Cardinality({h \in S : t \in text[h]})],
                   counted |-> TRUE, dirty |-> {}, owed |-> 0, ready |-> TRUE]
    /\ tx = None /\ owner = None
    /\ th = [p \in Proc |-> Idle]
    /\ running = FALSE
    /\ events = {} /\ pending = {} /\ timer = FALSE /\ flushing = FALSE
    /\ calls = 0 /\ repairs = 0 /\ crashes = 0
    /\ drift = {} /\ blurred = {}

(* The first statement of a thread that writes takes the write lock. *)
CanWrite(p) == owner \in {None, p}
View(p) == IF owner = p THEN tx ELSE db
Writes(p, D) == owner' = p /\ tx' = D
Commit(D) == db' = D /\ owner' = None /\ tx' = None
Rollback(p) ==
    /\ UNCHANGED db
    /\ IF owner = p THEN owner' = None /\ tx' = None ELSE UNCHANGED <<owner, tx>>

(* A write of a note is seen by the observer. *)
Written(h, text) ==
    /\ note' = [note EXCEPT ![h] = [version |-> fresh[h], text |-> text]]
    /\ fresh' = [fresh EXCEPT ![h] = @ + 1]
    /\ events' = events \cup {h}
Removed(h) ==
    /\ note' = [note EXCEPT ![h] = [version |-> 0, text |-> Gone]]
    /\ events' = events \cup {h}
    /\ UNCHANGED fresh

Become(p, r) == th' = [th EXCEPT ![p] = r]

-----------------------------------------------------------------------------
(***************************************************************************)
(* safe_reindex_item_metadata, item after item in one transaction.  The    *)
(* index takes the version of a note before it reads the note.             *)
(***************************************************************************)
Enqueue(p, h) ==
    /\ th[p].pc = "next" /\ h \in th[p].todo
    /\ CanWrite(p) /\ h \in View(p).items
    /\ Writes(p, Enqueued(View(p), h))
    /\ known' = known \cup {h}
    /\ Become(p, [th[p] EXCEPT !.pc = "read", !.item = h, !.seen = note[h].version,
                               !.todo = @ \ {h}])
    /\ UNCHANGED <<disk, db, running, watch, bounds, history>>

(* A note that was moved away after its version was taken counts as empty; a
   delete that fails moves it back. *)
Missed(h, seen) == IF note[h].text = Gone /\ seen # 0 THEN {h} ELSE {}

Read(p) ==
    /\ th[p].pc = "read"
    /\ LET h == th[p].item
           n == note[h]
       IN tx' = IF n.text = Poison THEN Marked(tx, h, n.version)
                                   ELSE Indexed(tx, h, th[p].seen, n.text)
    /\ blurred' = blurred \cup Missed(th[p].item, th[p].seen)
    /\ Become(p, [th[p] EXCEPT !.pc = "next", !.item = None, !.seen = 0])
    /\ UNCHANGED <<disk, db, owner, running, watch, known, bounds, drift>>

Reindexed(p, op) == th[p].op = op /\ th[p].pc = "next" /\ th[p].todo = {}

(* A row for an item that is gone breaks the foreign key; a writer that
   waits too long for the lock gives up. *)
Refused(p) ==
    /\ th[p].pc = "next" /\ th[p].todo # {}
    /\ ~ CanWrite(p) \/ \E h \in th[p].todo : h \notin View(p).items

-----------------------------------------------------------------------------
(***************************************************************************)
(* The repair worker.                                                      *)
(***************************************************************************)
(* start_metadata_repair_worker *)
StartRepair(full) ==
    /\ ~ running /\ repairs < MaxRepairs
    /\ running' = TRUE /\ repairs' = repairs + 1
    /\ Become(Repair, [Idle EXCEPT !.op = IF full THEN "full" ELSE "dirty", !.pc = "start"])
    /\ UNCHANGED <<disk, db, tx, owner, watch, known, calls, crashes, history>>

StopRepair == Become(Repair, Idle) /\ running' = FALSE

(* reindex_stale_metadata_batch: the oldest entries of the dirty queue. *)
PickBatch ==
    /\ th[Repair].op = "dirty" /\ th[Repair].pc = "start"
    /\ \E H \in SUBSET db.dirty :
          /\ Cardinality(H) <= RepairBatch
          /\ H = db.dirty \/ Cardinality(H) = RepairBatch
          /\ Become(Repair, [th[Repair] EXCEPT !.pc = "next", !.todo = H,
                                               !.queued = Cardinality(H)])
    /\ UNCHANGED <<disk, db, tx, owner, running, watch, known, bounds, history>>

(* _repair_worker: a batch that was full, or left nothing, is followed by
   another. *)
WhileLeft(queued, left) == left \/ queued >= RepairBatch
Again(queued, left) == (queued > 0 /\ ~ left) \/ queued >= RepairBatch

EndBatch ==
    /\ Reindexed(Repair, "dirty")
    /\ IF owner = Repair THEN Commit(tx) ELSE UNCHANGED <<db, tx, owner>>
    /\ IF Again(th[Repair].queued, View(Repair).dirty # {})
         THEN Become(Repair, [Idle EXCEPT !.op = "dirty", !.pc = "start"]) /\ UNCHANGED running
         ELSE StopRepair
    /\ UNCHANGED <<disk, watch, known, bounds, history>>

RepairFails ==
    /\ Rollback(Repair) /\ StopRepair
    /\ UNCHANGED <<disk, watch, known, bounds, history>>

BatchFails == th[Repair].op = "dirty" /\ Refused(Repair) /\ RepairFails

(* rebuild_all_metadata.  The rows are written, and the lock given up, batch
   by batch. *)
FullBegin ==
    /\ th[Repair].op = "full" /\ th[Repair].pc = "start" /\ CanWrite(Repair)
    /\ Writes(Repair, Emptied(db))
    /\ Become(Repair, [th[Repair] EXCEPT !.pc = "full", !.todo = db.items])
    /\ UNCHANGED <<disk, db, running, watch, known, bounds, history>>

Full == th[Repair].op = "full" /\ th[Repair].pc = "full"
BatchFull == Cardinality(th[Repair].rows) = FullBatch

FullSign ==
    /\ Full /\ ~ BatchFull
    /\ \E h \in th[Repair].todo :
          /\ known' = known \cup {h}
          /\ Become(Repair, [th[Repair] EXCEPT !.pc = "load", !.item = h, !.seen = note[h].version])
    /\ UNCHANGED <<disk, db, tx, owner, running, watch, bounds, history>>

FullLoad ==
    /\ th[Repair].pc = "load"
    /\ LET h == th[Repair].item IN
          /\ note[h].text # Poison
          /\ Become(Repair, [th[Repair] EXCEPT !.pc = "full", !.item = None, !.seen = 0,
                !.todo = @ \ {h},
                !.rows = @ \cup {[item |-> h, version |-> th[Repair].seen, text |-> note[h].text]}])
          /\ blurred' = blurred \cup Missed(h, th[Repair].seen)
    /\ UNCHANGED <<disk, db, tx, owner, running, watch, known, bounds, drift>>

RowOf(R, h) == CHOOSE r \in R : r.item = h
HasRow(R, h) == \E r \in R : r.item = h

(* flush: plain INSERTs, which a row already there or an item no longer there
   refuses. *)
Stored(D, R) ==
    [D EXCEPT
       !.topics = [h \in Item |-> IF HasRow(R, h) THEN TopicsOf(RowOf(R, h).text) ELSE @[h]],
       !.sig    = [h \in Item |-> IF HasRow(R, h) THEN RowOf(R, h).version ELSE @[h]],
       !.status = [h \in Item |-> IF HasRow(R, h)
                                    THEN (IF RowOf(R, h).text = Bad THEN "error" ELSE "ok")
                                    ELSE @[h]]]
Fits(D, R) == \A r \in R : r.item \in D.items /\ D.status[r.item] = "none"

FullFlush ==
    /\ Full /\ BatchFull /\ CanWrite(Repair)
    /\ Fits(View(Repair), th[Repair].rows)
    /\ Commit(Stored(View(Repair), th[Repair].rows))
    /\ Become(Repair, [th[Repair] EXCEPT !.rows = {}])
    /\ UNCHANGED <<disk, running, watch, known, bounds, history>>

FullEnd ==
    /\ Full /\ ~ BatchFull /\ th[Repair].todo = {} /\ CanWrite(Repair)
    /\ Fits(View(Repair), th[Repair].rows)
    /\ LET D == RecountAll(Stored(View(Repair), th[Repair].rows))
       IN Commit([Refreshed(D) EXCEPT !.ready = TRUE])
    /\ StopRepair
    /\ UNCHANGED <<disk, watch, known, bounds, history>>

FullFails ==
    /\ th[Repair].op = "full"
    /\ \/ th[Repair].pc \in {"start", "full"} /\ ~ CanWrite(Repair)
       \/ th[Repair].pc = "load" /\ note[th[Repair].item].text = Poison
       \/ Full /\ ~ Fits(View(Repair), th[Repair].rows)
    /\ RepairFails

-----------------------------------------------------------------------------
(***************************************************************************)
(* The watchdog.                                                           *)
(***************************************************************************)
(* on_any_event and _watchdog_queue_hashes *)
Deliver(h) ==
    /\ h \in events /\ events' = events \ {h}
    /\ IF h \in known
         THEN pending' = pending \cup {h} /\ timer' = (timer \/ ~ flushing)
         ELSE UNCHANGED <<pending, timer>>
    /\ UNCHANGED <<note, fresh, db, tx, owner, th, running, flushing, known, bounds, history>>

(* _watchdog_flush *)
StartFlush ==
    /\ timer /\ timer' = FALSE
    /\ th[Watchdog].op = "none"
    /\ flushing' = (pending # {})
    /\ IF pending = {} THEN UNCHANGED th
       ELSE Become(Watchdog, [Idle EXCEPT !.op = "flush", !.pc = "next", !.todo = pending,
                                          !.keep = pending])
    /\ UNCHANGED <<disk, db, tx, owner, running, pending, known, bounds, history>>

EndFlush ==
    /\ Reindexed(Watchdog, "flush") /\ Commit(tx)
    /\ pending' = pending \ th[Watchdog].keep
    /\ flushing' = FALSE /\ timer' = (timer \/ pending' # {})
    /\ Become(Watchdog, Idle)
    /\ UNCHANGED <<disk, running, known, bounds, history>>

(* What was to be reindexed stays pending, and is tried again. *)
FlushFails ==
    /\ th[Watchdog].op = "flush" /\ Refused(Watchdog) /\ Rollback(Watchdog)
    /\ flushing' = FALSE /\ timer' = TRUE
    /\ Become(Watchdog, Idle)
    /\ UNCHANGED <<disk, running, pending, known, bounds, history>>

-----------------------------------------------------------------------------
(***************************************************************************)
(* Calls.  Those that write a note or move it away hold the item's         *)
(* storage_lifecycle_lock; a refresh and an ingest do not.                 *)
(***************************************************************************)
Holds(q) ==
    CASE th[q].op = "patch" -> {th[q].item} \cup th[q].todo
      [] th[q].op \in {"delete", "rename"} -> {th[q].item}
      [] OTHER -> {}
Unlocked(p, h) == \A q \in Callers \ {p} : h \notin Holds(q)

Begin(p, op) ==
    /\ op \in Calls /\ th[p].op = "none" /\ calls < MaxCalls
    /\ calls' = calls + 1
    /\ UNCHANGED <<repairs, crashes>>

(* process_file: the row is inserted before the note is written. *)
Insert(p, h, text) ==
    /\ Begin(p, "insert") /\ h \notin db.items /\ owner = None
    /\ fresh[h] <= MaxWrites
    /\ Writes(p, [db EXCEPT !.items = @ \cup {h}])
    /\ Written(h, text)
    /\ Become(p, [Idle EXCEPT !.op = "insert", !.pc = "next", !.todo = {h}, !.keep = {h}])
    /\ UNCHANGED <<db, running, watch, known, history>>

(* _update_item_sync *)
Patch(p, h, text) ==
    /\ Begin(p, "patch") /\ h \in db.items /\ Unlocked(p, h) /\ fresh[h] <= MaxWrites
    /\ Written(h, text)
    /\ Become(p, [Idle EXCEPT !.op = "patch", !.pc = "next", !.todo = {h}])
    /\ UNCHANGED <<db, tx, owner, running, watch, known, history>>

(* indexed_item_metadata *)
Detail(p, h) ==
    /\ Begin(p, "detail") /\ h \in db.items /\ Stale(db, h)
    /\ Become(p, [Idle EXCEPT !.op = "detail", !.pc = "next", !.todo = {h}])
    /\ UNCHANGED <<disk, db, tx, owner, running, watch, known, history>>

EndCall(p) ==
    /\ \E op \in {"insert", "patch", "detail"} : Reindexed(p, op)
    /\ Commit(tx) /\ Become(p, Idle)
    /\ UNCHANGED <<disk, running, watch, known, bounds, history>>

CallFails(p) ==
    /\ th[p].op \in {"patch", "detail"} /\ Refused(p)
    /\ Rollback(p) /\ Become(p, Idle)
    /\ UNCHANGED <<disk, running, watch, known, bounds, history>>

(* Anything may go wrong with an ingest; it gives up its transaction, and then
   takes its note back. *)
InsertFails(p) ==
    /\ th[p].op = "insert" /\ th[p].pc = "next"
    /\ Rollback(p)
    /\ \E h \in th[p].keep : Become(p, [Idle EXCEPT !.op = "insert", !.pc = "unlink", !.item = h])
    /\ UNCHANGED <<disk, running, watch, known, bounds, history>>

(* By then the note may be the one of a second ingest of the content. *)
InsertUnlink(p) ==
    /\ th[p].pc = "unlink" /\ Removed(th[p].item) /\ Become(p, Idle)
    /\ blurred' = blurred \cup ({th[p].item} \cap db.items)
    /\ UNCHANGED <<db, tx, owner, running, watch, known, bounds, drift>>

(* _delete_item_row_locked: the topics of the item are read, then its files
   are moved away, and only then is the write lock taken. *)
DeleteStage(p, h) ==
    /\ Begin(p, "delete") /\ h \in db.items /\ Unlocked(p, h)
    /\ Become(p, [Idle EXCEPT !.op = "delete", !.pc = "drop", !.item = h,
                              !.keep = db.topics[h], !.arg = note[h]])
    /\ Removed(h)
    /\ UNCHANGED <<db, tx, owner, running, watch, known, history>>

DeleteDrop(p) ==
    /\ th[p].pc = "drop" /\ CanWrite(p)
    /\ LET h == th[p].item IN
          /\ Commit(Dropped(db, h, th[p].keep))
          /\ drift' = drift \cup (db.topics[h] \ th[p].keep)
    /\ Become(p, Idle)
    /\ UNCHANGED <<disk, running, watch, known, bounds, blurred>>

DeleteFails(p) ==
    /\ th[p].pc = "drop" /\ ~ CanWrite(p)
    /\ LET h == th[p].item IN
          IF note[h].text = Gone
            THEN note' = [note EXCEPT ![h] = th[p].arg] /\ events' = events \cup {h}
            ELSE UNCHANGED <<note, events>>
    /\ Become(p, Idle)
    /\ UNCHANGED <<fresh, db, tx, owner, running, watch, known, bounds, history>>

(* rewrite_topic_refs_across_workspace: t becomes u, or goes when u is None.
   The item's rows are taken from the text just written, the version from the
   file as it is afterwards, and only the counts of t and u are refreshed. *)
Rename(p, t, u) ==
    /\ Begin(p, "rename") /\ u # t
    /\ Become(p, [Idle EXCEPT !.op = "rename", !.pc = "rewrite", !.arg = <<t, u>>,
                              !.todo = {h \in db.items : t \in db.topics[h]}])
    /\ UNCHANGED <<disk, db, tx, owner, running, watch, known, history>>

Refs(p) == {th[p].arg[1], th[p].arg[2]} \cap Topic
Renamed(p, T) == (T \cup Refs(p)) \ {th[p].arg[1]}

Rewrite(p, h) ==
    /\ th[p].pc = "rewrite" /\ h \in th[p].todo /\ Unlocked(p, h)
    /\ LET text == note[h].text
           there == h \in View(p).items /\ text # Gone
           snapshot == IF there THEN {[item |-> h, version |-> 0, text |-> text]} ELSE {}
           r == [th[p] EXCEPT !.todo = @ \ {h}, !.rows = @ \cup snapshot] IN
       IF there /\ Parses(text) /\ th[p].arg[1] \in text
         THEN /\ Written(h, Renamed(p, text))
              /\ Become(p, [r EXCEPT !.pc = "restamp", !.item = h, !.seen = fresh[h],
                                     !.keep = Renamed(p, text)])
         ELSE Become(p, r) /\ UNCHANGED disk
    /\ UNCHANGED <<db, tx, owner, running, watch, known, bounds, history>>

RestampFromIndex(p) ==
    /\ th[p].pc = "restamp" /\ CanWrite(p)
    /\ LET h == th[p].item IN
          Writes(p, [View(p) EXCEPT !.topics[h] = Renamed(p, @), !.sig[h] = note[h].version,
                                    !.status[h] = "ok"])
    /\ Become(p, [th[p] EXCEPT !.pc = "rewrite", !.item = None, !.seen = 0, !.keep = {}])
    /\ UNCHANGED <<disk, db, running, watch, known, bounds, history>>

Restamp(p) ==
    /\ th[p].pc = "restamp"
    /\ LET h == th[p].item IN
       IF CanWrite(p)
         THEN LET D == View(p) IN
              /\ Writes(p, [D EXCEPT !.topics[h] = th[p].keep, !.sig[h] = note[h].version,
                                     !.status[h] = "ok"])
              /\ drift' = drift \cup (((D.topics[h] \cup th[p].keep)
                                         \ (D.topics[h] \cap th[p].keep)) \ Refs(p))
              /\ blurred' = IF note[h].version = th[p].seen THEN blurred ELSE blurred \cup {h}
         ELSE UNCHANGED <<tx, owner, history>>
    /\ Become(p, [th[p] EXCEPT !.pc = "rewrite", !.item = None, !.seen = 0, !.keep = {}])
    /\ UNCHANGED <<disk, db, running, watch, known, bounds>>

RenameEnd(p) ==
    /\ th[p].pc = "rewrite" /\ th[p].todo = {}
    /\ IF owner = p
         THEN Commit(Refreshed(Recount(tx, Refs(p))))
         ELSE UNCHANGED <<db, tx, owner>>
    /\ Become(p, Idle)
    /\ UNCHANGED <<disk, running, watch, known, bounds, history>>

(* _restore_note_snapshots after the rollback: every note the rename looked at,
   also those it did not change. *)
RenameFails(p) ==
    /\ th[p].pc = "rewrite" /\ th[p].todo = {} /\ owner = p
    /\ Rollback(p)
    /\ LET R == {r \in th[p].rows : r.item \in db.items} IN
          /\ note' = [h \in Item |-> IF HasRow(R, h)
                         THEN [version |-> fresh[h], text |-> RowOf(R, h).text] ELSE note[h]]
          /\ fresh' = [h \in Item |-> IF HasRow(R, h) THEN fresh[h] + 1 ELSE fresh[h]]
          /\ events' = events \cup {r.item : r \in R}
    /\ Become(p, Idle)
    /\ UNCHANGED <<running, watch, known, bounds, history>>

(* A tag of the image model is renamed, merged and deleted by the same steps. *)
RenameStep(p) ==
    \/ \E h \in Item : Rewrite(p, h)
    \/ Restamp(p) \/ RenameEnd(p) \/ RenameFails(p)

-----------------------------------------------------------------------------
(* The user's editor knows nothing of the index. *)
Edit(h, text) ==
    /\ note[h].text # Gone /\ text # note[h].text /\ fresh[h] <= MaxWrites
    /\ text = Poison => Cardinality({g \in Item : note[g].text = Poison}) < MaxPoison
    /\ Written(h, text)
    /\ UNCHANGED <<db, tx, owner, th, running, watch, known, bounds, history>>

Crash ==
    /\ crashes < MaxCrashes /\ crashes' = crashes + 1
    /\ th' = [p \in Proc |-> Idle] /\ owner' = None /\ tx' = None /\ running' = FALSE
    /\ events' = {} /\ pending' = {} /\ timer' = FALSE /\ flushing' = FALSE
    /\ known' = db.items
    /\ UNCHANGED <<note, fresh, db, calls, repairs, history>>

RepairStep ==
    \/ \E h \in Item : Enqueue(Repair, h)
    \/ Read(Repair) \/ PickBatch \/ EndBatch \/ BatchFails
    \/ FullBegin \/ FullSign \/ FullLoad \/ FullFlush \/ FullEnd \/ FullFails

FlushStep ==
    \/ \E h \in Item : Enqueue(Watchdog, h)
    \/ Read(Watchdog) \/ EndFlush \/ FlushFails

CallStep(p) ==
    \/ \E h \in Item : Enqueue(p, h)
    \/ Read(p) \/ EndCall(p) \/ CallFails(p) \/ InsertFails(p) \/ InsertUnlink(p)
    \/ DeleteDrop(p) \/ DeleteFails(p)
    \/ RenameStep(p)

NewCall(p) ==
    \/ \E h \in Item : Detail(p, h) \/ DeleteStage(p, h)
    \/ \E h \in Item, text \in Topics : Insert(p, h, text) \/ Patch(p, h, text)
    \/ \E t \in Topic, u \in Topic \cup {None} : Rename(p, t, u)

Next ==
    \/ \E full \in BOOLEAN : StartRepair(full)
    \/ RepairStep \/ FlushStep \/ StartFlush
    \/ \E h \in Item : Deliver(h)
    \/ \E p \in Callers : CallStep(p) \/ NewCall(p)
    \/ \E h \in Item : \E text \in Edits[h] : Edit(h, text)
    \/ Crash

Spec == Init /\ [][Next]_vars

(* The repair worker is a thread; the lock it waits for is given up, or it
   gives up the wait. *)
FairSpec == Spec /\ WF_vars(RepairStep)

-----------------------------------------------------------------------------
(***************************************************************************)
(* Properties.                                                             *)
(***************************************************************************)
(* Types; a row of the index or of the dirty queue belongs to an item, and the
   counter that the status shows is the length of that queue, whichever way
   entries came and went. *)
MetaTypeOK ==
    /\ db \in Row /\ (tx = None \/ tx \in Row) /\ owner \in Proc \cup {None}
    /\ (owner = None) = (tx = None)
    /\ db.dirty \subseteq db.items /\ db.owed = Cardinality(db.dirty)
    /\ \A h \in Item \ db.items : db.status[h] = "none" /\ db.topics[h] = {}
    /\ \A h \in Item : note[h].version \in Version
                       /\ Parses(note[h].text) => note[h].text \subseteq Topic
    /\ running \in BOOLEAN /\ timer \in BOOLEAN /\ flushing \in BOOLEAN
    /\ events \subseteq Item /\ pending \subseteq Item /\ known \subseteq Item

(* The counts shown as facets are those of the index, whichever topics each
   transaction chose to recount, unless a delete went by what the index said
   before a reindexing in between, or a rename found other changes in a note. *)
FacetsExact ==
    db.ready => \A t \in Topic \ drift : db.facet[t] = Count(db, t)

(* A row whose version is that of the note has the note's topics, so a note
   that was edited can always be told from one that was not; and a note whose
   indexing raised is still in the dirty queue, as nothing else would come back
   to it. *)
CurrentMeansRead ==
    \A h \in db.items \ blurred : db.sig[h] = note[h].version =>
        /\ db.status[h] = "ok" /\ note[h].text # Gone => db.topics[h] = TopicsOf(note[h].text)
        /\ db.status[h] = "error" /\ note[h].text = Poison => h \in db.dirty

(* An index that calls itself ready has a row for every item, also when items
   come and go while a full rebuild commits its batches. *)
ReadyComplete == db.ready => \A h \in db.items : db.status[h] # "none"

(* A run of the repair worker ends, as long as fewer notes raise than fit in a
   batch. *)
RepairEnds == running ~> ~ running
=============================================================================
