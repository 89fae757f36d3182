--------------------------- MODULE ItemLifecycle ---------------------------
(***************************************************************************)
(* The life of one vault's items: how backend/processor.py stores a file,  *)
(* how backend/api/library.py deletes or edits an item, how thumbnails and *)
(* the tagger publish derived files, and how a partly ingested URL is      *)
(* taken back by backend/external_ingestion.py.  All of them run on        *)
(* threads of one process and share                                        *)
(*                                                                         *)
(*   - the items table of SQLite (one write transaction at a time, others  *)
(*     wait at most the 5 s busy timeout and then fail),                   *)
(*   - the files of the vault, named by shard and storage id,              *)
(*   - the lifecycle locks, a pool of RLocks chosen by storage id,         *)
(*   - the RAM index of duplicates, rebuilt from the table at start-up.    *)
(*                                                                         *)
(* A file's content is its hash.  Paths lose the rest of the hash: two     *)
(* contents of one shard and one extension get the same path for the same  *)
(* storage id.                                                             *)
(***************************************************************************)
EXTENDS Naturals, FiniteSets

CONSTANTS
    Hash,        \* contents that may be offered for ingestion
    Worker,      \* threads: platform workers, local ingest, API requests
    None,        \* no storage id, no owner
    Shard,       \* directories below assets/, notes/, ...
    ShardOf,     \* the shard of a content: the first two digits of its hash
    Stripe,      \* the locks of the lifecycle pool
    StripeOf,    \* the lock a storage id hashes to
    Similar,     \* pairs of contents whose perceptual hashes are close
    Ops,         \* the operations this instance exercises
    MayIngest,   \* which contents each thread is given
    Online,      \* threads of the online ingest: they sync the index in batch
    Faults,      \* the steps that may raise: "pipeline", "index", "stage"
    MaxId,       \* bound: storage ids handed out
    MaxJobs,     \* bound: operations started
    MaxCrashes   \* bound: process crashes

Id == 1..MaxId
Kind == {"asset", "note", "wd", "thumb"}
File == [kind: Kind, shard: Shard, id: Id, hash: Hash]
PC == {"idle", "check", "similar", "copy", "store", "tag", "commit", "thumb",
       "publish", "index", "unlink", "undoDb", "undoFiles", "begin", "lock", "write",
       "reindex", "list", "stage", "remove", "restore", "deindex", "purge",
       "takeback", "takenback", "deindexBatch"}
Op == {"ingest", "delete", "update", "edit", "tag", "thumb", "rollback"}

ASSUME ParametersOK ==
    /\ MaxId \in Nat /\ MaxJobs \in Nat /\ MaxCrashes \in Nat
    /\ ShardOf \in [Hash -> Shard]
    /\ StripeOf \in [1..MaxId -> Stripe]
    /\ Similar \subseteq Hash \X Hash
    /\ Ops \subseteq Op
    /\ MayIngest \in [Worker -> SUBSET Hash]
    /\ Online \subseteq Worker
    /\ None \notin (1..MaxId) \cup Worker \cup Hash /\ None \notin Op

VARIABLES
    row,         \* the committed items table: content -> storage id
    counter,     \* the committed storage_id_counter.next_value
    writer,      \* the thread whose write transaction is open
    rowW,        \* the items table as the open transaction sees it
    counterW,    \* the counter as the open transaction sees it
    disk,        \* files at their place in the vault
    trash,       \* files moved to .delete-trash or .replace-trash
    index,       \* contents the RAM duplicate index knows
    review,      \* contents moved to review/ with a pending sidecar
    lock,        \* who holds each lifecycle lock
    pc, op,      \* the thread's next step and its operation
    obj,         \* the content the operation is about
    aid,         \* the id allocated, or the id of the lock taken
    sid,         \* the storage id of the row it works on
    due,         \* what this delete has yet to stage
    moved,       \* what this delete staged
    batch,       \* contents the thread's URL stored, not yet indexed
    failed,      \* a file of the thread's URL was not stored
    jobs, crashes,
    upserted,    \* history: contents inserted over an existing row
    mislocked,   \* history: contents deleted under the lock of another id
    reissued,    \* history: ids handed out again before their files were gone
    robbed,      \* history: ids of items whose files an error let go
    undone,      \* history: contents of which an ingest raised
    retracted,   \* history: contents taken back with their URL
    unseen       \* history: contents stored without the index knowing in time

db    == <<row, counter, writer, rowW, counterW>>
files == <<disk, trash>>
url   == <<batch, failed>>
self  == <<op, obj, aid, sid, due, moved>>
past  == <<upserted, mislocked, reissued, robbed, undone, retracted, unseen>>
meta  == <<jobs, crashes, past>>
vars  == <<db, files, index, review, lock, pc, self, url, meta>>

Goto(w, l) == pc' = [pc EXCEPT ![w] = l]

(* storage_asset_path_for, note_path_for, wd_tag_cache_path_for,
   thumbnail_path_for: <kind>/<shard>/<storage id>.<ext> *)
FileOf(k, h, i) == [kind |-> k, shard |-> ShardOf[h], id |-> i, hash |-> h]
SamePath(f, g) == f.kind = g.kind /\ f.shard = g.shard /\ f.id = g.id
Put(D, F) == {g \in D : \A f \in F : ~SamePath(f, g)} \cup F
Unlink(D, F) == {g \in D : \A f \in F : ~SamePath(f, g)}
Exists(k, h, i) == \E g \in disk : SamePath(g, FileOf(k, h, i))

(* discover_owned_paths: every file named by the id, in any shard *)
Owned(i) == {f \in disk : f.id = i}

(* SQLite: the next writer starts once no other transaction is open, or
   gives up after the busy timeout. *)
WriteFree == writer = None
Busy(w) == writer \notin {None, w}
BeginWrite(w) == writer' = w
CommitTxn ==
    /\ row' = rowW /\ counter' = counterW /\ writer' = None
    /\ UNCHANGED <<rowW, counterW>>
RollbackTxn ==
    /\ rowW' = row /\ counterW' = counter /\ writer' = None
    /\ UNCHANGED <<row, counter>>

(* storage_lifecycle_lock *)
PrivateLock(i) == i \in Id     \* mutant: a new lock object for every caller
LockFree(i) == lock[StripeOf[i]] = None
Acquire(w, i) == LockFree(i) /\ lock' = [lock EXCEPT ![StripeOf[i]] = w]
Release(w) == lock' = [s \in Stripe |-> IF lock[s] = w THEN None ELSE lock[s]]

Init ==
    /\ row = [h \in Hash |-> None] /\ rowW = row
    /\ counter = 1 /\ counterW = 1 /\ writer = None
    /\ disk = {} /\ trash = {} /\ index = {} /\ review = {}
    /\ lock = [s \in Stripe |-> None]
    /\ pc = [w \in Worker |-> "idle"]
    /\ op = [w \in Worker |-> None] /\ obj = op /\ aid = op /\ sid = op
    /\ due = [w \in Worker |-> {}] /\ moved = due
    /\ batch = [w \in Worker |-> {}]
    /\ failed = [w \in Worker |-> FALSE]
    /\ jobs = 0 /\ crashes = 0
    /\ upserted = {} /\ mislocked = {} /\ reissued = {} /\ robbed = {}
    /\ undone = {} /\ retracted = {} /\ unseen = {}

-----------------------------------------------------------------------------
(***************************************************************************)
(* Starting and ending an operation.                                       *)
(***************************************************************************)

(* A thread takes up an operation.  Deleting, editing, tagging and serving
   a thumbnail read the item's row first and do nothing without it. *)
Start(w, o, h) ==
    /\ pc[w] = "idle" /\ o \in Ops \ {"rollback"} /\ jobs < MaxJobs
    /\ o = "ingest" => h \in MayIngest[w]
    /\ o # "ingest" => row[h] # None
    /\ pc' = [pc EXCEPT ![w] = CASE o = "ingest" -> "check"
                                 [] o = "update" -> "begin"
                                 [] OTHER -> "lock"]
    /\ op' = [op EXCEPT ![w] = o] /\ obj' = [obj EXCEPT ![w] = h]
    /\ aid' = [aid EXCEPT ![w] = IF o \in {"ingest", "update"} THEN None ELSE row[h]]
    \* the first file of a URL starts with nothing failed
    /\ \E again \in BOOLEAN :
          /\ again \/ batch[w] = {}
          /\ failed' = [failed EXCEPT ![w] = again /\ failed[w]]
    /\ jobs' = jobs + 1
    /\ UNCHANGED <<db, files, index, review, lock, sid, due, moved, batch, crashes, past>>

(* The thread is free again; nothing of the operation is kept. *)
Forget(w) ==
    /\ Goto(w, "idle")
    /\ op' = [op EXCEPT ![w] = None] /\ obj' = [obj EXCEPT ![w] = None]
    /\ aid' = [aid EXCEPT ![w] = None] /\ sid' = [sid EXCEPT ![w] = None]
    /\ due' = [due EXCEPT ![w] = {}] /\ moved' = [moved EXCEPT ![w] = {}]

(* A file that was not stored: the whole URL counts as not processed. *)
FileNotStored(w) ==
    /\ Forget(w)
    /\ failed' = [failed EXCEPT ![w] = w \in Online]
    /\ UNCHANGED batch

-----------------------------------------------------------------------------
(***************************************************************************)
(* process_file                                                            *)
(***************************************************************************)

(* Already pending review, or an exact duplicate: rejected. *)
CheckReject(w) ==
    /\ pc[w] = "check"
    /\ obj[w] \in review \/ row[obj[w]] # None
    /\ FileNotStored(w)
    /\ UNCHANGED <<db, files, index, review, lock, meta>>

CheckPass(w) ==
    /\ pc[w] = "check"
    /\ obj[w] \notin review /\ row[obj[w]] = None
    /\ Goto(w, "similar")
    /\ UNCHANGED <<db, files, index, review, lock, self, url, meta>>

(* find_visual_duplicate, find_video_duplicate: what the RAM index holds. *)
Close == Similar \cup {<<p[2], p[1]>> : p \in Similar}
Conflicts(h) == {g \in index : g = h \/ <<g, h>> \in Close}

(* _move_to_review: the file leaves the inbox for review/. *)
SimilarReview(w) ==
    /\ pc[w] = "similar" /\ Conflicts(obj[w]) # {}
    /\ review' = review \cup {obj[w]}
    /\ FileNotStored(w)
    /\ UNCHANGED <<db, files, index, lock, meta>>

(* Contents that have passed this point and that the index does not have.  *)
OnItsWay(g) ==
    \E v \in Worker :
        \/ op[v] = "ingest" /\ obj[v] = g
           /\ pc[v] \in {"copy", "store", "tag", "commit", "thumb", "publish", "index", "unlink"}
        \/ g \in batch[v]

SimilarPass(w) ==
    /\ pc[w] = "similar" /\ Conflicts(obj[w]) = {}
    /\ Goto(w, "copy")
    /\ unseen' = IF \E g \in Hash : <<g, obj[w]>> \in Close /\ OnItsWay(g)
                   THEN unseen \cup {obj[w]} ELSE unseen
    /\ UNCHANGED <<db, files, index, review, lock, self, url, jobs, crashes,
                   upserted, mislocked, reissued, robbed, undone, retracted>>

(* The id allocate_storage_id returns, the first of the counter that no row
   has, and the counter it leaves. *)
Used(i) == \E h \in Hash : rowW[h] = i
NewIds == {i \in Id : i >= counterW /\ ~Used(i)}
LowestUnused == CHOOSE i \in Id : ~Used(i) /\ \A j \in 1..(i - 1) : Used(j)   \* mutant
RowsPlusOne == Cardinality({h \in Hash : rowW[h] # None}) + 1              \* mutant
NewId == CHOOSE i \in NewIds : \A j \in NewIds : i <= j
CounterAfter == NewId + 1

(* Files of this id are still to be unlinked by a cleanup. *)
CleaningUp(i) == \E v \in Worker : pc[v] = "undoFiles" /\ aid[v] = i

(* allocate_storage_id opens the write transaction; then the asset is
   copied to the path of the new id. *)
Copy(w) ==
    /\ pc[w] = "copy" /\ WriteFree /\ NewIds # {}
    /\ BeginWrite(w)
    /\ counterW' = CounterAfter
    /\ aid' = [aid EXCEPT ![w] = NewId]
    /\ disk' = Put(disk, {FileOf("asset", obj[w], NewId)})
    /\ reissued' = IF CleaningUp(NewId) THEN reissued \cup {NewId} ELSE reissued
    /\ Goto(w, "store")
    /\ UNCHANGED <<row, counter, rowW, trash, index, review, lock, op, obj, sid, due, moved, url,
                   jobs, crashes, upserted, mislocked, robbed, undone, retracted, unseen>>

(* "database is locked": nothing was done yet. *)
CopyBusy(w) ==
    /\ pc[w] = "copy" /\ Busy(w)
    /\ FileNotStored(w)
    /\ UNCHANGED <<db, files, index, review, lock, meta>>

(* insert_to_database keeps the storage id of a row that is there by now. *)
StoredId(w) == IF rowW[obj[w]] = None THEN aid[w] ELSE rowW[obj[w]]

(* The note is written under the id the insert returned. *)
Store(w) ==
    LET h == obj[w]
        i == StoredId(w)
    IN  /\ pc[w] = "store"
        /\ rowW' = [rowW EXCEPT ![h] = i]
        /\ upserted' = IF rowW[h] = None THEN upserted ELSE upserted \cup {h}
        /\ sid' = [sid EXCEPT ![w] = i]
        /\ disk' = Put(disk, {FileOf("note", h, i)})
        /\ Goto(w, "tag")
        /\ UNCHANGED <<row, counter, writer, counterW, trash, index, review, lock,
                       op, obj, aid, due, moved, url, jobs, crashes,
                       mislocked, reissued, robbed, undone, retracted, unseen>>

(* tag_media publishes the WD cache under the lifecycle lock. *)
TagCache(w) == FileOf("wd", obj[w], sid[w])

(* Tagging inside the open write transaction; the note is written again. *)
TagItem(w) ==
    /\ pc[w] = "tag" /\ LockFree(sid[w])
    /\ disk' = IF Exists("asset", obj[w], aid[w])
                 THEN Put(disk, {TagCache(w), FileOf("note", obj[w], sid[w])})
                 ELSE disk
    /\ Goto(w, "commit")
    /\ UNCHANGED <<db, trash, index, review, lock, self, url, meta>>

Commit(w) ==
    /\ pc[w] = "commit"
    /\ CommitTxn
    /\ Goto(w, "thumb")
    /\ UNCHANGED <<files, index, review, lock, self, url, meta>>

(* ensure_thumbnail(wait=True): without an asset it raises, and the item is
   kept with thumbnail_status = 'failed'. *)
IngestThumb(w) ==
    /\ pc[w] = "thumb" /\ op[w] = "ingest" /\ LockFree(sid[w])
    /\ IF Exists("asset", obj[w], sid[w])
         THEN Acquire(w, sid[w]) /\ Goto(w, "publish")
         ELSE UNCHANGED lock /\ Goto(w, "index")
    /\ UNCHANGED <<db, files, index, review, self, url, meta>>

IngestPublish(w) ==
    /\ pc[w] = "publish" /\ op[w] = "ingest"
    /\ disk' = Put(disk, {FileOf("thumb", obj[w], sid[w])})
    /\ Release(w)
    /\ Goto(w, "index")
    /\ UNCHANGED <<db, trash, index, review, self, url, meta>>

(* update_indexes at once, or at the end of the online run. *)
UpdateIndex(w) ==
    /\ pc[w] = "index"
    /\ index' = IF w \in Online THEN index ELSE index \cup {obj[w]}
    /\ Goto(w, "unlink")
    /\ UNCHANGED <<db, files, review, lock, self, url, meta>>

(* delete_source, then success. *)
IngestDone(w) ==
    /\ pc[w] = "unlink"
    /\ Forget(w)
    /\ batch' = [batch EXCEPT ![w] = IF w \in Online THEN @ \cup {obj[w]} ELSE @]
    /\ UNCHANGED <<db, files, index, review, lock, failed, meta>>

(* An exception inside the try block, before the commit or after it.  The
   cleanup is the same, also where the row has been committed, by this ingest
   or by the one whose row it kept. *)
IngestRaise(w) ==
    /\ \/ "pipeline" \in Faults /\ pc[w] \in {"store", "tag", "commit"}
       \/ "index" \in Faults /\ pc[w] = "index" /\ w \notin Online
    /\ Goto(w, "undoDb")
    /\ undone' = undone \cup {obj[w]}
    /\ robbed' = IF sid[w] # None /\ row[obj[w]] = sid[w] THEN robbed \cup {sid[w]} ELSE robbed
    /\ unseen' = IF pc[w] = "index" THEN unseen \cup {obj[w]} ELSE unseen
    /\ UNCHANGED <<db, files, index, review, lock, self, url, jobs, crashes,
                   upserted, mislocked, reissued, retracted>>

(* mutant: the cleanup commits instead of rolling back *)
UndoDbCommits(w) ==
    /\ pc[w] = "undoDb"
    /\ IF writer = w THEN CommitTxn ELSE UNCHANGED db
    /\ Goto(w, "undoFiles")
    /\ UNCHANGED <<files, index, review, lock, self, url, meta>>

UndoDb(w) ==
    /\ pc[w] = "undoDb"
    /\ IF writer = w THEN RollbackTxn ELSE UNCHANGED db
    /\ Goto(w, "undoFiles")
    /\ UNCHANGED <<files, index, review, lock, self, url, meta>>

(* vault_path, then md_path when the note had been reached. *)
AssetOnly(w) == {FileOf("asset", obj[w], aid[w])}                        \* mutant
Written(w) == {FileOf("asset", obj[w], aid[w])} \cup
              {FileOf("note", obj[w], i) : i \in {sid[w]} \ {None}}

UndoFiles(w) ==
    /\ pc[w] = "undoFiles"
    /\ disk' = Unlink(disk, Written(w))
    /\ FileNotStored(w)
    /\ UNCHANGED <<db, trash, index, review, lock, meta>>


-----------------------------------------------------------------------------
(***************************************************************************)
(* Operations on a stored item, under the lifecycle lock of its id.        *)
(***************************************************************************)

(* _update_item_sync with artist, source or platform: the UPDATE opens the
   write transaction before the lock is asked for. *)
UpdateBegin(w) ==
    /\ pc[w] = "begin" /\ WriteFree
    /\ IF row[obj[w]] = None
         THEN Forget(w) /\ UNCHANGED writer
         ELSE /\ BeginWrite(w)
              /\ aid' = [aid EXCEPT ![w] = row[obj[w]]]
              /\ Goto(w, "lock")
              /\ UNCHANGED <<op, obj, sid, due, moved>>
    /\ UNCHANGED <<row, counter, rowW, counterW, files, index, review, lock, url, meta>>

UpdateBusy(w) ==
    /\ pc[w] = "begin" /\ Busy(w)
    /\ Forget(w)
    /\ UNCHANGED <<db, files, index, review, lock, url, meta>>

(* With the lock held the row is read again: a delete goes on with whatever
   row there is, the editors only if it still has the id they locked.  The
   thumbnail does not look at the row but at the asset. *)
StillOpen(w) == op[w] \in Op                           \* mutant: not read again
StillThere(w) ==
    LET current == row[obj[w]]
    IN  CASE op[w] = "delete" -> current # None
          [] op[w] \in {"update", "edit"} -> current = aid[w]
          [] op[w] = "tag" -> current = aid[w] /\ Exists("asset", obj[w], aid[w])
          [] op[w] = "thumb" -> Exists("asset", obj[w], aid[w])

LockItem(w) ==
    /\ pc[w] = "lock" /\ LockFree(aid[w]) /\ StillThere(w)
    /\ Acquire(w, aid[w])
    /\ sid' = [sid EXCEPT ![w] = IF op[w] = "thumb" THEN aid[w] ELSE row[obj[w]]]
    /\ Goto(w, CASE op[w] = "delete" -> "list"
                 [] op[w] = "thumb" -> "publish"
                 [] OTHER -> "write")
    /\ mislocked' = IF op[w] = "delete" /\ row[obj[w]] # aid[w]
                      THEN mislocked \cup {obj[w]} ELSE mislocked
    /\ UNCHANGED <<db, files, index, review, op, obj, aid, due, moved, url, jobs, crashes,
                   upserted, reissued, robbed, undone, retracted, unseen>>

LockGone(w) ==
    /\ pc[w] = "lock" /\ LockFree(aid[w]) /\ ~StillThere(w)
    /\ Forget(w)
    /\ IF writer = w THEN RollbackTxn ELSE UNCHANGED db
    /\ UNCHANGED <<files, index, review, lock, url, meta>>

(* get_or_generate_thumbnail does not wait: the request is answered without. *)
ThumbBusy(w) ==
    /\ pc[w] = "lock" /\ op[w] = "thumb" /\ ~LockFree(aid[w])
    /\ Forget(w)
    /\ UNCHANGED <<db, files, index, review, lock, url, meta>>

ThumbPublish(w) ==
    /\ pc[w] = "publish" /\ op[w] = "thumb"
    /\ disk' = Put(disk, {FileOf("thumb", obj[w], sid[w])})
    /\ Release(w)
    /\ Forget(w)
    /\ UNCHANGED <<db, trash, index, review, url, meta>>

(* The note is replaced (and, after manual tagging, the WD cache first). *)
WriteNote(w) ==
    /\ pc[w] = "write"
    /\ disk' = Put(disk, {FileOf("note", obj[w], sid[w])} \cup
                         (IF op[w] = "tag" THEN {TagCache(w)} ELSE {}))
    /\ Goto(w, "reindex")
    /\ UNCHANGED <<db, trash, index, review, lock, self, url, meta>>

(* Then, with the lock still held, the row is reindexed and committed.  An edit
   asks for the write transaction only here, and whether it gets it or gives up
   after the busy timeout, the columns modelled stay as they are. *)
Reindex(w) ==
    /\ pc[w] = "reindex"
    /\ IF writer = w THEN CommitTxn ELSE UNCHANGED db
    /\ Release(w)
    /\ Forget(w)
    /\ UNCHANGED <<files, index, review, url, meta>>

(* _stage_cleanup_paths: the paths are listed, and one file after the other
   goes to the trash, if there still is one. *)
List(w) ==
    /\ pc[w] = "list"
    /\ due' = [due EXCEPT ![w] = Owned(sid[w])]
    /\ Goto(w, "stage")
    /\ UNCHANGED <<db, files, index, review, lock, op, obj, aid, sid, moved, url, meta>>

Stage(w) ==
    /\ pc[w] = "stage"
    /\ \E f \in due[w] :
          LET there == {g \in disk : SamePath(g, f)} IN
          /\ disk' = disk \ there /\ trash' = trash \cup there
          /\ moved' = [moved EXCEPT ![w] = @ \cup there]
          /\ due' = [due EXCEPT ![w] = @ \ {f}]
    /\ UNCHANGED <<db, index, review, lock, pc, op, obj, aid, sid, url, meta>>

Staged(w) ==
    /\ pc[w] = "stage" /\ due[w] = {}
    /\ Goto(w, "remove")
    /\ UNCHANGED <<db, files, index, review, lock, self, url, meta>>

(* DELETE and COMMIT. *)
DeleteRow(w) ==
    /\ pc[w] = "remove" /\ WriteFree
    /\ row' = [row EXCEPT ![obj[w]] = None] /\ rowW' = row'
    /\ Goto(w, "deindex")
    /\ UNCHANGED <<counter, writer, counterW, files, index, review, lock, self, url, meta>>

(* mutant: a busy database is tried again for ever, the lock still held *)
DeleteRetries(w) ==
    /\ pc[w] = "remove" /\ Busy(w)
    /\ UNCHANGED vars

(* A move or the database refuses: what was staged goes back. *)
DeleteRefused(w) ==
    /\ \/ "stage" \in Faults /\ pc[w] \in {"stage", "remove"}
       \/ pc[w] = "remove" /\ Busy(w)
    /\ Goto(w, "restore")
    /\ UNCHANGED <<db, files, index, review, lock, self, url, meta>>

(* _restore_moved_cleanup_paths, unless the place is taken meanwhile. *)
NothingBack(w) == moved[w] \ moved[w]                                    \* mutant
GoesBack(w) == {f \in moved[w] \cap trash : \A g \in disk : ~SamePath(f, g)}

Restore(w) ==
    /\ pc[w] = "restore"
    /\ disk' = disk \cup GoesBack(w) /\ trash' = trash \ GoesBack(w)
    /\ Release(w)
    /\ Forget(w)
    /\ UNCHANGED <<db, index, review, url, meta>>

(* The content may have been stored again since. *)
Deindex(w) ==
    /\ pc[w] = "deindex"
    /\ index' = index \ {obj[w]}
    /\ unseen' = IF row[obj[w]] # None THEN unseen \cup {obj[w]} ELSE unseen
    /\ Goto(w, "purge")
    /\ UNCHANGED <<db, files, review, lock, self, url, jobs, crashes,
                   upserted, mislocked, reissued, robbed, undone, retracted>>

Purge(w) ==
    /\ pc[w] = "purge"
    /\ trash' = trash \ moved[w]
    /\ Release(w)
    /\ Forget(w)
    /\ UNCHANGED <<db, disk, index, review, url, meta>>

-----------------------------------------------------------------------------
(***************************************************************************)
(* The end of an online run, taken to be one URL: its contents are indexed *)
(* together, or, when one of its files was not stored and the platform is  *)
(* batch protected, taken back.                                            *)
(***************************************************************************)
BatchProtected == "rollback" \in Ops

IndexBatch(w) ==
    /\ pc[w] = "idle" /\ batch[w] # {} /\ ~(failed[w] /\ BatchProtected)
    /\ index' = index \cup batch[w]
    /\ batch' = [batch EXCEPT ![w] = {}] /\ failed' = [failed EXCEPT ![w] = FALSE]
    /\ UNCHANGED <<db, files, review, lock, pc, self, meta>>

ForgetUrl(w) ==
    /\ batch' = [batch EXCEPT ![w] = {}] /\ failed' = [failed EXCEPT ![w] = FALSE]
    /\ Forget(w)

(* _rollback_batch: DELETE opens the transaction, the files are unlinked
   inside it, no lifecycle lock is taken and the thumbnails are left. *)
BatchDelete(w) ==
    /\ pc[w] = "idle" /\ batch[w] # {} /\ failed[w] /\ BatchProtected
    /\ WriteFree /\ BeginWrite(w)
    /\ rowW' = [h \in Hash |-> IF h \in batch[w] THEN None ELSE rowW[h]]
    /\ Goto(w, "takeback")
    /\ op' = [op EXCEPT ![w] = "rollback"]
    /\ retracted' = retracted \cup batch[w]
    /\ UNCHANGED <<row, counter, counterW, files, index, review, lock, obj, aid, sid, due, moved, url,
                   jobs, crashes, upserted, mislocked, reissued, robbed, undone, unseen>>

BatchBusy(w) ==
    /\ pc[w] = "idle" /\ batch[w] # {} /\ failed[w] /\ BatchProtected
    /\ Busy(w)
    /\ ForgetUrl(w)
    /\ unseen' = unseen \cup batch[w]
    /\ UNCHANGED <<db, files, index, review, lock, jobs, crashes,
                   upserted, mislocked, reissued, robbed, undone, retracted>>

Stored(B) == {h \in B : row[h] # None}
IdsOf(B) == {row[h] : h \in Stored(B)}

BatchUnlink(w) ==
    /\ pc[w] = "takeback"
    /\ disk' = Unlink(disk, {FileOf(k, h, row[h]) : k \in {"asset", "note", "wd"}, h \in Stored(batch[w])})
    /\ Goto(w, "takenback")
    /\ UNCHANGED <<db, trash, index, review, lock, self, url, meta>>

BatchCommit(w) ==
    /\ pc[w] = "takenback"
    /\ CommitTxn
    /\ Goto(w, "deindexBatch")
    /\ UNCHANGED <<files, index, review, lock, self, url, meta>>

BatchRaise(w) ==
    /\ pc[w] = "takenback" /\ "pipeline" \in Faults
    /\ RollbackTxn
    /\ ForgetUrl(w)
    /\ robbed' = robbed \cup IdsOf(batch[w]) /\ unseen' = unseen \cup batch[w]
    /\ UNCHANGED <<files, index, review, lock, jobs, crashes,
                   upserted, mislocked, reissued, undone, retracted>>

BatchDeindex(w) ==
    /\ pc[w] = "deindexBatch"
    /\ index' = index \ batch[w]
    /\ unseen' = unseen \cup Stored(batch[w])
    /\ ForgetUrl(w)
    /\ UNCHANGED <<db, files, review, lock, jobs, crashes,
                   upserted, mislocked, reissued, robbed, undone, retracted>>

-----------------------------------------------------------------------------
NotHydrated == {}                                                        \* mutant
Hydrated == {h \in Hash : row[h] # None}

(* The process dies and is started again: the open transaction is lost, the
   threads and their locks are gone, hydrate() reads the index from SQLite. *)
Crash ==
    /\ crashes < MaxCrashes
    /\ crashes' = crashes + 1
    /\ RollbackTxn
    /\ lock' = [s \in Stripe |-> None]
    /\ index' = Hydrated
    /\ pc' = [w \in Worker |-> "idle"]
    /\ op' = [w \in Worker |-> None] /\ obj' = op' /\ aid' = op' /\ sid' = op'
    /\ due' = [w \in Worker |-> {}] /\ moved' = due' /\ batch' = due'
    /\ failed' = [w \in Worker |-> FALSE]
    /\ robbed' = robbed \cup UNION {IdsOf(batch[w]) : w \in {v \in Worker : pc[v] = "takenback"}}
    /\ UNCHANGED <<files, review, jobs, upserted, mislocked, reissued, undone, retracted, unseen>>

Ingest(w) ==
    \/ CheckReject(w) \/ CheckPass(w) \/ SimilarReview(w) \/ SimilarPass(w)
    \/ Copy(w) \/ CopyBusy(w) \/ Store(w) \/ TagItem(w) \/ Commit(w)
    \/ IngestThumb(w) \/ IngestPublish(w) \/ UpdateIndex(w) \/ IngestDone(w)
    \/ IngestRaise(w) \/ UndoDb(w) \/ UndoFiles(w)

OnItem(w) ==
    \/ UpdateBegin(w) \/ UpdateBusy(w) \/ LockItem(w) \/ LockGone(w)
    \/ ThumbBusy(w) \/ ThumbPublish(w) \/ WriteNote(w) \/ Reindex(w)
    \/ List(w) \/ Stage(w) \/ Staged(w) \/ DeleteRow(w) \/ DeleteRefused(w) \/ Restore(w)
    \/ Deindex(w) \/ Purge(w)

OnBatch(w) ==
    \/ IndexBatch(w) \/ BatchDelete(w) \/ BatchBusy(w) \/ BatchUnlink(w)
    \/ BatchCommit(w) \/ BatchRaise(w) \/ BatchDeindex(w)

Step(w) == Ingest(w) \/ OnItem(w) \/ OnBatch(w)

Quiet == \A w \in Worker : pc[w] = "idle" /\ batch[w] = {}

(* Everything asked for is done. *)
AllDone == jobs = MaxJobs /\ Quiet /\ UNCHANGED vars

Next ==
    \/ \E w \in Worker, o \in Ops, h \in Hash : Start(w, o, h)
    \/ \E w \in Worker : Step(w)
    \/ Crash
    \/ AllDone

Spec == Init /\ [][Next]_vars

(* Threads are run by the operating system; no step waits for another
   request to come in. *)
FairSpec == Spec /\ \A w \in Worker : WF_vars(Step(w))

-----------------------------------------------------------------------------
DatabaseOK ==
    /\ row \in [Hash -> Id \cup {None}] /\ rowW \in [Hash -> Id \cup {None}]
    /\ counter \in 1..(MaxId + 1) /\ counterW \in 1..(MaxId + 1)
    /\ writer \in Worker \cup {None}

FilesOK == disk \subseteq File /\ trash \subseteq File

SharedOK ==
    /\ index \subseteq Hash /\ review \subseteq Hash
    /\ lock \in [Stripe -> Worker \cup {None}]
    /\ jobs \in 0..MaxJobs /\ crashes \in 0..MaxCrashes

HistoryOK ==
    /\ UNION {upserted, mislocked, undone, retracted, unseen} \subseteq Hash
    /\ reissued \subseteq Id /\ robbed \subseteq Id

ThreadsOK ==
    /\ pc \in [Worker -> PC] /\ op \in [Worker -> Op \cup {None}]
    /\ obj \in [Worker -> Hash \cup {None}]
    /\ aid \in [Worker -> Id \cup {None}] /\ sid \in [Worker -> Id \cup {None}]
    /\ due \in [Worker -> SUBSET File] /\ moved \in [Worker -> SUBSET File]
    /\ batch \in [Worker -> SUBSET Hash] /\ failed \in [Worker -> BOOLEAN]

(* Each part of the state holds what the code can put there. *)
TypeOK == DatabaseOK /\ FilesOK /\ SharedOK /\ ThreadsOK /\ HistoryOK

-----------------------------------------------------------------------------
(***************************************************************************)
(* Properties.  The first three are audit_vault_health's idea of a healthy *)
(* vault (backend/vaults.py), demanded of every state and not only of the  *)
(* ones an audit happens to look at.                                       *)
(***************************************************************************)

(* A delete that has not yet removed the row still owns what it staged. *)
StagedBy(f) == \E w \in Worker : pc[w] \in {"stage", "remove", "restore"} /\ f \in moved[w]

(* missing_files, hash_mismatches: an item in the table has its asset and its
   note, with its own content, at the path the table names, or in the hands of
   a delete that is still able to put them back, or of the rollback of its URL.
   After a crash such files are in the trash, and nowhere else.  Two accidents
   are named: the id was handed out again while the cleanup that gave it back
   had its files still to unlink, and an error after the row was committed had
   its files unlinked. *)
TakenBack(h) == \E w \in Worker : pc[w] = "takenback" /\ h \in batch[w]

RowHasFiles ==
    \A h \in Hash, k \in {"asset", "note"} :
        row[h] \notin {None} \cup reissued \cup robbed =>
            LET f == FileOf(k, h, row[h])
            IN  \/ f \in disk
                \/ f \in trash /\ (StagedBy(f) \/ crashes > 0)
                \/ TakenBack(h)

(* orphans: a file in the vault belongs to an item, or to an ingest that has
   not committed yet.  Files of these kinds are owned. *)
Uncommitted(w) == pc[w] \in {"store", "tag", "commit", "undoDb", "undoFiles"}
Owner(f) ==
    \/ row[f.hash] = f.id
    \/ \E w \in Worker : Uncommitted(w) /\ obj[w] = f.hash /\ f.id \in {aid[w], sid[w]}

(* Only accidents leave a file that nobody owns: the content was inserted
   twice, deleted under a lock that is not its own, or taken back with its URL;
   its id was handed out while it was being cleaned up; or, for a WD cache, an
   ingest raised.  What a crash leaves behind is not looked at. *)
Accident(f) ==
    \/ f.hash \in upserted \cup mislocked \cup retracted
    \/ f.id \in reissued
    \/ f.kind = "wd" /\ f.hash \in undone

NoOrphans == crashes = 0 => \A f \in disk : Owner(f) \/ Accident(f)

(* No two items ever share a storage id, so no two items share a path. *)
IdsUnique ==
    \A g, h \in Hash : row[g] # None /\ row[g] = row[h] => g = h

(* Similar contents are not both stored without a decision in Review, but for
   one that came while the other was on its way to the index, or was put out of
   it or kept from it by an error, a rollback or the end of an earlier delete. *)
SimilarSeparated ==
    \A g, h \in Hash :
        <<g, h>> \in Similar /\ g # h =>
            row[g] = None \/ row[h] = None \/ {g, h} \cap unseen # {}

(* Committed states, and nothing else, are states of the catalogue: what the
   open transaction holds is not visible, ids given back by a rollback were
   never used. *)
Committed == INSTANCE Catalog WITH item <- row, used <- 1..(counter - 1)
ImplementsCatalog == Committed!Spec

(* Every operation comes to an end, whatever it waits for. *)
EveryOperationEnds == \A w \in Worker : pc[w] # "idle" ~> pc[w] = "idle"
=============================================================================
