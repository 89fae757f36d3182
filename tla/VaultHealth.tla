---------------------------- MODULE VaultHealth ----------------------------
(***************************************************************************)
(* The health page of a vault: the audit that compares the items table     *)
(* with the vault's folders, and the repair that acts on what it found     *)
(* (backend/vaults.py, thumbnails.py, media_lifecycle.py), while items are *)
(* stored, deleted and shown.                                              *)
(*                                                                         *)
(* An item is a content with the storage id it was given.  A file is at    *)
(* home, where the paths of its item say, or astray in another shard.  The *)
(* repair takes the lifecycle lock of one item at a time for thumbnails    *)
(* and tags, and none for the files it unlinks and moves away.             *)
(***************************************************************************)
EXTENDS Naturals, FiniteSets

CONSTANTS
    Item, Media,  \* the items, and those among them that are images or videos
    Nobody,
    Repairers,    \* threads that serve repairs
    Callers,      \* threads that store, delete and show items
    HealthOps,    \* the calls this instance exercises
    Starts,       \* the sets of items it starts from
    MaxRepairs,   \* bound: repairs
    MaxActs       \* bound: other calls, files put, taken or touched by the user, crashes

HealthOp == {"ingest", "delete", "thumb"}
Thread == Repairers \cup Callers
Folder == <<"asset", "note", "wd", "thumb">>
Kind == {"asset", "note", "wd", "thumb"}
Derived == {"wd", "thumb"}
File == [kind : Kind, item : Item, home : BOOLEAN]

ASSUME HealthOK ==
    /\ Media \subseteq Item /\ Starts \subseteq SUBSET Item /\ HealthOps \subseteq HealthOp
    /\ Repairers \cap Callers = {} /\ Nobody \notin Thread \cup Item
    /\ MaxRepairs \in Nat /\ MaxActs \in Nat

VARIABLES
    items, status,  \* the committed table: the items, and their thumbnail_status
    gone,           \* items that were deleted: their ids are not used again
    writer,         \* the thread whose write transaction is open
    files,
    old,            \* items whose asset is newer than the thumbnail
    lock,           \* storage_lifecycle_lock
    doing,          \* what each thread is doing
    repairs, acts,
    touched,        \* history: items whose row or files others changed since a repair's audit
    late,           \* history: items that were being stored while a repair was at work
    condemned,      \* history: items whose thumbnail an audit held for failed
    taken           \* history: items the user or a crash took files of

disk   == <<files, old>>
table  == <<items, status, gone>>
bounds == <<repairs, acts>>
past   == <<late, condemned, taken>>
healthVars == <<table, writer, disk, lock, doing, bounds, touched, past>>

-----------------------------------------------------------------------------
(* _item_paths *)
Home(k, h) == [kind |-> k, item |-> h, home |-> TRUE]
Astray(k, h) == [kind |-> k, item |-> h, home |-> FALSE]
Has(k, h) == Home(k, h) \in files
Fresh(h) == Has("thumb", h) /\ h \notin old

(* The files the rows account for; a thumbnail that failed is not waited for. *)
ExpectedOfMedia(H, F) ==
    {Home(k, h) : k \in {"asset", "note", "wd"}, h \in H \cap Media}
      \cup {Home("thumb", h) : h \in (H \cap Media) \ F}
ExpectedAll(H, F) ==
    {Home(k, h) : k \in {"asset", "note"}, h \in H} \cup {Home("wd", h) : h \in H}
      \cup {Home("thumb", h) : h \in (H \cap Media) \ F}
Expected(H, F) ==
    {Home(k, h) : k \in {"asset", "note"}, h \in H} \cup {Home("wd", h) : h \in H \cap Media}
      \cup {Home("thumb", h) : h \in (H \cap Media) \ F}

(* _fetch_vault_items *)
Failed == {h \in items : status[h] = "failed"}

(* _repairable_issue_count: missing assets and notes are left to the user. *)
Issues ==
    LET E == Expected(items, Failed)
    IN (files \ E) \cup {f \in E \ files : f.kind \in Derived}

Idle == [op |-> "none", at |-> "idle", item |-> Nobody, rows |-> {}, failed |-> {}, folder |-> 0,
         orphans |-> {}, todo |-> {}, seen |-> <<>>, made |-> {}, unmade |-> {}, untagged |-> {}, issues |-> {},
         staged |-> {}]

HealthInit ==
    /\ items \in Starts /\ gone = {} /\ status = [h \in Item |-> "ready"]
    /\ writer = Nobody
    /\ files = {Home(k, h) : k \in Kind, h \in items \cap Media}
                 \cup {Home(k, h) : k \in {"asset", "note"}, h \in items}
    /\ old = {}
    /\ lock = [h \in Item |-> Nobody]
    /\ doing = [p \in Thread |-> Idle]
    /\ repairs = 0 /\ acts = 0
    /\ touched = [p \in Repairers |-> {}] /\ late = {} /\ condemned = {} /\ taken = {}

Become(p, r) == doing' = [doing EXCEPT ![p] = r]
MoveOn(p, l) == Become(p, [doing[p] EXCEPT !.at = l])
Free(h) == lock[h] = Nobody
Take(p, h) == lock' = [lock EXCEPT ![h] = p]
Release(p) == lock' = [h \in Item |-> IF lock[h] = p THEN Nobody ELSE lock[h]]
Repairing == \E q \in Repairers : doing[q].op = "repair"

(* What the audit looks at of an item; and, for each repair, the items others
   change of it from the repair's audit to its report. *)
FilesOf(h, F) == {f \in F : f.item = h}
Changed == {h \in Item : \/ (h \in items') # (h \in items) \/ status'[h] # status[h]
                         \/ FilesOf(h, files') # FilesOf(h, files)}
Touch(p) ==
    touched' = [q \in Repairers |->
        IF doing[q].op # "repair" \/ doing'[q].op # "repair" THEN {}
        ELSE IF q = p THEN touched[q] ELSE touched[q] \cup Changed]

-----------------------------------------------------------------------------
(***************************************************************************)
(* audit_vault_health: the rows first, then one folder after the other.    *)
(***************************************************************************)
AuditRows(p) ==
    /\ doing[p].op = "none" /\ repairs < MaxRepairs
    /\ repairs' = repairs + 1
    /\ Become(p, [Idle EXCEPT !.op = "repair", !.at = "scan", !.rows = items, !.failed = Failed,
                              !.folder = 1])
    /\ late' = late \cup {doing[q].item : q \in {q \in Callers : doing[q].at \in {"store", "commit"}}}
    /\ condemned' = condemned \cup Failed
    /\ UNCHANGED <<table, writer, disk, lock, acts, taken>>

AuditScan(p) ==
    /\ doing[p].at = "scan"
    /\ LET k == Folder[doing[p].folder]
           found == {f \in files : f.kind = k} \ Expected(doing[p].rows, doing[p].failed)
       IN IF k = "thumb"
            THEN Become(p, [Idle EXCEPT !.op = "repair", !.at = "rows", !.orphans = doing[p].orphans \cup found])
            ELSE Become(p, [doing[p] EXCEPT !.orphans = @ \cup found, !.folder = @ + 1])
    /\ UNCHANGED <<table, writer, disk, lock, bounds, past>>

-----------------------------------------------------------------------------
(***************************************************************************)
(* repair_missing_thumbnails: the statuses are set in one transaction,     *)
(* which the first of them opens and which keeps the reading of the query  *)
(* that is still being fetched.                                            *)
(***************************************************************************)
ThumbRows(p) ==
    /\ doing[p].at = "rows"
    /\ Become(p, [doing[p] EXCEPT !.at = "thumbs", !.todo = items \cap Media, !.seen = <<items, status>>])
    /\ UNCHANGED <<table, writer, disk, lock, bounds, past>>

(* remove_stale_derived_files *)
Swept(k, h) == files \ {Astray(k, h)}

ThumbTake(p, h) ==
    /\ doing[p].at = "thumbs" /\ h \in doing[p].todo /\ Free(h)
    /\ files' = Swept("thumb", h)
    /\ IF ~Has("asset", h) \/ Fresh(h)
         THEN Become(p, [doing[p] EXCEPT !.todo = @ \ {h}]) /\ UNCHANGED lock
         ELSE Become(p, [doing[p] EXCEPT !.todo = @ \ {h}, !.item = h, !.at = "make"]) /\ Take(p, h)
    /\ UNCHANGED <<table, writer, old, bounds, past>>

(* ensure_thumbnail, with the lock held *)
Made(h) == Has("asset", h) /\ files' = files \cup {Home("thumb", h)} /\ old' = old \ {h}

ThumbMake(p) ==
    /\ doing[p].op = "repair" /\ doing[p].at = "make"
    /\ \/ Made(doing[p].item) /\ Become(p, [doing[p] EXCEPT !.at = "set", !.made = @ \cup {doing[p].item}])
       \/ UNCHANGED disk /\ Become(p, [doing[p] EXCEPT !.at = "set", !.unmade = @ \cup {doing[p].item}])
    /\ UNCHANGED <<table, writer, lock, bounds, past>>

(* The query is open until its last row is fetched. *)
Outdated(p) == doing[p].todo # {} /\ doing[p].seen # <<items, status>>

ThumbSet(p) ==
    /\ doing[p].op = "repair" /\ doing[p].at = "set"
    /\ writer = p \/ (writer = Nobody /\ ~Outdated(p))
    /\ writer' = p /\ Release(p)
    /\ Become(p, [doing[p] EXCEPT !.at = "thumbs", !.item = Nobody])
    /\ UNCHANGED <<table, disk, bounds, past>>

(* Another writer is at work, or has been since the query began. *)
ThumbSetFails(p) ==
    /\ doing[p].op = "repair" /\ doing[p].at = "set"
    /\ writer \notin {Nobody, p} \/ (writer = Nobody /\ Outdated(p))
    /\ Release(p) /\ Become(p, Idle)
    /\ UNCHANGED <<table, writer, disk, bounds, past>>

ThumbCommit(p) ==
    /\ doing[p].at = "thumbs" /\ doing[p].todo = {}
    /\ status' = [h \in Item |-> CASE h \in doing[p].made -> "ready"
                                    [] h \in doing[p].unmade -> "failed"
                                    [] OTHER -> status[h]]
    /\ writer' = IF writer = p THEN Nobody ELSE writer
    /\ Become(p, [doing[p] EXCEPT !.at = "tagging", !.seen = <<>>, !.made = {}])
    /\ UNCHANGED <<items, gone, disk, lock, bounds, past>>

-----------------------------------------------------------------------------
(***************************************************************************)
(* _repair_missing_wd_cache                                                *)
(***************************************************************************)
TagRows(p) ==
    /\ doing[p].at = "tagging"
    /\ Become(p, [doing[p] EXCEPT !.at = "tags", !.todo = items \cap Media])
    /\ UNCHANGED <<table, writer, disk, lock, bounds, past>>

TagTake(p, h) ==
    /\ doing[p].at = "tags" /\ h \in doing[p].todo /\ Free(h)
    /\ files' = Swept("wd", h)
    /\ IF Has("wd", h) \/ ~Has("asset", h)
         THEN Become(p, [doing[p] EXCEPT !.todo = @ \ {h}]) /\ UNCHANGED lock
         ELSE Become(p, [doing[p] EXCEPT !.todo = @ \ {h}, !.item = h, !.at = "tag"]) /\ Take(p, h)
    /\ UNCHANGED <<table, writer, old, bounds, past>>

(* Whatever the tagger answers is kept, even that there is no asset; the note
   is written again for a row that is there. *)
TagMake(p) ==
    /\ doing[p].at = "tag"
    /\ LET h == doing[p].item
           r == [doing[p] EXCEPT !.at = "tags", !.item = Nobody] IN
       \/ /\ \E G \in {{}, {h} \cap items} : files' = files \cup {Home("wd", h)} \cup {Home("note", g) : g \in G}
          /\ Become(p, r)
       \/ Become(p, [r EXCEPT !.untagged = @ \cup {h}]) /\ UNCHANGED files
    /\ Release(p)
    /\ UNCHANGED <<table, writer, old, bounds, past>>

TagEnd(p) ==
    /\ doing[p].at = "tags" /\ doing[p].todo = {}
    /\ MoveOn(p, "derived")
    /\ UNCHANGED <<table, writer, disk, lock, bounds, past>>

-----------------------------------------------------------------------------
(***************************************************************************)
(* repair_vault: what the audit listed goes, without a lock and without a  *)
(* second look at the table; then the vault is audited again.              *)
(***************************************************************************)
Condemned(p, K) == {f \in doing[p].orphans : f.kind \in K}

Discard(p, f) ==
    /\ \/ doing[p].at = "derived" /\ f \in Condemned(p, Derived)
       \/ doing[p].at = "quarantine" /\ f \in Condemned(p, {"asset", "note"})
    /\ files' = files \ {f}
    /\ Become(p, [doing[p] EXCEPT !.orphans = @ \ {f}])
    /\ UNCHANGED <<table, writer, old, lock, bounds, past>>

DerivedEnd(p) ==
    /\ doing[p].at = "derived" /\ Condemned(p, Derived) = {}
    /\ MoveOn(p, "quarantine")
    /\ UNCHANGED <<table, writer, disk, lock, bounds, past>>

AuditAfter(p) ==
    /\ doing[p].at = "quarantine" /\ doing[p].orphans = {}
    /\ Become(p, [doing[p] EXCEPT !.at = "done", !.issues = Issues])
    /\ UNCHANGED <<table, writer, disk, lock, bounds, past>>

Report(p) ==
    /\ doing[p].at = "done" /\ Become(p, Idle)
    /\ UNCHANGED <<table, writer, disk, lock, bounds, past>>

-----------------------------------------------------------------------------
(***************************************************************************)
(* What goes on meanwhile.                                                 *)
(***************************************************************************)
Begin(p, op) ==
    /\ op \in HealthOps /\ doing[p].op = "none" /\ acts < MaxActs /\ acts' = acts + 1
    /\ UNCHANGED repairs

(* process_file: the id is allocated in the write transaction, and given back
   if the item is not stored in the end. *)
IngestCopy(p, h) ==
    /\ Begin(p, "ingest") /\ h \notin items \cup gone
    /\ writer = Nobody /\ writer' = p
    /\ files' = files \cup {Home("asset", h)}
    /\ Become(p, [Idle EXCEPT !.op = "ingest", !.at = "store", !.item = h])
    /\ late' = IF Repairing THEN late \cup {h} ELSE late
    /\ UNCHANGED <<table, old, lock, condemned, taken>>

(* The note, and the answer of the tagger, whatever the file is. *)
IngestStore(p) ==
    /\ doing[p].at = "store"
    /\ LET h == doing[p].item IN
       \E K \in {{"note"}, {"note", "wd"}} :
          /\ "wd" \in K => Free(h) /\ Has("asset", h)
          /\ files' = files \cup {Home(k, h) : k \in K}
    /\ MoveOn(p, "commit")
    /\ UNCHANGED <<table, writer, old, lock, bounds, past>>

IngestCommit(p) ==
    /\ doing[p].at = "commit"
    /\ LET h == doing[p].item IN
          /\ items' = items \cup {h}
          /\ status' = [status EXCEPT ![h] = IF h \in Media THEN "pending" ELSE "skipped"]
          /\ IF h \in Media THEN MoveOn(p, "publish") ELSE Become(p, Idle)
    /\ writer' = Nobody
    /\ UNCHANGED <<gone, disk, lock, bounds, past>>

IngestRaise(p) ==
    /\ doing[p].at \in {"store", "commit"}
    /\ files' = files \ {Home("asset", doing[p].item), Home("note", doing[p].item)}
    /\ writer' = Nobody /\ Become(p, Idle)
    /\ UNCHANGED <<table, old, lock, bounds, past>>

(* ensure_thumbnail waits for the lock; then the status is written, or
   "failed" is tried when "ready" could not be. *)
IngestThumb(p) ==
    /\ doing[p].at = "publish" /\ Free(doing[p].item)
    /\ \/ Made(doing[p].item) /\ MoveOn(p, "ready")
       \/ UNCHANGED disk /\ MoveOn(p, "failed")
    /\ UNCHANGED <<table, writer, lock, bounds, past>>

IngestStatus(p) ==
    /\ doing[p].at \in {"ready", "failed"}
    /\ \/ /\ writer = Nobody /\ status' = [status EXCEPT ![doing[p].item] = doing[p].at]
          /\ Become(p, Idle)
       \/ /\ writer # Nobody /\ UNCHANGED status
          /\ IF doing[p].at = "ready" THEN MoveOn(p, "failed") ELSE Become(p, Idle)
    /\ UNCHANGED <<items, gone, writer, disk, lock, bounds, past>>

(* _delete_item_row_locked: every file of the id, in whatever shard, is moved
   to the trash, and back when the row cannot be deleted. *)
DeleteStage(p, h) ==
    /\ Begin(p, "delete") /\ h \in items /\ Free(h) /\ Take(p, h)
    /\ LET S == {f \in files : f.item = h} IN
          /\ files' = files \ S
          /\ Become(p, [Idle EXCEPT !.op = "delete", !.at = "drop", !.item = h, !.staged = S])
    /\ UNCHANGED <<table, writer, old, past>>

DeleteDrop(p) ==
    /\ doing[p].at = "drop" /\ writer = Nobody
    /\ items' = items \ {doing[p].item} /\ gone' = gone \cup {doing[p].item}
    /\ Release(p) /\ Become(p, Idle)
    /\ UNCHANGED <<status, writer, disk, bounds, past>>

DeleteFails(p) ==
    /\ doing[p].at = "drop" /\ writer # Nobody
    /\ files' = files \cup doing[p].staged
    /\ Release(p) /\ Become(p, Idle)
    /\ UNCHANGED <<table, writer, old, bounds, past>>

(* _get_thumbnail_sync: whatever keeps a thumbnail from being made - that its
   lock is taken, or too many are being made - marks it failed. *)
Show(p, h) ==
    /\ Begin(p, "thumb") /\ h \in items \cap Media /\ status[h] # "failed"
    /\ Become(p, [Idle EXCEPT !.op = "thumb", !.at = "try", !.item = h])
    /\ UNCHANGED <<table, writer, disk, lock, past>>

ShowTry(p) ==
    /\ doing[p].at = "try"
    /\ LET h == doing[p].item IN
          CASE ~Free(h) \/ ~Has("asset", h) -> MoveOn(p, "mark") /\ UNCHANGED lock
            [] Free(h) /\ Has("asset", h) /\ Fresh(h) -> Become(p, Idle) /\ UNCHANGED lock
            [] OTHER -> MoveOn(p, "make") /\ Take(p, h)
    /\ UNCHANGED <<table, writer, disk, bounds, past>>

ShowMake(p) ==
    /\ doing[p].op = "thumb" /\ doing[p].at = "make"
    /\ \/ Made(doing[p].item) /\ Become(p, Idle)
       \/ UNCHANGED disk /\ MoveOn(p, "mark")
    /\ Release(p)
    /\ UNCHANGED <<table, writer, bounds, past>>

ShowMark(p) ==
    /\ doing[p].at = "mark"
    /\ status' = IF writer = Nobody /\ doing[p].item \in items
                   THEN [status EXCEPT ![doing[p].item] = "failed"] ELSE status
    /\ Become(p, Idle)
    /\ UNCHANGED <<items, gone, writer, disk, lock, bounds, past>>

(* The user works on the folders too: a file is put in or taken away, an
   asset is touched. *)
Outside(h) ==
    /\ acts < MaxActs /\ acts' = acts + 1
    /\ \/ /\ \E k \in Kind : Home(k, h) \in files /\ files' = files \ {Home(k, h)}
          /\ taken' = taken \cup {h} /\ UNCHANGED old
       \/ /\ \E k \in Kind : Astray(k, h) \notin files /\ files' = files \cup {Astray(k, h)}
          /\ UNCHANGED <<old, taken>>
       \/ h \in items /\ old' = old \cup {h} /\ UNCHANGED <<files, taken>>
    /\ UNCHANGED <<table, writer, lock, doing, repairs, late, condemned>>

(* What a delete had staged stays in the trash. *)
Restart ==
    /\ acts < MaxActs /\ acts' = acts + 1
    /\ taken' = taken \cup {doing[p].item : p \in {q \in Thread : doing[q].at = "drop"}}
    /\ doing' = [p \in Thread |-> Idle] /\ writer' = Nobody /\ lock' = [h \in Item |-> Nobody]
    /\ UNCHANGED <<table, disk, repairs, late, condemned>>

Repair(p) ==
    \/ AuditRows(p) \/ AuditScan(p) \/ ThumbRows(p) \/ ThumbMake(p) \/ ThumbSet(p)
    \/ ThumbSetFails(p) \/ ThumbCommit(p) \/ TagRows(p) \/ TagMake(p) \/ TagEnd(p)
    \/ DerivedEnd(p) \/ AuditAfter(p) \/ Report(p)
    \/ \E h \in Item : ThumbTake(p, h) \/ TagTake(p, h)
    \/ \E f \in File : Discard(p, f)

Serve(p) ==
    \/ \E h \in Item : IngestCopy(p, h) \/ DeleteStage(p, h) \/ Show(p, h)
    \/ IngestStore(p) \/ IngestCommit(p) \/ IngestRaise(p) \/ IngestThumb(p) \/ IngestStatus(p)
    \/ DeleteDrop(p) \/ DeleteFails(p) \/ ShowTry(p) \/ ShowMake(p) \/ ShowMark(p)

HealthNext ==
    \/ \E p \in Repairers : Repair(p) /\ Touch(p)
    \/ \E p \in Callers : Serve(p) /\ Touch(p)
    \/ \E h \in Item : Outside(h) /\ Touch(Nobody)
    \/ Restart /\ Touch(Nobody)

HealthSpec == HealthInit /\ [][HealthNext]_healthVars

-----------------------------------------------------------------------------
(***************************************************************************)
(* Properties.                                                             *)
(***************************************************************************)
InHand(h) == \E p \in Callers : doing[p].at = "drop" /\ doing[p].item = h

(* A repair takes nothing from an item that was stored when its audit read
   the table: the item keeps its asset and its note, and the thumbnail the
   table calls ready.  An item that was being stored, or whose thumbnail had
   failed, may lose them to what the audit listed. *)
FilesSpared ==
    \A h \in items \ (late \cup taken) : InHand(h) \/
        /\ Has("asset", h) /\ Has("note", h)
        /\ h \in Media /\ status[h] = "ready" /\ h \notin condemned => Has("thumb", h)

(* A full repair leaves nothing that it says it can repair, whatever other
   repairs, calls and the user do to other items meanwhile.  What it may leave
   of an item: the thumbnail, there or not, that could not be made; the tags
   that could not; thumbnail and tags that are missing because the asset is
   gone; and a missing thumbnail that an audit had listed as an orphan, being
   that of an item marked failed, before it was made anew. *)
RepairHeals ==
    \A p \in Repairers : doing[p].at = "done" =>
        \A f \in doing[p].issues :
            \/ f.item \in touched[p]
            \/ f = Home("thumb", f.item) /\ f.item \in doing[p].unmade
            \/ /\ f \notin files
               /\ \/ ~Has("asset", f.item)
                  \/ f.kind = "wd" /\ f.item \in doing[p].untagged
                  \/ f.kind = "thumb" /\ f.item \in condemned
=============================================================================
