# Verification of Local Media Zettelkasten

Local Media Zettelkasten (LMZ) keeps images and videos in *vaults*: a SQLite
database, a directory of assets with their notes, thumbnails and tag caches,
and an index in RAM by which duplicates and similar files are found. A FastAPI
backend (`src/backend`) serves a Svelte/Tauri page and a browser extension; it
ingests files from local folders and from links, and works with plain threads
and locks. This directory holds TLA+ models of that backend, the TLC runs that
check them and the TLAPS proofs about them.

    tlc -workers 2 -config ItemRaces.cfg MC_ItemLifecycle.tla
    tlapm ReviewQueueProofs.tla

## 1. The system

### Components

| Component | State | Operations | What is hard | What makes it correct |
|---|---|---|---|---|
| Ingest pipeline: `processor.py`, `utils.py`, `fingerprint.py` | the open write transaction, files written so far | `process_file`: exact and similarity check, id, copy, insert, note, tags, commit, thumbnail, index, cleanup | check-then-act; the transaction stays open through copying and tagging; exceptions at every step | a row has its files, a failed ingest leaves nothing, no duplicate is stored |
| Vault database: `db/sqlite_operator.py` | `items`, `storage_id_counter` | `allocate_storage_id`, `insert_to_database`, connections with a 5 s busy timeout | rollback gives an id back; upsert instead of insert | ids are never shared nor reused by committed items |
| Library items: `api/library.py`, `media_lifecycle.py`, `thumbnails.py`, `tagging/service.py` | files of an item, `.delete-trash`, lifecycle locks | delete one or many, edit, tag, thumbnail, repair | delete against edit/tag/thumbnail; a delete refused half way; locks taken in the other order than the transaction | all of an item's files go or stay; nothing is left behind; no operation hangs |
| Online run: `external_ingestion.py` | links, platform queues, results of the workers | run, per-platform manager, worker, failure log, write back, rollback of a partly stored URL | stop in mid-flight, dying managers, files rewritten without the queue lock | no link is lost or done twice; the run ends |
| Link queues: `queue_service.py`, `ingest_control.py`, queue calls of `api/ingestion.py` | three text files, stop events, `INGESTION_LOCK` | save, append, retry failed, clear failed, start, stop | two writers of one file; truncate-then-write | as above |
| RAM index: `db/search_manager.py`, `db/searchers.py` | BK-tree lists, two VP-trees with indexed/pending lists, `dirty`, `mutation_version` | hydrate, update, batch update, remove, deferred rebuild | a rebuild computes on a copy while the lists change | the lists equal what was reported; no stale tree; a thrown-away tree comes back |
| Runtime activation: `runtime_activation.py`, `runtime_context.py`, `api/runtime.py` | the published context | activate, switch vault, preflight | context published before the index is ready; checks before a switch that nothing holds | nobody works on the wrong vault |
| Review: `review_cache.py`, `api/review.py` | sidecars in `review/`, a cache of them | scan, accept, replace, reject | snapshot against upserts; crash between move and sidecar | cache and directory agree |
| Local ingest: `api/ingestion.py` | run state, stop event, results | start, stop, retry, status | the stop event cleared late; an early exception leaves `running` set | a stop request reaches its run; a run can always be started again |
| Configuration: `config_repository.py`, `config_schema.py` | files with etags | load, compare-and-swap | two processes | no update is lost |
| Vaults, workspaces, packages: `vaults.py`, `workspaces.py`, `workspace_setup.py`, `path_policy.py`, `vault_packages.py`, `content_adoption.py` | registries, directories | create, delete, merge, audit, export, import, adopt | long file sequences, failing half way | nothing lost, audit clean |
| Metadata index: `metadata_index.py`, `metadata_maintenance.py` | dirty queue | mark, claim, reindex, reconcile | marked again while being worked on | nothing dirty is forgotten |
| Browser capture: `api/capture.py` | stages, handled records | stage, commit, discard | retry after a crash | stored exactly once |
| Workspace database: `workspace_db.py`, `artists.py`, `topics.py`, `platforms.py` | tables | single-transaction edits | lock order with the vault database | no dangling names |
| Desktop shell: `src/frontend/src-tauri/src/lib.rs` | the backend process | start, health check, stop | races of start and stop | at most one backend |
| HTTP application, downloaders, logging, page, extension | none of their own that matters here | | | |

### How they interact

Everything runs in one process. Requests arrive on threads of the event loop's
pool. An online run has one thread per platform and, below it, one per worker;
each worker calls `process_file` for every downloaded file. They share

* SQLite, with one write transaction at a time; who cannot get it within the
  busy timeout fails with "database is locked";
* the vault's files, whose paths are `<kind>/<shard>/<storage id>.<ext>`;
* the lifecycle locks, a pool of `RLock`s by storage id. `process_file` holds
  none while it copies, inserts and commits; `delete`, the editor, the tagger
  and the thumbnailer each hold that of their item;
* the RAM index under `sync_lock`, with `rebuild_lock` for the one rebuild;
* the queue files, under `QUEUE_LOCK` in the calls and under nothing in a run.

## 2. Modules

| Module | Models | Notes |
|---|---|---|
| `ItemLifecycle` | ingest, delete, edit, tag, thumbnail, rollback of a URL, crash | one process per thread, one action per step between which another thread can come |
| `Catalog` | what the table promises: an id that named an item never names another one | abstract specification, implemented by `ItemLifecycle` |
| `SearchIndex` | hydrate, update, remove, deferred rebuild of the RAM index | one action per critical section of `sync_lock` |
| `OnlineIngest` | queue files, calls of the page and the extension, a run with its managers and workers, crash | one action per opening, writing and reading of a file |
| `MetadataIndex` | dirty queue, facet counts, repair worker, full rebuild, watchdog, item calls, the user's editor, crash | one action per statement or file access another thread can come after |
| `ReviewQueue` | the review directory, its sidecars, the cache; ingest, listing, the three actions, crash | cache steps under the cache lock, files outside it |
| `LocalIngest` | start, run, stop, retry; vault switch and deletion, which look at the runs once | the event loop runs one call at a time |
| `VaultRegistry` | create, activate, delete, rename, import, restore, merge of vaults with their rollbacks, crash | the lock of transitions, the etag of the config, the roots on disk |
| `WorkspaceRegistry` | load, create, relocate, delete of workspaces, vault calls, `LMZ_CONFIG_PATH`, crash | as above, with staged deletes |
| `VaultHealth` | audit and repair of a vault between items stored, deleted, shown and the user's hands in the folders, crash | one action per file the repair touches |
| `BrowserCapture` | stage, commit, discard of captures, switch of the vault, crash | one action per file or record |
| `MC_*` | values for the constants, and their symmetry | |
| `ItemLifecycleProofs`, `OnlineIngestProofs`, `ReviewQueueProofs`, `LocalIngestProofs`, `VaultRegistryProofs`, `BrowserCaptureProofs`, `MetadataIndexProofs`, `WorkspaceRegistryProofs` | proofs; `LocalIngestProofs` also holds those of `SearchIndex`, and `VaultRegistryProofs` those of `VaultHealth` | section 5 |

A module stops where another begins: `process_file` is `ItemLifecycle`'s, and in
`LocalIngest`, `BrowserCapture` and `OnlineIngest` it is one of its answers, with
what that answer says of the file. `VaultRegistry` takes a workspace as given
and `WorkspaceRegistry` a vault, each with what the other needs of it
(`"relocate vault"` is there only for what it does to the registry).

### ItemLifecycle

A content is its hash (`Hash`); the asset, note, WD cache and thumbnail are
records of kind, shard, id and the content they were written for. Two files of
one kind, shard and id have the same path (`SamePath`), whatever their content:
that is how the model sees one file overwrite or unlink another's. All contents
are taken to have one extension.

`row`/`counter` are the committed tables, `rowW`/`counterW` what the thread in
`writer` sees. A thread that needs the write transaction while another holds it
either waits (the action is not enabled) or gives up (`CopyBusy`, `UpdateBusy`,
`DeleteRefused`, `BatchBusy`); the model does not say how long five seconds
are.

`pc[w]` is the step of `process_file` or of the request. `Start` reads the
row; `LockItem`/`LockGone` take the lifecycle lock and look again, each
operation in its own way (`StillThere`). The delete stages its files one by
one, so that a refusal can come at any of them, and `discover_owned_paths` is
`Owned`: every file with the id, in every shard.

`batch[w]` and `failed[w]` are a URL of the online run. Its end is either
`IndexBatch` or the `Batch...` steps of `_rollback_batch`. `Crash` loses the
threads, the locks and the open transaction, keeps the files and rebuilds the
index from the table.

`Faults` says which exceptions an instance has: `"pipeline"` (any step of
`process_file` between copy and commit, or of a rollback once its files are
unlinked), `"index"` (`update_indexes` raising after the commit), `"stage"` (a
file that cannot be moved to the trash).

History variables name the accidents of the code, each by the contents or ids
it happened to, and the properties exempt these and no others:

* `upserted`: inserted over a row another thread had committed since the check;
* `mislocked`: a delete locked the id it read first and went on with the row it
  read second;
* `reissued`: an id handed out again while the cleanup that gave it back had
  files of that name still to unlink;
* `robbed`: an item whose files an error took, by the cleanup of an ingest that
  raised after the row was committed, or by a rollback of a URL that failed or
  died after it unlinked them;
* `undone`: an ingest of the content raised (its WD cache stays);
* `retracted`: taken back with its URL (its thumbnail stays);
* `unseen`: it passed the similarity check while a close content was past it but
  not in the index, or the index lost it or never had it: an update that raised,
  a rollback that failed after all, a delete or a rollback whose content was
  stored again before the index forgot it.

### SearchIndex

The lists are sets of contents, the VP-tree is the set of contents it finds or
`NoTree`. `Hydrate`, `Update`, `UpdateBatch` and `Remove` are the calls;
`TryRebuild`, `MakePlans`, `Apply`, `CheckFollowUp` and `Release` are the steps
of the thread that got `rebuild_lock`; `waiting` counts the threads that have
still to try for it. `runtime_activation.py:12` publishes the context before it
hydrates, so calls come before `Hydrate` too; a rebuild they start may be applied
after it (`early`) and replace what it indexed (`overrun`, a history variable).
The pending *list* is a set: two entries of one content
count once against `Threshold`, which only shifts when a rebuild is asked for.

### OnlineIngest

A queue file is the set of its links. `Begin` is a call's read under
`QUEUE_LOCK`, `Open` its `open(..., "w")`, `Write` the writing, and `Retry` does
that twice, first for the target and then for the failed file. A run reads the
file (`ParseLinks`), each platform's manager submits links (`Take`) up to its
number of workers until it is stopped, a worker ends in `Ingested`, `Failed` or
`ManagerDies` (neither the worker nor its manager can write the failure log),
and `Close` returns what the manager leaves. `OpenBack` and `WriteBack` rewrite
the file without `QUEUE_LOCK`.

Calls come whenever they like: the page disables its buttons during a run
(`OnlineIngestion.svelte:883`), a second page and the extension do not. The
history variable `crossed` names what that costs: links that one writer puts into
a file after another has read it and before that one rewrites it. Those are links
a call writes into the file of a run that has read it, a failure logged while a
call is about to clear the failed links, what a run keeps while a call is about to
write its file, and what has come since the page loaded its editor. Text, comments and metadata groups are left out; links are distinct values.

### MetadataIndex

A note is a version (what `os.stat` tells: mtime and size) and its topics; `Bad`
does not parse, `Poison` raises while its topics are parsed, `Gone` is no note.
`db` is the committed database and `tx` the copy of the thread whose connection
has the write lock; `UPDATE`s of the facet counts name the topics they adjust,
which is the point: a transaction that adjusts too few leaves counts wrong.
`RepairStep` is the worker of `metadata_maintenance.py`: pick a batch of dirty
items, read their notes, write, go on while batches come back full; and the full
rebuild, which empties the index and commits it piece by piece.
`Deliver`, `StartFlush` and `FlushStep` are the file watchdog, `CallStep`
the calls that insert, patch, show, delete an item or rename a topic. History
variables name where the code gives a promise up: `drift` (facets counted from
a row another transaction replaced) and `blurred` (a version stamped on a row
whose topics were not taken from that version, or a note taken away by another
ingest's cleanup).

### ReviewQueue

A name is a file in `review/`, numbered in the order the code gives names out;
`sidecar` is its JSON. The cache has the entries, the index by hash, the counts
of the page, and `dirty`. A listing takes a snapshot of the directory outside
the lock, may write sidecars for files that have none, and replaces the cache;
`Ensured` is `ensure_loaded`. An action decides, stores (`ActStore`), unlinks and
tells the cache, with a crash possible between any two. `late` are files that
changed during a listing whose snapshot then replaced the cache, `twin` contents
that came while another file of theirs, its entry or a step with its name was
left, `given` contents the user gave up.

### LocalIngest

`state[v]` is `_LOCAL_INGEST_STATES`, `stop[v]` the event, `work[r]` the thread of
run `r`. `page` is the call the event loop is running: start, retry and stop have
no await, so there is one at a time, but threads go on between its steps. `Ask`
reads the context; `Retry` reads the failed paths; `Prepare` checks and sets
`running` under the lock of the vault that was read, which a switch may have left
meanwhile; `Stop` asks and `SetEvent` sets the event. `RunStep` is the worker, with
the failing set-up before its `try` (`dead`), scan, copy to staging, the answer of
`process_file`, the two looks at the event after the loop (`Judge`, `NoFiles`), and
its end, which gives the flag up first and clears the event afterwards (`clear`).
`Check` is the preflight of a switch or deletion. `wiped` are runs whose stop an
earlier run's end took away, `stray` runs begun after a preflight and before the
switch it allowed, or by a call that had read the context before the switch.

### VaultRegistry and WorkspaceRegistry

A config is a value, written only if its etag is that of the file; equal values
have equal etags, so an A-B-A is invisible to the model as to the code. A call
that holds the transition lock goes `check`, `act` (build the tree or move it
aside), `write`, `replace`, `list` (the answer), or `rollback`; `rename`, `import`
and `restore` go without the lock and read the etag a second time, blindly,
before they write. A merge is a create and then, without the lock, a copy
(`FindTarget`, `CopyInto`, `Adopt`), each step of which makes the new vault's
directory again if it is gone, and after a failure a delete by name. `root[i]`
says who made the tree at a root, so that removing another call's tree can be
told from removing one's own. `hurt`, `lost` and
`stale` (in `WorkspaceRegistry` also `apart` and `torn`) are history variables
for the accidents section 3 lists.

In `WorkspaceRegistry` a place has parts (config, marker, the rest); a delete
moves them to a bin, writes the registry, purges the bin or puts the parts back,
by mode (`unregister`, `generated`, `all`).

### VaultHealth

An item is a content with its id; a file is of one of four kinds, at home or
astray in another shard. `Repair` walks the steps of the repair in the code's
order, from the audit before to the audit after, taking thumbnails and tags one
item and discarding unexpected files one file at a time; `Serve` stores, deletes
or shows an item, `Outside` is the user putting, taking or touching a file.
`late` are items that were being stored while a repair was at work, `taken` items
the user or a crash took files of, `condemned` items whose thumbnail an audit
held for failed, and `touched`, for each repair, the items whose row, status or
files somebody else changed between its audit and its report.

### BrowserCapture

`media`, `sidecar`, `handled` are the three files of an id in a vault. A commit
reads the record, takes the id's lock, looks again (`LookAgain`), loads,
processes, unlinks, clears, records and answers; whether an answer of
`process_file` clears the stage is `Settles`. A discard takes no lock. `given`,
`discarded` and `told` remember what the client was answered.

## 3. Runs

| Run | Question | Bounds | States |
|---|---|---|---|
| `ItemRaces` | Do table and files agree in every state, whoever interleaves and whatever fails? Are ids unique? | 3 threads, 2 contents in one shard, 4 operations, every fault, 1 crash; threads and contents symmetric | 2.77 M |
| `ItemFaults` | Do failed ingests, deletes and rollbacks of a URL clean up after themselves and nobody else? Are similar contents kept apart? Is the committed table a `Catalog`, and does every operation end? | 2 threads, one of them online, 2 similar contents in two shards; every operation, every fault, 3 operations, 1 crash; weak fairness | 567 k |
| `IndexRebuild` | Does a rebuild lose, revive or keep stale items, and does it settle? | 3 contents (video+audio, video, image), 4 calls, threshold 2, `hydrate` at any time; weak fairness | 46 k |
| `OnlineQueues` | Is a link ever lost or done twice, does a run end? | 3 links of 2 platforms, 2 calls, 1 run, 1 crash; weak fairness | 1.6 M |
| `MetaIndex` | Are facets exact, is what is called current read, is a ready index complete? | 2 items, 2 topics, 1 caller with 1 call, 2 versions of a note, at most 1 that raises, batches of 2 and 1, 1 repair, 1 crash | 619 k |
| `MetaRepair` | Does a repair end that meets full batches and notes that raise? | 2 items, both may be spoilt and mended, at most 1 that raises at a time, batches of 2 and 1, 3 versions of a note, 1 repair, 1 refresh; weak fairness | 335 k |
| `Review` | Is a waiting content kept out, a similar one kept, none dropped? | 2 contents, 2 files, 2 threads, 3 calls, 1 crash; symmetric | 334 k |
| `LocalRuns` | Does a stop reach its run, is no run out of sight, is every file accounted for? | 2 runs of 2 paths or of 1 named twice, 2 vaults, 1 stop, 2 switches or deletions, `ResultsLimit` 1, outcome review or a failure | 3.12 M |
| `Vaults` | Do registry, roots and context agree, whatever fails? | 2 ids, 2 threads, 4 calls of 7 kinds, 1 crash; symmetric | 690 k |
| `Workspaces` | Does only a completed delete remove files, and do requests work in the right workspace? | 2 ids, 2 places, 2 threads, 3 calls of 6 kinds, 1 crash; symmetric | 490 k |
| `VaultHealth` | Do repairs harm nobody, themselves included, and heal what they say? | 2 items, 1 of them media, 2 repairs on 2 threads, 1 caller, 2 other acts; symmetric | 2.04 M |
| `Captures` | Is a capture committed once and never lost? | 2 captures of one picture, 2 vaults, 2 threads, 5 calls, 1 crash; symmetric | 85 k |

Why the bounds are enough: every conflict in this code is between two parties
about one or two things (one id given back and handed out again, one lock, one
row, one root, one config). A third party is a bystander who holds the
transaction, and the item runs have it. Where a second run, call or crash is
what brings a hazard about, it is there:

* *Items.* `MaxId` is the number of operations, each of which allocates at most
  one id, so it never cuts a behaviour short. Ingest, delete and ingest again,
  or two ingests and the rollback of their URL, take three operations; the
  fourth of `ItemRaces` is a second party in the middle of them. Two locks (`Stripe`) give both a shared and a separate one.
* *Index.* Two contents share the video tree and one is in both trees; four calls
  are enough for add, plan, remove, add again within one rebuild.
* *Queues.* Two links of one platform and one of another show a stop with links
  left and a platform that dies next to one that does not; two calls show a
  retry of a failed link or a clear after an append.
* *Metadata.* Two items make two pieces of a full rebuild (`FullBatch`). In
  `MetaRepair` the editor spoils either note, so both may be in the dirty queue:
  they make a full batch (`RepairBatch`), after which the worker comes back, also
  when one of them raises and is picked again. In `MetaIndex` only one note is
  spoilt; its question is about calls, edits and repairs that cross.
* *Review.* Two names that may hold one content give the twin; three calls are two
  actions and an ingest or a listing between them.
* *Local runs.* The second run is the one that the end of the first may disturb.
  The second file of a run reaches the limit of results, and so may the failure
  of the run itself; a retry hands over up to two failed files, in their order.
* *Vaults, workspaces.* Four (three) calls allow for two that complete before the
  two in conflict, and a merge's second half.
* *Health.* One item is not media, so that no thumbnail is expected of it. Nothing
  in the code keeps two repairs apart, so there are two.
* *Captures.* Two commits of one id, a discard, a switch and a stage.

`SYMMETRY` is used in runs of safety properties only, over values that no
constant tells apart.

`ItemRaces` and `ItemFaults` have all faults and deletes at once. The first has
the third thread and the fourth operation; the second has the rollback of a URL,
which needs an online thread, two shards and similar contents. `NoOrphans` looks at states before
a crash only: what a dead ingest copied stays, and only the audit finds it.

Deadlock is checked in the runs of `ItemLifecycle`, `SearchIndex` and
`OnlineIngest`: when nothing is left to do, only `AllDone`, `NoMoreCalls` and
`Quiet` stutter, and they demand that every thread is idle. The other runs have
`CHECK_DEADLOCK FALSE`, because once the bounded calls are used up the system is
idle and there is no such action; their threads wait for one lock at a time and
give up or get it.

### Fairness

`ItemFaults` has weak fairness of each thread's steps, `IndexRebuild` of the
rebuild threads, `OnlineQueues` of the run, `MetaRepair` of the repair worker. All
of them are operating-system threads whose steps are not triggered by a request.
Nothing is fair about `Start`, `Crash`, calls, events or stop requests. Waiting
for a lock or the write transaction is weakly fair only: the step is enabled for
good once the other is gone; while others come and go the thread may also give
up, as the busy timeout lets it.

### What the models show that the properties exempt

These are behaviours of the code met while modelling. Each is reproducible by
removing the exemption or changing the constant named; none is a property here,
so that the runs say what the code does guarantee.

**Items**

* `process_file` looks the hash up before any transaction and inserts with an
  upsert, so two threads with the same content both succeed, and the second
  asset stays under an id no row names (`processor.py:306`; `upserted`).
* The index is updated after the commit without the lifecycle lock; a delete in
  between removes nothing, and the update then adds a deleted item
  (`processor.py:524`).
* The cleanup of a failed ingest rolls back first, which gives the id back, and
  unlinks by path afterwards; another ingest may own the path by then
  (`processor.py:573`; `reissued`). A delete of the new item looks in all shards
  and may stage the failing ingest's file too, and put it back as an orphan
  (`media_lifecycle.py:22`). The WD cache is not cleaned up at all (`undone`).
* `update_indexes` raising after the commit runs the same cleanup and deletes the
  files of a committed row (`processor.py:533`; `robbed`). So does an ingest that
  raises after it kept the row and the note of another (`upserted`).
* A delete that waited for the lock of an old id deletes the same content's new
  item under it, and a thumbnail published meanwhile stays (`library.py:1233`;
  `mislocked`).
* `_rollback_batch` leaves the thumbnails of what it takes back
  (`external_ingestion.py:532`; `retracted`); a commit that fails after the files
  were unlinked leaves rows without files (`robbed`).
* Similar files of one online run are both stored, since the index learns of them
  at the end of the run, and so are those of two ingests that pass the check
  together (`unseen`).

**RAM index**

* A rebuild thread that finds `rebuild_lock` taken gives up, relying on a
  follow-up check its holder has already made (`search_manager.py:392`): the
  rebuild is dropped until the next call.
* `remove_hashes` recomputes `dirty` from the pending list when none of its items
  was indexed, and forgets a tree that an earlier removal threw away
  (`searchers.py:52`): that rebuild never comes by itself.
* A rebuild started before `hydrate` is applied after it and replaces everything
  that was hydrated (`runtime_activation.py:12`; `overrun`).

**Queues**

* `_write_back` rewrites the queue from what the run read at its start, so what
  the extension appended meanwhile is lost (`external_ingestion.py:617`; `crossed`);
  a call that read the queue before it writes handled links into it again.
* A failure logged while the failed links are being cleared or moved is cleared
  with them, and a save overwrites what has come since the editor was loaded
  (`queue_service.py:298`, `:104`; `crossed`).
* A crash between truncating and writing a queue loses it (`cut`).

**Metadata index**

* A deleted item's hash stays in the watchdog's map; the next event of its note
  makes the flush break a foreign key, and it is retried every two seconds for
  ever, with whatever else was in it (`sqlite_operator.py:181`).
* Facet counts drift when a delete goes by what the index said before a
  reindexing in between (`library.py:1187`), or when a rename finds other changes
  in a note (`metadata_maintenance.py:318`; `drift`).
* A restamp after a rename or after an edit from outside takes the note's version
  though only the topics, or nothing, was read from it; a note that a failing
  delete had staged is indexed as empty (`blurred`).
* A failed ingest gives up its transaction before it unlinks its note
  (`processor.py:573`, `577`); by then the note may be the one of a second ingest
  of the same content (`blurred`).
* The repair worker never ends while as many notes raise as fill a batch
  (`metadata_index.py:1423`; `RepairEnds` needs `MaxPoison < RepairBatch`).
* An index that is not ready is not made ready by the background repair. A full
  rebuild fails on an item that is indexed or deleted meanwhile. An event for a
  hash that arrives during the flush of that hash is lost. `mark_error` leaves
  the count of errors as it is.

**Review**

* A listing's snapshot replaces the cache, changes since then included (`late`);
  removing one of two entries with one content drops the hash of the other
  (`twin`). Until the next reload such a content is taken in again.
* A listing may write "pending" over "cleanup", and answers 500 when a file
  disappears under it. `variant` and `replace` unlink the source before they tell
  the cache. After a crash between storing and unlinking, the file in review is
  answered 409 by every action but `delete`.

**Local runs**

* A run clears the stop event after it gave the flag up, and may wipe the request
  of the next run (`api/ingestion.py:683`; `wiped`).
* A run begun between the preflight of a switch and the switch, or by a call that
  read the context before it, goes on in a vault the page no longer shows (`stray`); its `mkdir(parents=True)` recreates the root
  of a vault that was deleted.
* An exception before the worker's `try` leaves `running` set until the process
  ends (`api/ingestion.py:517`; the worker `dead`): no run can be started in that
  vault any more.
* A retry that is stopped forgets the failed paths it had not come to. A run that
  is stopped and then fails shows "finished". A run that took up no file and is
  stopped between the two looks at the event shows "failed" without a result
  (`api/ingestion.py:636`). A crash leaves the staging
  directory for good.

**Vaults and workspaces**

* `activate` and `delete` read the context before they wait for the lock, and a
  rollback brings that context back (`stale`). `rename`, `import` and `restore`
  (and the migration of old layouts) take no lock and read the etag a second
  time just before they write: the compare-and-swap compares with what they are
  about to overwrite (`lost`).
* The handler of a failed import removes its final root, whoever made it; the
  rollback of a merge may do so too; a delete whose answer fails has already
  removed its tree. A merge whose new vault is deleted while it copies makes the
  directory again, registered nowhere, and answers success or leaves part of it
  (`vaults.py:669-728`, `:538`). All of these are `hurt`, for the one id. A crash between moving a tree and writing the config
  leaves a root that cannot be used, or a vault without one (`hurt`).
* `delete_workspace` does not catch `SettingsConflictError`: its staged files then
  stay in the bin (`left`). A registration under an existing name overwrites that
  entry; two ids on one place let a delete with mode `all` take a workspace that
  is in use; creating or relocating onto a place whose files a delete has just
  taken leaves an entry without files (`torn`).
* Only the workspace the registry names as active is protected from deletion; the
  one in use may be another, by `LMZ_CONFIG_PATH` or by a create with `set_active`
  (`apart`). A load's rollback puts back a registry that others have written
  since (`lost`). A vault call's rollback writes `config.yaml` at the place of its
  context again, also where a delete has taken the workspace meanwhile
  (`vaults.py:113`).

**Health**

* The repair discards by what the audit listed, with no lock and no second look at
  the table: an item being stored meanwhile may lose its asset or note (`late`).
* A thumbnail of status failed that exists is listed as an orphan; if the repair
  has made it anew by then, it is unlinked all the same (`condemned`).
* Asking for a thumbnail marks it failed merely because its lock was busy; an
  ingest whose "ready" update times out does so though the file exists. A
  regeneration that fails over an outdated thumbnail leaves an orphan.
* `repair_missing_thumbnails` updates under an open `SELECT`; if somebody else
  committed since, SQLite refuses at once and the repair as a whole fails.
* Tagging an item that is not media writes a cache that the next audit calls an
  orphan. Tags and thumbnails of an item whose asset is gone are counted as
  repairable by every audit.

**Captures**

* The stage is cleared before the handled record is written
  (`capture.py:304`): after a crash or a failing write in between, a repeated
  commit of a stored capture is answered 404. It is neither lost
  (`CapturesKept`) nor stored twice (`CommittedOnce`).
* A discard looks only in the vault that is active now, and answers success also
  when the capture is staged in another one; it takes no lock, so it may clear the
  stage of a commit at work.
* The media file of a stage whose sidecar could not be written is never removed. A
  reject whose sidecar write fails is answered 500, and 404 when repeated.

## 4. Properties

Each module has one type invariant with what ties its counters and flags
together; the others are about the hazards listed in `PROJECT.json`.

*Items.* `RowHasFiles` and `NoOrphans` are the vault health audit (`vaults.py`)
demanded of every state. During a delete the files may be in its hands
(`StagedBy`); after a crash they may be in the trash, from which nothing in the
code brings them back by itself, but not gone. A rollback of a URL holds them
between its unlinks and its commit (`TakenBack`). `IdsUnique` and
`ImplementsCatalog` are about ids. `SimilarSeparated` holds for whatever was
committed and told to the index before the second content was checked, crash or
not, because the index is hydrated from the table.
`EveryOperationEnds` says that the two orders in which the lifecycle lock and the
write transaction are taken (`library.py:1078`) do not hang, thanks to the busy
timeout.

*Index.* `MembersKept`, `TreeIsCurrent` and `RebuildSettles` are the rebuild's
promises.

*Queues.* `NothingLost`: a link that was handed in and not taken back is in a
file, in a rewrite of a file that has begun, or ingested, but for the links that a
crash in mid-write cut off and those that `crossed`. `HandledLeaves` is the other
half: what a run dealt with it does not write back, unless its platform's manager
died, where the code keeps all on purpose. It takes both to say that a rewrite
leaves exactly what is still to be done. `RunEnds`: a run comes to an end, stopped
or not.

*Metadata.* `FacetsExact` compares counts that every transaction adjusts for a few
topics with a recount of the rows. `CurrentMeansRead` is what the index's
change detection relies on: equal versions mean equal topics, and a note whose
indexing raised is still queued. `ReadyComplete`: readiness is never claimed of
half a rebuild. `RepairEnds` as above.

*Review.* `PendingBlocked`: a content that waits for the user is known to the
cache that the ingest asks. `SimilarKept`: two replacements that name each other
do not remove both. `NothingDropped`: a file leaves the directory only when its
content is stored or was given up.

*Local runs.* `Accounted` ties the counters, the capped results and the list of
failed paths, from which a retry starts, to what became of each file.
`StopAgrees`: a stop shown as requested has reached the run, and no run stops
because of an old event. `RunsInSight`: a run goes on only in the active vault.

*Vaults.* `RootsMatch`: registered vaults and trees correspond, in every state but
in the middle of a call. `ContextFollows`: the requests work in the vault
(workspace) the config names. `ActiveRooted`: the tree of the vault in use is
never taken. `FilesKept`: nothing but a completed delete removes a workspace's
files.

*Health.* `FilesSpared`: a repair takes no file of an item that was there when it
audited. `RepairHeals`: of the items nobody else changed, what is left after a full
repair is a thumbnail or tags that could not be made, that are missing with their
asset, or that the repair's own audit had condemned; unexpected files, notes of
deleted items among them, are all gone.

*Captures.* `CommittedOnce`: once a commit has answered success, no commit of that
capture is at work again. `CapturesKept`: an id that was answered is staged, in
the table, in review, or was discarded.

## 5. Proofs

TLAPS proves the following for any contents, threads, locks, vaults and bounds
that satisfy the named assumptions of the modules (`ParametersOK`,
`IndexParametersOK`, `BoundsOK`, `VaultOK`, `CallOK`, `WorkspaceOK`, `HealthOK`,
`LocalOK`, `CaptureOK`, `QueuesOK`, `ReviewOK`, `MetadataOK`, `NoneIsNoRow`):

* `TypeCorrect` (`ItemLifecycleProofs`): `Spec => []TypeOK`. Types alone are
  not inductive: a step uses ids and rows that an earlier step read. `Located`
  adds, for each step, which of the thread's locals are known there.
* `IdsNeverShared` and `CatalogImplemented` (`ItemLifecycleProofs`). The argument is about
  the one open transaction. `TxnInv` says, by the step of the thread that
  opened it, how the table it sees differs from the committed one: not at all
  (`Clean`), by the counter and at most one row that takes the old counter's
  value (`Inserted`), or by removed rows (`Taken`). With `IdsIssued`, every id
  in the table is below the counter, a commit can only add a fresh id. The
  refinement maps `used` to the ids below the committed counter; every step
  that changes the committed table or counter is an `Add`, `Waste` or `Remove`
  of `Catalog`, every other one a stutter. `CatalogImplemented` includes
  rollbacks, upserts, refused deletes and crashes.
* `ItemsHaveFiles` (`ItemLifecycleProofs`). A storage id names a path, so the
  argument is about who works under which id (`ClaimsApart`): the table and the
  threads that took an id from it claim it, never two contents the same one, and
  an ingest that has not committed works under the id after all of them.
  `Storing`: what an open transaction will commit is a row whose files are in
  place. `Harmless`: what a cleanup unlinks, or a delete purges, is no item's.
  `FilesFit`: a file at an item's path, on disk or in the trash, has the item's
  content, so a delete that is refused puts the right one back. It has no hypothesis:
  the two ways in which the code does take a file from a row are named by the
  property itself (`reissued`, `robbed`), and the proof shows that there is no third.
* `SimilarStaySeparate` (`ItemLifecycleProofs`), again without a hypothesis. What the
  table holds the index knows, or the thread that stored it is about to say so
  (`StoredKnown`), or it is `unseen`; of two close contents past their checks the
  second was seen to pass beside the first (`CloseMarked`).
* `IndexTypeCorrect`, `NothingLostOrRevived`, `NoStaleTree`
  (`LocalIngestProofs`), with calls before and after `hydrate`. The strengthening
  is `PlanValid`: between a plan and its application the indexed items only
  shrink, and unless `mutation_version` has moved they are unchanged and the
  plan's pending items are still pending; of a plan that `hydrate` overtook
  (`early`) only that it brings back nothing removed. What such a plan throws out
  is exactly `overrun`.
* `RegistryTypeCorrect`, `ContextIsActive` (`VaultRegistryProofs`). What a call has
  read stays true of its own copy (`Sound`), the lock is held by the one call
  between its checks and its answer (`HolderBusy`), and at each place such a call
  may stand the context is the config's or the one about to be written there
  (`ContextInv`).
* `RootsAreRegistered`, `ActiveKeepsItsRoot` (`VaultRegistryProofs`). The argument
  follows one id (`RootInv`): while nobody moves its tree (`Settled`), it has one
  exactly if it is registered; in between, the tree is that of the call that
  made it (`Puts`) or has been moved away by the one call that may delete it
  (`Taken`). `BaseKept`: what a call under the lock has read as
  registered still is, and the active vault it read is still active.
* `WorkspacesTypeCorrect`, `DeleteKeepsFiles`, `RequestsFollow`
  (`WorkspaceRegistryProofs`). What a call has read and where it may stand stays
  true of its own copy (`Sound`), so whatever it writes, or puts back, is a
  registry with an active and a default workspace (`CandidateOK`), however outdated.
  `FilesKept` is inductive with that: a config only moves from its place into the
  bin of the delete that holds it and from there back, or to what is left
  (`KeptNext`), and an entry is where it was or where its config has just been seen
  (`EntriesNext`). `ContextInv`: while a call holds the transition lock, the
  context, or what the call will put back, is the active workspace's, and before
  it writes the registry the context is that of the workspace it will make active.
* `HealthTypeCorrect`, `RepairSparesFiles`, `RepairsHeal` (`VaultRegistryProofs`,
  which holds the proofs about `VaultHealth` too), for any number of repairs at a
  time. `Valid`: an audit has read the
  row of every item that is in the table or being stored, or the item is late; so
  what a repair lists as an orphan, and later removes without looking again, is no
  file of theirs but one that may be spared. `RowsKept`: a file of an item is at its
  place or in the hands of the delete that can put it back, and a thumbnail a
  repair has made and not yet committed as ready is there.
  `Course` says, by the step a repair has come to, what it has established of an
  item nobody else has changed: its unexpected files are listed, its thumbnail and
  tags still to come, there, or given up. What others do without changing the item
  leaves it as it is (`CourseStands`), and every step of the repair adds to it
  (`RepairCourse`).
* `OneRunPerVault`, `StopsReachTheRun`, `RunsStayInSight` (`LocalIngestProofs`).
  `FlagHeld`: the flag of a vault names the one run that holds it. `AskedFirst`: a
  stop call that has yet to set the event has asked the run that is going.
  `SwitchSafe`: after a preflight, every run still going was begun since.
* `FilesAreAccounted` (`LocalIngestProofs`). The sequence of outcomes, a history of
  the model, and what the page shows grow together (`AppendTallied`); a file is taken
  up once because those with an outcome are among those seen (`SeenOnce`). The
  property speaks of cardinalities of index sets and not of filtered sequences,
  whose lengths would need induction over data: the n-th name in the list for
  a retry is that of the n-th file that failed.
* `ReviewTypeCorrect`, `FilesLeaveSettled`, `OneSimilarStays`, `WaitingIsBlocked`
  (`ReviewQueueProofs`).
  The counts are adjusted entry by entry and the index hash by hash: `UpsertOK`
  and `RemovedOK` show that each operation of the cache keeps both exact
  (`LessExact`, `MoreExact`). `SettledInv` says of every thread, by its place, that
  the file it is about to delete has its content in the vault or given up, and
  of every sidecar that no longer waits that it was written for such a file.
  `SimilarKept` alone is not inductive; `Room` counts: the stored contents
  outnumber the replacements that have stored theirs and may still remove a
  target, each of which removes at most one. `ReviewOK` supposes of the
  directory at the start what the code leaves there: names numbered without gaps,
  and sidecars that no longer wait only beside contents that are stored.
  `PendingBlocked` follows one file and its hash (`Kept`): no other file, entry or
  thread has that hash (`Apart`, `Leaves`), every listing under way has yet to look
  at the file or has seen it as it is (`Sees`), and the index leads to it unless
  its ingest has yet to say so (`Told`). The attempt corrected the model: with
  three threads, a step that outlives its file writes or removes an entry of a hash
  that another file has by then, and the cache forgets that one
  (`review_cache.py:218`, `:253`, which drop the hash whomever it leads to). The
  property now names this case (`twin`), and TLC and the proof agree on it.
* `CaptureTypeCorrect`, `CommitsOnce`, `NoCaptureLost` (`BrowserCaptureProofs`).
  A thread past the lock holds it (`Held`), so the record it has missed under the
  lock stays absent until it writes it itself (`Once`). An id in the making is
  known to its own thread only (`Fresh`), and a thread that clears a stage has
  seen the content stored or in review (`Settled`).
* `QueuesTypeCorrect`, `LinksAreKept`, `HandledAreGone` (`OnlineIngestProofs`), with
  calls at any time. Every link a run has read is waiting, worked on, kept or dealt
  with, and what else stands in its file has come since (`LinksOK`). `FoundOK`
  counts for every link the places it may be found again: a file, but not for what
  a run has dealt with in its own; what a call will write, but not the file it is
  about to empty; what a run keeps, once it has opened its file. `RetryOK`: what a
  retry will clear it has read.
* `IndexTypeCorrect`, `ReadyIsComplete`, `CountsAreExact`, `CurrentIsRead`
  (`MetadataIndexProofs`). Every action of a thread changes that thread and, if the
  thread may write, the database; the lemmas on the operators of the database say
  what each of them changes, and the four invariants are built on them.
  `ReadyInv`: while a rebuild is under way the index is not called ready, and every
  item has a row, has been read, or is still to be read; an open transaction owes
  a row only to what it inserts. `FacetInv`: within a transaction the counts
  are right but for the topics a rename has touched and recounts at its end.
  `CurrentInv` compares a row, of either copy of the database and of what a thread
  has read, with every *face* of the item: the note on disk, and, while a delete
  that may fail has moved it away, the note it would bring back. Versions only
  grow (`FacesOK`), so a reading at an old version stays behind for good.

`CaptureTypeOK`, `QueuesTypeOK` and `HealthTypeInv` are proved and not listed among the runs'
properties.

Every safety property of the runs is the subject of a theorem, but for `NoOrphans`.
Only model-checked are that and the liveness properties `EveryOperationEnds`, `RebuildSettles`, `RepairEnds` and
`RunEnds`, which the prover cannot reach, as it cannot `ENABLED` and recursive
definitions; the modules have none of the latter two.

## 6. Not modelled

* Data: fingerprints and distances (`Similar` is any relation), the contents of
  notes but for topics, path lengths and names, the text format of the queues,
  single settings and their validation, what a merge copies item by item.
* Operations: bulk calls, the migration of old layouts, the format of packages and
  the adoption of content, the scan for stale rows that only a maintenance run
  makes, facets other than topics, the audit's checks of hashes, dictionaries and
  review sidecars and its selection of single actions, downloader choice and
  completeness checks, the URL registry of the index, paging and filters.
* Components marked not modelled in `PROJECT.json`: views, wrappers and clients
  without state of their own; `workspace_db.py`, `artists.py`, `topics.py` and
  `platforms.py`, whose calls are single transactions; the desktop shell, which
  shares no state with the backend.
* A failing disk is modelled only where the code handles it. The five seconds of
  the busy timeout are a choice between waiting and giving up.

## 7. Plan

Done: `ItemLifecycle`, `Catalog`, `SearchIndex`, `OnlineIngest`, `MetadataIndex`,
`ReviewQueue`, `LocalIngest`, `VaultRegistry`, `WorkspaceRegistry`, `VaultHealth`,
`BrowserCapture`, and the proofs of section 5.

Next, in this order:

1. `QueueText`: the queue text with its metadata groups as a sequence, and the
   parser against the writers (bounded inputs, folds instead of recursion).
2. The migration of old vault layouts, and the bulk calls of the library.
