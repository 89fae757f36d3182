------------------------ MODULE ItemLifecycleProofs ------------------------
(***************************************************************************)
(* Types, storage ids, the files of the items, orphans, similar contents.  *)
(*                                                                         *)
(* Types.  They are inductive only together with what the code relies on   *)
(* at each step: that the row was read before it is used, that the id was  *)
(* allocated before the copy, that the lock taken is the lock of an id.    *)
(***************************************************************************)
EXTENDS ItemLifecycle, TLAPS

(* What a thread's step says about its locals: the content, the ids and the
   kind of operation are known where the code uses them. *)
Located ==
    \A w \in Worker :
        /\ pc[w] \notin {"idle", "takeback", "takenback", "deindexBatch"} => obj[w] \in Hash
        /\ pc[w] \in {"store", "tag", "commit", "undoDb", "undoFiles", "thumb", "index", "lock"}
              => aid[w] \in Id
        /\ pc[w] \in {"tag", "commit", "thumb", "publish", "write", "list"} => sid[w] \in Id
        /\ pc[w] = "publish" /\ op[w] = "ingest" => aid[w] \in Id
        /\ pc[w] = "begin" => op[w] = "update"
        /\ pc[w] = "lock" => op[w] \in {"delete", "update", "edit", "tag", "thumb"}

TypeInv == TypeOK /\ Located

(* About storage ids the argument is about the one open write transaction: by
   the step of the thread that opened it we know how the table it sees differs
   from the committed one. *)
InTxn == {"store", "tag", "commit", "takeback", "takenback"}

(* How the open transaction may differ from the committed table. *)
Clean == rowW = row /\ counterW = counter
Inserted ==
    /\ counterW = counter + 1
    /\ rowW = row \/ \E h \in Hash : row[h] = None /\ rowW = [row EXCEPT ![h] = counter]
Taken ==
    /\ counterW = counter
    /\ \E H \in SUBSET Hash : rowW = [h \in Hash |-> IF h \in H THEN None ELSE row[h]]

TxnOf(w) ==
    /\ pc[w] \in InTxn => writer = w
    /\ writer = w => pc[w] \in InTxn \cup {"undoDb", "lock", "write", "reindex"}
    /\ pc[w] = "store" => rowW = row /\ counterW = counter + 1 /\ aid[w] = counter
    /\ pc[w] \in {"tag", "commit"} => Inserted
    /\ pc[w] \in {"takeback", "takenback"} => Taken
    /\ writer = w /\ pc[w] \in {"lock", "write", "reindex"} => Clean /\ op[w] = "update"

TxnInv == (writer = None => Clean) /\ \A w \in Worker : TxnOf(w)

(* Every id in the table has been handed out. *)
IdsIssued == \A h \in Hash : row[h] # None => row[h] < counter

IdInv == TxnInv /\ IdsIssued /\ IdsUnique

(* The path of a kind, a content and an id is a file of the vault. *)
LEMMA FileOfType ==
    ASSUME NEW k \in Kind, NEW h \in Hash, NEW i \in Id
    PROVE  FileOf(k, h, i) \in File
BY ParametersOK DEF FileOf, File

(* Writing files keeps the vault a set of files. *)
LEMMA PutType ==
    ASSUME NEW D, D \subseteq File, NEW F, F \subseteq File
    PROVE  Put(D, F) \subseteq File
BY DEF Put

(* A step that puts files of the vault in place keeps the types of both. *)
LEMMA FilesPut ==
    ASSUME FilesOK, NEW F, F \subseteq File, disk' = Put(disk, F) \/ disk' = disk, trash' = trash
    PROVE  FilesOK'
BY PutType DEF FilesOK

(* So does unlinking. *)
LEMMA UnlinkType ==
    ASSUME NEW D, D \subseteq File, NEW F
    PROVE  Unlink(D, F) \subseteq File
BY DEF Unlink

(* A thread that is done changes its own locals and nobody else's. *)
LEMMA ForgetType ==
    ASSUME ThreadsOK, NEW w \in Worker, Forget(w)
    PROVE  /\ pc' \in [Worker -> PC] /\ op' \in [Worker -> Op \cup {None}]
           /\ obj' \in [Worker -> Hash \cup {None}]
           /\ aid' \in [Worker -> Id \cup {None}] /\ sid' \in [Worker -> Id \cup {None}]
           /\ due' \in [Worker -> SUBSET File] /\ moved' \in [Worker -> SUBSET File]
           /\ pc'[w] = "idle"
           /\ \A v \in Worker \ {w} : /\ pc'[v] = pc[v] /\ op'[v] = op[v] /\ obj'[v] = obj[v]
                                      /\ aid'[v] = aid[v] /\ sid'[v] = sid[v]
BY DEF ThreadsOK, Forget, Goto, PC, Op

(* An idle thread needs no locals. *)
LEMMA ForgetLocated ==
    ASSUME TypeInv, NEW w \in Worker, Forget(w)
    PROVE  Located'
BY ForgetType DEF TypeInv, TypeOK, Located

(* A thread that only goes on to another step keeps all locals. *)
LEMMA StepType ==
    ASSUME ThreadsOK, NEW w \in Worker, NEW l \in PC, pc' = [pc EXCEPT ![w] = l],
           UNCHANGED <<op, obj, aid, sid, due, moved, batch, failed>>
    PROVE  ThreadsOK'
BY DEF ThreadsOK

(* Giving back the lifecycle locks of a thread. *)
LEMMA ReleaseType ==
    ASSUME SharedOK, NEW w \in Worker, Release(w)
    PROVE  lock' \in [Stripe -> Worker \cup {None}]
BY DEF SharedOK, Release

(* Taking one. *)
LEMMA AcquireType ==
    ASSUME SharedOK, NEW w \in Worker, NEW i, Acquire(w, i)
    PROVE  lock' \in [Stripe -> Worker \cup {None}]
BY DEF SharedOK, Acquire

(* The threads that take no step keep what is known of their locals. *)
LEMMA LocatedStep ==
    ASSUME Located, NEW w \in Worker,
           \A v \in Worker \ {w} : /\ pc'[v] = pc[v] /\ op'[v] = op[v] /\ obj'[v] = obj[v]
                                    /\ aid'[v] = aid[v] /\ sid'[v] = sid[v],
           obj'[w] \in Hash, aid'[w] \in Id, sid'[w] \in Id, pc'[w] \notin {"begin", "lock"}
    PROVE  Located'
BY DEF Located

(* The id allocated is the counter's: every id in the table is below it. *)
LEMMA NextId ==
    ASSUME TypeInv, IdInv, NEW w \in Worker, Copy(w)
    PROVE  NewId = counter /\ counterW = counter /\ counter \in Id
<1> USE DEF TypeInv, TypeOK, DatabaseOK, Id
<1>1. rowW = row /\ counterW = counter /\ NewIds # {}
  BY DEF Copy, WriteFree, IdInv, TxnInv, Clean
<1>2. counter \in Nat /\ MaxId \in Nat /\ counter >= 1
  BY ParametersOK
<1>3. PICK i \in NewIds : i \in Id /\ i >= counter
  BY <1>1 DEF NewIds
<1>4. counter \in Id
  BY <1>2, <1>3
<1>5. ~Used(counter)
  BY <1>1, <1>2, <1>4, ParametersOK DEF Used, IdInv, IdsIssued
<1>6. counter \in NewIds /\ \A j \in NewIds : counter <= j
  BY <1>1, <1>2, <1>4, <1>5 DEF NewIds
<1>7. NewId \in NewIds /\ \A j \in NewIds : NewId <= j
  BY <1>6 DEF NewId
<1>8. NewId \in Id /\ NewId <= counter /\ counter <= NewId
  BY <1>6, <1>7 DEF NewIds
<1> QED
  BY <1>1, <1>2, <1>4, <1>8

(* What a step keeps but for the histories. *)
CoreType == DatabaseOK /\ FilesOK /\ SharedOK /\ ThreadsOK /\ Located

(* Every step of every operation keeps the types and the locals in place. *)
LEMMA CoreNext == TypeInv /\ IdInv /\ [Next]_vars => CoreType'
<1> SUFFICES ASSUME TypeInv, IdInv, [Next]_vars PROVE CoreType'
  OBVIOUS
<1> USE ParametersOK DEF TypeInv, CoreType, Located, TypeOK, DatabaseOK, FilesOK, SharedOK, ThreadsOK, Id, Kind, PC, Op, Goto, db, files, url, self, meta, past
<1>1. CASE UNCHANGED vars
  BY <1>1 DEF vars
<1>2. ASSUME NEW w \in Worker, NEW o \in Ops, NEW h \in Hash, Start(w, o, h) PROVE CoreType'
  BY SMTT(40), <1>2 DEF Start
<1>3. ASSUME NEW w \in Worker, Ingest(w) PROVE CoreType'
  <2>1. CASE CheckReject(w)
    <3>1. Forget(w)
      BY <2>1 DEF CheckReject, FileNotStored
    <3>2. Located'
      <4>1. TypeInv
        OBVIOUS
      <4> HIDE DEF TypeInv, CoreType, TypeOK, DatabaseOK, FilesOK, SharedOK, ThreadsOK, Located
      <4> QED
        BY <3>1, <4>1, ForgetLocated
    <3>3. DatabaseOK' /\ FilesOK' /\ SharedOK' /\ ThreadsOK'
      BY <2>1, <3>1, ForgetType DEF CheckReject, FileNotStored
    <3> QED
      BY <3>2, <3>3
  <2>2. CASE CheckPass(w)
    BY <2>2 DEF CheckPass
  <2>3. CASE SimilarReview(w)
    <3>1. DatabaseOK'
      BY <2>3 DEF SimilarReview, FileNotStored, Forget
    <3>2. FilesOK'
      BY <2>3 DEF SimilarReview, Conflicts, FileNotStored
    <3>3. SharedOK'
      BY <2>3 DEF SimilarReview, FileNotStored, Forget
    <3>4. ThreadsOK'
      BY <2>3 DEF SimilarReview, FileNotStored, Forget
    <3>5. Located'
      BY <2>3 DEF SimilarReview, FileNotStored, Forget
    <3> QED
      BY <3>1, <3>2, <3>3, <3>4, <3>5
  <2>4. CASE SimilarPass(w)
    BY <2>4 DEF SimilarPass
  <2>5. CASE Copy(w)
    <3>1. NewId \in Id /\ CounterAfter \in 1..(MaxId + 1)
      BY <2>5, NextId DEF CounterAfter
    <3>2. FileOf("asset", obj[w], NewId) \in File
      BY <2>5, <3>1, FileOfType DEF Copy
    <3>3. FilesOK'
      <4>1. disk' = Put(disk, {FileOf("asset", obj[w], NewId)}) /\ trash' = trash /\ FilesOK
        BY <2>5 DEF Copy
      <4> HIDE DEF TypeInv, CoreType, DatabaseOK, FilesOK, SharedOK, ThreadsOK, Located
      <4> QED
        BY <3>2, <4>1, FilesPut
    <3>4. DatabaseOK' /\ SharedOK' /\ ThreadsOK' /\ Located'
      BY <2>5, <3>1 DEF Copy, BeginWrite
    <3> QED
      BY <3>3, <3>4
  <2>6. CASE CopyBusy(w)
    BY <2>6, ForgetType, ForgetLocated DEF CopyBusy, FileNotStored
  <2>7. CASE Store(w)
    <3>1. DatabaseOK'
      BY <2>7 DEF Store, StoredId
    <3>2. FilesOK'
      <4>1. obj[w] \in Hash /\ aid[w] \in Id
        BY <2>7 DEF Store, StoredId
      <4>2. PICK i \in Id : disk' = Put(disk, {FileOf("note", obj[w], i)})
        BY <2>7, <4>1 DEF Store, StoredId
      <4>3. FileOf("note", obj[w], i) \in File
        BY <4>1, FileOfType
      <4>4. trash' = trash
        BY <2>7 DEF Store
      <4>5. FilesOK
        OBVIOUS
      <4> HIDE DEF TypeInv, CoreType, DatabaseOK, FilesOK, SharedOK, ThreadsOK, Located
      <4> QED
        BY <4>2, <4>3, <4>4, <4>5, FilesPut
    <3>3. SharedOK'
      BY SMTT(40), <2>7 DEF Store, StoredId
    <3>4. ThreadsOK'
      BY <2>7 DEF Store, StoredId
    <3>5. Located'
      BY <2>7 DEF Store, StoredId
    <3> QED
      BY <3>1, <3>2, <3>3, <3>4, <3>5
  <2>8. CASE TagItem(w)
    <3>1. FileOf("wd", obj[w], sid[w]) \in File /\ FileOf("note", obj[w], sid[w]) \in File
      BY <2>8, FileOfType DEF TagItem, TagCache
    <3>2. FilesOK'
      <4>1. \/ disk' = Put(disk, {FileOf("wd", obj[w], sid[w]), FileOf("note", obj[w], sid[w])})
            \/ disk' = disk
        BY <2>8 DEF TagItem, TagCache
      <4>2. trash' = trash
        BY <2>8 DEF TagItem
      <4>3. FilesOK
        OBVIOUS
      <4> HIDE DEF TypeInv, CoreType, DatabaseOK, FilesOK, SharedOK, ThreadsOK, Located
      <4> QED
        BY <3>1, <4>1, <4>2, <4>3, FilesPut
    <3>3. DatabaseOK' /\ SharedOK' /\ ThreadsOK' /\ Located'
      BY <2>8 DEF TagItem, TagCache
    <3> QED
      BY <3>2, <3>3
  <2>9. CASE Commit(w)
    BY <2>9 DEF Commit, CommitTxn
  <2>10. CASE IngestThumb(w)
    <3>1. DatabaseOK'
      BY <2>10 DEF IngestThumb, Acquire, LockFree
    <3>2. FilesOK'
      BY <2>10, FileOfType DEF IngestThumb, Acquire, Exists, LockFree
    <3>3. SharedOK'
      <4>1. lock' = [lock EXCEPT ![StripeOf[sid[w]]] = w] \/ lock' = lock
        BY <2>10 DEF IngestThumb, Acquire
      <4>2. UNCHANGED <<index, review, meta>>
        BY <2>10 DEF IngestThumb
      <4>3. lock' \in [Stripe -> Worker \cup {None}]
        <5> HIDE DEF DatabaseOK, FilesOK, ThreadsOK, Located
        <5> QED
          BY <4>1
      <4> QED
        BY <4>2, <4>3
    <3>4. pc' = [pc EXCEPT ![w] = "publish"] \/ pc' = [pc EXCEPT ![w] = "index"]
      BY <2>10 DEF IngestThumb
    <3>5. UNCHANGED <<op, obj, aid, sid, due, moved, batch, failed>>
      BY <2>10 DEF IngestThumb
    <3>6. pc[w] = "thumb"
      BY <2>10 DEF IngestThumb
    <3>7. ThreadsOK'
      <4>1. ThreadsOK /\ "publish" \in PC /\ "index" \in PC
        OBVIOUS
      <4> HIDE DEF TypeInv, CoreType, TypeOK, DatabaseOK, FilesOK, SharedOK, ThreadsOK, Located, PC
      <4> QED
        BY <3>4, <3>5, <4>1, StepType
    <3>8. Located'
      BY <3>4, <3>5, <3>6
    <3> QED
      BY <3>1, <3>2, <3>3, <3>7, <3>8
  <2>11. CASE IngestPublish(w)
    BY <2>11 DEF IngestPublish, FileOf, Put, Release, SamePath, File
  <2>12. CASE UpdateIndex(w)
    BY <2>12 DEF UpdateIndex
  <2>13. CASE IngestDone(w)
    <3>1. DatabaseOK'
      BY <2>13 DEF IngestDone, Forget
    <3>2. FilesOK'
      BY <2>13 DEF IngestDone
    <3>3. SharedOK'
      BY <2>13 DEF IngestDone, Forget
    <3>4. ThreadsOK'
      BY SMTT(40), <2>13 DEF IngestDone, Forget
    <3>5. Located'
      BY <2>13 DEF IngestDone, Forget
    <3> QED
      BY <3>1, <3>2, <3>3, <3>4, <3>5
  <2>14. CASE IngestRaise(w)
    BY <2>14 DEF IngestRaise
  <2>15. CASE UndoDb(w)
    BY <2>15 DEF UndoDb, RollbackTxn
  <2>16. CASE UndoFiles(w)
    BY <2>16 DEF UndoFiles, FileNotStored, FileOf, Forget, SamePath, Unlink, Written, File
  <2> QED
    BY <1>3, <2>1, <2>2, <2>3, <2>4, <2>5, <2>6, <2>7, <2>8, <2>9, <2>10, <2>11, <2>12, <2>13, <2>14, <2>15, <2>16 DEF Ingest
<1>4. ASSUME NEW w \in Worker, OnItem(w) PROVE CoreType'
  <2>1. CASE UpdateBegin(w)
    <3>1. DatabaseOK'
      BY <2>1 DEF UpdateBegin, BeginWrite, Forget, WriteFree
    <3>2. FilesOK'
      BY <2>1 DEF UpdateBegin, BeginWrite, WriteFree
    <3>3. SharedOK'
      BY <2>1 DEF UpdateBegin, BeginWrite, Forget, WriteFree
    <3>4. ThreadsOK'
      <4>1. CASE row[obj[w]] = None
        BY <2>1, <4>1, ForgetType DEF UpdateBegin
      <4>2. CASE row[obj[w]] # None
        <5>1. row[obj[w]] \in Id
          <6>1. obj[w] \in Hash
            <7> HIDE DEF DatabaseOK, FilesOK, SharedOK, ThreadsOK
            <7> QED
              BY <2>1 DEF UpdateBegin
          <6>2. row \in [Hash -> Id \cup {None}]
            <7> HIDE DEF FilesOK, SharedOK, ThreadsOK, Located
            <7> QED
              OBVIOUS
          <6> HIDE DEF TypeInv, CoreType, DatabaseOK, FilesOK, SharedOK, ThreadsOK, Located
          <6> QED
            BY <6>1, <6>2, <4>2
        <5>2. /\ aid' = [aid EXCEPT ![w] = row[obj[w]]] /\ pc' = [pc EXCEPT ![w] = "lock"]
              /\ UNCHANGED <<op, obj, sid, due, moved, url>>
          BY <2>1, <4>2 DEF UpdateBegin
        <5> HIDE DEF DatabaseOK, FilesOK, SharedOK, Located
        <5> QED
          BY <5>1, <5>2
      <4> QED
        BY <4>1, <4>2
    <3>5. Located'
      <4>1. CASE row[obj[w]] = None
        <5>1. Forget(w) /\ TypeInv
          BY <2>1, <4>1 DEF UpdateBegin
        <5> HIDE DEF TypeInv, CoreType, TypeOK, DatabaseOK, FilesOK, SharedOK, ThreadsOK, Located
        <5> QED
          BY <5>1, ForgetLocated
      <4>2. CASE row[obj[w]] # None
        BY <2>1, <4>2 DEF UpdateBegin
      <4> QED
        BY <4>1, <4>2
    <3> QED
      BY <3>1, <3>2, <3>3, <3>4, <3>5
  <2>2. CASE UpdateBusy(w)
    BY <2>2, ForgetType, ForgetLocated DEF UpdateBusy
  <2>3. CASE LockItem(w)
    <3>1. DatabaseOK' /\ FilesOK'
      BY <2>3 DEF LockItem
    <3>2. SharedOK'
      <4>1. lock' \in [Stripe -> Worker \cup {None}]
        BY <2>3, AcquireType DEF LockItem
      <4>2. UNCHANGED <<index, review, jobs, crashes>>
        BY <2>3 DEF LockItem
      <4> HIDE DEF DatabaseOK, FilesOK, ThreadsOK, Located
      <4> QED
        BY <4>1, <4>2
    <3>3. obj[w] \in Hash /\ aid[w] \in Id
      BY <2>3 DEF LockItem
    <3>4. row[obj[w]] \in Id \/ op[w] = "thumb"
      BY <2>3, <3>3 DEF LockItem, StillThere
    <3>5. PICK i \in Id, l \in {"list", "publish", "write"} :
             pc' = [pc EXCEPT ![w] = l] /\ sid' = [sid EXCEPT ![w] = i]
      BY <2>3, <3>3, <3>4 DEF LockItem
    <3>6. UNCHANGED <<op, obj, aid, due, moved, batch, failed>>
      BY <2>3 DEF LockItem
    <3>7. ThreadsOK'
      <4>1. ThreadsOK
        OBVIOUS
      <4>2. l \in PC
        OBVIOUS
      <4> HIDE DEF TypeInv, CoreType, DatabaseOK, FilesOK, SharedOK, Located, Id, PC, Op, Kind
      <4>3. pc' \in [Worker -> PC] /\ sid' \in [Worker -> Id \cup {None}]
        BY <3>5, <4>1, <4>2
      <4> QED
        BY <3>6, <4>1, <4>3
    <3>8. Located'
      <4>1. ThreadsOK /\ Located
        OBVIOUS
      <4> HIDE DEF TypeInv, CoreType, DatabaseOK, FilesOK, SharedOK, Located, Id
      <4> QED
        BY <3>3, <3>5, <3>6, <4>1, LocatedStep
    <3> QED
      BY <3>1, <3>2, <3>7, <3>8
  <2>4. CASE LockGone(w)
    BY SMTT(40), <2>4 DEF LockGone, Exists, FileOf, Forget, LockFree, RollbackTxn, SamePath, StillThere, File
  <2>5. CASE ThumbBusy(w)
    BY <2>5, ForgetType, ForgetLocated DEF ThumbBusy, LockFree
  <2>6. CASE ThumbPublish(w)
    <3>1. DatabaseOK'
      BY <2>6 DEF ThumbPublish, Forget, Release
    <3>2. FilesOK'
      <4>1. FileOf("thumb", obj[w], sid[w]) \in File
        BY <2>6, FileOfType DEF ThumbPublish
      <4> QED
        <5>1. disk' = Put(disk, {FileOf("thumb", obj[w], sid[w])}) /\ trash' = trash
          BY <2>6 DEF ThumbPublish
        <5>2. FilesOK
          OBVIOUS
        <5> HIDE DEF TypeInv, CoreType, DatabaseOK, FilesOK, SharedOK, ThreadsOK, Located
        <5> QED
          BY <4>1, <5>1, <5>2, FilesPut
    <3>3. SharedOK'
      BY <2>6 DEF ThumbPublish, Forget, Release
    <3>4. ThreadsOK'
      BY <2>6 DEF ThumbPublish, Forget, Release
    <3>5. Located'
      BY <2>6 DEF ThumbPublish, Forget, Release
    <3> QED
      BY <3>1, <3>2, <3>3, <3>4, <3>5
  <2>7. CASE WriteNote(w)
    <3>1. DatabaseOK'
      BY <2>7 DEF WriteNote, TagCache, CommitTxn, Forget, Release
    <3>2. FilesOK'
      <4>1. FileOf("note", obj[w], sid[w]) \in File /\ FileOf("wd", obj[w], sid[w]) \in File
        BY <2>7, FileOfType DEF WriteNote, TagCache
      <4> QED
        BY <2>7, <4>1, PutType DEF WriteNote, TagCache
    <3>3. SharedOK'
      BY <2>7 DEF WriteNote, TagCache, CommitTxn, Forget, Release
    <3>4. ThreadsOK'
      BY <2>7 DEF WriteNote, TagCache, CommitTxn, Forget, Release
    <3>5. Located'
      BY <2>7 DEF WriteNote, TagCache, CommitTxn, Forget, Release
    <3> QED
      BY <3>1, <3>2, <3>3, <3>4, <3>5
  <2>8. CASE Stage(w)
    BY <2>8 DEF Stage
  <2>9. CASE Staged(w)
    BY <2>9 DEF Staged
  <2>10. CASE DeleteRow(w)
    BY <2>10 DEF DeleteRow
  <2>11. CASE DeleteRefused(w)
    BY <2>11 DEF DeleteRefused
  <2>12. CASE Restore(w)
    BY SMTT(40), <2>12, ForgetType, ReleaseType DEF Restore, GoesBack
  <2>13. CASE Deindex(w)
    BY <2>13 DEF Deindex
  <2>14. CASE Purge(w)
    BY <2>14, ForgetType, ReleaseType DEF Purge
  <2>15. CASE Reindex(w)
    <3>1. DatabaseOK' /\ FilesOK'
      BY <2>15 DEF Reindex, CommitTxn
    <3>2. Forget(w) /\ Release(w) /\ UNCHANGED <<index, review, meta, url>>
      BY <2>15 DEF Reindex
    <3>3. SharedOK'
      BY <3>2, ReleaseType
    <3>4. TypeInv
      OBVIOUS
    <3>5. ThreadsOK'
      BY <3>2, ForgetType
    <3>6. Located'
      <4> HIDE DEF TypeInv, CoreType, TypeOK, DatabaseOK, FilesOK, SharedOK, ThreadsOK, Located
      <4> QED
        BY <3>2, <3>4, ForgetLocated
    <3> QED
      BY <3>1, <3>3, <3>5, <3>6
  <2>16. CASE List(w)
    BY <2>16 DEF List, Owned
  <2> QED
    BY <1>4, <2>1, <2>2, <2>3, <2>4, <2>5, <2>6, <2>7, <2>8, <2>9, <2>10, <2>11, <2>12, <2>13, <2>14, <2>15, <2>16 DEF OnItem
<1>5. ASSUME NEW w \in Worker, OnBatch(w) PROVE CoreType'
  <2>1. CASE IndexBatch(w)
    BY <2>1 DEF IndexBatch, BatchProtected
  <2>2. CASE BatchDelete(w)
    BY <2>2 DEF BatchDelete, BatchProtected, BeginWrite
  <2>3. CASE BatchBusy(w)
    BY <2>3, ForgetType, ForgetLocated DEF BatchBusy, BatchProtected, ForgetUrl
  <2>4. CASE BatchUnlink(w)
    BY <2>4, UnlinkType, FileOfType DEF BatchUnlink
  <2>5. CASE BatchCommit(w)
    BY <2>5 DEF BatchCommit, CommitTxn
  <2>6. CASE BatchRaise(w)
    BY <2>6, ForgetType, ForgetLocated DEF BatchRaise, ForgetUrl, RollbackTxn
  <2>7. CASE BatchDeindex(w)
    BY <2>7, ForgetType, ForgetLocated DEF BatchDeindex, ForgetUrl
  <2> QED
    BY <1>5, <2>1, <2>2, <2>3, <2>4, <2>5, <2>6, <2>7 DEF OnBatch
<1>6. CASE Crash
  BY <1>6 DEF Crash, Hydrated, RollbackTxn
<1>7. CASE AllDone
  BY <1>7 DEF AllDone, vars
<1> QED
  BY <1>1, <1>2, <1>3, <1>4, <1>5, <1>6, <1>7 DEF Next, Step

(* Histories only take up contents of the vault and ids handed out. *)
LEMMA HistoryNext == TypeInv /\ IdInv /\ [Next]_vars => HistoryOK'
<1> SUFFICES ASSUME TypeInv, IdInv, [Next]_vars PROVE HistoryOK'
  OBVIOUS
<1> USE DEF TypeInv, TypeOK, HistoryOK
<1>1. CASE UNCHANGED past
  BY <1>1 DEF past
<1>2. ASSUME NEW w \in Worker,
             SimilarPass(w) \/ Copy(w) \/ Store(w) \/ LockItem(w) \/ IngestRaise(w) \/ Deindex(w)
      PROVE HistoryOK'
  <2>1. obj[w] \in Hash
    BY <1>2 DEF SimilarPass, Copy, Store, LockItem, IngestRaise, Deindex, Located
  <2>2. Copy(w) => NewId \in Id
    BY NextId
  <2>3. IngestRaise(w) /\ sid[w] # None => sid[w] \in Id
    BY DEF ThreadsOK
  <2> QED
    BY <1>2, <2>1, <2>2, <2>3 DEF SimilarPass, Copy, Store, LockItem, IngestRaise, Deindex
<1>3. \A w \in Worker : batch[w] \subseteq Hash /\ Stored(batch[w]) \subseteq Hash /\ IdsOf(batch[w]) \subseteq Id
  BY ParametersOK DEF ThreadsOK, DatabaseOK, Stored, IdsOf
<1>4. ASSUME NEW w \in Worker, BatchDelete(w) \/ BatchBusy(w) \/ BatchRaise(w) \/ BatchDeindex(w)
      PROVE HistoryOK'
  BY <1>3, <1>4 DEF BatchDelete, BatchBusy, BatchRaise, BatchDeindex
<1>5. CASE Crash
  BY <1>3, <1>5 DEF Crash
<1>6. ASSUME NEW w \in Worker, Step(w),
             ~(SimilarPass(w) \/ Copy(w) \/ Store(w) \/ LockItem(w) \/ IngestRaise(w) \/ Deindex(w)),
             ~(BatchDelete(w) \/ BatchBusy(w) \/ BatchRaise(w) \/ BatchDeindex(w))
      PROVE UNCHANGED past
  <2> USE DEF meta
  <2>1. CASE Ingest(w)
    BY <1>6, <2>1 DEF Ingest, CheckReject, CheckPass, SimilarReview, CopyBusy, TagItem, Commit, IngestThumb,
         IngestPublish, UpdateIndex, IngestDone, UndoDb, UndoFiles
  <2>2. CASE OnItem(w)
    BY <1>6, <2>2 DEF OnItem, UpdateBegin, UpdateBusy, LockGone, ThumbBusy, ThumbPublish, WriteNote, Reindex,
         List, Stage, Staged, DeleteRow, DeleteRefused, Restore, Purge
  <2>3. CASE OnBatch(w)
    BY <1>6, <2>3 DEF OnBatch, IndexBatch, BatchUnlink, BatchCommit
  <2> QED
    BY <1>6, <2>1, <2>2, <2>3 DEF Step
<1>7. ASSUME NEW w \in Worker, NEW o \in Ops, NEW h \in Hash, Start(w, o, h) PROVE UNCHANGED past
  BY <1>7 DEF Start
<1>8. UNCHANGED vars => UNCHANGED past
  BY DEF vars, meta
<1> QED
  BY <1>1, <1>2, <1>4, <1>5, <1>6, <1>7, <1>8 DEF Next, AllDone

(* So the types hold after every step. *)
LEMMA TypeNext == TypeInv /\ IdInv /\ [Next]_vars => TypeInv'
BY CoreNext, HistoryNext DEF CoreType, TypeInv, TypeOK

(* A new vault: nothing stored, nobody at work. *)
LEMMA TypeInit == Init => TypeInv
BY ParametersOK
   DEF Init, TypeInv, TypeOK, DatabaseOK, FilesOK, SharedOK, ThreadsOK, HistoryOK, Located, Id, PC, Op

-----------------------------------------------------------------------------
(***************************************************************************)
(* Storage ids: no two items ever share one, and the committed table is an *)
(* implementation of Catalog.                                              *)
(***************************************************************************)
(* A step of w leaves the other threads where they are. *)
OthersSame(w) ==
    \A v \in Worker \ {w} : pc'[v] = pc[v] /\ aid'[v] = aid[v] /\ op'[v] = op[v]

-----------------------------------------------------------------------------
(* A step outside every transaction. *)
LEMMA Elsewhere ==
    ASSUME IdInv, NEW w \in Worker, writer # w, pc'[w] \notin InTxn,
           UNCHANGED db, OthersSame(w)
    PROVE  IdInv'
<1>1. IdsIssued' /\ IdsUnique' /\ (Clean' <=> Clean) /\ (Inserted' <=> Inserted) /\ (Taken' <=> Taken)
  BY DEF IdInv, IdsIssued, IdsUnique, Clean, Inserted, Taken, db
<1>2. UNCHANGED <<writer, row, rowW, counter, counterW>>
  BY DEF db
<1>3. ASSUME NEW v \in Worker PROVE TxnOf(v)'
  BY <1>1, <1>2 DEF IdInv, TxnInv, TxnOf, OthersSame, InTxn
<1> QED
  BY <1>1, <1>2, <1>3 DEF IdInv, TxnInv

(* A step that opens the transaction, or one inside it. *)
LEMMA Inside ==
    ASSUME TypeInv, IdInv, NEW w \in Worker, writer \in {None, w}, writer' = w,
           UNCHANGED <<row, counter>>, OthersSame(w), TxnOf(w)'
    PROVE  IdInv'
<1>1. IdsIssued' /\ IdsUnique'
  BY DEF IdInv, IdsIssued, IdsUnique
<1>2. ASSUME NEW v \in Worker \ {w} PROVE TxnOf(v)'
  <2>1. pc[v] \notin InTxn
    BY ParametersOK DEF IdInv, TxnInv, TxnOf
  <2> QED
    BY <2>1 DEF TxnOf, OthersSame, InTxn
<1>3. writer' # None
  BY ParametersOK
<1> QED
  BY <1>1, <1>2, <1>3 DEF IdInv, TxnInv

(* What a commit makes visible keeps the ids apart. *)
LEMMA CommitIds ==
    ASSUME TypeInv, IdInv, Clean \/ Inserted \/ Taken, row' = rowW, counter' = counterW
    PROVE  IdsIssued' /\ IdsUnique'
<1> USE DEF IdInv, IdsIssued, IdsUnique, TypeInv, TypeOK, DatabaseOK, Id
<1>1. CASE Clean
  BY <1>1 DEF Clean
<1>2. CASE Inserted
  <2>1. CASE rowW = row
    BY <1>2, <2>1, ParametersOK DEF Inserted
  <2>2. CASE rowW # row
    <3>1. PICK h \in Hash : row[h] = None /\ rowW = [row EXCEPT ![h] = counter]
      BY <1>2, <2>2 DEF Inserted
    <3>2. \A g \in Hash : rowW[g] = IF g = h THEN counter ELSE row[g]
      BY <3>1
    <3>3. counterW = counter + 1
      BY <1>2 DEF Inserted
    <3>4. IdsIssued'
      BY <3>2, <3>3, ParametersOK
    <3>5. IdsUnique'
      BY <3>2, ParametersOK
    <3> QED
      BY <3>4, <3>5
  <2> QED
    BY <2>1, <2>2
<1>3. CASE Taken
  BY <1>3 DEF Taken
<1> QED
  BY <1>1, <1>2, <1>3

(* The thread that holds the transaction ends it. *)
LEMMA Closing ==
    ASSUME TypeInv, IdInv, NEW w \in Worker, writer = w, pc'[w] \notin InTxn, OthersSame(w),
           RollbackTxn \/ (CommitTxn /\ (Clean \/ Inserted \/ Taken))
    PROVE  IdInv'
<1>1. writer' = None /\ Clean'
  BY DEF RollbackTxn, CommitTxn, Clean
<1>2. ASSUME NEW v \in Worker PROVE TxnOf(v)'
  <2>1. v # w => pc[v] \notin InTxn
    BY DEF IdInv, TxnInv, TxnOf
  <2> QED
    BY <1>1, <2>1, ParametersOK DEF TxnOf, OthersSame, InTxn
<1>3. IdsIssued' /\ IdsUnique'
  <2>1. CASE RollbackTxn
    BY <2>1 DEF RollbackTxn, IdInv, IdsIssued, IdsUnique
  <2>2. CASE CommitTxn /\ (Clean \/ Inserted \/ Taken)
    BY <2>2, CommitIds DEF CommitTxn
  <2> QED
    BY <2>1, <2>2
<1> QED
  BY <1>1, <1>2, <1>3 DEF IdInv, TxnInv

(* Rows disappear while no transaction is open. *)
LEMMA RowsRemoved ==
    ASSUME TypeInv, IdInv, writer = None, writer' = None, rowW' = row',
           UNCHANGED <<counter, counterW>>,
           row' \in [Hash -> Id \cup {None}],
           \A h \in Hash : row'[h] \in {row[h], None},
           \A v \in Worker : pc'[v] \in InTxn => pc'[v] = pc[v]
    PROVE  IdInv'
<1>1. Clean'
  BY DEF IdInv, TxnInv, Clean
<1>2. ASSUME NEW v \in Worker PROVE TxnOf(v)'
  BY ParametersOK DEF IdInv, TxnInv, TxnOf, InTxn
<1>3. IdsIssued' /\ IdsUnique'
  BY DEF IdInv, IdsIssued, IdsUnique
<1> QED
  BY <1>1, <1>2, <1>3 DEF IdInv, TxnInv

-----------------------------------------------------------------------------
(* In a new vault no id has been handed out. *)
LEMMA IdInit == Init => IdInv
<1> SUFFICES ASSUME Init PROVE IdInv
  OBVIOUS
<1>1. writer = None /\ Clean /\ IdsIssued /\ IdsUnique
  BY DEF Init, Clean, IdsIssued, IdsUnique
<1>2. ASSUME NEW w \in Worker PROVE TxnOf(w)
  BY <1>1, ParametersOK DEF Init, TxnOf, InTxn
<1> QED
  BY <1>1, <1>2 DEF IdInv, TxnInv

(* Every step keeps the ids apart and accounts for the open transaction. *)
LEMMA IdNext == TypeInv /\ IdInv /\ [Next]_vars => IdInv'
<1> SUFFICES ASSUME TypeInv, IdInv, [Next]_vars PROVE IdInv'
  OBVIOUS
<1> USE DEF IdInv, TxnInv, TxnOf, OthersSame, InTxn, TypeInv, TypeOK, ThreadsOK
<1>1. CASE UNCHANGED vars
  <2>1. (Clean' <=> Clean) /\ (Inserted' <=> Inserted) /\ (Taken' <=> Taken)
    BY <1>1 DEF vars, db, Clean, Inserted, Taken
  <2> QED
    BY <1>1, <2>1 DEF vars, db, self, IdsIssued, IdsUnique
<1>2. ASSUME NEW w \in Worker, NEW o \in Ops, NEW h \in Hash, Start(w, o, h) PROVE IdInv'
  BY <1>2, Elsewhere DEF Start
<1>3. ASSUME NEW w \in Worker, Ingest(w) PROVE IdInv'
  <2>1. CASE CheckReject(w)
    BY <2>1, Elsewhere DEF CheckReject, FileNotStored, Forget, Goto, self
  <2>2. CASE CheckPass(w)
    BY <2>2, Elsewhere DEF CheckPass, Goto, self
  <2>3. CASE SimilarReview(w)
    BY <2>3, Elsewhere DEF SimilarReview, FileNotStored, Forget, Goto, self
  <2>4. CASE SimilarPass(w)
    BY <2>4, Elsewhere DEF SimilarPass, Goto, self
  <2>5. CASE Copy(w)
    <3>1. /\ writer = None /\ writer' = w /\ UNCHANGED <<row, counter>> /\ OthersSame(w)
          /\ rowW' = rowW /\ counterW' = counterW + 1 /\ aid'[w] = counterW /\ pc'[w] = "store"
      BY <2>5, NextId DEF Copy, BeginWrite, WriteFree, CounterAfter, Goto
    <3>2. TxnOf(w)'
      BY <3>1 DEF Clean
    <3> QED
      BY <3>1, <3>2, Inside
  <2>6. CASE CopyBusy(w)
    BY <2>6, Elsewhere DEF CopyBusy, Busy, FileNotStored, Forget, Goto, self
  <2>7. CASE Store(w)
    <3>1. /\ writer = w /\ writer' = w /\ UNCHANGED <<row, counter, counterW>> /\ OthersSame(w)
          /\ rowW = row /\ counterW = counter + 1 /\ aid[w] = counter /\ pc'[w] = "tag"
      BY <2>7 DEF Store, StoredId, Goto
    <3>2. obj[w] \in Hash
      BY <2>7 DEF Store, StoredId, Located
    <3>3. Inserted'
      <4>1. CASE rowW[obj[w]] = None
        <5>1. rowW' = [row EXCEPT ![obj[w]] = counter]
          BY <2>7, <3>1, <4>1 DEF Store, StoredId
        <5> QED
          BY <3>1, <3>2, <4>1, <5>1 DEF Inserted
      <4>2. CASE rowW[obj[w]] # None
        <5>1. rowW' = [rowW EXCEPT ![obj[w]] = rowW[obj[w]]]
          BY <2>7, <4>2 DEF Store, StoredId
        <5>2. rowW' = row
          BY <3>1, <5>1 DEF DatabaseOK
        <5> QED
          BY <3>1, <5>2 DEF Inserted
      <4> QED
        BY <4>1, <4>2
    <3>4. TxnOf(w)'
      BY <3>1, <3>3
    <3> QED
      BY <3>1, <3>4, Inside
  <2>8. CASE TagItem(w)
    <3>1. writer = w /\ UNCHANGED db /\ OthersSame(w) /\ pc'[w] = "commit" /\ Inserted
      BY <2>8 DEF TagItem, TagCache, Goto, db, self
    <3>2. Inserted'
      BY <3>1 DEF Inserted, db
    <3>3. writer' = w /\ UNCHANGED <<row, counter>>
      BY <3>1 DEF db
    <3>4. TxnOf(w)'
      BY <3>1, <3>2, <3>3
    <3> QED
      BY <3>1, <3>3, <3>4, Inside
  <2>9. CASE Commit(w)
    BY <2>9, Closing DEF Commit, Goto, self
  <2>10. CASE IngestThumb(w)
    BY <2>10, Elsewhere DEF IngestThumb, Goto, self
  <2>11. CASE IngestPublish(w)
    BY <2>11, Elsewhere DEF IngestPublish, Goto, self
  <2>12. CASE UpdateIndex(w)
    BY <2>12, Elsewhere DEF UpdateIndex, Goto, self
  <2>13. CASE IngestDone(w)
    BY <2>13, Elsewhere DEF IngestDone, Forget, Goto, self
  <2>14. CASE IngestRaise(w)
    <3>1. UNCHANGED db /\ OthersSame(w) /\ pc'[w] = "undoDb"
      BY <2>14 DEF IngestRaise, Goto, self
    <3>2. CASE writer = w
      <4>1. writer' = w /\ UNCHANGED <<row, counter>>
        BY <3>1, <3>2 DEF db
      <4> QED
        BY <3>1, <3>2, <4>1, Inside
    <3>3. CASE writer # w
      BY <3>1, <3>3, Elsewhere
    <3> QED
      BY <3>2, <3>3
  <2>15. CASE UndoDb(w)
    BY <2>15, Elsewhere, Closing, Inside, RowsRemoved DEF UndoDb, Goto, self
  <2>16. CASE UndoFiles(w)
    BY <2>16, Elsewhere DEF UndoFiles, FileNotStored, Forget, Goto, self
  <2> QED
    BY <1>3, <2>1, <2>2, <2>3, <2>4, <2>5, <2>6, <2>7, <2>8, <2>9, <2>10, <2>11, <2>12, <2>13, <2>14, <2>15, <2>16 DEF Ingest
<1>4. ASSUME NEW w \in Worker, OnItem(w) PROVE IdInv'
  <2>1. CASE UpdateBegin(w)
    <3>1. writer = None /\ UNCHANGED <<row, rowW, counter, counterW>> /\ pc[w] = "begin"
      BY <2>1 DEF UpdateBegin, WriteFree
    <3>2. CASE row[obj[w]] = None
      <4>1. UNCHANGED db /\ writer # w
        BY <2>1, <3>1, <3>2, ParametersOK DEF UpdateBegin, db
      <4>2. OthersSame(w) /\ pc'[w] = "idle"
        BY <2>1, <3>2, ForgetType DEF UpdateBegin
      <4> QED
        BY <4>1, <4>2, Elsewhere
    <3>3. CASE row[obj[w]] # None
      <4>1. writer' = w /\ OthersSame(w) /\ pc'[w] = "lock" /\ op'[w] = op[w]
        BY <2>1, <3>3 DEF UpdateBegin, BeginWrite, Goto
      <4>2. op[w] = "update"
        BY <3>1 DEF Located
      <4>3. TxnOf(w)'
        BY <3>1, <4>1, <4>2 DEF Clean
      <4> QED
        BY <3>1, <4>1, <4>3, Inside
    <3> QED
      BY <3>2, <3>3
  <2>2. CASE UpdateBusy(w)
    BY <2>2, Elsewhere DEF UpdateBusy, Busy, Forget, Goto, self
  <2>3. CASE LockItem(w)
    <3>1. /\ UNCHANGED db /\ OthersSame(w) /\ pc[w] = "lock" /\ op'[w] = op[w]
          /\ pc'[w] = CASE op[w] = "delete" -> "list" [] op[w] = "thumb" -> "publish"
                        [] OTHER -> "write"
      BY <2>3 DEF LockItem, Goto
    <3>2. pc'[w] \notin InTxn
      BY <3>1
    <3>3. CASE writer = w
      <4>1. op[w] = "update" /\ Clean
        BY <3>1, <3>3
      <4>2. writer' = w /\ UNCHANGED <<row, counter>> /\ Clean'
        BY <3>1, <3>3, <4>1 DEF db, Clean
      <4>3. pc'[w] = "write"
        BY <3>1, <4>1
      <4>4. TxnOf(w)'
        BY <3>1, <4>1, <4>2, <4>3
      <4> QED
        BY <3>1, <3>3, <4>2, <4>4, Inside
    <3>4. CASE writer # w
      BY <3>1, <3>2, <3>4, Elsewhere
    <3> QED
      BY <3>3, <3>4
  <2>4. CASE LockGone(w)
    BY <2>4, Elsewhere, Closing, Inside, RowsRemoved DEF LockGone, Forget, Goto, self
  <2>5. CASE ThumbBusy(w)
    BY <2>5, Elsewhere DEF ThumbBusy, Forget, Goto, self
  <2>6. CASE ThumbPublish(w)
    BY <2>6, Elsewhere DEF ThumbPublish, Forget, Goto, self
  <2>7. CASE WriteNote(w)
    <3>1. UNCHANGED db /\ OthersSame(w) /\ pc[w] = "write" /\ pc'[w] = "reindex" /\ op'[w] = op[w]
      BY <2>7 DEF WriteNote, Goto, self
    <3>2. CASE writer = w
      <4>1. writer' = w /\ UNCHANGED <<row, counter>> /\ Clean' /\ op[w] = "update"
        BY <3>1, <3>2 DEF db, Clean
      <4>2. TxnOf(w)'
        BY <3>1, <4>1
      <4> QED
        BY <3>1, <3>2, <4>1, <4>2, Inside
    <3>3. CASE writer # w
      BY <3>1, <3>3, Elsewhere
    <3> QED
      BY <3>2, <3>3
  <2>8. CASE Stage(w)
    BY <2>8, Elsewhere DEF Stage, self
  <2>9. CASE Staged(w)
    BY <2>9, Elsewhere DEF Staged, Goto, self
  <2>10. CASE DeleteRow(w)
    <3>1. /\ writer = None /\ writer' = None /\ rowW' = row' /\ UNCHANGED <<counter, counterW>>
          /\ row' = [row EXCEPT ![obj[w]] = None]
      BY <2>10 DEF DeleteRow, WriteFree
    <3>2. row' \in [Hash -> Id \cup {None}] /\ \A h \in Hash : row'[h] \in {row[h], None}
      BY <3>1 DEF DatabaseOK
    <3>3. \A v \in Worker : pc'[v] \in InTxn => pc'[v] = pc[v]
      BY <2>10 DEF DeleteRow, Goto
    <3> QED
      BY <3>1, <3>2, <3>3, RowsRemoved
  <2>11. CASE DeleteRefused(w)
    BY <2>11, Elsewhere DEF DeleteRefused, Busy, Goto, self
  <2>12. CASE Restore(w)
    BY <2>12, Elsewhere DEF Restore, Forget, Goto, self
  <2>13. CASE Deindex(w)
    BY <2>13, Elsewhere DEF Deindex, Goto, self
  <2>14. CASE Purge(w)
    BY <2>14, Elsewhere DEF Purge, Forget, Goto, self
  <2>15. CASE Reindex(w)
    BY <2>15, Elsewhere, Closing DEF Reindex, Forget, Goto, self
  <2>16. CASE List(w)
    BY <2>16, Elsewhere DEF List, Goto
  <2> QED
    BY <1>4, <2>1, <2>2, <2>3, <2>4, <2>5, <2>6, <2>7, <2>8, <2>9, <2>10, <2>11, <2>12, <2>13, <2>14, <2>15, <2>16 DEF OnItem
<1>5. ASSUME NEW w \in Worker, OnBatch(w) PROVE IdInv'
  <2>1. CASE IndexBatch(w)
    BY <2>1, Elsewhere DEF IndexBatch, self
  <2>2. CASE BatchDelete(w)
    <3>1. /\ writer = None /\ writer' = w /\ UNCHANGED <<row, counter, counterW>> /\ OthersSame(w)
          /\ rowW' = [h \in Hash |-> IF h \in batch[w] THEN None ELSE rowW[h]]
          /\ pc'[w] = "takeback"
      BY <2>2 DEF BatchDelete, BeginWrite, WriteFree, Goto
    <3>2. rowW = row /\ counterW = counter
      BY <3>1 DEF Clean
    <3>3. Taken'
      BY <3>1, <3>2 DEF Taken
    <3>4. TxnOf(w)'
      BY <3>1, <3>3
    <3> QED
      BY <3>1, <3>4, Inside
  <2>3. CASE BatchBusy(w)
    BY <2>3, Elsewhere DEF BatchBusy, Busy, Forget, ForgetUrl, Goto, self
  <2>4. CASE BatchUnlink(w)
    <3>1. writer = w /\ UNCHANGED db /\ OthersSame(w) /\ pc'[w] = "takenback" /\ Taken
      BY <2>4 DEF BatchUnlink, Goto, self
    <3>2. writer' = w /\ UNCHANGED <<row, counter>> /\ Taken'
      BY SMTT(40), <3>1 DEF db, Taken
    <3>3. TxnOf(w)'
      BY <3>1, <3>2
    <3> QED
      BY <3>1, <3>2, <3>3, Inside
  <2>5. CASE BatchCommit(w)
    BY <2>5, Closing DEF BatchCommit, Goto, self
  <2>6. CASE BatchRaise(w)
    BY <2>6, Closing DEF BatchRaise, Forget, ForgetUrl, Goto, self
  <2>7. CASE BatchDeindex(w)
    BY <2>7, Elsewhere DEF BatchDeindex, Forget, ForgetUrl, Goto, self
  <2> QED
    BY <1>5, <2>1, <2>2, <2>3, <2>4, <2>5, <2>6, <2>7 DEF OnBatch
<1>6. CASE Crash
  <2>1. writer' = None /\ Clean' /\ UNCHANGED <<row, counter>>
    BY <1>6 DEF Crash, RollbackTxn, Clean
  <2>2. \A v \in Worker : pc'[v] = "idle"
    BY <1>6 DEF Crash
  <2>3. ASSUME NEW v \in Worker PROVE TxnOf(v)'
    BY <2>1, <2>2, ParametersOK
  <2> QED
    BY <2>1, <2>3 DEF IdsIssued, IdsUnique
<1>7. CASE AllDone
  BY <1>1, <1>7 DEF AllDone
<1> QED
  BY <1>1, <1>2, <1>3, <1>4, <1>5, <1>6, <1>7 DEF Next, Step

(* The inductive invariant holds in every reachable state. *)
LEMMA IdAlways == Spec => [](TypeInv /\ IdInv)
BY TypeInit, TypeNext, IdInit, IdNext, PTL DEF Spec

(* The variables stay in their types, whatever operations, faults and crashes
   interleave; in particular no step of processor.py, library.py or
   external_ingestion.py uses a storage id it does not have. *)
THEOREM TypeCorrect == Spec => []TypeOK
BY IdAlways, PTL DEF TypeInv

(* However ingests, deletes, rollbacks and crashes interleave, two items of
   the table never have the same storage id: allocate_storage_id and the
   insert that uses the id are one transaction. *)
THEOREM IdsNeverShared == Spec => []IdsUnique
BY IdAlways, PTL DEF IdInv

-----------------------------------------------------------------------------
(* The three things a step may do to what other connections see. *)
Quietly == UNCHANGED <<row, counter>>
Commits == row' = rowW /\ counter' = counterW /\ (Clean \/ Inserted \/ Taken)
Deletes == \E h \in Hash : row' = [row EXCEPT ![h] = None] /\ counter' = counter

(* What a step shows to other connections: nothing, what a transaction
   held, or rows that disappear. *)
LEMMA Visible ==
    ASSUME TypeInv, IdInv, [Next]_vars
    PROVE  Quietly \/ Commits \/ Deletes
<1> USE DEF Quietly, db
<1>1. CASE UNCHANGED vars
  BY <1>1 DEF vars
<1>2. ASSUME NEW w \in Worker, NEW o \in Ops, NEW h \in Hash, Start(w, o, h)
      PROVE Quietly
  BY <1>2 DEF Start
<1>3. ASSUME NEW w \in Worker, Ingest(w) PROVE Quietly \/ Commits
  <2>1. CASE Commit(w)
    <3>1. pc[w] = "commit" /\ row' = rowW /\ counter' = counterW
      BY <2>1 DEF Commit, CommitTxn
    <3> QED
      BY <3>1 DEF IdInv, TxnInv, TxnOf, Commits
  <2>2. CASE UndoDb(w)
    BY <2>2 DEF UndoDb, RollbackTxn
  <2>3. CASE ~Commit(w) /\ ~UndoDb(w)
    BY <1>3, <2>3
       DEF Ingest, CheckReject, CheckPass, SimilarReview, SimilarPass, Copy, CopyBusy, Store, TagItem, IngestThumb, IngestPublish, UpdateIndex, IngestDone, IngestRaise, UndoFiles
  <2> QED
    BY <2>1, <2>2, <2>3
<1>4. ASSUME NEW w \in Worker, OnItem(w) PROVE Quietly \/ Commits \/ Deletes
  <2>1. CASE Reindex(w)
    <3>1. CASE writer = w
      <4>1. pc[w] = "reindex" /\ row' = rowW /\ counter' = counterW
        BY <2>1, <3>1 DEF Reindex, CommitTxn
      <4> QED
        BY <3>1, <4>1 DEF IdInv, TxnInv, TxnOf, Commits
    <3>2. CASE writer # w
      BY <2>1, <3>2 DEF Reindex
    <3> QED
      BY <3>1, <3>2
  <2>2. CASE DeleteRow(w)
    BY <2>2 DEF DeleteRow, Deletes, TypeInv, Located
  <2>3. CASE LockGone(w)
    BY <2>3 DEF LockGone, RollbackTxn
  <2>4. CASE ~Reindex(w) /\ ~DeleteRow(w) /\ ~LockGone(w)
    BY <1>4, <2>4
       DEF OnItem, UpdateBegin, UpdateBusy, LockItem, ThumbBusy, ThumbPublish, WriteNote, List, Stage, Staged, DeleteRefused, Restore, Deindex, Purge
  <2> QED
    BY <2>1, <2>2, <2>3, <2>4
<1>5. ASSUME NEW w \in Worker, OnBatch(w) PROVE Quietly \/ Commits
  <2>1. CASE BatchCommit(w)
    <3>1. pc[w] = "takenback" /\ row' = rowW /\ counter' = counterW
      BY <2>1 DEF BatchCommit, CommitTxn
    <3> QED
      BY <3>1 DEF IdInv, TxnInv, TxnOf, Commits
  <2>2. CASE ~BatchCommit(w)
    BY <1>5, <2>2
       DEF OnBatch, IndexBatch, BatchDelete, BatchBusy, BatchUnlink, BatchRaise, BatchDeindex, RollbackTxn
  <2> QED
    BY <2>1, <2>2
<1>6. CASE Crash
  BY <1>6 DEF Crash, RollbackTxn
<1>7. CASE AllDone
  BY <1>7, <1>1 DEF AllDone
<1> QED
  BY <1>1, <1>2, <1>3, <1>4, <1>5, <1>6, <1>7 DEF Next, Step

(* The empty table is the empty catalogue. *)
LEMMA CatalogInit == Init => Committed!Init
<1> SUFFICES ASSUME Init PROVE Committed!Init
  OBVIOUS
<1>1. row = [h \in Hash |-> None] /\ 1..(counter - 1) = {}
  BY DEF Init
<1> QED
  BY <1>1 DEF Committed!Init

(* Each of these is a step of the catalogue, or none. *)
LEMMA CatalogStep ==
    ASSUME TypeInv, IdInv, [Next]_vars
    PROVE  [Committed!Next]_<<row, 1..(counter - 1)>>
<1> USE DEF TypeInv, TypeOK, DatabaseOK, Id
<1>1. counter \in Nat /\ counter >= 1 /\ counterW \in 1..(MaxId + 1)
  BY ParametersOK
<1>2. CASE Quietly
  BY <1>2 DEF Quietly
<1>3. CASE Commits /\ Clean
  BY <1>3 DEF Commits, Clean
<1>4. CASE Commits /\ Inserted
  <2>1. counter' = counter + 1 /\ counter \in Id \ (1..(counter - 1))
    BY <1>1, <1>4, ParametersOK DEF Commits, Inserted
  <2>2. 1..(counter' - 1) = 1..(counter - 1) \cup {counter}
    BY <1>1, <2>1
  <2>3. CASE row' = row
    <3>1. Committed!Waste(counter)
      BY <2>1, <2>2, <2>3 DEF Committed!Waste
    <3> QED
      BY <2>1, <3>1 DEF Committed!Next
  <2>4. CASE row' # row
    <3>1. PICK h \in Hash : row[h] = None /\ row' = [row EXCEPT ![h] = counter]
      BY <1>4, <2>4 DEF Commits, Inserted
    <3>2. Committed!Add(h, counter)
      BY <2>1, <2>2, <3>1 DEF Committed!Add
    <3> QED
      BY <2>1, <3>2 DEF Committed!Next
  <2> QED
    BY <2>3, <2>4
<1>5. CASE Commits /\ Taken
  <2>1. PICK H \in SUBSET Hash : row' = [h \in Hash |-> IF h \in H THEN None ELSE row[h]]
    BY <1>5 DEF Commits, Taken
  <2>2. counter' = counter
    BY <1>5 DEF Commits, Taken
  <2>3. Committed!Remove(H)
    BY <2>1, <2>2 DEF Committed!Remove
  <2> QED
    BY <2>3 DEF Committed!Next
<1>6. CASE Deletes
  <2>1. PICK h \in Hash : row' = [row EXCEPT ![h] = None] /\ counter' = counter
    BY <1>6 DEF Deletes
  <2>2. row' = [g \in Hash |-> IF g \in {h} THEN None ELSE row[g]]
    BY <2>1
  <2>3. Committed!Remove({h})
    BY <2>1, <2>2 DEF Committed!Remove
  <2> QED
    BY <2>3 DEF Committed!Next
<1> QED
  BY <1>2, <1>3, <1>4, <1>5, <1>6, Visible DEF Commits

(* What other connections see of the table is a catalogue: an id that named
   one item never names another, not even after the item is deleted, its URL
   taken back, or the process restarted. *)
THEOREM CatalogImplemented == Spec => ImplementsCatalog
<1>1. Init => Committed!Init
  BY CatalogInit
<1>2. TypeInv /\ IdInv /\ [Next]_vars => [Committed!Next]_<<row, 1..(counter - 1)>>
  BY CatalogStep
<1> QED
  BY <1>1, <1>2, IdAlways, PTL DEF Spec, ImplementsCatalog, Committed!Spec

-----------------------------------------------------------------------------
(***************************************************************************)
(* The files of the items.  A storage id names a path, so the argument is  *)
(* about who works with which id: the table, and the threads that took an  *)
(* id from it.  Two contents never have a claim to one id, and an ingest   *)
(* that has not committed works under the id after all of them.            *)
(***************************************************************************)

Media == {"asset", "note"}
Ingesting == {"check", "similar", "copy", "store", "tag", "commit", "thumb", "index",
              "unlink", "undoDb", "undoFiles"}
Staging == {"stage", "remove", "restore"}
Deleting == Staging \cup {"list", "deindex", "purge"}
Storer == {"store", "tag", "commit"}
Returning == {"takeback", "takenback"}
Undoing == {"undoDb", "undoFiles"}

(* Which operation is at which step, and what it has of the item by then. *)
Course(w) ==
    /\ pc[w] \in Ingesting => op[w] = "ingest"
    /\ pc[w] \in {"idle", "begin", "lock", "check", "similar", "copy", "store"} => sid[w] = None
    /\ pc[w] \notin Deleting => moved[w] = {} /\ due[w] = {}
    /\ pc[w] \in Deleting => op[w] = "delete" /\ sid[w] \in Id /\ aid[w] \in Id
    /\ \A f \in moved[w] \cup due[w] : f.id = sid[w]
    /\ pc[w] \in {"write", "reindex"} => op[w] \in {"update", "edit", "tag"} /\ sid[w] = aid[w]
    /\ pc[w] = "publish" => op[w] \in {"ingest", "thumb"} /\ (op[w] = "thumb" => sid[w] = aid[w])

(* A step of w leaves the locals of the other threads alone. *)
OthersKeep(w) ==
    \A v \in Worker \ {w} : /\ pc'[v] = pc[v] /\ op'[v] = op[v] /\ obj'[v] = obj[v]
                            /\ aid'[v] = aid[v] /\ sid'[v] = sid[v] /\ due'[v] = due[v]
                            /\ moved'[v] = moved[v] /\ batch'[v] = batch[v]

(* Starting an operation is a step of one thread. *)
LEMMA OthersStart ==
    ASSUME ThreadsOK, NEW w \in Worker, NEW o \in Ops, NEW h \in Hash, Start(w, o, h)
    PROVE  OthersKeep(w)
BY DEF Start, OthersKeep, ThreadsOK

(* A thread that is done has no locals left. *)
Blank(w) == /\ pc'[w] = "idle" /\ op'[w] = None /\ obj'[w] = None
            /\ aid'[w] = None /\ sid'[w] = None /\ due'[w] = {} /\ moved'[w] = {}

(* Ending one leaves the thread blank. *)
LEMMA ForgetBlank ==
    ASSUME ThreadsOK, NEW w \in Worker, Forget(w)
    PROVE  Blank(w)
BY DEF Forget, Goto, Blank, ThreadsOK

(* It is a step of one thread, too. *)
LEMMA OthersForget ==
    ASSUME ThreadsOK, NEW w \in Worker, Forget(w), \A v \in Worker \ {w} : batch'[v] = batch[v]
    PROVE  OthersKeep(w) /\ Blank(w)
BY DEF Forget, Goto, OthersKeep, Blank, ThreadsOK

(* Every step is one of its thread. *)
LEMMA OthersStep ==
    ASSUME TypeInv, NEW w \in Worker, Step(w)
    PROVE  OthersKeep(w)
<1>1. ThreadsOK
  BY DEF TypeInv, TypeOK
<1> USE DEF FileNotStored, ForgetUrl, url, ThreadsOK
<1>2. \A v \in Worker \ {w} : batch'[v] = batch[v]
  <2>1. CASE Ingest(w)
    BY <1>1, <2>1
       DEF Ingest, CheckReject, CheckPass, SimilarReview, SimilarPass, Copy, CopyBusy, Store, TagItem,
           Commit, IngestThumb, IngestPublish, UpdateIndex, IngestDone, IngestRaise, UndoDb, UndoFiles
  <2>2. CASE OnItem(w)
    BY <1>1, <2>2
       DEF OnItem, UpdateBegin, UpdateBusy, LockItem, LockGone, ThumbBusy, ThumbPublish, WriteNote, Reindex,
           List, Stage, Staged, DeleteRow, DeleteRefused, Restore, Deindex, Purge
  <2>3. CASE OnBatch(w)
    BY <1>1, <2>3
       DEF OnBatch, IndexBatch, BatchDelete, BatchBusy, BatchUnlink, BatchCommit, BatchRaise, BatchDeindex
  <2> QED
    BY <2>1, <2>2, <2>3 DEF Step
<1>3. CASE Forget(w)
  BY <1>1, <1>2, <1>3, OthersForget
<1>4. CASE Ingest(w) /\ ~Forget(w)
  BY <1>1, <1>2, <1>4
     DEF Ingest, CheckReject, CheckPass, SimilarReview, SimilarPass, Copy, CopyBusy, Store, TagItem,
         Commit, IngestThumb, IngestPublish, UpdateIndex, IngestDone, IngestRaise, UndoDb, UndoFiles,
         Goto, self, OthersKeep
<1>5. CASE OnItem(w) /\ ~Forget(w)
  BY <1>1, <1>2, <1>5
     DEF OnItem, UpdateBegin, UpdateBusy, LockItem, LockGone, ThumbBusy, ThumbPublish, WriteNote, Reindex,
         List, Stage, Staged, DeleteRow, DeleteRefused, Restore, Deindex, Purge, Goto, self, OthersKeep
<1>6. CASE OnBatch(w) /\ ~Forget(w)
  BY <1>1, <1>2, <1>6
     DEF OnBatch, IndexBatch, BatchDelete, BatchBusy, BatchUnlink, BatchCommit, BatchRaise, BatchDeindex,
         Goto, self, OthersKeep
<1> QED
  BY <1>3, <1>4, <1>5, <1>6 DEF Step

(* A thread without locals is on course. *)
LEMMA CourseBlank ==
    ASSUME NEW w \in Worker, Blank(w)
    PROVE  Course(w)'
BY ParametersOK DEF Blank, Course, Op, Ingesting, Deleting, Staging, Undoing

(* A step of w keeps the others on course. *)
LEMMA CourseOthers ==
    ASSUME NEW w \in Worker, OthersKeep(w), \A v \in Worker : Course(v), Course(w)'
    PROVE  \A v \in Worker : Course(v)'
BY DEF Course, OthersKeep

(* process_file keeps its thread on course. *)
LEMMA CourseIngest ==
    ASSUME TypeInv, NEW w \in Worker, Course(w), Ingest(w)
    PROVE  Course(w)'
<1> USE DEF Ingesting, Deleting, Staging, Undoing, Goto, self
<1>1. ThreadsOK
  BY DEF TypeInv, TypeOK
<1>2. CASE Forget(w)
  BY <1>1, <1>2, ForgetBlank, CourseBlank
<1>3. CASE ~Forget(w)
  <2>1. pc'[w] \in {"similar", "copy", "store", "tag", "commit", "thumb", "publish", "index", "unlink", "undoDb", "undoFiles"}
    BY <1>1, <1>3
     DEF Ingest, CheckReject, CheckPass, SimilarReview, SimilarPass, Copy, CopyBusy, Store, TagItem,
         Commit, IngestThumb, IngestPublish, UpdateIndex, IngestDone, IngestRaise, UndoDb, UndoFiles,
         FileNotStored, ThreadsOK
  <2>2. /\ op'[w] = op[w] /\ obj'[w] = obj[w] /\ moved'[w] = moved[w] /\ due'[w] = due[w]
        /\ op[w] = "ingest" /\ pc[w] \notin Deleting
    BY <1>1, <1>3
     DEF Ingest, CheckReject, CheckPass, SimilarReview, SimilarPass, Copy, CopyBusy, Store, TagItem,
         Commit, IngestThumb, IngestPublish, UpdateIndex, IngestDone, IngestRaise, UndoDb, UndoFiles,
         FileNotStored, ThreadsOK, Course
  <2>3. pc'[w] \in {"similar", "copy", "store"} => sid'[w] = None
    BY <1>1, <1>3
     DEF Ingest, CheckReject, CheckPass, SimilarReview, SimilarPass, Copy, CopyBusy, Store, TagItem,
         Commit, IngestThumb, IngestPublish, UpdateIndex, IngestDone, IngestRaise, UndoDb, UndoFiles,
         FileNotStored, ThreadsOK, Course
  <2> QED
    BY <2>1, <2>2, <2>3 DEF Course
<1> QED
  BY <1>2, <1>3

(* So do the operations on a stored item. *)
LEMMA CourseItem ==
    ASSUME TypeInv, NEW w \in Worker, Course(w), OnItem(w)
    PROVE  Course(w)'
<1> USE DEF Ingesting, Deleting, Staging, Undoing, Goto, self
<1>1. ThreadsOK /\ Located /\ DatabaseOK
  BY DEF TypeInv, TypeOK
<1>2. CASE Forget(w)
  BY <1>1, <1>2, ForgetBlank, CourseBlank
<1>3. CASE UpdateBegin(w) /\ ~Forget(w)
  BY <1>1, <1>3 DEF UpdateBegin, ThreadsOK, Course, Located
<1>4. CASE LockItem(w)
  <2>1. pc[w] = "lock" /\ obj[w] \in Hash /\ aid[w] \in Id /\ op[w] \in {"delete", "update", "edit", "tag", "thumb"}
    BY <1>1, <1>4 DEF LockItem, Located
  <2>2. op'[w] = op[w] /\ obj'[w] = obj[w] /\ aid'[w] = aid[w] /\ moved'[w] = moved[w] /\ due'[w] = due[w]
    BY <1>4 DEF LockItem
  <2>3. sid'[w] = IF op[w] = "thumb" THEN aid[w] ELSE row[obj[w]]
    BY <1>1, <1>4 DEF LockItem, ThreadsOK
  <2>4. pc'[w] = CASE op[w] = "delete" -> "list" [] op[w] = "thumb" -> "publish" [] OTHER -> "write"
    BY <1>1, <1>4 DEF LockItem, ThreadsOK
  <2>5. (op[w] = "delete" => row[obj[w]] \in Id) /\ (op[w] \in {"update", "edit", "tag"} => row[obj[w]] = aid[w])
    BY <1>1, <1>4, <2>1 DEF LockItem, StillThere, DatabaseOK
  <2>6. moved[w] = {} /\ due[w] = {}
    BY <2>1 DEF Course
  <2>7. CASE op[w] = "delete"
    BY <2>1, <2>2, <2>3, <2>4, <2>5, <2>6, <2>7 DEF Course
  <2>8. CASE op[w] = "thumb"
    BY <2>1, <2>2, <2>3, <2>4, <2>6, <2>8 DEF Course
  <2>9. CASE op[w] \in {"update", "edit", "tag"}
    BY <2>1, <2>2, <2>3, <2>4, <2>5, <2>6, <2>9 DEF Course
  <2> QED
    BY <2>1, <2>7, <2>8, <2>9
<1>5. CASE Stage(w)
  <2>1. UNCHANGED <<pc, op, obj, aid, sid>>
    BY <1>5 DEF Stage
  <2>2. PICK f \in due[w] : /\ moved'[w] = moved[w] \cup {g \in disk : SamePath(g, f)}
                            /\ due'[w] = due[w] \ {f}
    BY <1>1, <1>5 DEF Stage, ThreadsOK
  <2>3. f.id = sid[w]
    BY DEF Course
  <2> QED
    BY <1>5, <2>1, <2>2, <2>3 DEF Course, Stage, SamePath
<1>6. CASE List(w)
  <2>1. /\ pc[w] = "list" /\ pc'[w] = "stage" /\ moved'[w] = moved[w] /\ due'[w] = Owned(sid[w])
        /\ op'[w] = op[w] /\ obj'[w] = obj[w] /\ aid'[w] = aid[w] /\ sid'[w] = sid[w]
    BY <1>1, <1>6 DEF List, ThreadsOK
  <2> QED
    BY <2>1 DEF Course, Owned
<1>7. CASE ~Forget(w) /\ (Staged(w) \/ DeleteRow(w) \/ DeleteRefused(w) \/ Deindex(w))
  <2>1. /\ pc[w] \in Deleting /\ pc'[w] \in Deleting
        /\ op'[w] = op[w] /\ obj'[w] = obj[w] /\ aid'[w] = aid[w] /\ sid'[w] = sid[w]
        /\ moved'[w] = moved[w] /\ due'[w] = due[w]
    BY <1>1, <1>7 DEF Staged, DeleteRow, DeleteRefused, Deindex, ThreadsOK
  <2> QED
    BY <2>1 DEF Course
<1>8. CASE WriteNote(w)
  <2>1. /\ pc[w] = "write" /\ pc'[w] = "reindex"
        /\ op'[w] = op[w] /\ obj'[w] = obj[w] /\ aid'[w] = aid[w] /\ sid'[w] = sid[w]
        /\ moved'[w] = moved[w] /\ due'[w] = due[w]
    BY <1>1, <1>8 DEF WriteNote, ThreadsOK
  <2> QED
    BY <2>1 DEF Course
<1> QED
  BY <1>2, <1>3, <1>4, <1>5, <1>6, <1>7, <1>8
     DEF OnItem, UpdateBusy, LockGone, ThumbBusy, ThumbPublish, Reindex, Restore, Purge

(* And the end of an online run. *)
LEMMA CourseBatch ==
    ASSUME TypeInv, NEW w \in Worker, Course(w), OnBatch(w)
    PROVE  Course(w)'
<1>1. ThreadsOK
  BY DEF TypeInv, TypeOK
<1>2. CASE Forget(w)
  BY <1>1, <1>2, ForgetBlank, CourseBlank
<1>3. CASE IndexBatch(w)
  BY <1>3 DEF IndexBatch, Course, self
<1>4. CASE BatchDelete(w) \/ BatchUnlink(w) \/ BatchCommit(w)
  <2>1. /\ pc[w] \in {"idle", "takeback", "takenback"} /\ pc'[w] \in {"takeback", "takenback", "deindexBatch"}
        /\ moved'[w] = moved[w] /\ due'[w] = due[w]
    BY <1>1, <1>4 DEF BatchDelete, BatchUnlink, BatchCommit, Goto, self, ThreadsOK
  <2>2. op'[w] \in {op[w], "rollback"} /\ obj'[w] = obj[w] /\ aid'[w] = aid[w] /\ sid'[w] = sid[w]
    BY <1>1, <1>4 DEF BatchDelete, BatchUnlink, BatchCommit, self, ThreadsOK
  <2> QED
    BY <2>1, <2>2 DEF Course, Ingesting, Deleting, Staging
<1> QED
  BY <1>2, <1>3, <1>4 DEF OnBatch, BatchBusy, ForgetUrl, BatchRaise, BatchDeindex

(* No step leads off the course. *)
LEMMA CourseNext ==
    ASSUME TypeInv, \A w \in Worker : Course(w), [Next]_vars
    PROVE  \A w \in Worker : Course(w)'
<1>1. ThreadsOK
  BY DEF TypeInv, TypeOK
<1>2. CASE UNCHANGED vars
  BY <1>2 DEF vars, self, Course
<1>3. ASSUME NEW w \in Worker, NEW o \in Ops, NEW h \in Hash, Start(w, o, h)
      PROVE  \A v \in Worker : Course(v)'
  <2>1. /\ pc[w] = "idle" /\ o # "rollback" /\ o \in Op
        /\ pc'[w] = CASE o = "ingest" -> "check" [] o = "update" -> "begin" [] OTHER -> "lock"
        /\ op'[w] = o /\ obj'[w] = h /\ sid'[w] = sid[w] /\ moved'[w] = moved[w] /\ due'[w] = due[w]
    BY <1>1, <1>3, ParametersOK DEF Start, ThreadsOK
  <2>2. Course(w)'
    BY <2>1 DEF Course, Ingesting, Deleting, Staging, Undoing, Op
  <2> QED
    BY <1>1, <1>3, <2>2, OthersStart, CourseOthers
<1>4. ASSUME NEW w \in Worker, Step(w) PROVE \A v \in Worker : Course(v)'
  BY <1>4, OthersStep, CourseOthers, CourseIngest, CourseItem, CourseBatch DEF Step
<1>5. CASE Crash
  BY <1>5, CourseBlank DEF Crash, Blank
<1> QED
  BY <1>2, <1>3, <1>4, <1>5 DEF Next, AllDone

-----------------------------------------------------------------------------
(* The ids under which a thread works on a stored item. *)
Claimed(w) ==
    (IF pc[w] = "lock" THEN {aid[w]} ELSE {})
      \cup (IF pc[w] \in Deleting \cup {"write", "reindex", "thumb", "publish", "index"} THEN {sid[w]} ELSE {})

Claims(h, i) == row[h] = i \/ \E w \in Worker : obj[w] = h /\ i \in Claimed(w)

ClaimsApart ==
    \A i \in Id, g, h \in Hash :
        Claims(h, i) => i < counter /\ (Claims(g, i) => g = h)

(* The place of the thread's content under its new id is its own, unless a
   cleanup still has that id. *)
Placed(k, w) ==
    aid[w] \notin reissued =>
        \A f \in disk \cup {FileOf(k, obj[w], aid[w])} :
            SamePath(f, FileOf(k, obj[w], aid[w])) => f \in disk /\ f.hash = obj[w]

(* What an open transaction will commit: a row that is there already, one with
   a new id whose files are in place, or the rows of a URL taken out. *)
Storing(w) ==
    /\ pc[w] \in Storer => aid[w] = counter
    /\ pc[w] = "store" => Placed("asset", w)
    /\ pc[w] \in {"tag", "commit"} =>
          /\ rowW = [row EXCEPT ![obj[w]] = sid[w]]
          /\ \/ row[obj[w]] = sid[w]
             \/ row[obj[w]] = None /\ sid[w] = aid[w] /\ Placed("asset", w) /\ Placed("note", w)
    /\ pc[w] \in Returning => rowW = [h \in Hash |-> IF h \in batch[w] THEN None ELSE row[h]]

(* The items whose files an accident may have taken. *)
Lost == reissued \cup robbed

(* What a cleanup unlinks is no item's, but for these. *)
Undone(w) ==
    pc[w] \in Undoing => \A h \in Hash : row[h] \in {aid[w], sid[w]} \ {None} => row[h] \in Lost

(* The ids of a cleanup have been issued, but for the one its own transaction
   has still open and the one that was given back. *)
Spent(w) ==
    pc[w] \in Undoing =>
        /\ aid[w] <= counter
        /\ sid[w] \in {None, aid[w]} \/ sid[w] < counter
        /\ pc[w] = "undoDb" /\ writer # w => aid[w] < counter

(* Who stores under an id that a cleanup gave back is marked. *)
Marked(w) ==
    pc[w] = "undoFiles" /\ aid[w] = counter /\ (\E v \in Worker : pc[v] \in Storer) => counter \in reissued

(* An ingest that has committed did so under the id it allocated, or wasted it. *)
Settled(w) ==
    pc[w] \in {"thumb", "index"} \/ (pc[w] = "publish" /\ op[w] = "ingest") =>
        aid[w] < counter /\ (aid[w] = sid[w] \/ \A h \in Hash : row[h] # aid[w])

(* What a delete has purged is no item's. *)
Purged(w) == pc[w] \in {"deindex", "purge"} => \A h \in Hash : row[h] # sid[w]

Harmless(w) == Undone(w) /\ Spent(w) /\ Marked(w) /\ Settled(w) /\ Purged(w)

(* A file at a path that a content has a claim to has that content. *)
Fits(f) ==
    \A h \in Hash : f.kind \in Media /\ f.shard = ShardOf[h] /\ Claims(h, f.id) /\ f.id \notin reissued
                      => f.hash = h

FilesFit == \A f \in disk \cup UNION {moved[w] : w \in Worker} : Fits(f)

Threads == \A w \in Worker : Course(w) /\ Storing(w) /\ Harmless(w)

RowInv == Threads /\ ClaimsApart /\ FilesFit /\ RowHasFiles

-----------------------------------------------------------------------------
(* A commit adds the row of the thread's content, or leaves the table as it
   is; the id of a new row is the one the counter stood at. *)
Adds(w) ==
    /\ counter' = counter + 1
    /\ row' = [row EXCEPT ![obj[w]] = sid[w]]
    /\ row[obj[w]] = sid[w] \/ (row[obj[w]] = None /\ sid[w] = counter)

(* The commit of an ingest adds one row and moves the counter by one. *)
LEMMA CommitAdds ==
    ASSUME TypeInv, IdInv, NEW w \in Worker, Storing(w), Commit(w)
    PROVE  Adds(w)
<1>1. pc[w] = "commit" /\ row' = rowW /\ counter' = counterW
  BY DEF Commit, CommitTxn
<1>2. counterW = counter + 1
  BY <1>1 DEF IdInv, TxnInv, TxnOf, Inserted
<1> QED
  BY <1>1, <1>2 DEF Storing, Storer, Adds

(* No other step adds one. *)
Removes == counter' = counter /\ \A h \in Hash : row'[h] \in {row[h], None}

(* The other steps leave the table alone or take a row out of it. *)
LEMMA OthersRemove ==
    ASSUME TypeInv, IdInv, NEW w \in Worker, Storing(w), Step(w), ~Commit(w)
    PROVE  Removes
<1> USE DEF Removes, db
<1>1. DatabaseOK /\ Located /\ TxnOf(w)
  BY DEF TypeInv, TypeOK, IdInv, TxnInv
<1>2. CASE Ingest(w)
  BY <1>2
     DEF Ingest, CheckReject, CheckPass, SimilarReview, SimilarPass, Copy, CopyBusy, Store, TagItem,
         IngestThumb, IngestPublish, UpdateIndex, IngestDone, IngestRaise, UndoDb, UndoFiles, RollbackTxn
<1>3. CASE Reindex(w)
  BY <1>1, <1>3 DEF Reindex, CommitTxn, TxnOf, Clean
<1>4. CASE DeleteRow(w)
  BY <1>1, <1>4 DEF DeleteRow, Located, DatabaseOK
<1>5. CASE OnItem(w) /\ ~Reindex(w) /\ ~DeleteRow(w)
  BY <1>5
     DEF OnItem, UpdateBegin, UpdateBusy, LockItem, LockGone, ThumbBusy, ThumbPublish, WriteNote,
         List, Stage, Staged, DeleteRefused, Restore, Deindex, Purge, RollbackTxn
<1>6. CASE IndexBatch(w) \/ BatchBusy(w) \/ BatchRaise(w) \/ BatchUnlink(w) \/ BatchDelete(w) \/ BatchDeindex(w)
  BY <1>6 DEF IndexBatch, BatchBusy, BatchRaise, BatchUnlink, BatchDelete, BatchDeindex, RollbackTxn
<1>7. CASE BatchCommit(w)
  <2>1. pc[w] = "takenback" /\ row' = rowW /\ counter' = counterW
    BY <1>7 DEF BatchCommit, CommitTxn
  <2>2. counterW = counter /\ \A h \in Hash : rowW[h] \in {row[h], None}
    BY <1>1, <2>1 DEF TxnOf, Taken, Storing, Returning
  <2> QED
    BY <2>1, <2>2
<1> QED
  BY <1>2, <1>3, <1>4, <1>5, <1>6, <1>7 DEF Step, OnBatch

-----------------------------------------------------------------------------
(* Where no row appears and the thread claims what was claimed for the same
   content already, nothing new is claimed. *)
LEMMA ClaimsShrink ==
    ASSUME NEW w \in Worker, OthersKeep(w), Removes,
           \A i \in Claimed(w)' : obj'[w] \in Hash => Claims(obj'[w], i)
    PROVE  \A h \in Hash, i \in Id : Claims(h, i)' => Claims(h, i)
<1>1. ASSUME NEW v \in Worker, v # w PROVE Claimed(v)' = Claimed(v) /\ obj'[v] = obj[v]
  BY <1>1 DEF OthersKeep, Claimed
<1>2. ASSUME NEW h \in Hash, NEW i \in Id, Claims(h, i)' PROVE Claims(h, i)
  <2>1. CASE row'[h] = i
    BY <2>1, ParametersOK DEF Removes, Claims, Id
  <2>2. CASE row'[h] # i
    <3>1. PICK v \in Worker : obj'[v] = h /\ i \in Claimed(v)'
      BY <1>2, <2>2 DEF Claims
    <3>2. CASE v = w
      BY <3>1, <3>2
    <3>3. CASE v # w
      BY <1>1, <3>1, <3>3 DEF Claims
    <3> QED
      BY <3>2, <3>3
  <2> QED
    BY <2>1, <2>2
<1> QED
  BY <1>2

(* Where no claim is new the contents stay apart. *)
LEMMA ClaimsKept ==
    ASSUME ClaimsApart, counter' = counter, \A h \in Hash, i \in Id : Claims(h, i)' => Claims(h, i)
    PROVE  ClaimsApart'
<1> HIDE DEF Claims
<1> QED
  BY DEF ClaimsApart

(* A commit gives its content the id nobody has a claim to. *)
LEMMA ClaimsGrow ==
    ASSUME TypeInv, NEW w \in Worker, OthersKeep(w), Adds(w), obj[w] \in Hash, obj'[w] = obj[w],
           Claimed(w)' \subseteq {sid[w]}
    PROVE  \A h \in Hash, i \in Id : Claims(h, i)' => Claims(h, i) \/ (h = obj[w] /\ i = counter)
<1>1. ASSUME NEW v \in Worker, v # w PROVE Claimed(v)' = Claimed(v) /\ obj'[v] = obj[v]
  BY <1>1 DEF OthersKeep, Claimed
<1>2. row \in [Hash -> Id \cup {None}]
  BY DEF TypeInv, TypeOK, DatabaseOK
<1>3. ASSUME NEW h \in Hash, NEW i \in Id, Claims(h, i)'
      PROVE  Claims(h, i) \/ (h = obj[w] /\ i = counter)
  <2>1. row'[h] = IF h = obj[w] THEN sid[w] ELSE row[h]
    BY <1>2 DEF Adds
  <2>2. sid[w] = row[obj[w]] \/ sid[w] = counter
    BY DEF Adds
  <2>3. CASE row'[h] = i
    BY <2>1, <2>2, <2>3 DEF Claims
  <2>4. CASE row'[h] # i
    <3>1. PICK v \in Worker : obj'[v] = h /\ i \in Claimed(v)'
      BY <1>3, <2>4 DEF Claims
    <3>2. CASE v = w
      <4>1. h = obj[w] /\ i = sid[w]
        BY <3>1, <3>2
      <4> QED
        BY <4>1, <2>2 DEF Claims
    <3>3. CASE v # w
      BY <1>1, <3>1, <3>3 DEF Claims
    <3> QED
      BY <3>2, <3>3
  <2> QED
    BY <2>3, <2>4
<1> QED
  BY <1>3

(* And where the only new claim is to the id the counter stood at. *)
LEMMA ClaimsAdded ==
    ASSUME TypeInv, ClaimsApart, NEW w \in Worker, Adds(w), obj[w] \in Hash,
           \A h \in Hash, i \in Id : Claims(h, i)' => Claims(h, i) \/ (h = obj[w] /\ i = counter)
    PROVE  ClaimsApart'
<1>2. counter \in 1..(MaxId + 1)
  BY DEF TypeInv, TypeOK, DatabaseOK
<1>4. counter' = counter + 1
  BY DEF Adds
<1> HIDE DEF Claims
<1>5. ASSUME NEW i \in Id, NEW g \in Hash, NEW h \in Hash, Claims(h, i)'
      PROVE  i < counter' /\ (Claims(g, i)' => g = h)
  <2>1. CASE Claims(h, i)
    BY <1>2, <1>4, <1>5, <2>1, ParametersOK DEF ClaimsApart, Id
  <2>2. CASE ~Claims(h, i)
    BY <1>2, <1>4, <1>5, <2>2, ParametersOK DEF ClaimsApart, Id
  <2> QED
    BY <2>1, <2>2
<1> QED
  BY <1>5 DEF ClaimsApart

(* A thread claims what it reads in a row, or goes on claiming. *)
LEMMA ClaimsOfStep ==
    ASSUME TypeInv, NEW w \in Worker, Course(w), Step(w), ~Commit(w), NEW i \in Claimed(w)', obj'[w] \in Hash
    PROVE  Claims(obj'[w], i)
<1> USE DEF Claims, Claimed, Deleting, Staging, Goto, self
<1>1. ThreadsOK /\ Located
  BY DEF TypeInv, TypeOK
<1>2. ~Forget(w)
  <2>1. SUFFICES ASSUME Forget(w) PROVE FALSE
    OBVIOUS
  <2>2. Blank(w)
    BY <1>1, <2>1, ForgetBlank
  <2> QED
    BY <2>2 DEF Blank
<1>3. CASE UpdateBegin(w)
  <2>1. pc[w] = "begin" /\ pc'[w] = "lock" /\ obj'[w] = obj[w] /\ aid'[w] = row[obj[w]]
    BY <1>1, <1>2, <1>3 DEF UpdateBegin, ThreadsOK
  <2> QED
    BY <2>1
<1>4. CASE LockItem(w)
  <2>1. pc[w] = "lock" /\ obj'[w] = obj[w] /\ sid'[w] = (IF op[w] = "thumb" THEN aid[w] ELSE row[obj[w]])
        /\ aid'[w] = aid[w]
    BY <1>1, <1>4 DEF LockItem, ThreadsOK
  <2>2. pc'[w] # "lock"
    BY <1>1, <1>4 DEF LockItem, ThreadsOK
  <2> QED
    BY <2>1, <2>2
<1>5. CASE ~UpdateBegin(w) /\ ~LockItem(w)
  <2>1. Claimed(w)' \subseteq Claimed(w) /\ obj'[w] = obj[w]
    <3>1. CASE Ingest(w)
      BY <1>1, <1>2, <3>1
       DEF Ingest, CheckReject, CheckPass, SimilarReview, SimilarPass, Copy, CopyBusy, Store, TagItem,
         IngestThumb, IngestPublish, UpdateIndex, IngestDone, IngestRaise, UndoDb, UndoFiles,
         FileNotStored, ThreadsOK
    <3>2. CASE OnItem(w)
      BY <1>1, <1>2, <1>5, <3>2
       DEF OnItem, UpdateBusy, LockGone, ThumbBusy, ThumbPublish, WriteNote, Reindex,
         List, Stage, Staged, DeleteRow, DeleteRefused, Restore, Deindex, Purge, ThreadsOK
    <3>3. CASE OnBatch(w)
      BY <1>1, <1>2, <3>3 DEF OnBatch, IndexBatch, BatchDelete, BatchBusy, BatchUnlink, BatchCommit, BatchRaise,
         BatchDeindex, ForgetUrl, ThreadsOK
    <3> QED
      BY <3>1, <3>2, <3>3 DEF Step
  <2> QED
    BY <2>1
<1> QED
  BY <1>3, <1>4, <1>5

(* What a step adds to the claims: the new row of a commit. *)
Gains(w) ==
    \A h \in Hash, i \in Id :
        Claims(h, i)' => Claims(h, i) \/ (Adds(w) /\ pc[w] = "commit" /\ h = obj[w] /\ i = counter)

(* Every step is of one of these two kinds. *)
LEMMA ClaimsStep ==
    ASSUME TypeInv, IdInv, NEW w \in Worker, Course(w), Storing(w), Step(w)
    PROVE  Gains(w) /\ (Adds(w) \/ \A h \in Hash, i \in Id : Claims(h, i)' => Claims(h, i))
<1>0. ThreadsOK /\ Located
  BY DEF TypeInv, TypeOK
<1>1. CASE Commit(w)
  <2>1. Adds(w)
    BY <1>1, CommitAdds
  <2>2. obj[w] \in Hash /\ obj'[w] = obj[w] /\ pc[w] = "commit"
    BY <1>0, <1>1 DEF Commit, Located, self
  <2>3. Claimed(w)' \subseteq {sid[w]}
    BY <1>0, <1>1 DEF Commit, Goto, Claimed, self, ThreadsOK
  <2>4. OthersKeep(w)
    BY OthersStep
  <2>5. \A h \in Hash, i \in Id : Claims(h, i)' => Claims(h, i) \/ (h = obj[w] /\ i = counter)
    BY <2>1, <2>2, <2>3, <2>4, ClaimsGrow
  <2> QED
    BY <2>1, <2>2, <2>5 DEF Gains
<1>2. CASE ~Commit(w)
  <2>1. OthersKeep(w) /\ Removes
    BY <1>2, OthersStep, OthersRemove
  <2>2. \A i \in Claimed(w)' : obj'[w] \in Hash => Claims(obj'[w], i)
    BY <1>2, ClaimsOfStep
  <2>3. \A h \in Hash, i \in Id : Claims(h, i)' => Claims(h, i)
    BY <2>1, <2>2, ClaimsShrink
  <2> QED
    BY <2>3 DEF Gains
<1> QED
  BY <1>1, <1>2

(* A thread that starts claims what the row it read has. *)
LEMMA ClaimsStart ==
    ASSUME TypeInv, NEW w \in Worker, NEW o \in Ops, NEW h \in Hash, Start(w, o, h)
    PROVE  \A g \in Hash, i \in Id : Claims(g, i)' => Claims(g, i)
<1>0. ThreadsOK
  BY DEF TypeInv, TypeOK
<1>1. /\ pc'[w] = (CASE o = "ingest" -> "check" [] o = "update" -> "begin" [] OTHER -> "lock")
      /\ obj'[w] = h /\ aid'[w] = IF o \in {"ingest", "update"} THEN None ELSE row[h]
  BY <1>0 DEF Start, ThreadsOK
<1>2. \A i \in Claimed(w)' : Claims(obj'[w], i)
  BY <1>1 DEF Claimed, Deleting, Staging, Claims
<1>3. Removes
  BY DEF Start, db, Removes
<1> QED
  BY <1>0, <1>2, <1>3, OthersStart, ClaimsShrink

(* After a crash only the rows claim. *)
LEMMA ClaimsCrash ==
    ASSUME Crash
    PROVE  \A h \in Hash, i \in Id : Claims(h, i)' => Claims(h, i)
<1>1. \A w \in Worker : Claimed(w)' = {}
  BY DEF Crash, Claimed, Deleting, Staging
<1>2. row' = row
  BY DEF Crash, RollbackTxn
<1> QED
  BY <1>1, <1>2 DEF Claims

(* Two contents never have a claim to one storage id. *)
LEMMA ClaimsNext ==
    ASSUME TypeInv, IdInv, Threads, ClaimsApart, [Next]_vars
    PROVE  ClaimsApart'
<1>1. CASE UNCHANGED vars
  <2>1. \A h \in Hash, i \in Id : Claims(h, i)' <=> Claims(h, i)
    BY <1>1 DEF vars, db, self, Claims, Claimed
  <2> QED
    BY <1>1, <2>1, ClaimsKept DEF vars, db
<1>2. ASSUME NEW w \in Worker, NEW o \in Ops, NEW h \in Hash, Start(w, o, h)
      PROVE  ClaimsApart'
  BY <1>2, ClaimsStart, ClaimsKept DEF Start, db
<1>3. ASSUME NEW w \in Worker, Commit(w) PROVE ClaimsApart'
  <2>1. Adds(w) /\ Gains(w)
    BY <1>3, CommitAdds, ClaimsStep DEF Threads, Step, Ingest
  <2>2. obj[w] \in Hash
    BY <1>3 DEF Commit, Located, TypeInv
  <2> QED
    BY <2>1, <2>2, ClaimsAdded DEF Gains
<1>4. ASSUME NEW w \in Worker, Step(w), ~Commit(w) PROVE ClaimsApart'
  <2>1. Course(w) /\ Storing(w)
    BY DEF Threads
  <2>2. Removes
    BY <1>4, <2>1, OthersRemove
  <2>3. \A h \in Hash, i \in Id : Claims(h, i)' => Claims(h, i)
    BY <1>4, <2>1, <2>2, OthersStep, ClaimsShrink, ClaimsOfStep
  <2> QED
    BY <2>2, <2>3, ClaimsKept DEF Removes
<1>5. CASE Crash
  BY <1>5, ClaimsCrash, ClaimsKept DEF Crash, RollbackTxn
<1> QED
  BY <1>1, <1>2, <1>3, <1>4, <1>5 DEF Next, AllDone

-----------------------------------------------------------------------------
(* While another thread's transaction is open the table stays as it is. *)
LEMMA Excluded ==
    ASSUME TypeInv, IdInv, NEW w \in Worker, Step(w), writer \notin {w, None}
    PROVE  UNCHANGED db
<1>3. pc[w] \notin InTxn
  BY DEF IdInv, TxnInv, TxnOf
<1>4. CASE Ingest(w)
  BY <1>3, <1>4
     DEF Ingest, CheckReject, CheckPass, SimilarReview, SimilarPass, Copy, CopyBusy, Store, TagItem, Commit,
         IngestThumb, IngestPublish, UpdateIndex, IngestDone, IngestRaise, UndoDb, UndoFiles, InTxn, WriteFree
<1>5. CASE OnItem(w)
  BY <1>3, <1>5
     DEF OnItem, UpdateBegin, UpdateBusy, LockItem, LockGone, ThumbBusy, ThumbPublish, WriteNote, Reindex,
         List, Stage, Staged, DeleteRow, DeleteRefused, Restore, Deindex, Purge, WriteFree
<1>6. CASE OnBatch(w)
  BY <1>3, <1>6
     DEF OnBatch, IndexBatch, BatchDelete, BatchBusy, BatchUnlink, BatchCommit, BatchRaise, BatchDeindex,
         WriteFree, InTxn
<1> QED
  BY <1>4, <1>5, <1>6 DEF Step

(* A thread in its transaction has the others out. *)
LEMMA HoldsOut ==
    ASSUME TypeInv, IdInv, NEW w \in Worker, NEW v \in Worker \ {w}, Step(w), pc[v] \in InTxn
    PROVE  UNCHANGED db /\ writer = v
<1>1. writer = v
  BY DEF IdInv, TxnInv, TxnOf
<1>2. writer \notin {w, None}
  BY <1>1, ParametersOK
<1> QED
  BY <1>1, <1>2, Excluded

(* Ids once marked stay marked, and so do those whose files were taken. *)
LEMMA StillLost ==
    ASSUME NEW w \in Worker, Step(w)
    PROVE  reissued \subseteq reissued' /\ robbed \subseteq robbed'
<1> USE DEF meta, past
<1>1. CASE Ingest(w)
  BY <1>1
     DEF Ingest, CheckReject, CheckPass, SimilarReview, SimilarPass, Copy, CopyBusy, Store, TagItem, Commit,
         IngestThumb, IngestPublish, UpdateIndex, IngestDone, IngestRaise, UndoDb, UndoFiles
<1>2. CASE OnItem(w)
  BY <1>2
     DEF OnItem, UpdateBegin, UpdateBusy, LockItem, LockGone, ThumbBusy, ThumbPublish, WriteNote, Reindex,
         List, Stage, Staged, DeleteRow, DeleteRefused, Restore, Deindex, Purge
<1>3. CASE OnBatch(w)
  BY <1>3
     DEF OnBatch, IndexBatch, BatchDelete, BatchBusy, BatchUnlink, BatchCommit, BatchRaise, BatchDeindex
<1> QED
  BY <1>1, <1>2, <1>3 DEF Step

(* A claimed id is below the counter. *)
LEMMA ClaimedBelow ==
    ASSUME TypeInv, ClaimsApart, NEW w \in Worker, NEW i \in Claimed(w), i \in Id, obj[w] \in Hash
    PROVE  i < counter /\ i # counter /\ \A h \in Hash : row[h] = i => h = obj[w]
<1>1. Claims(obj[w], i)
  BY DEF Claims
<1>2. \A h \in Hash : row[h] = i => Claims(h, i)
  BY DEF Claims
<1>3. counter \in Nat /\ i \in Nat
  BY ParametersOK DEF TypeInv, TypeOK, DatabaseOK, Id
<1> HIDE DEF Claims
<1> QED
  BY <1>1, <1>2, <1>3 DEF ClaimsApart

(* A file of the thread's content, under an id no other content claims. *)
NamedFile(w, f) ==
    \E k \in Kind, i \in Id :
        /\ f = FileOf(k, obj[w], i)
        /\ \A h \in Hash : Claims(h, i) => h = obj[w]

(* What a step does to the disk: it writes files of its content under an id
   no other item has, it moves files away, puts some back, or cleans up. *)
Writes(w) == \E F \in SUBSET File :
    /\ disk' = Put(disk, F)
    /\ \A f \in F :
          /\ NamedFile(w, f)
          /\ f.id < counter \/ (f.id = counter /\ writer \in {w, None} /\ pc'[w] \in {"store", "tag", "commit"})

(* Writing files of one content under one id. *)
LEMMA WritesOne ==
    ASSUME NEW w \in Worker, obj[w] \in Hash, NEW i \in Id, \A h \in Hash : Claims(h, i) => h = obj[w],
           NEW K \in SUBSET Kind, disk' = Put(disk, {FileOf(k, obj[w], i) : k \in K}),
           i < counter \/ (i = counter /\ writer \in {w, None} /\ pc'[w] \in {"store", "tag", "commit"})
    PROVE  Writes(w)
<1> DEFINE F == {FileOf(k, obj[w], i) : k \in K}
<1>1. F \in SUBSET File
  BY FileOfType
<1>2. \A f \in F : NamedFile(w, f) /\ f.id = i
  BY DEF NamedFile, FileOf
<1>3. disk' = Put(disk, F)
  OBVIOUS
<1> HIDE DEF F
<1> QED
  BY <1>1, <1>2, <1>3 DEF Writes

(* The steps that write. *)
Writing(w) ==
    \/ Copy(w) \/ Store(w) \/ (TagItem(w) /\ disk' # disk) \/ IngestPublish(w) \/ ThumbPublish(w) \/ WriteNote(w)

(* The id a row has, and the id the counter stands at, are free to write to. *)
LEMMA RowNamed ==
    ASSUME TypeInv, ClaimsApart, NEW k \in Hash, NEW i \in Id, row[k] = i
    PROVE  i < counter /\ \A h \in Hash : Claims(h, i) => h = k
<1>1. Claims(k, i)
  BY DEF Claims
<1> HIDE DEF Claims
<1> QED
  BY <1>1 DEF ClaimsApart

(* Nobody claims the id the counter stands at. *)
LEMMA CounterFree ==
    ASSUME TypeInv, ClaimsApart, counter \in Id
    PROVE  \A h \in Hash : ~Claims(h, counter)
<1>1. counter \in Nat
  BY ParametersOK DEF TypeInv, TypeOK, DatabaseOK, Id
<1> HIDE DEF Claims
<1> QED
  BY <1>1 DEF ClaimsApart

(* The writing steps write under such ids. *)
LEMMA WritingWrites ==
    ASSUME TypeInv, IdInv, ClaimsApart, NEW w \in Worker, Course(w), Storing(w), Writing(w)
    PROVE  Writes(w)
<1>0. ThreadsOK /\ DatabaseOK /\ Located /\ TxnOf(w) /\ (writer = None => Clean)
  BY DEF TypeInv, TypeOK, IdInv, TxnInv
<1>1. obj[w] \in Hash
  BY <1>0 DEF Writing, Copy, Store, TagItem, IngestPublish, ThumbPublish, WriteNote, Located
<1>2. ASSUME Copy(w) PROVE Writes(w)
  <2>1. counterW = counter /\ counter \in Id /\ writer = None
    BY <1>2, NextId DEF Copy, WriteFree
  <2>2. disk' = Put(disk, {FileOf(k, obj[w], counter) : k \in {"asset"}}) /\ pc'[w] = "store"
    <3>1. NewId = counter
      BY <1>2, NextId
    <3> QED
      BY <1>0, <1>2, <3>1 DEF Copy, Goto, ThreadsOK
  <2> QED
    BY <1>1, <2>1, <2>2, CounterFree, WritesOne DEF Kind
<1>3. ASSUME Store(w) PROVE Writes(w)
  <2>1. writer = w /\ rowW = row /\ aid[w] = counter /\ aid[w] \in Id /\ pc'[w] = "tag"
    BY <1>0, <1>3 DEF Store, TxnOf, InTxn, Located, Goto, ThreadsOK
  <2> DEFINE i == StoredId(w)
  <2>2. /\ i \in Id /\ (i < counter \/ i = counter)
        /\ \A h \in Hash : Claims(h, i) => h = obj[w]
    <3>1. CASE row[obj[w]] = None
      BY <2>1, <3>1, CounterFree DEF StoredId
    <3>2. CASE row[obj[w]] # None
      <4>1. i = row[obj[w]] /\ i \in Id
        BY <1>0, <1>1, <2>1, <3>2 DEF StoredId, DatabaseOK
      <4> QED
        BY <1>1, <4>1, RowNamed
    <3> QED
      BY <3>1, <3>2
  <2>3. disk' = Put(disk, {FileOf(k, obj[w], i) : k \in {"note"}})
    BY <1>3 DEF Store
  <2> HIDE DEF i
  <2> QED
    BY <1>1, <2>1, <2>2, <2>3, WritesOne DEF Kind
<1>4. ASSUME TagItem(w), disk' # disk PROVE Writes(w)
  <2>1. writer = w /\ sid[w] \in Id /\ aid[w] = counter /\ pc'[w] = "commit"
    BY <1>0, <1>4 DEF TagItem, TxnOf, InTxn, Located, Storing, Storer, Goto, ThreadsOK
  <2>2. (sid[w] < counter \/ sid[w] = counter) /\ \A h \in Hash : Claims(h, sid[w]) => h = obj[w]
    <3>1. CASE row[obj[w]] = sid[w]
      BY <1>1, <2>1, <3>1, RowNamed
    <3>2. CASE sid[w] = aid[w]
      BY <2>1, <3>2, CounterFree
    <3> QED
      BY <1>4, <3>1, <3>2 DEF Storing, TagItem
  <2>3. disk' = Put(disk, {FileOf(k, obj[w], sid[w]) : k \in {"wd", "note"}})
    <3>1. {FileOf(k, obj[w], sid[w]) : k \in {"wd", "note"}} = {TagCache(w), FileOf("note", obj[w], sid[w])}
      BY DEF TagCache
    <3> QED
      BY <1>4, <3>1 DEF TagItem
  <2> QED
    BY <1>1, <2>1, <2>2, <2>3, WritesOne DEF Kind
<1>5. ASSUME IngestPublish(w) \/ ThumbPublish(w) \/ WriteNote(w) PROVE Writes(w)
  <2>1. sid[w] \in Id /\ sid[w] \in Claimed(w)
    BY <1>0, <1>5 DEF IngestPublish, ThumbPublish, WriteNote, Located, Claimed
  <2>2. sid[w] < counter /\ \A h \in Hash : Claims(h, sid[w]) => h = obj[w]
    <3>1. Claims(obj[w], sid[w])
      BY <2>1 DEF Claims
    <3> HIDE DEF Claims
    <3> QED
      BY <1>1, <2>1, <3>1 DEF ClaimsApart
  <2>3. CASE IngestPublish(w) \/ ThumbPublish(w)
    <3>1. disk' = Put(disk, {FileOf(k, obj[w], sid[w]) : k \in {"thumb"}})
      BY <2>3 DEF IngestPublish, ThumbPublish
    <3> QED
      BY <1>1, <2>1, <2>2, <3>1, WritesOne DEF Kind
  <2>4. CASE WriteNote(w)
    <3>1. PICK K \in {{"note"}, {"note", "wd"}} : K = IF op[w] = "tag" THEN {"note", "wd"} ELSE {"note"}
      OBVIOUS
    <3>2. {FileOf(k, obj[w], sid[w]) : k \in K} = {FileOf("note", obj[w], sid[w])} \cup
                         (IF op[w] = "tag" THEN {TagCache(w)} ELSE {})
      BY <3>1 DEF TagCache
    <3>3. disk' = Put(disk, {FileOf(k, obj[w], sid[w]) : k \in K})
      BY <2>4, <3>2 DEF WriteNote
    <3> QED
      BY <1>1, <2>1, <2>2, <3>3, WritesOne DEF Kind
  <2> QED
    BY <1>5, <2>3, <2>4
<1> QED
  BY <1>2, <1>3, <1>4, <1>5 DEF Writing

-----------------------------------------------------------------------------
(* Which steps change the disk otherwise. *)
LEMMA DiskSteps ==
    ASSUME NEW w \in Worker, Step(w)
    PROVE  disk' = disk \/ Writing(w) \/ UndoFiles(w) \/ Stage(w) \/ Restore(w) \/ BatchUnlink(w)
<1>1. CASE Ingest(w)
  BY <1>1
     DEF Ingest, CheckReject, CheckPass, SimilarReview, SimilarPass, CopyBusy, Commit,
         IngestThumb, UpdateIndex, IngestDone, IngestRaise, UndoDb, Writing, files
<1>2. CASE OnItem(w)
  BY <1>2
     DEF OnItem, UpdateBegin, UpdateBusy, LockItem, LockGone, ThumbBusy, Reindex, List,
         Staged, DeleteRow, DeleteRefused, Deindex, Purge, Writing, files
<1>3. CASE OnBatch(w)
  BY <1>3
     DEF OnBatch, IndexBatch, BatchDelete, BatchBusy, BatchCommit, BatchRaise, BatchDeindex, files
<1> QED
  BY <1>1, <1>2, <1>3 DEF Step

(* A thread deleting an item has a claim to the id of what it moved. *)
LEMMA MovedClaimed ==
    ASSUME TypeInv, ClaimsApart, NEW w \in Worker, Course(w), NEW f \in moved[w]
    PROVE  f.id = sid[w] /\ sid[w] \in Id /\ sid[w] \in Claimed(w) /\ obj[w] \in Hash /\ f \in File /\ f.id # counter
<1>1. pc[w] \in Deleting
  BY DEF Course
<1>2. f.id = sid[w] /\ sid[w] \in Id /\ sid[w] \in Claimed(w)
  BY <1>1 DEF Course, Claimed
<1>3. obj[w] \in Hash /\ f \in File
  BY <1>1 DEF TypeInv, TypeOK, ThreadsOK, Located, Deleting, Staging
<1> QED
  BY <1>2, <1>3, ClaimedBelow

(* Nobody else touches the places of an open transaction. *)
LEMMA FarFrom ==
    ASSUME TypeInv, IdInv, Threads, ClaimsApart, NEW w \in Worker, NEW v \in Worker \ {w},
           Step(w), pc[v] \in Storer, NEW f \in File, f.id = counter, counter \notin reissued
    PROVE  f \in disk' <=> f \in disk
<1>0. Course(w) /\ Storing(w) /\ Harmless(w)
  BY DEF Threads
<1>1. writer = v
  BY HoldsOut DEF InTxn, Storer
<1>2. writer \notin {w, None}
  BY <1>1, ParametersOK
<1>3. CASE Writing(w)
  <2>1. PICK F \in SUBSET File :
            /\ disk' = Put(disk, F)
            /\ \A g \in F : g.id < counter \/ writer \in {w, None}
    BY <1>0, <1>3, WritingWrites DEF Writes
  <2>2. \A g \in F : ~SamePath(g, f)
    BY <1>2, <2>1, ParametersOK DEF SamePath, TypeInv, TypeOK, DatabaseOK, Id
  <2>3. f \notin F
    BY <2>2 DEF SamePath
  <2> QED
    BY <2>1, <2>2, <2>3 DEF Put
<1>4. CASE UndoFiles(w)
  <2>1. disk' = Unlink(disk, Written(w)) /\ pc[w] = "undoFiles"
    BY <1>4 DEF UndoFiles
  <2>2. aid[w] # counter
    BY <1>0, <2>1 DEF Harmless, Marked
  <2>3. sid[w] # counter
    <3>1. counter # None /\ counter \in Nat
      BY ParametersOK DEF TypeInv, TypeOK, DatabaseOK, File, Id
    <3> QED
      BY <1>0, <2>1, <2>2, <3>1 DEF Harmless, Spent, Undoing
  <2>4. \A g \in Written(w) : g.id \in {aid[w], sid[w]}
    BY DEF Written, FileOf
  <2> QED
    BY <2>1, <2>2, <2>3, <2>4 DEF Unlink, SamePath
<1>5. CASE Stage(w)
  <2>1. obj[w] \in Hash /\ sid[w] \in Id /\ sid[w] \in Claimed(w)
    BY <1>0, <1>5 DEF Stage, Course, Deleting, Staging, Claimed, TypeInv, Located
  <2>2. sid[w] # counter
    BY <2>1, ClaimedBelow
  <2>3. \A g \in due[w] : g.id = sid[w]
    BY <1>0 DEF Course
  <2> QED
    BY <1>5, <2>2, <2>3 DEF Stage, SamePath
<1>6. CASE Restore(w)
  <2>1. f \notin moved[w]
    BY <1>0, MovedClaimed
  <2> QED
    BY <1>6, <2>1 DEF Restore, GoesBack
<1>7. ~BatchUnlink(w)
  BY <1>2 DEF BatchUnlink, IdInv, TxnInv, TxnOf, InTxn
<1> QED
  BY <1>3, <1>4, <1>5, <1>6, <1>7, DiskSteps

(* The open transaction of another thread goes on as it was. *)
LEMMA StoringOthers ==
    ASSUME TypeInv, IdInv, Threads, ClaimsApart, NEW w \in Worker, NEW v \in Worker \ {w},
           Step(w)
    PROVE  Storing(v)'
<1>1. OthersKeep(w) /\ Storing(v)
  BY OthersStep DEF Threads
<1>2. pc'[v] = pc[v] /\ obj'[v] = obj[v] /\ aid'[v] = aid[v] /\ sid'[v] = sid[v] /\ batch'[v] = batch[v]
  BY <1>1 DEF OthersKeep
<1>3. CASE pc[v] \notin Storer \cup Returning
  BY <1>2, <1>3 DEF Storing, Storer, Returning
<1>4. CASE pc[v] \in Returning
  <2>1. UNCHANGED <<row, rowW>>
    BY <1>4, HoldsOut DEF db, InTxn, Returning
  <2> QED
    BY <1>1, <1>2, <1>4, <2>1 DEF Storing, Storer, Returning
<1>5. CASE pc[v] \in Storer
  <2>2. UNCHANGED <<row, counter, rowW>>
    BY <1>5, HoldsOut DEF db, InTxn, Storer
  <2>3. aid[v] = counter /\ aid[v] \in Id /\ obj[v] \in Hash /\ disk \subseteq File /\ disk' \subseteq File
    <3>1. TypeInv'
      BY TypeNext DEF Next
    <3> QED
      BY <1>1, <1>5, <3>1 DEF Storing, Storer, TypeInv, TypeOK, FilesOK, Located
  <2>4. ASSUME NEW k \in Media, Placed(k, v) PROVE Placed(k, v)'
    <3>0. SUFFICES ASSUME aid[v] \notin reissued PROVE Placed(k, v)'
      BY <1>2, StillLost DEF Placed
    <3>1. FileOf(k, obj[v], aid[v]) \in File
      BY <2>3, FileOfType DEF Media, Kind
    <3>2. \A f \in File : SamePath(f, FileOf(k, obj[v], aid[v])) => (f \in disk' <=> f \in disk)
      BY <1>5, <2>3, <2>4, <3>0, FarFrom DEF SamePath, FileOf
    <3>3. FileOf(k, obj[v], aid[v])' = FileOf(k, obj[v], aid[v])
      BY <1>2 DEF FileOf
    <3> DEFINE e == FileOf(k, obj[v], aid[v])
    <3>4. \A f \in disk' \cup {e} : SamePath(f, e) => f \in disk' /\ f.hash = obj'[v]
      <4>1. \A f \in disk \cup {e} : SamePath(f, e) => f \in disk /\ f.hash = obj[v]
        BY <2>4, <3>0 DEF Placed
      <4> HIDE DEF e
      <4> QED
        BY <1>2, <2>3, <3>1, <3>2, <4>1 DEF e
    <3> QED
      BY <3>3, <3>4 DEF Placed, SamePath
  <2> QED
    BY <1>1, <1>2, <1>5, <2>2, <2>4 DEF Storing, Media, Storer, Returning
<1> QED
  BY <1>3, <1>4, <1>5

(* How the table may move under the threads. *)
RowsMove(w) == Removes \/ (Adds(w) /\ pc[w] = "commit")

(* Every step moves the table so. *)
LEMMA RowsStep ==
    ASSUME TypeInv, IdInv, NEW w \in Worker, Course(w), Storing(w), Step(w)
    PROVE  RowsMove(w)
<1>1. CASE Commit(w)
  BY <1>1, CommitAdds DEF RowsMove, Commit
<1>2. CASE ~Commit(w)
  BY <1>2, OthersRemove DEF RowsMove
<1> QED
  BY <1>1, <1>2

(* The storing begins with a copy. *)
LEMMA EntersStore ==
    ASSUME TypeInv, NEW w \in Worker, Step(w), pc'[w] \in Storer, pc[w] \notin Storer
    PROVE  Copy(w)
<1>1. ThreadsOK
  BY DEF TypeInv, TypeOK
<1> USE DEF Goto, self, Storer, ThreadsOK
<1>2. CASE Forget(w)
  BY <1>1, <1>2 DEF Forget
<1>3. CASE Ingest(w) /\ ~Forget(w)
  BY <1>1, <1>3
     DEF Ingest, CheckReject, CheckPass, SimilarReview, SimilarPass, CopyBusy, Store, TagItem, Commit,
         IngestThumb, IngestPublish, UpdateIndex, IngestDone, IngestRaise, UndoDb, UndoFiles, FileNotStored
<1>4. CASE OnItem(w) /\ ~Forget(w)
  BY <1>1, <1>4
     DEF OnItem, UpdateBegin, UpdateBusy, LockItem, LockGone, ThumbBusy, ThumbPublish, WriteNote, Reindex,
         List, Stage, Staged, DeleteRow, DeleteRefused, Restore, Deindex, Purge
<1>5. CASE OnBatch(w) /\ ~Forget(w)
  BY <1>1, <1>5
     DEF OnBatch, IndexBatch, BatchDelete, BatchBusy, BatchUnlink, BatchCommit, BatchRaise, BatchDeindex, ForgetUrl
<1> QED
  BY <1>2, <1>3, <1>4, <1>5 DEF Step

(* A cleanup or a purge does no harm to what others store. *)
LEMMA HarmlessOthers ==
    ASSUME TypeInv, IdInv, Threads, ClaimsApart, NEW w \in Worker, NEW v \in Worker \ {w},
           Step(w)
    PROVE  Harmless(v)'
<1>0. Course(v) /\ Storing(w) /\ Harmless(v) /\ DatabaseOK /\ Located /\ ThreadsOK
  BY DEF Threads, TypeInv, TypeOK
<1>1. /\ pc'[v] = pc[v] /\ obj'[v] = obj[v] /\ aid'[v] = aid[v] /\ sid'[v] = sid[v] /\ op'[v] = op[v]
      /\ OthersKeep(w)
  BY OthersStep DEF OthersKeep
<1>2. RowsMove(w) /\ reissued \subseteq reissued' /\ Lost \subseteq Lost'
  BY <1>0, RowsStep, StillLost DEF Threads, Lost
<1>3. counter \in Nat /\ counter' \in {counter, counter + 1}
  BY <1>0, <1>2, ParametersOK DEF RowsMove, Removes, Adds, DatabaseOK, Id
<1>4. Adds(w) /\ pc[w] = "commit" =>
         /\ writer = w /\ obj[w] \in Hash /\ (sid[w] = row[obj[w]] \/ sid[w] = counter)
         /\ \A h \in Hash : row'[h] = IF h = obj[w] THEN sid[w] ELSE row[h]
  BY <1>0 DEF Adds, Located, DatabaseOK, IdInv, TxnInv, TxnOf, InTxn
<1>5. \A h \in Hash : row'[h] \in {row[h], None} \/ (row'[h] = counter /\ Adds(w) /\ pc[w] = "commit")
  BY <1>2, <1>4 DEF RowsMove, Removes
<1>6. pc[v] \in Undoing => aid[v] \in Nat /\ sid[v] \in Nat \cup {None}
  BY <1>0 DEF Undoing, Located, ThreadsOK, Id
<1>7. Undone(v)'
  <2>1. SUFFICES ASSUME pc[v] \in Undoing, NEW h \in Hash, row'[h] \in {aid[v], sid[v]} \ {None}
                 PROVE  row'[h] \in Lost'
    BY <1>1 DEF Undone, Lost
  <2>2. CASE row'[h] = row[h]
    BY <1>0, <1>2, <2>1, <2>2 DEF Harmless, Undone
  <2>3. CASE row'[h] = counter /\ Adds(w) /\ pc[w] = "commit"
    <3>1. writer # v
      BY <1>4, <2>3
    <3>2. aid[v] = counter
      BY <1>0, <1>3, <1>6, <2>1, <2>3 DEF Harmless, Spent
    <3>3. pc[v] = "undoFiles"
      BY <1>0, <1>3, <1>6, <2>1, <3>1, <3>2 DEF Harmless, Spent, Undoing
    <3>4. counter \in reissued
      BY <1>0, <2>3, <3>2, <3>3 DEF Harmless, Marked, Storer
    <3> QED
      BY <1>2, <2>3, <3>4 DEF Lost
  <2> QED
    BY <1>5, <2>1, <2>2, <2>3
<1>8. Spent(v)'
  <2>1. writer = v => writer' = v
    <3>1. SUFFICES ASSUME writer = v PROVE writer' = v
      OBVIOUS
    <3>2. writer \notin {w, None}
      BY <3>1, ParametersOK
    <3> QED
      BY <3>1, <3>2, Excluded DEF db
  <2> QED
    BY <1>0, <1>1, <1>3, <1>6, <2>1 DEF Harmless, Spent, Undoing
<1>9. Marked(v)'
  <2>1. SUFFICES ASSUME pc[v] = "undoFiles", aid[v] = counter', NEW u \in Worker, pc'[u] \in Storer
                 PROVE  counter' \in reissued'
    BY <1>1 DEF Marked
  <2>2. counter' = counter
    BY <1>0, <1>3, <1>6, <2>1 DEF Harmless, Spent, Undoing
  <2>3. CASE pc[u] \in Storer
    BY <1>0, <1>2, <2>1, <2>2, <2>3 DEF Harmless, Marked
  <2>4. CASE pc[u] \notin Storer
    <3>1. u = w
      BY <1>1, <2>1, <2>4 DEF OthersKeep
    <3>2. Copy(w)
      BY <1>0, <2>1, <2>4, <3>1, EntersStore
    <3>3. NewId = counter /\ CleaningUp(counter)
      BY <2>1, <2>2, <3>2, NextId DEF CleaningUp
    <3> QED
      BY <2>2, <3>2, <3>3 DEF Copy
  <2> QED
    BY <2>3, <2>4
<1>10. Settled(v)'
  <2>1. pc[v] \in {"thumb", "index"} \/ (pc[v] = "publish" /\ op[v] = "ingest") => aid[v] \in Nat /\ aid[v] # None
    BY <1>0, ParametersOK DEF Located, Id
  <2> QED
    BY <1>0, <1>1, <1>3, <1>5, <2>1 DEF Harmless, Settled
<1>11. Purged(v)'
  <2>1. SUFFICES ASSUME pc[v] \in {"deindex", "purge"} PROVE \A h \in Hash : row'[h] # sid[v]
    BY <1>1 DEF Purged
  <2>2. sid[v] \in Id /\ sid[v] \in Claimed(v) /\ obj[v] \in Hash
    BY <1>0, <2>1 DEF Course, Deleting, Claimed, Located
  <2>3. sid[v] # counter /\ sid[v] # None
    BY <2>2, ClaimedBelow, ParametersOK DEF Id
  <2> QED
    BY <1>0, <1>5, <2>1, <2>3 DEF Harmless, Purged
<1> QED
  BY <1>7, <1>8, <1>9, <1>10, <1>11 DEF Harmless

(* A thread outside the steps that store or take back. *)
LEMMA NoTransaction ==
    ASSUME NEW w \in Worker, pc'[w] \notin Storer \cup Returning
    PROVE  Storing(w)'
BY DEF Storing, Storer, Returning

(* And one outside the steps that clean up, purge, or follow a commit. *)
LEMMA NoCleanup ==
    ASSUME NEW w \in Worker, pc'[w] # "publish" \/ op'[w] # "ingest",
           pc'[w] \notin Undoing \cup {"thumb", "index", "deindex", "purge"}
    PROVE  Harmless(w)'
BY DEF Harmless, Undoing, Undone, Spent, Marked, Settled, Purged

(* The thread that copied a file knows its place, and no row has its id. *)
LEMMA PlacedCopy ==
    ASSUME NEW w \in Worker, NEW k, NEW F, disk' = Put(disk, F), FileOf(k, obj[w], aid'[w]) \in F,
           obj'[w] = obj[w], \A f \in F : SamePath(f, FileOf(k, obj[w], aid'[w])) => f.hash = obj[w]
    PROVE  Placed(k, w)'
<1>1. FileOf(k, obj[w], aid[w])' = FileOf(k, obj[w], aid'[w])
  BY DEF FileOf
<1> DEFINE e == FileOf(k, obj[w], aid'[w])
<1>2. \A f \in disk' \cup {e} : SamePath(f, e) => f \in disk' /\ f.hash = obj[w]
  <2> HIDE DEF e
  <2> QED
    BY DEF Put, SamePath, e
<1> QED
  BY <1>1, <1>2 DEF Placed, SamePath

(* Writing another kind of file leaves the place as it is. *)
LEMMA PlacedStays ==
    ASSUME NEW w \in Worker, NEW k, NEW F, disk' = Put(disk, F) \/ disk' = disk, \A f \in F : f.kind # k,
           obj'[w] = obj[w], aid'[w] = aid[w], reissued \subseteq reissued', Placed(k, w)
    PROVE  Placed(k, w)'
<1>1. FileOf(k, obj[w], aid[w])' = FileOf(k, obj[w], aid[w])
  BY DEF FileOf
<1> DEFINE e == FileOf(k, obj[w], aid[w])
<1>2. e.kind = k
  BY DEF FileOf
<1>3. ASSUME aid[w] \notin reissued'
      PROVE  \A f \in disk' \cup {e} : SamePath(f, e) => f \in disk' /\ f.hash = obj[w]
  <2>1. \A f \in disk \cup {e} : SamePath(f, e) => f \in disk /\ f.hash = obj[w]
    BY <1>3 DEF Placed
  <2> HIDE DEF e
  <2> QED
    BY <1>2, <2>1 DEF Put, SamePath
<1> QED
  BY <1>1, <1>3 DEF Placed, SamePath

(* The copy puts the asset at its place. *)
LEMMA OwnCopy ==
    ASSUME TypeInv, IdInv, NEW w \in Worker, Copy(w)
    PROVE  Storing(w)' /\ Harmless(w)'
<1>1. /\ pc'[w] = "store" /\ obj'[w] = obj[w] /\ aid'[w] = NewId /\ counter' = counter
      /\ disk' = Put(disk, {FileOf("asset", obj[w], NewId)})
  BY DEF Copy, Goto, TypeInv, TypeOK, ThreadsOK
<1>2. NewId = counter
  BY NextId
<1>3. Placed("asset", w)'
  <2> DEFINE F == {FileOf("asset", obj[w], NewId)}
  <2>1. \A f \in F : f.hash = obj[w]
    BY DEF FileOf
  <2>2. FileOf("asset", obj[w], aid'[w]) \in F
    BY <1>1
  <2>3. disk' = Put(disk, F)
    BY <1>1
  <2> HIDE DEF F
  <2> QED
    BY <1>1, <2>1, <2>2, <2>3, PlacedCopy
<1>4. Harmless(w)'
  BY <1>1, NoCleanup DEF Undoing
<1> QED
  BY <1>1, <1>2, <1>3, <1>4 DEF Storing, Returning

(* The insert keeps the id of a row that is there, or writes the note under the new one. *)
LEMMA OwnStore ==
    ASSUME TypeInv, IdInv, NEW w \in Worker, Storing(w), Store(w)
    PROVE  Storing(w)' /\ Harmless(w)'
<1>0. ThreadsOK /\ DatabaseOK /\ Located /\ TxnOf(w)
  BY DEF TypeInv, TypeOK, IdInv, TxnInv
<1>1. /\ pc'[w] = "tag" /\ obj'[w] = obj[w] /\ aid'[w] = aid[w] /\ UNCHANGED <<row, counter, reissued>>
      /\ disk' = Put(disk, {FileOf("note", obj[w], StoredId(w))}) /\ pc[w] = "store"
      /\ sid'[w] = StoredId(w) /\ rowW' = [rowW EXCEPT ![obj[w]] = StoredId(w)]
  BY <1>0 DEF Store, Goto, ThreadsOK
<1>2. rowW = row /\ aid[w] = counter /\ obj[w] \in Hash /\ aid[w] \in Id
  BY <1>0, <1>1 DEF TxnOf, Located
<1>3. Placed("asset", w)'
  <2>1. \A f \in {FileOf("note", obj[w], StoredId(w))} : f.kind # "asset"
    BY DEF FileOf
  <2>2. Placed("asset", w)
    BY <1>1 DEF Storing
  <2> QED
    BY <1>1, <2>1, <2>2, PlacedStays
<1>4. StoredId(w) = IF row[obj[w]] = None THEN aid[w] ELSE row[obj[w]]
  BY <1>2 DEF StoredId
<1>5. row[obj[w]] = None => Placed("note", w)'
  <2> DEFINE F == {FileOf("note", obj[w], StoredId(w))}
  <2>1. SUFFICES ASSUME row[obj[w]] = None PROVE Placed("note", w)'
    OBVIOUS
  <2>2. \A f \in F : f.hash = obj[w]
    BY DEF FileOf
  <2>3. FileOf("note", obj[w], aid'[w]) \in F
    BY <1>1, <1>4, <2>1
  <2>4. disk' = Put(disk, F)
    BY <1>1
  <2> HIDE DEF F
  <2> QED
    BY <1>1, <2>2, <2>3, <2>4, PlacedCopy
<1>6. Harmless(w)'
  BY <1>1, NoCleanup DEF Undoing
<1>7. rowW' = [row EXCEPT ![obj[w]] = sid'[w]]
  BY <1>1, <1>2
<1> QED
  BY <1>1, <1>2, <1>3, <1>4, <1>5, <1>6, <1>7 DEF Storing, Returning

(* Tagging writes no asset, and the note anew. *)
LEMMA OwnTag ==
    ASSUME TypeInv, IdInv, NEW w \in Worker, Storing(w), TagItem(w)
    PROVE  Storing(w)' /\ Harmless(w)'
<1>0. ThreadsOK
  BY DEF TypeInv, TypeOK
<1>1. /\ pc'[w] = "commit" /\ obj'[w] = obj[w] /\ aid'[w] = aid[w] /\ sid'[w] = sid[w]
      /\ UNCHANGED <<row, counter, rowW, reissued>> /\ pc[w] = "tag"
      /\ \/ disk' = Put(disk, {TagCache(w), FileOf("note", obj[w], sid[w])})
         \/ disk' = disk
  BY <1>0 DEF TagItem, Goto, ThreadsOK, self, db, meta, past
<1>2. Harmless(w)'
  BY <1>1, NoCleanup DEF Undoing
<1>3. aid[w] = counter /\ rowW = [row EXCEPT ![obj[w]] = sid[w]]
  BY <1>1 DEF Storing, Storer
<1>4. CASE row[obj[w]] = sid[w]
  BY <1>1, <1>2, <1>3, <1>4 DEF Storing, Returning
<1>5. CASE row[obj[w]] # sid[w]
  <2>1. row[obj[w]] = None /\ sid[w] = aid[w] /\ Placed("asset", w) /\ Placed("note", w)
    BY <1>1, <1>5 DEF Storing
  <2> DEFINE F == {TagCache(w), FileOf("note", obj[w], sid[w])}
  <2>2. /\ \A f \in F : f.hash = obj[w] /\ f.kind # "asset"
        /\ FileOf("note", obj[w], aid'[w]) \in F
    BY <1>1, <2>1 DEF FileOf, TagCache
  <2>3. disk' = Put(disk, F) \/ disk' = disk
    BY <1>1
  <2>4. Placed("asset", w)'
    <3> HIDE DEF F
    <3> QED
      BY <1>1, <2>1, <2>2, <2>3, PlacedStays
  <2>5. Placed("note", w)'
    <3>1. CASE disk' = Put(disk, F)
      <4> HIDE DEF F
      <4> QED
        BY <1>1, <2>2, <3>1, PlacedCopy
    <3>2. CASE disk' = disk
      <4>1. (disk' = Put(disk, {}) \/ disk' = disk) /\ \A f \in {} : f.kind # "note"
        BY <3>2
      <4> QED
        BY <1>1, <2>1, <4>1, PlacedStays
    <3> QED
      BY <2>3, <3>1, <3>2
  <2> QED
    BY <1>1, <1>2, <1>3, <2>1, <2>4, <2>5 DEF Storing, Returning
<1> QED
  BY <1>4, <1>5

(* The ids a commit leaves its thread with. *)
LEMMA OwnCommit ==
    ASSUME TypeInv, IdInv, NEW w \in Worker, Storing(w), Commit(w)
    PROVE  Storing(w)' /\ Harmless(w)'
<1>0. ThreadsOK /\ DatabaseOK /\ Located /\ IdsIssued
  BY DEF TypeInv, TypeOK, IdInv
<1>1. /\ pc[w] = "commit" /\ pc'[w] = "thumb" /\ aid'[w] = aid[w] /\ sid'[w] = sid[w]
  BY <1>0 DEF Commit, Goto, ThreadsOK, self
<1>2. Adds(w) /\ aid[w] = counter /\ counter \in Nat /\ obj[w] \in Hash
  BY <1>0, <1>1, CommitAdds, ParametersOK DEF Storing, Storer, Located, DatabaseOK
<1>3. row[obj[w]] = sid[w] \/ sid[w] = aid[w]
  BY <1>1 DEF Storing
<1>4. aid[w] = sid[w] \/ \A h \in Hash : row'[h] # aid[w]
  <2>1. SUFFICES ASSUME aid[w] # sid[w], NEW h \in Hash PROVE row'[h] # aid[w]
    OBVIOUS
  <2>2. row'[h] = row[h]
    BY <1>0, <1>2, <1>3, <2>1 DEF Adds, DatabaseOK
  <2>3. counter \in Id
    BY <1>0, <1>1, <1>2 DEF Located
  <2> QED
    BY <1>0, <1>2, <2>2, <2>3, ParametersOK DEF IdsIssued, Id
<1>5. Settled(w)'
  BY <1>1, <1>2, <1>4 DEF Settled, Adds
<1> QED
  BY <1>1, <1>5, NoTransaction DEF Storer, Returning, Harmless, Undoing, Undone, Spent, Marked, Purged

(* From the commit on to the index nothing changes for the ids. *)
LEMMA OwnSettled ==
    ASSUME TypeInv, NEW w \in Worker, Course(w), Harmless(w),
           IngestThumb(w) \/ IngestPublish(w) \/ UpdateIndex(w)
    PROVE  Storing(w)' /\ Harmless(w)'
<1>1. ThreadsOK
  BY DEF TypeInv, TypeOK
<1>2. /\ pc[w] \in {"thumb", "index"} \/ (pc[w] = "publish" /\ op[w] = "ingest")
      /\ pc'[w] \in {"publish", "index", "unlink"}
      /\ aid'[w] = aid[w] /\ sid'[w] = sid[w] /\ UNCHANGED <<row, counter>>
  BY <1>1 DEF IngestThumb, IngestPublish, UpdateIndex, Goto, ThreadsOK, self, db
<1>3. Settled(w)'
  BY <1>2 DEF Harmless, Settled
<1> QED
  BY <1>2, <1>3, NoTransaction DEF Storer, Returning, Harmless, Undoing, Undone, Spent, Marked, Purged

(* An exception leaves ids that no item has, or an item it is going to rob. *)
LEMMA OwnRaise ==
    ASSUME TypeInv, IdInv, ClaimsApart, NEW w \in Worker, Course(w), Storing(w), Harmless(w), IngestRaise(w)
    PROVE  Storing(w)' /\ Harmless(w)'
<1>0. ThreadsOK /\ Located /\ DatabaseOK /\ IdsIssued /\ TxnOf(w)
  BY DEF TypeInv, TypeOK, IdInv, TxnInv
<1>1. /\ pc[w] \in Storer \cup {"index"} /\ pc'[w] = "undoDb"
      /\ aid'[w] = aid[w] /\ sid'[w] = sid[w] /\ UNCHANGED <<row, counter, writer>>
      /\ robbed' = IF sid[w] # None /\ row[obj[w]] = sid[w] THEN robbed \cup {sid[w]} ELSE robbed
  BY <1>0 DEF IngestRaise, Goto, self, db, ThreadsOK, Storer
<1>2. aid[w] \in Id /\ obj[w] \in Hash /\ counter \in Nat
  BY <1>0, <1>1, ParametersOK DEF Located, DatabaseOK, Storer
<1>3. CASE pc[w] = "index"
  <2>1. sid[w] \in Claimed(w) /\ sid[w] \in Id \cup {None}
    BY <1>0, <1>3 DEF Claimed, ThreadsOK
  <2>2. sid[w] # None => sid[w] < counter /\ \A h \in Hash : row[h] = sid[w] => h = obj[w]
    BY <1>2, <2>1, ClaimedBelow
  <2>3. aid[w] < counter /\ (aid[w] = sid[w] \/ \A h \in Hash : row[h] # aid[w])
    BY <1>0, <1>3 DEF Harmless, Settled
  <2>4. Undone(w)'
    BY <1>1, <2>2, <2>3 DEF Undone, Lost
  <2>5. Spent(w)'
    BY <1>1, <1>2, <2>1, <2>2, <2>3, ParametersOK DEF Spent, Id
  <2> QED
    BY <1>1, <2>4, <2>5, NoTransaction DEF Storer, Returning, Harmless, Marked, Settled, Purged
<1>4. CASE pc[w] \in Storer
  <2>1. aid[w] = counter /\ writer = w
    BY <1>0, <1>4 DEF Storing, Storer, TxnOf, InTxn
  <2>2. \A h \in Hash : row[h] # aid[w]
    BY <1>0, <1>2, <2>1, ParametersOK DEF IdsIssued, Id, DatabaseOK
  <2>3. sid[w] \in {None, aid[w]} \/ (sid[w] \in Id /\ row[obj[w]] = sid[w])
    <3>1. pc[w] = "store" => sid[w] = None
      BY DEF Course
    <3>2. pc[w] \in {"tag", "commit"} => sid[w] \in Id /\ (row[obj[w]] = sid[w] \/ sid[w] = aid[w])
      BY <1>0 DEF Storing, Located
    <3> QED
      BY <1>4, <3>1, <3>2 DEF Storer
  <2>4. Undone(w)'
    BY <1>1, <2>2, <2>3 DEF Undone, Lost
  <2>5. sid[w] \in {None, aid[w]} \/ sid[w] < counter
    BY <1>0, <1>2, <2>3, ParametersOK DEF IdsIssued, Id
  <2>6. Spent(w)'
    BY <1>1, <1>2, <2>1, <2>5 DEF Spent
  <2> QED
    BY <1>1, <2>4, <2>6, NoTransaction DEF Storer, Returning, Harmless, Marked, Settled, Purged
<1> QED
  BY <1>1, <1>3, <1>4

(* The rollback gives the id back before another thread can be storing. *)
LEMMA OwnUndoDb ==
    ASSUME TypeInv, IdInv, NEW w \in Worker, Harmless(w), UndoDb(w)
    PROVE  Storing(w)' /\ Harmless(w)'
<1>0. ThreadsOK /\ Located /\ DatabaseOK
  BY DEF TypeInv, TypeOK
<1>1. /\ pc[w] = "undoDb" /\ pc'[w] = "undoFiles" /\ UNCHANGED <<row, counter, reissued, robbed>>
      /\ aid'[w] = aid[w] /\ sid'[w] = sid[w] /\ \A u \in Worker \ {w} : pc'[u] = pc[u]
  BY <1>0 DEF UndoDb, RollbackTxn, Goto, self, db, meta, past, ThreadsOK
<1>2. Undone(w)' /\ Spent(w)'
  BY <1>1 DEF Harmless, Undone, Spent, Undoing, Lost
<1>3. Marked(w)'
  <2>1. SUFFICES ASSUME aid[w] = counter, NEW u \in Worker, pc'[u] \in Storer PROVE FALSE
    BY <1>1 DEF Marked
  <2>2. u # w /\ pc[u] \in InTxn
    BY <1>1, <2>1 DEF Storer, InTxn
  <2>3. writer # w
    BY <2>2 DEF IdInv, TxnInv, TxnOf
  <2>4. aid[w] < counter /\ counter \in Nat
    BY <1>0, <1>1, <2>3, ParametersOK DEF Harmless, Spent, Undoing, DatabaseOK
  <2> QED
    BY <2>1, <2>4
<1> QED
  BY <1>1, <1>2, <1>3, NoTransaction DEF Storer, Returning, Harmless, Settled, Purged

(* A delete leaves no row with the id it purges. *)
LEMMA OwnDelete ==
    ASSUME TypeInv, ClaimsApart, NEW w \in Worker, Course(w), DeleteRow(w)
    PROVE  Storing(w)' /\ Harmless(w)'
<1>0. ThreadsOK /\ Located /\ DatabaseOK
  BY DEF TypeInv, TypeOK
<1>1. /\ pc[w] = "remove" /\ pc'[w] = "deindex" /\ obj'[w] = obj[w] /\ sid'[w] = sid[w]
      /\ row' = [row EXCEPT ![obj[w]] = None]
  BY <1>0 DEF DeleteRow, Goto, self, ThreadsOK
<1>2. obj[w] \in Hash /\ sid[w] \in Id /\ sid[w] \in Claimed(w)
  BY <1>0, <1>1 DEF Located, Course, Deleting, Staging, Claimed
<1>3. \A h \in Hash : row[h] = sid[w] => h = obj[w]
  BY <1>2, ClaimedBelow
<1>4. \A h \in Hash : row'[h] # sid[w]
  BY <1>0, <1>1, <1>2, <1>3, ParametersOK DEF DatabaseOK, Id
<1> QED
  BY <1>1, <1>4, NoTransaction DEF Storer, Returning, Harmless, Undoing, Undone, Spent, Marked, Settled, Purged

(* The RAM index does not matter to the table. *)
LEMMA OwnDeindex ==
    ASSUME TypeInv, NEW w \in Worker, Harmless(w), Deindex(w)
    PROVE  Storing(w)' /\ Harmless(w)'
<1>0. ThreadsOK
  BY DEF TypeInv, TypeOK
<1>1. pc[w] = "deindex" /\ pc'[w] = "purge" /\ sid'[w] = sid[w] /\ row' = row
  BY <1>0 DEF Deindex, Goto, self, db, ThreadsOK
<1> QED
  BY <1>1, NoTransaction DEF Storer, Returning, Harmless, Undoing, Undone, Spent, Marked, Settled, Purged

(* A rollback of a URL takes its rows out, and no others. *)
LEMMA OwnTakeback ==
    ASSUME TypeInv, IdInv, NEW w \in Worker, Storing(w), BatchDelete(w) \/ BatchUnlink(w) \/ BatchCommit(w)
    PROVE  Storing(w)' /\ Harmless(w)'
<1>0. ThreadsOK /\ (writer = None => Clean)
  BY DEF TypeInv, TypeOK, IdInv, TxnInv
<1>1. pc'[w] \in {"takeback", "takenback", "deindexBatch"} /\ batch'[w] = batch[w]
  BY <1>0 DEF BatchDelete, BatchUnlink, BatchCommit, Goto, url, ThreadsOK
<1>2. Harmless(w)'
  BY <1>1, NoCleanup DEF Undoing
<1>3. CASE BatchDelete(w)
  <2>1. rowW' = [h \in Hash |-> IF h \in batch[w] THEN None ELSE row'[h]]
    BY <1>0, <1>3 DEF BatchDelete, WriteFree, Clean
  <2> QED
    BY <1>1, <1>2, <2>1 DEF Storing, Storer
<1>4. CASE BatchUnlink(w)
  <2>1. UNCHANGED <<row, rowW>> /\ pc[w] \in Returning
    BY <1>4 DEF BatchUnlink, db, Returning
  <2> QED
    BY <1>1, <1>2, <2>1 DEF Storing, Storer
<1>5. CASE BatchCommit(w)
  <2>1. pc'[w] = "deindexBatch"
    BY <1>0, <1>5 DEF BatchCommit, Goto, ThreadsOK
  <2> QED
    BY <1>2, <2>1, NoTransaction DEF Storer, Returning
<1> QED
  BY <1>3, <1>4, <1>5

(* What a thread's own step makes of its transaction and cleanup. *)
LEMMA OwnStep ==
    ASSUME TypeInv, IdInv, ClaimsApart, NEW w \in Worker, Course(w), Storing(w), Harmless(w),
           Step(w)
    PROVE  Storing(w)' /\ Harmless(w)'
<1> USE DEF Goto, self
<1>0. ThreadsOK
  BY DEF TypeInv, TypeOK
<1>1. CASE Forget(w)
  BY <1>0, <1>1, NoTransaction, NoCleanup, ForgetBlank DEF Blank, Storer, Returning, Undoing
<1>2. CASE CheckPass(w) \/ SimilarPass(w)
  <2>1. pc'[w] \in {"similar", "copy"}
    BY <1>0, <1>2 DEF CheckPass, SimilarPass, ThreadsOK
  <2> QED
    BY <2>1, NoTransaction, NoCleanup DEF Storer, Returning, Undoing
<1>3. CASE LockItem(w)
  <2>1. pc'[w] \in {"list", "write"} \/ (pc'[w] = "publish" /\ op'[w] = "thumb")
    BY <1>0, <1>3 DEF LockItem, ThreadsOK, TypeInv, Located
  <2> QED
    BY <2>1, NoTransaction, NoCleanup DEF Storer, Returning, Undoing
<1>4. CASE ~Forget(w) /\ (UpdateBegin(w) \/ WriteNote(w) \/ List(w) \/ Stage(w) \/ Staged(w) \/ DeleteRefused(w))
  <2>1. pc'[w] \in {"lock", "reindex", "stage", "remove", "restore"}
    BY <1>0, <1>4 DEF UpdateBegin, WriteNote, List, Stage, Staged, DeleteRefused, ThreadsOK
  <2> QED
    BY <2>1, NoTransaction, NoCleanup DEF Storer, Returning, Undoing
<1>5. CASE IndexBatch(w)
  <2>1. pc'[w] = "idle"
    BY <1>5 DEF IndexBatch
  <2> QED
    BY <2>1, NoTransaction, NoCleanup DEF Storer, Returning, Undoing
<1> QED
  BY <1>1, <1>2, <1>3, <1>4, <1>5, OwnCopy, OwnStore, OwnTag, OwnCommit, OwnSettled, OwnRaise, OwnUndoDb,
     OwnDelete, OwnDeindex, OwnTakeback
     DEF Step, Ingest, OnItem, OnBatch, CheckReject, SimilarReview, CopyBusy, IngestDone, UndoFiles, FileNotStored,
         UpdateBusy, LockGone, ThumbBusy, ThumbPublish, Reindex, Restore, Purge,
         BatchBusy, BatchRaise, BatchDeindex, ForgetUrl

(* Course, transaction and cleanup of every thread, after every step. *)
LEMMA ThreadsNext ==
    ASSUME TypeInv, IdInv, Threads, ClaimsApart, [Next]_vars
    PROVE  Threads'
<1>1. \A w \in Worker : Course(w)'
  BY CourseNext DEF Threads
<1>2. ASSUME NEW v \in Worker, pc'[v] = pc[v], op'[v] = op[v], obj'[v] = obj[v], aid'[v] = aid[v],
             sid'[v] = sid[v], batch'[v] = batch[v],
             UNCHANGED <<db, disk, reissued, robbed>>,
             \A u \in Worker : pc'[u] \in Storer => pc[u] \in Storer
      PROVE  Storing(v)' /\ Harmless(v)'
  <2>1. Storing(v) /\ Harmless(v)
    BY DEF Threads
  <2>2. \A k \in Media : Placed(k, v)' <=> Placed(k, v)
    BY <1>2 DEF Placed, FileOf, SamePath
  <2>3. Storing(v)'
    BY <1>2, <2>1, <2>2 DEF Storing, Media, db
  <2>4. Undone(v)' /\ Spent(v)' /\ Marked(v)' /\ Settled(v)' /\ Purged(v)'
    BY <1>2, <2>1 DEF Harmless, Undone, Spent, Marked, Settled, Purged, Lost, db
  <2> QED
    BY <2>3, <2>4 DEF Harmless
<1>3. CASE UNCHANGED vars
  <2>1. \A v \in Worker : Storing(v)' /\ Harmless(v)'
    BY <1>2, <1>3 DEF vars, files, self, url, meta, past
  <2> QED
    BY <1>1, <2>1 DEF Threads
<1>4. ASSUME NEW w \in Worker, NEW o \in Ops, NEW h \in Hash, Start(w, o, h)
      PROVE  \A v \in Worker : Storing(v)' /\ Harmless(v)'
  <2>1. OthersKeep(w) /\ pc'[w] \in {"check", "begin", "lock"} /\ batch' = batch
    BY <1>4, OthersStart DEF Start, TypeInv, TypeOK, ThreadsOK
  <2>2. Storing(w)' /\ Harmless(w)'
    BY <2>1, NoTransaction, NoCleanup DEF Storer, Returning, Undoing
  <2>3. UNCHANGED <<db, disk, reissued, robbed>>
    BY <1>4 DEF Start, files, past
  <2>4. \A u \in Worker : pc'[u] \in Storer => pc[u] \in Storer
    BY <2>1 DEF OthersKeep, Storer
  <2> QED
    BY <1>2, <2>1, <2>2, <2>3, <2>4 DEF OthersKeep
<1>5. ASSUME NEW w \in Worker, Step(w) PROVE \A v \in Worker : Storing(v)' /\ Harmless(v)'
  <2>1. Course(w) /\ Storing(w) /\ Harmless(w)
    BY DEF Threads
  <2>2. \A v \in Worker \ {w} : Storing(v)' /\ Harmless(v)'
    BY <1>5, StoringOthers, HarmlessOthers
  <2> QED
    BY <1>5, <2>1, <2>2, OwnStep
<1>6. CASE Crash
  <2>1. \A v \in Worker : pc'[v] = "idle"
    BY <1>6 DEF Crash
  <2>2. \A v \in Worker : Storing(v)' /\ Harmless(v)'
    BY <2>1, NoTransaction, NoCleanup DEF Storer, Returning, Undoing
  <2> QED
    BY <1>1, <2>2 DEF Threads
<1> QED
  BY <1>1, <1>3, <1>4, <1>5, <1>6 DEF Next, AllDone, Threads

-----------------------------------------------------------------------------
Moved == UNION {moved[w] : w \in Worker}

(* Every file on the disk or in a delete's hands was there before, or has
   just been written under an id no other content has. *)
LEMMA FilesCome ==
    ASSUME TypeInv, IdInv, Threads, ClaimsApart, NEW w \in Worker, Step(w), NEW f \in disk' \cup Moved'
    PROVE  f \in disk \cup Moved \/ (Writing(w) /\ f \in disk' /\ NamedFile(w, f) /\ row' = row)
<1>0. Course(w) /\ Storing(w) /\ ThreadsOK /\ OthersKeep(w)
  BY OthersStep DEF Threads, TypeInv, TypeOK
<1>1. CASE f \in disk' /\ Writing(w)
  <2>1. PICK F \in SUBSET File : disk' = Put(disk, F) /\ \A g \in F : NamedFile(w, g)
    BY <1>0, <1>1, WritingWrites DEF Writes
  <2>2. row' = row
    BY <1>1 DEF Writing, Copy, Store, TagItem, IngestPublish, ThumbPublish, WriteNote, db
  <2> QED
    BY <1>1, <2>1, <2>2 DEF Put
<1>2. CASE f \in disk' /\ ~Writing(w)
  <2>1. f \in disk \cup moved[w]
    BY <1>2, DiskSteps DEF UndoFiles, BatchUnlink, Unlink, Stage, Restore, GoesBack
  <2> QED
    BY <2>1 DEF Moved
<1>3. CASE f \in Moved'
  <2>1. PICK v \in Worker : f \in moved'[v]
    BY <1>3 DEF Moved
  <2>2. CASE v # w
    BY <1>0, <2>1, <2>2 DEF OthersKeep, Moved
  <2>3. CASE v = w
    <3>1. moved'[w] \subseteq moved[w] \/ Stage(w)
      <4>1. CASE Forget(w)
        BY <1>0, <4>1, ForgetBlank DEF Blank
      <4>2. CASE ~Forget(w)
        BY <1>0, <4>2
         DEF Step, Ingest, CheckReject, CheckPass, SimilarReview, SimilarPass, Copy, CopyBusy, Store, TagItem, Commit,
             IngestThumb, IngestPublish, UpdateIndex, IngestDone, IngestRaise, UndoDb, UndoFiles, FileNotStored,
             OnItem, UpdateBegin, UpdateBusy, LockItem, LockGone, ThumbBusy, ThumbPublish, WriteNote, Reindex,
             List, Staged, DeleteRow, DeleteRefused, Restore, Deindex, Purge,
             OnBatch, IndexBatch, BatchDelete, BatchBusy, BatchUnlink, BatchCommit, BatchRaise, BatchDeindex,
             ForgetUrl, self
      <4> QED
        BY <4>1, <4>2
    <3>2. Stage(w) => moved'[w] \subseteq moved[w] \cup disk
      BY <1>0 DEF Stage, ThreadsOK
    <3> QED
      BY <2>1, <2>3, <3>1, <3>2 DEF Moved
  <2> QED
    BY <2>2, <2>3
<1> QED
  BY <1>1, <1>2, <1>3

(* A file of the thread's content under an id of no other content fits. *)
LEMMA NamedFits ==
    ASSUME TypeInv, NEW w \in Worker, NEW f, NamedFile(w, f)
    PROVE  Fits(f)
BY DEF NamedFile, FileOf, Fits, Claims

(* A commit that keeps the row there was claims nothing new. *)
LEMMA ClaimsRenewed ==
    ASSUME TypeInv, IdInv, NEW w \in Worker, Storing(w), Commit(w), row[obj[w]] = sid[w]
    PROVE  \A h \in Hash, i \in Id : Claims(h, i)' => Claims(h, i)
<1>1. row' = row
  <2>1. row' = [row EXCEPT ![obj[w]] = row[obj[w]]]
    BY CommitAdds DEF Adds
  <2> QED
    BY <2>1 DEF TypeInv, TypeOK, DatabaseOK
<1>2. Claimed(w)' \subseteq {sid[w]} /\ obj'[w] = obj[w]
  BY DEF Commit, Goto, Claimed, Deleting, Staging, self, TypeInv, TypeOK, ThreadsOK
<1>3. \A v \in Worker \ {w} : Claimed(v)' = Claimed(v) /\ obj'[v] = obj[v]
  <2>1. OthersKeep(w)
    BY OthersStep DEF Step, Ingest
  <2> QED
    BY <2>1 DEF OthersKeep, Claimed
<1>4. ASSUME NEW h \in Hash, NEW i \in Id, NEW v \in Worker, obj'[v] = h, i \in Claimed(v)'
      PROVE  Claims(h, i)
  <2>1. CASE v = w
    BY <1>2, <1>4, <2>1 DEF Claims
  <2>2. CASE v # w
    BY <1>3, <1>4, <2>2 DEF Claims
  <2> QED
    BY <2>1, <2>2
<1> QED
  BY <1>1, <1>4 DEF Claims

(* A path that a content has a claim to holds that content. *)
LEMMA FitNext ==
    ASSUME TypeInv, IdInv, Threads, ClaimsApart, FilesFit, [Next]_vars
    PROVE  FilesFit'
<1> USE DEF FilesFit
<1>0. DatabaseOK /\ FilesOK /\ ThreadsOK /\ Located
  BY DEF TypeInv, TypeOK
<1>01. \A f \in disk \cup Moved : f \in File /\ f.id \in Id /\ Fits(f)
  BY <1>0 DEF FilesOK, ThreadsOK, Moved, File
<1>1. ASSUME NEW f, f.id \in Id, Fits(f), reissued \subseteq reissued',
             \A h \in Hash, i \in Id : Claims(h, i)' => Claims(h, i)
      PROVE  Fits(f)'
  <2> HIDE DEF Claims
  <2> QED
    BY <1>1 DEF Fits
<1>2. ASSUME NEW w \in Worker, Step(w) PROVE FilesFit'
  <2>0. Course(w) /\ Storing(w) /\ reissued \subseteq reissued' /\ obj[w] \in Hash \cup {None}
    BY <1>0, <1>2, StillLost DEF Threads, ThreadsOK
  <2>1. ASSUME NEW f \in disk' \cup Moved' PROVE Fits(f)'
    <3>1. CASE f \notin disk \cup Moved
      <4>1. NamedFile(w, f) /\ Writing(w)
        BY <1>2, <2>1, <3>1, FilesCome
      <4>2. pc[w] # "commit"
        BY <4>1 DEF Writing, Copy, Store, TagItem, IngestPublish, ThumbPublish, WriteNote
      <4>3. \A h \in Hash, i \in Id : Claims(h, i)' => Claims(h, i)
        BY <1>2, <2>0, <4>2, ClaimsStep DEF Gains
      <4>4. Fits(f) /\ f.id \in Id
        BY <4>1, NamedFits DEF NamedFile, FileOf
      <4> QED
        BY <1>1, <2>0, <4>3, <4>4
    <3>2. CASE f \in disk \cup Moved /\ ~Commit(w)
      <4>1. \A h \in Hash, i \in Id : Claims(h, i)' => Claims(h, i)
        BY <1>2, <2>0, <3>2, ClaimsOfStep, ClaimsShrink, OthersStep, OthersRemove
      <4> QED
        BY <1>01, <1>1, <2>0, <3>2, <4>1
    <3>3. CASE f \in disk \cup Moved /\ Commit(w) /\ row[obj[w]] = sid[w]
      BY <1>01, <1>1, <2>0, <3>3, ClaimsRenewed
    <3>4. CASE f \in disk \cup Moved /\ Commit(w) /\ row[obj[w]] # sid[w]
      <4>1. sid[w] = aid[w] /\ aid[w] = counter /\ Placed("asset", w) /\ Placed("note", w)
        BY <2>0, <3>4 DEF Commit, Storing, Storer
      <4>2. f.id = counter => f \in disk
        <5>1. ASSUME NEW v \in Worker, f \in moved[v] PROVE f.id # counter
          BY <5>1, MovedClaimed DEF Threads
        <5> QED
          BY <3>4, <5>1 DEF Moved
      <4>3. f.id = counter /\ f.id \notin reissued /\ f.kind \in Media /\ f.shard = ShardOf[obj[w]] => f.hash = obj[w]
        BY <4>1, <4>2 DEF Placed, Media, SamePath, FileOf
      <4>4. \A h \in Hash, i \in Id : Claims(h, i)' => Claims(h, i) \/ (h = obj[w] /\ i = counter)
        BY <1>2, <2>0, ClaimsStep DEF Gains
      <4> HIDE DEF Claims
      <4> QED
        BY <1>01, <2>0, <3>4, <4>3, <4>4 DEF Fits
    <3> QED
      BY <3>1, <3>2, <3>3, <3>4
  <2> QED
    BY <2>1 DEF Moved
<1>3. ASSUME NEW w \in Worker, NEW o \in Ops, NEW h \in Hash, Start(w, o, h) PROVE FilesFit'
  <2>1. UNCHANGED <<disk, moved, reissued>>
    BY <1>3 DEF Start, files, past
  <2> QED
    BY <1>01, <1>1, <1>3, <2>1, ClaimsStart DEF Moved
<1>4. CASE Crash
  <2>1. disk' = disk /\ reissued' = reissued /\ moved' = [w \in Worker |-> {}]
    BY <1>4 DEF Crash, files
  <2> QED
    BY <1>01, <1>1, <1>4, <2>1, ClaimsCrash DEF Moved
<1>5. CASE UNCHANGED vars
  <2>1. UNCHANGED <<disk, moved, reissued>>
    BY <1>5 DEF vars, files, self, meta, past
  <2>2. \A h \in Hash, i \in Id : Claims(h, i)' => Claims(h, i)
    BY <1>5 DEF vars, db, self, Claims, Claimed
  <2> QED
    BY <1>01, <1>1, <2>1, <2>2 DEF Moved
<1> QED
  BY <1>2, <1>3, <1>4, <1>5 DEF Next, AllDone

-----------------------------------------------------------------------------
(* An item's file is on the disk, or with a delete that can put it back. *)
Safe(f) == f \in disk \/ (f \in trash /\ (StagedBy(f) \/ crashes > 0))

(* A file a row names, and the path that is the row's. *)
RowFile(h, f) == f.kind \in Media /\ f.hash = h /\ f.shard = ShardOf[h] /\ f.id = row[h] /\ f \in File

(* A file that is written over the file of a row is that file. *)
LEMMA NamedSame ==
    ASSUME NEW w \in Worker, NEW h \in Hash, NEW f, RowFile(h, f), NEW g, NamedFile(w, g), SamePath(g, f)
    PROVE  g = f
BY DEF NamedFile, RowFile, SamePath, FileOf, File, Claims

(* And so is one that is there already. *)
LEMMA FitsSame ==
    ASSUME NEW h \in Hash, NEW f, RowFile(h, f), row[h] \notin reissued, NEW g \in File, Fits(g), SamePath(g, f)
    PROVE  g = f
BY DEF Fits, Claims, RowFile, SamePath, File

(* On the disk it stays, or it goes where a delete can find it, or its row is
   being taken out with the URL. *)
LEMMA DiskSafe ==
    ASSUME TypeInv, IdInv, Threads, ClaimsApart, NEW w \in Worker, Step(w),
           NEW h \in Hash, NEW f, RowFile(h, f), row[h] \notin Lost', f \in disk
    PROVE  Safe(f)' \/ TakenBack(h)'
<1>0. Course(w) /\ Storing(w) /\ Harmless(w) /\ ThreadsOK
  BY DEF Threads, TypeInv, TypeOK
<1>1. CASE Writing(w)
  <2>1. PICK F \in SUBSET File : disk' = Put(disk, F) /\ \A g \in F : NamedFile(w, g)
    BY <1>0, <1>1, WritingWrites DEF Writes
  <2>2. \A g \in F : SamePath(g, f) => g = f
    BY <2>1, NamedSame
  <2> QED
    BY <2>1, <2>2 DEF Put, Safe
<1>2. CASE UndoFiles(w)
  <2>1. pc[w] \in Undoing /\ disk' = Unlink(disk, Written(w))
    BY <1>2 DEF UndoFiles, Undoing
  <2>2. row[h] \notin Lost /\ row[h] # None
    BY StillLost, ParametersOK DEF Lost, RowFile, File, Id
  <2>3. row[h] \notin {aid[w], sid[w]}
    BY <1>0, <2>1, <2>2 DEF Harmless, Undone
  <2>4. \A g \in Written(w) : g.id \in {aid[w], sid[w]}
    BY DEF Written, FileOf
  <2>5. \A g \in Written(w) : ~SamePath(g, f)
    BY <2>3, <2>4 DEF SamePath, RowFile
  <2> QED
    BY <2>1, <2>5 DEF Unlink, Safe
<1>3. CASE Stage(w)
  <2>1. PICK d \in due[w] :
            /\ disk' = disk \ {g \in disk : SamePath(g, d)}
            /\ trash' = trash \cup {g \in disk : SamePath(g, d)}
            /\ moved'[w] = moved[w] \cup {g \in disk : SamePath(g, d)}
    BY <1>0, <1>3 DEF Stage, ThreadsOK
  <2>2. pc'[w] = "stage"
    BY <1>3 DEF Stage
  <2> QED
    BY <2>1, <2>2 DEF Safe, StagedBy
<1>4. CASE Restore(w)
  BY <1>4 DEF Restore, Safe
<1>5. CASE BatchUnlink(w)
  <2>1. /\ disk' = Unlink(disk, {FileOf(k, g, row[g]) : k \in {"asset", "note", "wd"}, g \in Stored(batch[w])})
        /\ pc'[w] = "takenback" /\ batch'[w] = batch[w]
    BY <1>0, <1>5 DEF BatchUnlink, Goto, url, ThreadsOK
  <2>2. CASE f \in disk'
    BY <2>2 DEF Safe
  <2>3. CASE f \notin disk'
    <3>1. PICK k \in {"asset", "note", "wd"}, g \in Stored(batch[w]) : SamePath(f, FileOf(k, g, row[g]))
      BY <2>1, <2>3 DEF Unlink, SamePath
    <3>2. g \in Hash /\ row[g] # None /\ g \in batch[w]
      BY <1>0 DEF Stored, ThreadsOK
    <3>3. row[g] = row[h]
      BY <3>1 DEF SamePath, FileOf, RowFile
    <3>4. g = h
      BY <3>2, <3>3 DEF IdInv, IdsUnique
    <3> QED
      BY <2>1, <3>2, <3>4 DEF TakenBack
  <2> QED
    BY <2>2, <2>3
<1> QED
  BY <1>1, <1>2, <1>3, <1>4, <1>5, DiskSteps DEF Safe

(* Which steps take something out of the trash. *)
LEMMA TrashSteps ==
    ASSUME NEW w \in Worker, Step(w), Course(w)
    PROVE  trash \subseteq trash' \/ Restore(w) \/ Purge(w)
<1>1. CASE Ingest(w)
  BY <1>1
     DEF Ingest, CheckReject, CheckPass, SimilarReview, SimilarPass, Copy, CopyBusy, Store, TagItem, Commit,
         IngestThumb, IngestPublish, UpdateIndex, IngestDone, IngestRaise, UndoDb, UndoFiles, files
<1>2. CASE OnItem(w)
  BY <1>2
     DEF OnItem, UpdateBegin, UpdateBusy, LockItem, LockGone, ThumbBusy, ThumbPublish, WriteNote, Reindex,
         List, Stage, Staged, DeleteRow, DeleteRefused, Deindex, files
<1>3. CASE OnBatch(w)
  BY <1>3
     DEF OnBatch, IndexBatch, BatchDelete, BatchBusy, BatchUnlink, BatchCommit, BatchRaise, BatchDeindex,
         Course, files
<1> QED
  BY <1>1, <1>2, <1>3 DEF Step

(* What is in the trash stays there for the delete that moved it, goes back
   to its place, or has lost its row. *)
LEMMA TrashSafe ==
    ASSUME TypeInv, IdInv, Threads, ClaimsApart, FilesFit, NEW w \in Worker, Step(w),
           NEW h \in Hash, NEW f, RowFile(h, f), row'[h] = row[h], row[h] \notin reissued,
           f \in trash, StagedBy(f) \/ crashes > 0
    PROVE  Safe(f)'
<1>0. Course(w) /\ Harmless(w) /\ ThreadsOK /\ DatabaseOK /\ OthersKeep(w) /\ Located
  BY OthersStep DEF Threads, TypeInv, TypeOK
<1>1. crashes' = crashes
  <2> USE DEF meta
  <2>1. CASE Ingest(w)
    BY <2>1
     DEF Ingest, CheckReject, CheckPass, SimilarReview, SimilarPass, Copy, CopyBusy, Store, TagItem, Commit,
         IngestThumb, IngestPublish, UpdateIndex, IngestDone, IngestRaise, UndoDb, UndoFiles
  <2>2. CASE OnItem(w)
    BY <2>2
     DEF OnItem, UpdateBegin, UpdateBusy, LockItem, LockGone, ThumbBusy, ThumbPublish, WriteNote, Reindex,
         List, Stage, Staged, DeleteRow, DeleteRefused, Restore, Deindex, Purge
  <2>3. CASE OnBatch(w)
    BY <2>3
     DEF OnBatch, IndexBatch, BatchDelete, BatchBusy, BatchUnlink, BatchCommit, BatchRaise, BatchDeindex
  <2> QED
    BY <2>1, <2>2, <2>3 DEF Step
<1>2. CASE Restore(w)
  <2>1. disk' = disk \cup GoesBack(w) /\ trash' = trash \ GoesBack(w)
    BY <1>2 DEF Restore
  <2>2. CASE f \in moved[w]
    <3>1. \A g \in disk : SamePath(f, g) => g = f
      <4>1. SUFFICES ASSUME NEW g \in disk, SamePath(f, g) PROVE g = f
        OBVIOUS
      <4>2. g \in File /\ Fits(g) /\ SamePath(g, f)
        BY <4>1 DEF TypeInv, TypeOK, FilesOK, FilesFit, SamePath
      <4> QED
        BY <4>2, FitsSame
    <3> QED
      BY <2>1, <2>2, <3>1 DEF GoesBack, Safe
  <2>3. CASE f \notin moved[w]
    <3>1. f \in trash'
      BY <2>1, <2>3 DEF GoesBack
    <3>2. StagedBy(f) => StagedBy(f)'
      BY <1>0, <2>3 DEF StagedBy, OthersKeep
    <3> QED
      BY <1>1, <3>1, <3>2 DEF Safe
  <2> QED
    BY <2>2, <2>3
<1>3. CASE ~Restore(w)
  <2>1. f \in trash'
    <3>1. CASE Purge(w)
      <4>1. pc[w] = "purge" /\ trash' = trash \ moved[w]
        BY <1>3, <3>1 DEF Purge
      <4>2. f \notin moved[w]
        BY <1>0, <4>1 DEF Harmless, Purged, Course, RowFile
      <4> QED
        BY <4>1, <4>2
    <3>2. CASE ~Purge(w)
      BY <1>0, <1>3, <3>2, TrashSteps
    <3> QED
      BY <3>1, <3>2
  <2>2. ASSUME pc[w] \in Staging, f \in moved[w] PROVE pc'[w] \in Staging /\ f \in moved'[w]
    <3>1. Stage(w) \/ Staged(w) \/ DeleteRow(w) \/ DeleteRefused(w)
      BY <1>3, <2>2
       DEF Staging, Step, Ingest, CheckReject, CheckPass, SimilarReview, SimilarPass, Copy, CopyBusy, Store, TagItem, Commit,
         IngestThumb, IngestPublish, UpdateIndex, IngestDone, IngestRaise, UndoDb, UndoFiles,
         OnItem, UpdateBegin, UpdateBusy, LockItem, LockGone, ThumbBusy, ThumbPublish, WriteNote, Reindex,
         List, Deindex, Purge,
         OnBatch, IndexBatch, BatchDelete, BatchBusy, BatchUnlink, BatchCommit, BatchRaise, BatchDeindex
    <3>2. ~DeleteRow(w)
      <4>1. f.id = sid[w] /\ sid[w] \in Id /\ sid[w] \in Claimed(w) /\ obj[w] \in Hash
        BY <1>0, <2>2, MovedClaimed
      <4>2. h = obj[w] /\ row[h] # None
        BY <4>1, ClaimedBelow, ParametersOK DEF RowFile, Id
      <4> QED
        BY <1>0, <4>2 DEF DeleteRow, DatabaseOK
    <3> QED
      BY <1>0, <2>2, <3>1, <3>2 DEF Staging, Stage, Staged, DeleteRefused, Goto, self, ThreadsOK
  <2>3. StagedBy(f) => StagedBy(f)'
    BY <1>0, <2>2 DEF StagedBy, OthersKeep, Staging
  <2> QED
    BY <1>1, <2>1, <2>3 DEF Safe
<1> QED
  BY <1>2, <1>3

(* While its rows are being taken out a URL keeps its batch, and an error on
   the way robs them. *)
LEMMA TakenSafe ==
    ASSUME TypeInv, IdInv, Threads, NEW w \in Worker, Step(w),
           NEW h \in Hash, TakenBack(h), row'[h] = row[h], row[h] \notin {None} \cup Lost'
    PROVE  TakenBack(h)'
<1>1. PICK v \in Worker : pc[v] = "takenback" /\ h \in batch[v]
  BY DEF TakenBack
<1>2. CASE v # w
  <2>1. pc'[v] = "takenback" /\ batch'[v] = batch[v]
    BY <1>1, <1>2, OthersStep DEF OthersKeep
  <2> QED
    BY <1>1, <2>1 DEF TakenBack
<1>3. CASE v = w
  <2>1. BatchCommit(w) \/ BatchRaise(w)
    BY <1>1, <1>3
       DEF Step, Ingest, CheckReject, CheckPass, SimilarReview, SimilarPass, Copy, CopyBusy, Store, TagItem, Commit,
         IngestThumb, IngestPublish, UpdateIndex, IngestDone, IngestRaise, UndoDb, UndoFiles,
         OnItem, UpdateBegin, UpdateBusy, LockItem, LockGone, ThumbBusy, ThumbPublish, WriteNote, Reindex,
         List, Stage, Staged, DeleteRow, DeleteRefused, Restore, Deindex, Purge,
         OnBatch, IndexBatch, BatchDelete, BatchBusy, BatchUnlink, BatchDeindex
  <2>2. ~BatchCommit(w)
    <3>1. rowW[h] = None
      BY <1>1, <1>3 DEF Threads, Storing, Returning
    <3> QED
      BY <3>1 DEF BatchCommit, CommitTxn
  <2>3. ~BatchRaise(w)
    <3>1. row[h] \in IdsOf(batch[w])
      BY <1>1, <1>3 DEF IdsOf, Stored
    <3> QED
      BY <3>1 DEF BatchRaise, Lost
  <2> QED
    BY <2>1, <2>2, <2>3
<1> QED
  BY <1>2, <1>3

(* What the audit demands of a file of an item. *)
Kept(h, f) == Safe(f) \/ TakenBack(h)

(* The audit's demand, file by file. *)
LEMMA RowHasSafe ==
    RowHasFiles <=> \A h \in Hash, k \in Media : row[h] \notin {None} \cup Lost => Kept(h, FileOf(k, h, row[h]))
BY DEF RowHasFiles, Kept, Safe, Media, Lost

(* A step of a thread leaves the items their files. *)
LEMMA RowStep ==
    ASSUME TypeInv, IdInv, RowInv, NEW w \in Worker, Step(w),
           NEW h \in Hash, NEW k \in Media, row'[h] \notin {None} \cup Lost'
    PROVE  Kept(h, FileOf(k, h, row[h]))'
<1>0. /\ DatabaseOK /\ Threads /\ ClaimsApart /\ FilesFit /\ Course(w) /\ Storing(w) /\ Lost \subseteq Lost'
      /\ reissued \subseteq reissued'
      /\ \A g \in Hash, l \in Media : row[g] \notin {None} \cup Lost => Kept(g, FileOf(l, g, row[g]))
  BY RowHasSafe, StillLost DEF TypeInv, TypeOK, RowInv, Threads, Lost
<1>1. CASE row'[h] = row[h]
  <2>1. PICK f : f = FileOf(k, h, row[h])
    OBVIOUS
  <2>2. row[h] \in Id /\ FileOf(k, h, row[h])' = f
    BY <1>0, <1>1, <2>1 DEF DatabaseOK, FileOf
  <2>3. RowFile(h, f)
    BY <2>1, <2>2, FileOfType DEF RowFile, FileOf, Media, Kind
  <2>4. row[h] \notin Lost' /\ row[h] \notin Lost /\ row[h] # None
    BY <1>0, <1>1
  <2>5. CASE f \in disk
    <3>1. Safe(f)' \/ TakenBack(h)'
      BY <1>0, <2>3, <2>4, <2>5, DiskSafe
    <3> QED
      BY <2>2, <3>1 DEF Kept, Safe
  <2>6. CASE f \notin disk /\ Safe(f)
    <3>1. Safe(f)'
      BY <1>0, <1>1, <2>3, <2>4, <2>6, TrashSafe DEF Safe, Lost
    <3> QED
      BY <2>2, <3>1 DEF Kept, Safe
  <2>7. CASE TakenBack(h)
    BY <1>0, <1>1, <2>4, <2>7, TakenSafe DEF Kept
  <2> QED
    BY <1>0, <2>1, <2>4, <2>5, <2>6, <2>7 DEF Kept
<1>2. CASE row'[h] # row[h]
  <2>1. Adds(w) /\ pc[w] = "commit"
    BY <1>0, <1>2, RowsStep DEF RowsMove, Removes
  <2>2. row' = [row EXCEPT ![obj[w]] = sid[w]] /\ h = obj[w] /\ row'[h] = sid[w] /\ row[obj[w]] # sid[w]
    BY <1>0, <1>2, <2>1 DEF Adds, DatabaseOK
  <2>3. sid[w] = aid[w] /\ Placed(k, w)
    BY <1>0, <2>1, <2>2 DEF Storing, Media
  <2>4. aid[w] \notin reissued
    BY <1>0, <2>2, <2>3 DEF Lost
  <2>5. FileOf(k, h, row'[h]) \in disk
    BY <2>2, <2>3, <2>4 DEF Placed, SamePath
  <2>6. disk' = disk
    <3>1. CASE Commit(w)
      BY <3>1 DEF Commit, files
    <3>2. CASE ~Commit(w)
      BY <1>0, <1>2, <3>2, OthersRemove DEF Removes
    <3> QED
      BY <3>1, <3>2
  <2>7. FileOf(k, h, row[h])' = FileOf(k, h, row'[h])
    BY DEF FileOf
  <2> QED
    BY <2>5, <2>6, <2>7 DEF Kept, Safe
<1> QED
  BY <1>1, <1>2

(* Every step leaves the items their files. *)
LEMMA RowNext ==
    ASSUME TypeInv, IdInv, RowInv, [Next]_vars
    PROVE  RowHasFiles'
<1>0. \A h \in Hash, k \in Media : row[h] \notin {None} \cup Lost => Kept(h, FileOf(k, h, row[h]))
  BY RowHasSafe DEF RowInv
<1>01. (\A h \in Hash, k \in Media : row'[h] \notin {None} \cup Lost' => Kept(h, FileOf(k, h, row[h]))')
         => RowHasFiles'
  BY DEF RowHasFiles, Kept, Safe, Media, Lost
<1>02. crashes \in Nat
  BY ParametersOK DEF TypeInv, TypeOK, SharedOK
<1>1. ASSUME UNCHANGED <<row, disk, trash>>, NEW h \in Hash, NEW k \in Media, row'[h] \notin {None} \cup Lost',
             Lost \subseteq Lost',
             \A f : StagedBy(f) => StagedBy(f)' \/ crashes' > 0, crashes > 0 => crashes' > 0,
             TakenBack(h) => TakenBack(h)'
      PROVE  Kept(h, FileOf(k, h, row[h]))'
  <2>1. Kept(h, FileOf(k, h, row[h])) /\ FileOf(k, h, row[h])' = FileOf(k, h, row[h])
    BY <1>0, <1>1 DEF FileOf
  <2> HIDE DEF FileOf
  <2> QED
    BY <1>1, <2>1 DEF Kept, Safe
<1>2. ASSUME NEW w \in Worker, Step(w), NEW h \in Hash, NEW k \in Media, row'[h] \notin {None} \cup Lost'
      PROVE  Kept(h, FileOf(k, h, row[h]))'
  BY <1>2, RowStep
<1>3. ASSUME NEW w \in Worker, NEW o \in Ops, NEW g \in Hash, Start(w, o, g),
             NEW h \in Hash, NEW k \in Media, row'[h] \notin {None} \cup Lost'
      PROVE  Kept(h, FileOf(k, h, row[h]))'
  <2>1. /\ UNCHANGED <<row, disk, trash, crashes, moved, batch, reissued, robbed>> /\ pc[w] = "idle"
        /\ OthersKeep(w)
    BY <1>3, OthersStart DEF Start, db, files, past, TypeInv, TypeOK
  <2>2. \A f : StagedBy(f) => StagedBy(f)'
    BY <2>1 DEF StagedBy, OthersKeep
  <2>3. TakenBack(h) => TakenBack(h)'
    BY <2>1 DEF TakenBack, OthersKeep
  <2> QED
    BY <1>1, <1>3, <2>1, <2>2, <2>3 DEF Lost
<1>4. ASSUME Crash, NEW h \in Hash, NEW k \in Media, row'[h] \notin {None} \cup Lost'
      PROVE  Kept(h, FileOf(k, h, row[h]))'
  <2>1. /\ UNCHANGED <<row, disk, trash, reissued>> /\ crashes' > 0
        /\ robbed' = robbed \cup UNION {IdsOf(batch[w]) : w \in {v \in Worker : pc[v] = "takenback"}}
    BY <1>02, <1>4 DEF Crash, RollbackTxn, files
  <2>2. ~TakenBack(h)
    <3>1. SUFFICES ASSUME NEW v \in Worker, pc[v] = "takenback", h \in batch[v] PROVE FALSE
      BY DEF TakenBack
    <3>2. row[h] \in IdsOf(batch[v])
      BY <1>4, <2>1, <3>1 DEF IdsOf, Stored
    <3> QED
      BY <1>4, <2>1, <3>1, <3>2 DEF Lost
  <2> QED
    BY <1>1, <1>4, <2>1, <2>2 DEF Lost
<1>5. ASSUME UNCHANGED vars, NEW h \in Hash, NEW k \in Media, row'[h] \notin {None} \cup Lost'
      PROVE  Kept(h, FileOf(k, h, row[h]))'
  <2>1. UNCHANGED <<row, disk, trash, crashes, pc, moved, batch, reissued, robbed>>
    BY <1>5 DEF vars, db, files, self, url, meta, past
  <2>2. (\A f : StagedBy(f) => StagedBy(f)') /\ (TakenBack(h) => TakenBack(h)')
    BY <2>1 DEF StagedBy, TakenBack
  <2> QED
    BY <1>1, <1>5, <2>1, <2>2 DEF Lost
<1> QED
  BY <1>01, <1>2, <1>3, <1>4, <1>5 DEF Next, AllDone

(* At the start there is neither item nor file. *)
LEMMA RowInit == Init => RowInv
<1> SUFFICES ASSUME Init PROVE RowInv
  OBVIOUS
<1>1. \A w \in Worker : Course(w)
  BY ParametersOK DEF Init, Course, Ingesting, Deleting, Staging, Op
<1>2. \A w \in Worker : Storing(w) /\ Harmless(w)
  BY DEF Init, Storing, Storer, Returning, Harmless, Undone, Spent, Marked, Settled, Purged, Undoing
<1>3. ClaimsApart
  BY ParametersOK DEF Init, ClaimsApart, Claims, Claimed, Deleting, Staging, Id
<1> QED
  BY <1>1, <1>2, <1>3 DEF Init, RowInv, Threads, FilesFit, RowHasFiles

(* The invariant behind the theorem. *)
LEMMA RowAlways == Spec => [](TypeInv /\ IdInv /\ RowInv)
<1>1. TypeInv /\ IdInv /\ RowInv /\ [Next]_vars => RowInv'
  BY ThreadsNext, ClaimsNext, FitNext, RowNext DEF RowInv
<1> QED
  BY <1>1, TypeInit, TypeNext, IdInit, IdNext, RowInit, PTL DEF Spec

(* Every item has its asset and its note with its own content, at the path its
   row names, with a delete that can put them back or with the rollback of its
   URL: what audit_vault_health counts as missing_files and hash_mismatches comes
   about only where an id was handed out under a cleanup, or an error let go the
   files of a committed item. *)
THEOREM ItemsHaveFiles == Spec => []RowHasFiles
BY RowAlways, PTL DEF RowInv

-----------------------------------------------------------------------------
(***************************************************************************)
(* Similar contents.  A content in the table is in the RAM index, or is on *)
(* its way into it, or is marked as unseen; so who passes the look for     *)
(* duplicates beside a close content has been marked himself.              *)
(***************************************************************************)

(* A content that has been committed and that its thread will still put into
   the index. *)
Telling(g) ==
    \E v \in Worker :
        \/ /\ op[v] = "ingest" /\ obj[v] = g
           /\ pc[v] \in {"thumb", "publish", "index"} \/ (pc[v] = "unlink" /\ v \in Online)
        \/ g \in batch[v]

Known(g) == g \in index \cup unseen \/ Telling(g)

(* A content that is stored, or past the look for duplicates. *)
Passed == {"copy", "store", "tag", "commit"}
Present(g) == row[g] # None \/ \E v \in Worker : op[v] = "ingest" /\ obj[v] = g /\ pc[v] \in Passed

StoredKnown == \A g \in Hash : row[g] # None => Known(g)
CloseMarked ==
    \A g, h \in Hash : g # h /\ <<g, h>> \in Close /\ Present(g) /\ Present(h) => {g, h} \cap unseen # {}

SimilarInv == StoredKnown /\ CloseMarked

(* What the index is known to miss stays marked. *)
LEMMA StillUnseen ==
    ASSUME NEW w \in Worker, Step(w)
    PROVE  unseen \subseteq unseen'
<1> USE DEF meta, past
<1>1. CASE Ingest(w)
  BY <1>1
     DEF Ingest, CheckReject, CheckPass, SimilarReview, SimilarPass, Copy, CopyBusy, Store, TagItem, Commit,
         IngestThumb, IngestPublish, UpdateIndex, IngestDone, IngestRaise, UndoDb, UndoFiles
<1>2. CASE OnItem(w)
  BY <1>2
     DEF OnItem, UpdateBegin, UpdateBusy, LockItem, LockGone, ThumbBusy, ThumbPublish, WriteNote, Reindex,
         List, Stage, Staged, DeleteRow, DeleteRefused, Restore, Deindex, Purge
<1>3. CASE OnBatch(w)
  BY <1>3
     DEF OnBatch, IndexBatch, BatchDelete, BatchBusy, BatchUnlink, BatchCommit, BatchRaise, BatchDeindex
<1> QED
  BY <1>1, <1>2, <1>3 DEF Step

(* Only a delete and a rollback take something out of the index, and what is
   stored again by then they mark. *)
LEMMA IndexLoses ==
    ASSUME TypeInv, NEW w \in Worker, Step(w), NEW g \in index, g \in Hash, row[g] # None
    PROVE  g \in index' \cup unseen'
<1>1. CASE Deindex(w)
  BY <1>1 DEF Deindex
<1>2. CASE BatchDeindex(w)
  BY <1>2 DEF BatchDeindex, Stored
<1>3. CASE Ingest(w)
  BY <1>3
     DEF Ingest, CheckReject, CheckPass, SimilarReview, SimilarPass, Copy, CopyBusy, Store, TagItem, Commit,
         IngestThumb, IngestPublish, UpdateIndex, IngestDone, IngestRaise, UndoDb, UndoFiles
<1>4. CASE OnItem(w) /\ ~Deindex(w)
  BY <1>4
     DEF OnItem, UpdateBegin, UpdateBusy, LockItem, LockGone, ThumbBusy, ThumbPublish, WriteNote, Reindex,
         List, Stage, Staged, DeleteRow, DeleteRefused, Restore, Purge
<1>5. CASE OnBatch(w) /\ ~BatchDeindex(w)
  BY <1>5
     DEF OnBatch, IndexBatch, BatchDelete, BatchBusy, BatchUnlink, BatchCommit, BatchRaise
<1> QED
  BY <1>1, <1>2, <1>3, <1>4, <1>5 DEF Step

(* A URL's contents leave the batch for the index, or marked. *)
LEMMA BatchLoses ==
    ASSUME TypeInv, NEW w \in Worker, Step(w), NEW g \in batch[w], g \in Hash, row[g] # None
    PROVE  g \in index' \cup unseen' \/ g \in batch'[w]
<1>0. ThreadsOK
  BY DEF TypeInv, TypeOK
<1> USE DEF url
<1>1. CASE Ingest(w)
  BY <1>0, <1>1
     DEF Ingest, CheckReject, CheckPass, SimilarReview, SimilarPass, Copy, CopyBusy, Store, TagItem, Commit,
         IngestThumb, IngestPublish, UpdateIndex, IngestDone, IngestRaise, UndoDb, UndoFiles, FileNotStored, ThreadsOK
<1>2. CASE OnItem(w)
  BY <1>2
     DEF OnItem, UpdateBegin, UpdateBusy, LockItem, LockGone, ThumbBusy, ThumbPublish, WriteNote, Reindex,
         List, Stage, Staged, DeleteRow, DeleteRefused, Restore, Deindex, Purge
<1>3. CASE OnBatch(w)
  BY <1>3
     DEF OnBatch, IndexBatch, BatchDelete, BatchBusy, BatchUnlink, BatchCommit, BatchRaise, BatchDeindex, Stored
<1> QED
  BY <1>1, <1>2, <1>3 DEF Step

(* A thread that has committed goes on to tell, or marks its content. *)
LEMMA TellerGoesOn ==
    ASSUME TypeInv, NEW w \in Worker, Step(w), op[w] = "ingest",
           pc[w] \in {"thumb", "publish", "index"} \/ (pc[w] = "unlink" /\ w \in Online)
    PROVE  \/ obj[w] \in index' \cup unseen' \/ obj[w] \in batch'[w]
           \/ /\ op'[w] = "ingest" /\ obj'[w] = obj[w]
              /\ pc'[w] \in {"publish", "index"} \/ (pc'[w] = "unlink" /\ w \in Online)
<1>0. ThreadsOK
  BY DEF TypeInv, TypeOK
<1>1. IngestThumb(w) \/ IngestPublish(w) \/ UpdateIndex(w) \/ IngestDone(w) \/ IngestRaise(w)
  BY DEF Step, Ingest, CheckReject, CheckPass, SimilarReview, SimilarPass, Copy, CopyBusy, Store, TagItem, Commit,
         UndoDb, UndoFiles,
         OnItem, UpdateBegin, UpdateBusy, LockItem, LockGone, ThumbBusy, ThumbPublish, WriteNote, Reindex,
         List, Stage, Staged, DeleteRow, DeleteRefused, Restore, Deindex, Purge,
         OnBatch, IndexBatch, BatchDelete, BatchBusy, BatchUnlink, BatchCommit, BatchRaise, BatchDeindex
<1>2. CASE IngestThumb(w) \/ IngestPublish(w)
  BY <1>0, <1>2 DEF IngestThumb, IngestPublish, Goto, self, ThreadsOK
<1>3. CASE UpdateIndex(w)
  BY <1>0, <1>3 DEF UpdateIndex, Goto, self, ThreadsOK
<1>4. CASE IngestDone(w)
  BY <1>0, <1>4 DEF IngestDone, ThreadsOK
<1>5. CASE IngestRaise(w)
  BY <1>5 DEF IngestRaise
<1> QED
  BY <1>1, <1>2, <1>3, <1>4, <1>5

(* A row that appears is that of the content being committed. *)
LEMMA RowAppears ==
    ASSUME TypeInv, IdInv, NEW w \in Worker, Course(w), Storing(w), Step(w),
           NEW g \in Hash, row[g] = None, row'[g] # None
    PROVE  Commit(w) /\ g = obj[w] /\ op[w] = "ingest"
<1>1. Commit(w)
  BY OthersRemove DEF Removes
<1>2. row' = [row EXCEPT ![obj[w]] = sid[w]]
  BY <1>1, CommitAdds DEF Adds
<1>3. g = obj[w]
  BY <1>2 DEF TypeInv, TypeOK, DatabaseOK
<1>4. op[w] = "ingest"
  BY <1>1 DEF Commit, Course, Ingesting
<1> QED
  BY <1>1, <1>3, <1>4

(* What the table has is known, after every step of a thread. *)
LEMMA KnownStep ==
    ASSUME TypeInv, IdInv, Threads, StoredKnown, NEW w \in Worker, Step(w),
           NEW g \in Hash, row'[g] # None
    PROVE  Known(g)'
<1>0. ThreadsOK /\ OthersKeep(w) /\ Course(w) /\ Storing(w)
  BY OthersStep DEF TypeInv, TypeOK, Threads
<1>1. CASE row[g] = None
  <2>1. Commit(w) /\ g = obj[w] /\ op[w] = "ingest"
    BY <1>0, <1>1, RowAppears
  <2>2. pc'[w] = "thumb" /\ op'[w] = "ingest" /\ obj'[w] = g
    BY <1>0, <2>1 DEF Commit, Goto, self, ThreadsOK
  <2> QED
    BY <2>2 DEF Known, Telling
<1>2. CASE row[g] # None
  <2>1. Known(g)
    BY <1>2 DEF StoredKnown
  <2>2. CASE g \in index
    BY <1>2, <2>2, IndexLoses DEF Known
  <2>3. CASE g \in unseen
    BY <2>3, StillUnseen DEF Known
  <2>4. CASE Telling(g)
    <3>1. PICK v \in Worker :
            \/ /\ op[v] = "ingest" /\ obj[v] = g
               /\ pc[v] \in {"thumb", "publish", "index"} \/ (pc[v] = "unlink" /\ v \in Online)
            \/ g \in batch[v]
      BY <2>4 DEF Telling
    <3>2. CASE v # w
      <4>1. op'[v] = op[v] /\ obj'[v] = obj[v] /\ pc'[v] = pc[v] /\ batch'[v] = batch[v]
        BY <1>0, <3>2 DEF OthersKeep
      <4> QED
        BY <3>1, <4>1 DEF Known, Telling
    <3>3. CASE v = w /\ g \in batch[w]
      <4>1. g \in index' \cup unseen' \/ g \in batch'[w]
        BY <1>2, <3>3, BatchLoses
      <4> QED
        BY <4>1 DEF Known, Telling
    <3>4. CASE v = w /\ g \notin batch[w]
      <4>1. /\ op[w] = "ingest" /\ obj[w] = g
            /\ pc[w] \in {"thumb", "publish", "index"} \/ (pc[w] = "unlink" /\ w \in Online)
        BY <3>1, <3>4
      <4>2. \/ g \in index' \cup unseen' \/ g \in batch'[w]
            \/ /\ op'[w] = "ingest" /\ obj'[w] = g
               /\ pc'[w] \in {"publish", "index"} \/ (pc'[w] = "unlink" /\ w \in Online)
        BY <4>1, TellerGoesOn
      <4> QED
        BY <4>2 DEF Known, Telling
    <3> QED
      BY <3>2, <3>3, <3>4
  <2> QED
    BY <2>1, <2>2, <2>3, <2>4 DEF Known
<1> QED
  BY <1>1, <1>2

(* A content becomes present by passing the look for duplicates. *)
LEMMA PresentStep ==
    ASSUME TypeInv, IdInv, Threads, NEW w \in Worker, Step(w), NEW g \in Hash, Present(g)'
    PROVE  Present(g) \/ (SimilarPass(w) /\ g = obj[w])
<1>0. ThreadsOK /\ OthersKeep(w) /\ Course(w) /\ Storing(w)
  BY OthersStep DEF TypeInv, TypeOK, Threads
<1>1. CASE row'[g] # None
  <2>1. CASE row[g] # None
    BY <2>1 DEF Present
  <2>2. CASE row[g] = None
    <3>1. Commit(w) /\ g = obj[w] /\ op[w] = "ingest"
      BY <1>0, <1>1, <2>2, RowAppears
    <3> QED
      BY <3>1 DEF Commit, Present, Passed
  <2> QED
    BY <2>1, <2>2
<1>2. CASE \E v \in Worker : op'[v] = "ingest" /\ obj'[v] = g /\ pc'[v] \in Passed
  <2>1. PICK v \in Worker : op'[v] = "ingest" /\ obj'[v] = g /\ pc'[v] \in Passed
    BY <1>2
  <2>2. CASE v # w
    <3>1. op'[v] = op[v] /\ obj'[v] = obj[v] /\ pc'[v] = pc[v]
      BY <1>0, <2>2 DEF OthersKeep
    <3> QED
      BY <2>1, <3>1 DEF Present
  <2>3. CASE v = w
    <3>1. ~Forget(w)
      BY <1>0, <2>1, <2>3, ForgetBlank DEF Blank, Passed
    <3>2. \/ SimilarPass(w) \/ Copy(w) \/ Store(w) \/ TagItem(w)
          \/ IndexBatch(w) /\ pc'[w] = "idle"
      <4> USE DEF Passed, Goto, ThreadsOK
      <4>1. CASE Ingest(w)
        BY <1>0, <2>1, <2>3, <3>1, <4>1
           DEF Ingest, CheckReject, CheckPass, SimilarReview, CopyBusy, Commit, IngestThumb, IngestPublish,
               UpdateIndex, IngestDone, IngestRaise, UndoDb, UndoFiles, FileNotStored
      <4>2. CASE OnItem(w)
        BY <1>0, <2>1, <2>3, <3>1, <4>2
           DEF OnItem, UpdateBegin, UpdateBusy, LockItem, LockGone, ThumbBusy, ThumbPublish, WriteNote, Reindex,
               List, Stage, Staged, DeleteRow, DeleteRefused, Restore, Deindex, Purge
      <4>3. CASE OnBatch(w)
        BY <1>0, <2>1, <2>3, <3>1, <4>3
           DEF OnBatch, IndexBatch, BatchDelete, BatchBusy, BatchUnlink, BatchCommit, BatchRaise, BatchDeindex, ForgetUrl
      <4> QED
        BY <4>1, <4>2, <4>3 DEF Step
    <3>3. CASE SimilarPass(w)
      BY <2>1, <2>3, <3>3 DEF SimilarPass, self
    <3>4. CASE Copy(w) \/ Store(w) \/ TagItem(w)
      <4>1. op'[w] = op[w] /\ obj'[w] = obj[w] /\ pc[w] \in Passed
        BY <3>4 DEF Copy, Store, TagItem, self, Passed
      <4> QED
        BY <2>1, <2>3, <4>1 DEF Present
    <3> QED
      BY <2>1, <2>3, <3>2, <3>3, <3>4 DEF Passed
  <2> QED
    BY <2>2, <2>3
<1> QED
  BY <1>1, <1>2 DEF Present

(* Who passes beside a close content that is present is marked, or the other is. *)
LEMMA PassMarks ==
    ASSUME TypeInv, StoredKnown, NEW w \in Worker, SimilarPass(w),
           NEW h \in Hash, <<h, obj[w]>> \in Close, Present(h)
    PROVE  {obj[w], h} \cap unseen' # {}
<1>1. obj[w] \in Hash
  BY DEF SimilarPass, TypeInv, Located
<1>2. h \notin index
  BY DEF SimilarPass, Conflicts
<1>3. h \in unseen \/ OnItsWay(h)
  <2>1. CASE row[h] # None
    <3>1. h \in unseen \/ Telling(h)
      BY <1>2, <2>1 DEF StoredKnown, Known
    <3>2. Telling(h) => OnItsWay(h)
      BY DEF Telling, OnItsWay
    <3> QED
      BY <3>1, <3>2
  <2>2. CASE row[h] = None
    BY <2>2 DEF Present, Passed, OnItsWay
  <2> QED
    BY <2>1, <2>2
<1>4. unseen \subseteq unseen' /\ (OnItsWay(h) => obj[w] \in unseen')
  BY <1>1 DEF SimilarPass
<1> QED
  BY <1>3, <1>4

(* Closeness has no direction. *)
LEMMA CloseBothWays ==
    ASSUME NEW g, NEW h, <<g, h>> \in Close
    PROVE  <<h, g>> \in Close
<1>1. CASE <<g, h>> \in Similar
  <2>1. \E p \in Similar : <<h, g>> = <<p[2], p[1]>>
    BY <1>1
  <2> QED
    BY <2>1 DEF Close
<1>2. CASE <<g, h>> \notin Similar
  <2>1. PICK p \in Similar : <<g, h>> = <<p[2], p[1]>>
    BY <1>2 DEF Close
  <2>2. p = <<p[1], p[2]>>
    BY <2>1, ParametersOK
  <2>3. p = <<h, g>>
    BY <2>1, <2>2
  <2> QED
    BY <2>3 DEF Close
<1> QED
  BY <1>1, <1>2

(* Close contents are marked, after every step of a thread. *)
LEMMA MarkedStep ==
    ASSUME TypeInv, IdInv, Threads, SimilarInv, NEW w \in Worker, Step(w),
           NEW g \in Hash, NEW h \in Hash, g # h, <<g, h>> \in Close, Present(g)', Present(h)'
    PROVE  {g, h} \cap unseen' # {}
<1>0. StoredKnown /\ CloseMarked /\ unseen \subseteq unseen'
  BY StillUnseen DEF SimilarInv
<1>1. CASE Present(g) /\ Present(h)
  BY <1>0, <1>1 DEF CloseMarked
<1>2. CASE ~Present(g)
  <2>1. SimilarPass(w) /\ g = obj[w]
    BY <1>2, PresentStep
  <2>2. Present(h)
    BY <2>1, PresentStep
  <2> QED
    BY <1>0, <2>1, <2>2, PassMarks, CloseBothWays
<1>3. CASE ~Present(h)
  <2>1. SimilarPass(w) /\ h = obj[w]
    BY <1>3, PresentStep
  <2>2. Present(g)
    BY <2>1, PresentStep
  <2> QED
    BY <1>0, <2>1, <2>2, PassMarks
<1> QED
  BY <1>1, <1>2, <1>3

(* And so after every step. *)
LEMMA SimilarNext == TypeInv /\ IdInv /\ RowInv /\ SimilarInv /\ [Next]_vars => SimilarInv'
<1> SUFFICES ASSUME TypeInv, IdInv, RowInv, SimilarInv, [Next]_vars PROVE SimilarInv'
  OBVIOUS
<1>0. Threads /\ ThreadsOK /\ StoredKnown /\ CloseMarked
  BY DEF TypeInv, TypeOK, RowInv, SimilarInv
<1>1. ASSUME UNCHANGED <<row, index, unseen>>,
             \A g \in Hash : (Telling(g) => Telling(g)') /\ (Present(g)' => Present(g))
      PROVE  SimilarInv'
  <2>1. StoredKnown'
    BY <1>0, <1>1 DEF StoredKnown, Known
  <2>2. CloseMarked'
    <3>1. Close' = Close
      BY DEF Close
    <3> HIDE DEF Close, Present
    <3> QED
      BY <1>0, <1>1, <3>1 DEF CloseMarked
  <2> QED
    BY <2>1, <2>2 DEF SimilarInv
<1>2. CASE UNCHANGED vars
  <2>1. UNCHANGED <<row, index, unseen, pc, op, obj, batch>>
    BY <1>2 DEF vars, db, self, url, meta, past
  <2>2. \A g \in Hash : (Telling(g) => Telling(g)') /\ (Present(g)' => Present(g))
    BY <2>1 DEF Telling, Present
  <2> QED
    BY <1>1, <2>1, <2>2
<1>3. ASSUME NEW w \in Worker, NEW o \in Ops, NEW k \in Hash, Start(w, o, k) PROVE SimilarInv'
  <2>1. /\ UNCHANGED <<row, index, unseen, batch>> /\ pc[w] = "idle" /\ pc'[w] \in {"check", "begin", "lock"}
        /\ OthersKeep(w)
    BY <1>0, <1>3, OthersStart DEF Start, db, past, ThreadsOK
  <2>2. ASSUME NEW g \in Hash PROVE (Telling(g) => Telling(g)') /\ (Present(g)' => Present(g))
    BY <2>1 DEF Telling, Present, OthersKeep, Passed
  <2> QED
    BY <1>1, <2>1, <2>2
<1>4. ASSUME NEW w \in Worker, Step(w) PROVE SimilarInv'
  <2>1. StoredKnown'
    BY <1>0, <1>4, KnownStep DEF StoredKnown
  <2>2. CloseMarked'
    <3>1. Close' = Close
      BY DEF Close
    <3> HIDE DEF Close, Present
    <3> QED
      BY <1>0, <1>4, <3>1, MarkedStep DEF CloseMarked
  <2> QED
    BY <2>1, <2>2 DEF SimilarInv
<1>5. CASE Crash
  <2>1. row' = row /\ index' = Hydrated /\ unseen' = unseen /\ \A v \in Worker : pc'[v] = "idle"
    BY <1>5 DEF Crash, RollbackTxn
  <2>2. StoredKnown'
    BY <2>1 DEF StoredKnown, Known, Hydrated
  <2>3. \A g \in Hash : Present(g)' => Present(g)
    BY <2>1 DEF Present, Passed
  <2>4. CloseMarked'
    <3>1. Close' = Close
      BY DEF Close
    <3> HIDE DEF Close, Present
    <3> QED
      BY <1>0, <2>1, <2>3, <3>1 DEF CloseMarked
  <2> QED
    BY <2>2, <2>4 DEF SimilarInv
<1> QED
  BY <1>2, <1>3, <1>4, <1>5 DEF Next, AllDone

(* At the start nothing is stored. *)
LEMMA SimilarInit == Init => SimilarInv
BY DEF Init, SimilarInv, StoredKnown, CloseMarked, Present, Passed

(* Two contents whose perceptual hashes are close are both stored only where
   one of them was marked: it came while the other was on its way to the index,
   or the index had lost the other to an error, a rollback or a late delete. *)
THEOREM SimilarStaySeparate == Spec => []SimilarSeparated
<1>1. SimilarInv => SimilarSeparated
  BY DEF SimilarInv, CloseMarked, SimilarSeparated, Present, Close
<1> QED
  BY <1>1, SimilarInit, SimilarNext, RowAlways, PTL DEF Spec
==============================================================================
