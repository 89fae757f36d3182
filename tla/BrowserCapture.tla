---------------------------- MODULE BrowserCapture ----------------------------
(***************************************************************************)
(* Browser captures (backend/api/capture.py).  The extension hands over a  *)
(* picture: it is put aside in the active vault with a sidecar, and its id *)
(* is answered (stage).  Later the user commits the id, which gives the    *)
(* file to process_file, or discards it.  A commit that succeeded leaves a *)
(* handled record, so that a repeated commit is answered from the record.  *)
(*                                                                         *)
(* Every call runs in a thread of its own and keeps the vault it read at   *)
(* its beginning.  Commits of one id exclude each other; a discard takes   *)
(* no lock.  Files survive a crash; the locks and the calls do not.        *)
(* process_file is ItemLifecycle's; here it is one of its answers, with    *)
(* what the answer says of the file.                                       *)
(***************************************************************************)
EXTENDS Naturals

CONSTANTS
    Capture,    \* staged ids
    Content,    \* what a picture may be
    ContentOf,  \* the content of each capture
    Vault, Active, \* the vaults, and the one active at first
    Thread,
    None,
    MaxCalls,   \* bound: calls and switches
    MaxCrashes  \* bound: crashes

Status == {"ingested", "quarantined", "duplicate", "failed"}
Locked == {"again", "load", "process", "unlink", "clean", "record", "answer"}
Step == {"idle", "media", "look", "lock"} \cup Locked

ASSUME CaptureOK ==
    /\ ContentOf \in [Capture -> Content] /\ Active \in Vault
    /\ None \notin Capture \cup Vault \cup Thread \cup Status
    /\ {MaxCalls, MaxCrashes} \subseteq Nat

VARIABLES
    active,    \* the vault of the runtime context
    media,     \* <<vault, id>> with a file in capture_staging
    sidecar,   \* <<vault, id>> with a sidecar there
    handled,   \* <<vault, id>> with a handled record
    stored,    \* <<vault, content>> in the table of the items
    review,    \* <<vault, content>> with a file in the review directory
    pending,   \* those of them the review cache knows
    lock,      \* _capture_commit_locks: who holds the lock of an id
    call,      \* the threads
    count,     \* calls and crashes so far
    given,     \* history: <<vault, id>> whose id was answered to the client
    discarded, \* history: <<vault, id>> the client discarded
    told       \* history: <<vault, id>> a commit of which answered success

files == <<media, sidecar, handled>>
vault == <<stored, review, pending>>
history == <<given, discarded, told>>
vars == <<active, files, vault, lock, call, count, history>>

Idle == [at |-> "idle", c |-> None, v |-> None, status |-> None]

Init ==
    /\ active = Active
    /\ media = {} /\ sidecar = {} /\ handled = {}
    /\ stored = {} /\ review = {} /\ pending = {}
    /\ lock = [c \in Capture |-> None]
    /\ call = [t \in Thread |-> Idle]
    /\ count = [calls |-> 0, crashes |-> 0]
    /\ given = {} /\ discarded = {} /\ told = {}

-----------------------------------------------------------------------------
(* What a thread works on: the stage of the capture in the vault it read,  *)
(* and the content there.                                                  *)
On(t) == <<call[t].v, call[t].c>>
Of(t) == <<call[t].v, ContentOf[call[t].c]>>

Goto(t, step) == call' = [call EXCEPT ![t].at = step]
Return(t) == call' = [call EXCEPT ![t] = Idle]
Leave(t) == Return(t) /\ lock' = [lock EXCEPT ![call[t].c] = None]

Counted == /\ count.calls < MaxCalls
           /\ count' = [count EXCEPT !.calls = @ + 1]

Begin(t, c, step) ==
    /\ call[t] = Idle /\ Counted
    /\ call' = [call EXCEPT ![t] =
                  [at |-> step, c |-> c, v |-> active, status |-> None]]

(* _cleanup_stage: each of the two files is unlinked, or stays with a      *)
(* warning.                                                                *)
CleanupStage(p) == /\ media' \in {media, media \ {p}}
                   /\ sidecar' \in {sidecar, sidecar \ {p}}

-----------------------------------------------------------------------------
(* Staging: the file is written under a fresh id, then looked at, then its *)
(* sidecar is written, and only then the client learns the id.             *)
Stage(t, c) ==
    /\ \A v \in Vault : <<v, c>> \notin media \cup given
    /\ \A u \in Thread : call[u].c # c
    /\ Begin(t, c, "media")
    /\ media' = media \cup {<<active, c>>}
    /\ UNCHANGED <<active, sidecar, handled, vault, lock, history>>

(* Not an accepted kind: the file is unlinked, if that works.              *)
Reject(t) ==
    /\ call[t].at = "media" /\ Return(t)
    /\ media' \in {media, media \ {On(t)}}
    /\ UNCHANGED <<active, sidecar, handled, vault, lock, count, history>>

Sidecar(t) ==
    /\ call[t].at = "media" /\ Return(t)
    /\ sidecar' = sidecar \cup {On(t)}
    /\ given' = given \cup {On(t)}
    /\ UNCHANGED <<active, media, handled, vault, lock, count, discarded, told>>

(* The client takes an id back.  It is looked for in the vault that is     *)
(* active now, and the lock of a commit is not asked for.                  *)
DeleteStage(c) ==
    /\ \E v \in Vault : <<v, c>> \in given
    /\ Counted
    /\ CleanupStage(<<active, c>>)
    /\ discarded' = discarded \cup {<<active, c>>}
    /\ UNCHANGED <<active, handled, vault, lock, call, given, told>>

-----------------------------------------------------------------------------
(* A commit: the handled record first, then the lock, which is not waited  *)
(* for, then the record again.                                             *)
Commit(t, c) ==
    /\ \E v \in Vault : <<v, c>> \in given
    /\ Begin(t, c, "look")
    /\ UNCHANGED <<active, files, vault, lock, history>>

Look(t) ==
    /\ call[t].at = "look"
    /\ IF On(t) \in handled THEN Return(t) ELSE Goto(t, "lock")
    /\ UNCHANGED <<active, files, vault, lock, count, history>>

Acquire(t) ==
    /\ call[t].at = "lock"
    /\ IF lock[call[t].c] = None
       THEN /\ lock' = [lock EXCEPT ![call[t].c] = t]
            /\ Goto(t, "again")
       ELSE Return(t) /\ UNCHANGED lock
    /\ UNCHANGED <<active, files, vault, count, history>>

(* mutant: nobody looks again *)
LookedOnce(t) ==
    /\ call[t].at = "again" /\ Goto(t, "load")
    /\ UNCHANGED <<active, files, vault, lock, count, history>>

LookAgain(t) ==
    /\ call[t].at = "again"
    /\ IF On(t) \in handled THEN Leave(t) ELSE Goto(t, "load") /\ UNCHANGED lock
    /\ UNCHANGED <<active, files, vault, count, history>>

(* Without its sidecar or its file the capture is not found.               *)
Found(t) == On(t) \in media \cap sidecar

Load(t) ==
    /\ call[t].at = "load"
    /\ IF Found(t)
       THEN Goto(t, "process") /\ UNCHANGED lock
       ELSE Leave(t)
    /\ UNCHANGED <<active, files, vault, count, history>>

Says(t, status, step) ==
    call' = [call EXCEPT ![t].status = status, ![t].at = step]

-----------------------------------------------------------------------------
(* What process_file answers.                                              *)

(* The hash is in the table or among the pending reviews.                  *)
Duplicate(t) ==
    /\ call[t].at = "process" /\ Of(t) \in stored \cup pending
    /\ Says(t, "duplicate", "clean")
    /\ UNCHANGED <<active, files, vault, lock, count, history>>

(* An item looks like it: the file moves to the review directory.  If its  *)
(* sidecar there cannot be written the commit fails with an exception.     *)
Quarantine(t) ==
    /\ call[t].at = "process" /\ Of(t) \notin stored \cup pending
    /\ On(t) \in media
    /\ media' = media \ {On(t)}
    /\ review' = review \cup {Of(t)}
    /\ \/ /\ pending' = pending \cup {Of(t)}
          /\ Says(t, "quarantined", "clean") /\ UNCHANGED lock
       \/ Leave(t) /\ UNCHANGED pending
    /\ UNCHANGED <<active, sidecar, handled, stored, count, history>>

Ingest(t) ==
    /\ call[t].at = "process" /\ Of(t) \notin stored \cup pending
    /\ On(t) \in media
    /\ stored' = stored \cup {Of(t)}
    /\ Says(t, "ingested", "unlink")
    /\ UNCHANGED <<active, files, review, pending, lock, count, history>>

(* delete_source: after five attempts the file stays.                      *)
Unlink(t) ==
    /\ call[t].at = "unlink" /\ Goto(t, "clean")
    /\ media' \in {media, media \ {On(t)}}
    /\ UNCHANGED <<active, sidecar, handled, vault, lock, count, history>>

(* An exception was rolled back and is an answer; a file that is gone when *)
(* it is hashed raises.                                                    *)
Fail(t) ==
    /\ call[t].at = "process"
    /\ \/ Says(t, "failed", "clean") /\ UNCHANGED lock
       \/ On(t) \notin media /\ Leave(t)
    /\ UNCHANGED <<active, files, vault, count, history>>

-----------------------------------------------------------------------------
SettlesAll(status) == status \in Status                              \* mutant
Settles(status) == status \in {"ingested", "quarantined", "duplicate"}

(* The stage is cleared when the answer settles the capture.               *)
Clean(t) ==
    /\ call[t].at = "clean"
    /\ IF Settles(call[t].status)
       THEN CleanupStage(On(t)) /\ Goto(t, "record") /\ UNCHANGED lock
       ELSE Leave(t) /\ UNCHANGED <<media, sidecar>>
    /\ UNCHANGED <<active, handled, vault, count, history>>

Record(t) ==
    /\ call[t].at = "record"
    /\ handled' = handled \cup {On(t)} /\ Goto(t, "answer")
    /\ UNCHANGED <<active, media, sidecar, vault, lock, count, history>>

(* The record cannot be written: the client is answered an error.          *)
RecordFails(t) ==
    /\ call[t].at = "record" /\ Leave(t)
    /\ UNCHANGED <<active, files, vault, count, history>>

Answer(t) ==
    /\ call[t].at = "answer" /\ Leave(t)
    /\ told' = told \cup {On(t)}
    /\ UNCHANGED <<active, files, vault, count, given, discarded>>

-----------------------------------------------------------------------------
(* The active vault changes under the calls (VaultRegistry).               *)
Switch(v) ==
    /\ v # active /\ active' = v /\ Counted
    /\ UNCHANGED <<files, vault, lock, call, history>>

Crash ==
    /\ count.crashes < MaxCrashes
    /\ count' = [count EXCEPT !.crashes = @ + 1]
    /\ call' = [t \in Thread |-> Idle]
    /\ lock' = [c \in Capture |-> None]
    /\ UNCHANGED <<active, files, vault, history>>

CommitStep(t) ==
    \/ Look(t) \/ Acquire(t) \/ LookAgain(t) \/ Load(t)
    \/ Duplicate(t) \/ Quarantine(t) \/ Ingest(t) \/ Unlink(t) \/ Fail(t)
    \/ Clean(t) \/ Record(t) \/ RecordFails(t) \/ Answer(t)

Next ==
    \/ \E t \in Thread, c \in Capture : Stage(t, c) \/ Commit(t, c)
    \/ \E t \in Thread : Reject(t) \/ Sidecar(t) \/ CommitStep(t)
    \/ \E c \in Capture : DeleteStage(c)
    \/ \E v \in Vault : Switch(v)
    \/ Crash

Spec == Init /\ [][Next]_vars

-----------------------------------------------------------------------------
Calls == [at : Step, c : Capture \cup {None}, v : Vault \cup {None},
          status : Status \cup {None}]

(* Every variable has its type, and a thread that is under way has a       *)
(* capture and a vault.                                                    *)
CaptureTypeOK ==
    /\ active \in Vault
    /\ {media, sidecar, handled, given, discarded, told} \subseteq SUBSET (Vault \X Capture)
    /\ {stored, review, pending} \subseteq SUBSET (Vault \X Content)
    /\ lock \in [Capture -> Thread \cup {None}]
    /\ call \in [Thread -> Calls]
    /\ count \in [calls : Nat, crashes : Nat]
    /\ \A t \in Thread : call[t].at # "idle" => call[t].c # None /\ call[t].v # None

(* A capture is committed once: when a commit of it has answered success,  *)
(* no commit of it in that vault is at work, and none will be, whatever    *)
(* the interleaving of repeated commits, discards, switches of the vault   *)
(* and crashes.  The client that sends a commit twice is answered from the *)
(* handled record (_commit_capture_sync looks at it again under the lock). *)
CommittedOnce ==
    \A t \in Thread :
        call[t].at \in Locked \ {"again"} => On(t) \notin told

(* Nothing the client was given an id for is lost: its file and sidecar    *)
(* are still staged, or its content is in the table or in the review       *)
(* directory, unless the client discarded it; also when an unlink or a     *)
(* write fails, process_file answers a failure, or the process dies        *)
(* between clearing the stage and writing the record.                      *)
CapturesKept ==
    \A p \in given :
        \/ p \in media \cap sidecar
        \/ <<p[1], ContentOf[p[2]]>> \in stored \cup review
        \/ p \in discarded
=============================================================================
