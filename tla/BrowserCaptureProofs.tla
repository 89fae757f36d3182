------------------------ MODULE BrowserCaptureProofs ------------------------
(***************************************************************************)
(* Why a capture is committed once, and why none is lost.  A thread that   *)
(* is past the lock holds it (Held), so the handled record it has looked   *)
(* for under the lock stays absent until it writes it itself, and success  *)
(* is answered after the record is there (Once).  An id in the making is   *)
(* known to its own thread only (Fresh), and a thread that clears a stage  *)
(* has seen the content in the table or in the review directory (Settled). *)
(***************************************************************************)
EXTENDS BrowserCapture, TLAPS

AtWork == {"load", "process", "unlink", "clean", "record"}

Held == \A t \in Thread : call[t].at \in Locked => lock[call[t].c] = t

Once ==
    /\ told \subseteq handled
    /\ \A t \in Thread :
          /\ call[t].at \in AtWork => On(t) \notin handled
          /\ call[t].at = "answer" => On(t) \in handled \ told

OnceInv == CaptureTypeOK /\ Held /\ Once

Fresh ==
    \A t \in Thread : call[t].at = "media" =>
        /\ \A v \in Vault : <<v, call[t].c>> \notin given
        /\ \A u \in Thread : call[u].c = call[t].c => u = t
        /\ On(t) \in media

Settled ==
    /\ pending \subseteq review
    /\ \A t \in Thread :
          \/ call[t].at \in {"unlink", "record", "answer"}
          \/ call[t].at = "clean" /\ Settles(call[t].status)
          => Of(t) \in stored \cup review

KeptInv == CaptureTypeOK /\ Fresh /\ Settled /\ CapturesKept

-----------------------------------------------------------------------------
(* A thread that is under way works on a capture in a vault. *)
LEMMA Busy ==
    ASSUME CaptureTypeOK, NEW t \in Thread, call[t].at # "idle"
    PROVE  /\ call[t] \in Calls /\ call[t].c \in Capture /\ call[t].v \in Vault
           /\ On(t) \in Vault \X Capture /\ Of(t) \in Vault \X Content
<1>1. call[t] \in Calls /\ call[t].c # None /\ call[t].v # None
  BY DEF CaptureTypeOK
<1>2. call[t].c \in Capture /\ call[t].v \in Vault
  BY <1>1 DEF Calls
<1>3. ContentOf[call[t].c] \in Content
  BY <1>2, CaptureOK DEF CaptureOK
<1> QED
  BY <1>1, <1>2, <1>3 DEF On, Of

(* Clearing a stage takes nothing but its two files. *)
LEMMA Cleared ==
    ASSUME NEW p, CleanupStage(p)
    PROVE  /\ media' \subseteq media /\ sidecar' \subseteq sidecar
           /\ \A q : q # p => (q \in media' <=> q \in media) /\ (q \in sidecar' <=> q \in sidecar)
BY DEF CleanupStage

-----------------------------------------------------------------------------
(* Types. *)
CallsTyped ==
    /\ call \in [Thread -> Calls]
    /\ \A t \in Thread : call[t].at # "idle" => call[t].c # None /\ call[t].v # None

LEMMA InitTyped == Init => CaptureTypeOK
<1> SUFFICES ASSUME Init PROVE CaptureTypeOK
  OBVIOUS
<1>1. Idle \in Calls /\ Idle.at = "idle"
  BY DEF Idle, Calls, Step
<1>2. CallsTyped
  BY <1>1 DEF Init, CallsTyped
<1>3. active \in Vault /\ lock \in [Capture -> Thread \cup {None}]
  BY CaptureOK DEF CaptureOK, Init
<1>4. count \in [calls : Nat, crashes : Nat]
  BY DEF Init
<1> QED
  BY <1>2, <1>3, <1>4 DEF Init, CaptureTypeOK, CallsTyped

(* The ways a thread moves on keep the calls typed. *)
LEMMA Moves ==
    ASSUME CaptureTypeOK, NEW t \in Thread, call[t].at # "idle"
    PROVE  /\ \A s \in Step : Goto(t, s) => CallsTyped'
           /\ Return(t) => CallsTyped'
           /\ Leave(t) => CallsTyped' /\ lock' \in [Capture -> Thread \cup {None}]
           /\ \A s \in Step, a \in Status : Says(t, a, s) => CallsTyped'
<1>0. CallsTyped
  BY DEF CaptureTypeOK, CallsTyped
<1>1. call[t] \in Calls /\ call[t].c \in Capture /\ call[t].c # None /\ call[t].v # None
  BY Busy DEF CaptureTypeOK
<1>2. Idle \in Calls /\ Idle.at = "idle"
  BY DEF Idle, Calls, Step
<1>3. ASSUME NEW s \in Step, Goto(t, s) PROVE CallsTyped'
  <2>1. [call[t] EXCEPT !.at = s] \in Calls
    BY <1>1, <1>3 DEF Calls
  <2> QED
    BY <1>0, <1>1, <1>3, <2>1 DEF Goto, CallsTyped, Calls
<1>4. Return(t) => CallsTyped'
  BY <1>0, <1>2 DEF Return, CallsTyped
<1>5. Leave(t) => CallsTyped' /\ lock' \in [Capture -> Thread \cup {None}]
  BY <1>4 DEF Leave, CaptureTypeOK
<1>6. ASSUME NEW s \in Step, NEW a \in Status, Says(t, a, s) PROVE CallsTyped'
  <2>1. [call[t] EXCEPT !.status = a, !.at = s] \in Calls
    BY <1>1, <1>6 DEF Calls
  <2> QED
    BY <1>0, <1>1, <1>6, <2>1 DEF Says, CallsTyped, Calls
<1> QED
  BY <1>3, <1>4, <1>5, <1>6

(* The sets of files, of items and of the history are typed. *)
SetsTyped ==
    /\ {media, sidecar, handled, given, discarded, told} \subseteq SUBSET (Vault \X Capture)
    /\ {stored, review, pending} \subseteq SUBSET (Vault \X Content)

Steps == "load" \in Step /\ "lock" \in Step /\ "again" \in Step /\ "process" \in Step
         /\ "unlink" \in Step /\ "clean" \in Step /\ "record" \in Step /\ "answer" \in Step
         /\ "media" \in Step /\ "look" \in Step

LEMMA NextTyped == CaptureTypeOK /\ [Next]_vars => CaptureTypeOK'
<1> SUFFICES ASSUME CaptureTypeOK, [Next]_vars PROVE CaptureTypeOK'
  OBVIOUS
<1> USE DEF files, vault, history
<1>a. CallsTyped /\ SetsTyped /\ active \in Vault
      /\ lock \in [Capture -> Thread \cup {None}] /\ count \in [calls : Nat, crashes : Nat]
  BY DEF CaptureTypeOK, CallsTyped, SetsTyped
<1>b. Steps
  BY DEF Steps, Step, Locked
<1>c. Counted => count' \in [calls : Nat, crashes : Nat]
  BY <1>a DEF Counted
<1>d. ASSUME CallsTyped', SetsTyped', active' \in Vault,
             lock' \in [Capture -> Thread \cup {None}], count' \in [calls : Nat, crashes : Nat]
      PROVE  CaptureTypeOK'
  BY <1>d DEF CaptureTypeOK, CallsTyped, SetsTyped
<1>e. ASSUME NEW t \in Thread, NEW c \in Capture, NEW s \in Step, Begin(t, c, s) PROVE CallsTyped'
  <2> DEFINE new == [at |-> s, c |-> c, v |-> active, status |-> None]
  <2>1. new \in Calls /\ new.c # None /\ new.v # None
    BY <1>a, CaptureOK DEF CaptureOK, Calls
  <2> HIDE DEF new
  <2>2. call' = [call EXCEPT ![t] = new]
    BY <1>e DEF Begin, new
  <2> QED
    BY <1>a, <2>1, <2>2 DEF CallsTyped
<1>1. ASSUME NEW t \in Thread, NEW c \in Capture, Stage(t, c) PROVE CaptureTypeOK'
  <2>1. CallsTyped' /\ count' \in [calls : Nat, crashes : Nat]
    BY <1>1, <1>b, <1>c, <1>e DEF Stage, Begin, Steps
  <2>2. SetsTyped'
    BY <1>1, <1>a DEF Stage, SetsTyped
  <2> QED
    BY <1>1, <1>a, <1>d, <2>1, <2>2 DEF Stage
<1>2. ASSUME NEW t \in Thread, NEW c \in Capture, Commit(t, c) PROVE CaptureTypeOK'
  <2>1. CallsTyped' /\ count' \in [calls : Nat, crashes : Nat]
    BY <1>2, <1>b, <1>c, <1>e DEF Commit, Begin, Steps
  <2> QED
    BY <1>2, <1>a, <1>d, <2>1 DEF Commit, SetsTyped
<1>3. ASSUME NEW t \in Thread, Reject(t) \/ Sidecar(t) PROVE CaptureTypeOK'
  <2>0. call[t].at # "idle"
    BY <1>3 DEF Reject, Sidecar
  <2>1. CallsTyped' /\ On(t) \in Vault \X Capture
    BY <1>3, <2>0, Moves, Busy DEF Reject, Sidecar
  <2>2. SetsTyped'
    BY <1>3, <1>a, <2>1 DEF Reject, Sidecar, SetsTyped
  <2> QED
    BY <1>3, <1>a, <1>d, <2>1, <2>2 DEF Reject, Sidecar
<1>4. ASSUME NEW t \in Thread, CommitStep(t) PROVE CaptureTypeOK'
  <2>0. call[t].at # "idle"
    BY <1>4 DEF CommitStep, Look, Acquire, LookAgain, Load, Duplicate, Quarantine, Ingest,
                Unlink, Fail, Clean, Record, RecordFails, Answer
  <2>a. On(t) \in Vault \X Capture /\ Of(t) \in Vault \X Content
    BY <2>0, Busy
  <2>b. /\ \A s \in Step : Goto(t, s) => CallsTyped'
        /\ Return(t) => CallsTyped'
        /\ Leave(t) => CallsTyped' /\ lock' \in [Capture -> Thread \cup {None}]
        /\ \A s \in Step, a \in Status : Says(t, a, s) => CallsTyped'
    BY <2>0, Moves
  <2>1. CASE Look(t) \/ LookAgain(t) \/ Load(t)
    <3>1. CallsTyped' /\ lock' \in [Capture -> Thread \cup {None}]
      BY <2>1, <1>a, <1>b, <2>b DEF Look, LookAgain, Load, Steps
    <3> QED
      BY <2>1, <1>a, <1>d, <3>1 DEF Look, LookAgain, Load, SetsTyped
  <2>2. CASE Acquire(t)
    <3>1. CallsTyped' /\ lock' \in [Capture -> Thread \cup {None}]
      BY <2>2, <1>a, <1>b, <2>b DEF Acquire, Steps
    <3> QED
      BY <2>2, <1>a, <1>d, <3>1 DEF Acquire, SetsTyped
  <2>3. CASE Duplicate(t) \/ Quarantine(t) \/ Ingest(t) \/ Fail(t)
    <3>1. CallsTyped' /\ lock' \in [Capture -> Thread \cup {None}]
      BY <2>3, <1>a, <1>b, <2>b DEF Duplicate, Quarantine, Ingest, Fail, Steps, Status
    <3>2. SetsTyped'
      BY <2>3, <1>a, <2>a DEF Duplicate, Quarantine, Ingest, Fail, SetsTyped
    <3> QED
      BY <2>3, <1>a, <1>d, <3>1, <3>2 DEF Duplicate, Quarantine, Ingest, Fail
  <2>4. CASE Unlink(t) \/ Clean(t)
    <3>1. CallsTyped' /\ lock' \in [Capture -> Thread \cup {None}]
      BY <2>4, <1>a, <1>b, <2>b DEF Unlink, Clean, Steps
    <3>2. media' \subseteq media /\ sidecar' \subseteq sidecar
      BY <2>4 DEF Unlink, Clean, CleanupStage
    <3>3. SetsTyped'
      BY <2>4, <1>a, <3>2 DEF Unlink, Clean, SetsTyped
    <3> QED
      BY <2>4, <1>a, <1>d, <3>1, <3>3 DEF Unlink, Clean
  <2>5. CASE Record(t) \/ RecordFails(t) \/ Answer(t)
    <3>1. CallsTyped' /\ lock' \in [Capture -> Thread \cup {None}]
      BY <2>5, <1>a, <1>b, <2>b DEF Record, RecordFails, Answer, Steps
    <3>2. SetsTyped'
      BY <2>5, <1>a, <2>a DEF Record, RecordFails, Answer, SetsTyped
    <3> QED
      BY <2>5, <1>a, <1>d, <3>1, <3>2 DEF Record, RecordFails, Answer
  <2> QED
    BY <1>4, <2>1, <2>2, <2>3, <2>4, <2>5 DEF CommitStep
<1>5. ASSUME NEW c \in Capture, DeleteStage(c) PROVE CaptureTypeOK'
  <2>1. media' \subseteq media /\ sidecar' \subseteq sidecar
    BY <1>5, Cleared DEF DeleteStage
  <2>2. SetsTyped'
    BY <1>5, <1>a, <2>1 DEF DeleteStage, SetsTyped
  <2>3. CallsTyped'
    BY <1>5, <1>a DEF DeleteStage, CallsTyped
  <2> QED
    BY <1>5, <1>a, <1>c, <1>d, <2>2, <2>3 DEF DeleteStage
<1>6. ASSUME NEW v \in Vault, Switch(v) PROVE CaptureTypeOK'
  <2>1. CallsTyped' /\ SetsTyped'
    BY <1>6, <1>a DEF Switch, CallsTyped, SetsTyped
  <2> QED
    BY <1>6, <1>a, <1>c, <1>d, <2>1 DEF Switch
<1>7. ASSUME Crash PROVE CaptureTypeOK'
  <2>1. CallsTyped'
    <3>1. Idle \in Calls /\ Idle.at = "idle"
      BY DEF Idle, Calls, Step
    <3> QED
      BY <1>7, <3>1 DEF Crash, CallsTyped
  <2>2. SetsTyped' /\ count' \in [calls : Nat, crashes : Nat]
    BY <1>7, <1>a DEF Crash, SetsTyped
  <2> QED
    BY <1>7, <1>a, <1>d, <2>1, <2>2 DEF Crash
<1>8. CASE UNCHANGED vars
  BY <1>8 DEF vars, CaptureTypeOK
<1> QED
  BY <1>1, <1>2, <1>3, <1>4, <1>5, <1>6, <1>7, <1>8 DEF Next

(* Every reachable state is well typed: the records of the calls, the      *)
(* locks of _capture_commit_locks and the files of the stage.              *)
THEOREM CaptureTypeCorrect == Spec => []CaptureTypeOK
BY InitTyped, NextTyped, PTL DEF Spec

-----------------------------------------------------------------------------
(* Committed once. *)
LEMMA InitOnce == Init => Held /\ Once
BY DEF Init, Held, Once, Idle, Locked, AtWork

(* What a step of another thread leaves of a thread that holds its lock. *)
Stays(u) ==
    /\ call'[u] = call[u]
    /\ call[u].at \in Locked => lock'[call[u].c] = lock[call[u].c]

LEMMA StayHeld ==
    ASSUME OnceInv, NEW u \in Thread, Stays(u), handled' = handled, told' = told
    PROVE  /\ call'[u].at \in Locked => lock'[call'[u].c] = u
           /\ call'[u].at \in AtWork => On(u)' \notin handled'
           /\ call'[u].at = "answer" => On(u)' \in handled' \ told'
BY DEF Stays, OnceInv, Held, Once, On

(* A thread that leaves frees a lock nobody else holds. *)
LEMMA OthersStay ==
    ASSUME OnceInv, NEW t \in Thread, NEW u \in Thread, u # t, call[t].at # "idle",
           \/ /\ lock' = lock
              /\ \/ \E s \in Step : Goto(t, s)
                 \/ Return(t)
                 \/ \E s \in Step, a \in Status : Says(t, a, s)
           \/ call[t].at \in Locked /\ Leave(t)
    PROVE  Stays(u)
<1>1. call'[u] = call[u]
  BY DEF Goto, Return, Says, Leave, OnceInv, CaptureTypeOK
<1>2. CASE lock' = lock
  BY <1>1, <1>2 DEF Stays
<1>3. CASE call[t].at \in Locked /\ Leave(t)
  <2>1. call[u].at \in Locked => call[u].c # call[t].c
    BY <1>3 DEF OnceInv, Held
  <2>2. call[u].at \in Locked => call[u].c \in Capture
    BY Busy DEF OnceInv, Locked
  <2> QED
    BY <1>1, <1>3, <2>1, <2>2 DEF Stays, Leave, OnceInv, CaptureTypeOK
<1> QED
  BY <1>2, <1>3

LEMMA NextOnce == OnceInv /\ [Next]_vars => Held' /\ Once'
<1> SUFFICES ASSUME OnceInv, [Next]_vars PROVE Held' /\ Once'
  OBVIOUS
<1> USE DEF files, vault, history
<1> DEFINE Good(t) == /\ call'[t].at \in Locked => lock'[call'[t].c] = t
                      /\ call'[t].at \in AtWork => On(t)' \notin handled'
                      /\ call'[t].at = "answer" => On(t)' \in handled' \ told'
<1>a. CaptureTypeOK /\ Held /\ Once
  BY DEF OnceInv
<1>b. ASSUME \A t \in Thread : Good(t), told' \subseteq handled' PROVE Held' /\ Once'
  BY <1>b DEF Held, Once
<1>c. ASSUME \A t \in Thread : call'[t] = call[t], lock' = lock, handled' = handled, told' = told
      PROVE  Held' /\ Once'
  <2>1. \A t \in Thread : Good(t)
    BY <1>c, StayHeld DEF Stays
  <2> HIDE DEF Good
  <2> QED
    BY <2>1, <1>a, <1>b, <1>c DEF Once
<1>d. \A t \in Thread : call[t].at # "idle" => call[t].c \in Capture /\ call[t] \in Calls
  BY <1>a, Busy
<1>1. ASSUME NEW t \in Thread, NEW c \in Capture, Stage(t, c) \/ Commit(t, c) PROVE Held' /\ Once'
  <2>1. /\ call'[t].at \in {"media", "look"} /\ lock' = lock /\ handled' = handled /\ told' = told
        /\ \A u \in Thread : u # t => call'[u] = call[u]
    BY <1>1, <1>a DEF Stage, Commit, Begin, CaptureTypeOK
  <2>2. \A u \in Thread : u # t => Good(u)
    BY <2>1, StayHeld DEF Stays
  <2>3. Good(t)
    BY <2>1 DEF Locked, AtWork
  <2> HIDE DEF Good
  <2> QED
    BY <2>1, <2>2, <2>3, <1>a, <1>b DEF Once
<1>2. ASSUME NEW t \in Thread, Reject(t) \/ Sidecar(t) \/ CommitStep(t) PROVE Held' /\ Once'
  <2>0. call[t].at # "idle" /\ call[t].c \in Capture /\ call[t] \in Calls
    <3>1. call[t].at # "idle"
      BY <1>2 DEF CommitStep, Look, Acquire, LookAgain, Load, Duplicate, Quarantine, Ingest,
                  Unlink, Fail, Clean, Record, RecordFails, Answer, Reject, Sidecar
    <3> QED
      BY <3>1, <1>d
  <2>a. Idle.at \notin Locked
    BY DEF Idle, Locked
  <2>b. Steps
    BY DEF Steps, Step, Locked
  <2>c. AtWork \subseteq Locked /\ "answer" \in Locked /\ "media" \notin Locked /\ "look" \notin Locked
        /\ "lock" \notin Locked /\ "again" \in Locked \ AtWork /\ "again" # "answer" /\ "answer" \notin AtWork
    BY DEF AtWork, Locked
  <2>d. ASSUME NEW s \in Step, Goto(t, s) \/ \E a \in Status : Says(t, a, s)
        PROVE  call'[t].at = s /\ call'[t].c = call[t].c /\ call'[t].v = call[t].v
    <3>0. call \in [Thread -> Calls]
      BY <1>a DEF CaptureTypeOK
    <3>1. CASE Goto(t, s)
      BY <3>0, <3>1, <2>0 DEF Goto, Calls
    <3>2. ASSUME NEW a \in Status, Says(t, a, s)
          PROVE  call'[t].at = s /\ call'[t].c = call[t].c /\ call'[t].v = call[t].v
      <4>1. call'[t] = [call[t] EXCEPT !.status = a, !.at = s]
        BY <3>0, <3>2 DEF Says
      <4> QED
        BY <4>1, <2>0 DEF Calls
    <3> QED
      BY <2>d, <3>1, <3>2
  <2>e. ASSUME Return(t) \/ Leave(t) PROVE call'[t].at \notin Locked
    BY <2>e, <2>a, <1>a DEF Return, Leave, CaptureTypeOK
  <2>1. CASE Look(t) \/ Reject(t) \/ Sidecar(t)
    <3>1. \A u \in Thread : u # t => Good(u)
      BY <2>1, <2>0, <2>b, OthersStay, StayHeld DEF Look, Reject, Sidecar, Steps
    <3>2. Good(t)
      BY <2>1, <2>a, <2>b, <2>c, <2>d, <2>e DEF Look, Reject, Sidecar, Steps
    <3>3. told' \subseteq handled'
      BY <2>1, <1>a DEF Look, Reject, Sidecar, Once
    <3> HIDE DEF Good
    <3> QED
      BY <3>1, <3>2, <3>3, <1>b
  <2>2. CASE Acquire(t)
    <3>1. \A u \in Thread : u # t => Good(u)
      <4>1. ASSUME NEW u \in Thread, u # t PROVE Stays(u)
        <5>1. call'[u] = call[u]
          BY <2>2, <4>1, <1>a DEF Acquire, Goto, Return, CaptureTypeOK
        <5>2. call[u].at \in Locked => lock[call[u].c] = u
          BY <4>1, <1>a DEF Held
        <5>3. None \notin Thread
          BY CaptureOK DEF CaptureOK
        <5>4. call[u].at \in Locked => call[u].c \in Capture
          BY <1>d DEF Locked
        <5>5. \/ lock' = lock
              \/ lock[call[t].c] = None /\ lock' = [lock EXCEPT ![call[t].c] = t]
          <6>1. CASE lock[call[t].c] = None
            BY <2>2, <6>1 DEF Acquire
          <6>2. CASE lock[call[t].c] # None
            BY <2>2, <6>2 DEF Acquire
          <6> QED
            BY <6>1, <6>2
        <5>6. lock \in [Capture -> Thread \cup {None}]
          BY <1>a DEF CaptureTypeOK
        <5>7. call[u].at \in Locked => lock'[call[u].c] = lock[call[u].c]
          BY <5>2, <5>3, <5>4, <5>5, <5>6
        <5> QED
          BY <5>1, <5>7 DEF Stays
      <4> QED
        BY <2>2, <4>1, StayHeld DEF Acquire
    <3>2. Good(t)
      <4>1. CASE lock[call[t].c] = None
        BY <2>2, <4>1, <2>0, <2>b, <2>c, <2>d, <1>a DEF Acquire, CaptureTypeOK, Steps
      <4>2. CASE lock[call[t].c] # None
        BY <2>2, <4>2, <2>c, <2>e DEF Acquire
      <4> QED
        BY <4>1, <4>2
    <3>3. told' \subseteq handled'
      BY <2>2, <1>a DEF Acquire, Once
    <3> HIDE DEF Good
    <3> QED
      BY <3>1, <3>2, <3>3, <1>b
  <2>3. CASE LookAgain(t) \/ Load(t)
    <3>1. \A u \in Thread : u # t => Good(u)
      <4>1. call[t].at \in Locked
        BY <2>3 DEF LookAgain, Load, Locked
      <4> QED
        BY <2>3, <4>1, <2>0, <2>b, OthersStay, StayHeld DEF LookAgain, Load, Steps
    <3>2. Good(t)
      <4>1. CASE Leave(t)
        BY <4>1, <2>c, <2>e
      <4>2. CASE LookAgain(t) /\ ~Leave(t)
        BY <4>2, <2>b, <2>c, <2>d, <1>a DEF LookAgain, Held, Steps, On
      <4>3. CASE Load(t) /\ ~Leave(t)
        BY <4>3, <2>b, <2>c, <2>d, <1>a DEF Load, Held, Once, AtWork, Steps, On
      <4> QED
        BY <2>3, <4>1, <4>2, <4>3
    <3>3. told' \subseteq handled'
      BY <2>3, <1>a DEF LookAgain, Load, Once
    <3> HIDE DEF Good
    <3> QED
      BY <3>1, <3>2, <3>3, <1>b
  <2>4. CASE Duplicate(t) \/ Quarantine(t) \/ Ingest(t) \/ Unlink(t) \/ Fail(t) \/ Clean(t)
             \/ RecordFails(t)
    <3>0. call[t].at \in AtWork
      BY <2>4 DEF Duplicate, Quarantine, Ingest, Unlink, Fail, Clean, RecordFails, AtWork
    <3>1. handled' = handled /\ told' = told
      BY <2>4 DEF Duplicate, Quarantine, Ingest, Unlink, Fail, Clean, RecordFails
    <3>2. \/ Leave(t)
          \/ /\ lock' = lock
             /\ \E s \in AtWork : Goto(t, s) \/ \E a \in Status : Says(t, a, s)
      BY <2>4 DEF Duplicate, Quarantine, Ingest, Unlink, Fail, Clean, RecordFails, Status, AtWork
    <3>3. AtWork \subseteq Step
      BY DEF AtWork, Step, Locked
    <3>4. \A u \in Thread : u # t => Good(u)
      BY <3>0, <3>1, <3>2, <3>3, <2>0, <2>c, OthersStay, StayHeld
    <3>5. Good(t)
      <4>1. CASE Leave(t)
        BY <4>1, <2>c, <2>e
      <4>2. CASE lock' = lock /\ \E s \in AtWork : Goto(t, s) \/ \E a \in Status : Says(t, a, s)
        <5>1. call'[t].at \in AtWork /\ call'[t].c = call[t].c /\ call'[t].v = call[t].v
          BY <4>2, <3>3, <2>d
        <5> QED
          BY <4>2, <5>1, <3>0, <3>1, <2>c, <1>a DEF Held, Once, On
      <4> QED
        BY <3>2, <4>1, <4>2
    <3> HIDE DEF Good
    <3> QED
      BY <3>1, <3>4, <3>5, <1>a, <1>b DEF Once
  <2>5. CASE Record(t)
    <3>1. /\ handled' = handled \cup {On(t)} /\ told' = told /\ lock' = lock
          /\ call[t].at \in AtWork /\ Goto(t, "answer")
      BY <2>5 DEF Record, AtWork
    <3>2. call'[t].at = "answer" /\ On(t)' = On(t)
      BY <3>1, <2>b, <2>d DEF Steps, On
    <3>3. Good(t)
      BY <3>1, <3>2, <2>b, <2>c, <2>d, <1>a DEF Held, Once, Steps
    <3>4. ASSUME NEW u \in Thread, u # t PROVE Good(u)
      <4>1. call'[u] = call[u]
        BY <3>1, <3>4, <1>a DEF Goto, CaptureTypeOK
      <4>2. call[u].at \in Locked => On(u) # On(t)
        BY <3>1, <3>4, <2>c, <1>a DEF Held, On
      <4> QED
        BY <3>1, <4>1, <4>2, <2>c, <1>a DEF Held, Once, On
    <3> HIDE DEF Good
    <3> QED
      BY <3>1, <3>3, <3>4, <1>a, <1>b DEF Once
  <2>6. CASE Answer(t)
    <3>1. /\ handled' = handled /\ told' = told \cup {On(t)} /\ Leave(t)
          /\ call[t].at = "answer"
      BY <2>6 DEF Answer
    <3>2. Good(t)
      BY <3>1, <2>c, <2>e
    <3>3. ASSUME NEW u \in Thread, u # t PROVE Good(u)
      <4>1. Stays(u)
        BY <3>1, <3>3, <2>0, <2>c, OthersStay
      <4>2. call[u].at \in Locked => On(u) # On(t)
        BY <3>1, <3>3, <2>c, <1>a DEF Held, On
      <4> QED
        BY <3>1, <4>1, <4>2, <2>c, <1>a DEF Stays, Held, Once, On
    <3>4. told' \subseteq handled'
      BY <3>1, <1>a DEF Once
    <3> HIDE DEF Good
    <3> QED
      BY <3>2, <3>3, <3>4, <1>b
  <2> QED
    BY <1>2, <2>1, <2>2, <2>3, <2>4, <2>5, <2>6 DEF CommitStep
<1>3. ASSUME NEW c \in Capture, DeleteStage(c) PROVE Held' /\ Once'
  BY <1>3, <1>c DEF DeleteStage
<1>4. ASSUME NEW v \in Vault, Switch(v) PROVE Held' /\ Once'
  BY <1>4, <1>c DEF Switch
<1>5. ASSUME Crash PROVE Held' /\ Once'
  <2>1. \A t \in Thread : Good(t)
    BY <1>5 DEF Crash, Idle, Locked, AtWork
  <2> HIDE DEF Good
  <2> QED
    BY <1>5, <2>1, <1>a, <1>b DEF Crash, Once
<1>6. CASE UNCHANGED vars
  BY <1>6, <1>c DEF vars
<1> QED
  BY <1>1, <1>2, <1>3, <1>4, <1>5, <1>6 DEF Next

(* A commit that answered success leaves no commit of that capture at      *)
(* work: the second look under the lock finds the record (_commit_capture_ *)
(* sync), which outlives a crash.                                          *)
THEOREM CommitsOnce == Spec => []CommittedOnce
<1>1. Init => OnceInv
  BY InitTyped, InitOnce DEF OnceInv
<1>2. OnceInv /\ [Next]_vars => OnceInv'
  BY NextTyped, NextOnce DEF OnceInv
<1>3. OnceInv => CommittedOnce
  BY DEF OnceInv, Once, CommittedOnce, Locked, AtWork
<1> QED
  BY <1>1, <1>2, <1>3, PTL DEF Spec

-----------------------------------------------------------------------------
(* None is lost. *)
Fixed(p) == <<p[1], ContentOf[p[2]]>> \in stored \cup review

LEMMA InitKept == Init => Fresh /\ Settled /\ CapturesKept
BY DEF Init, Fresh, Settled, CapturesKept, Idle

(* A step keeps the captures if it forgets nothing and takes no file but   *)
(* of captures that are settled, discarded or in the making.               *)
LEMMA KeptStep ==
    ASSUME KeptInv, given' = given, discarded \subseteq discarded',
           stored \subseteq stored', review \subseteq review',
           \A p \in given : p \in media \cap sidecar =>
               p \in media' \cap sidecar' \/ Fixed(p)' \/ p \in discarded'
    PROVE  CapturesKept'
BY DEF KeptInv, CapturesKept, Fixed

(* A thread at its first step sees nothing of a step that another thread   *)
(* takes with another capture.                                             *)
LEMMA FreshStep ==
    ASSUME KeptInv, given' = given, NEW t \in Thread,
           \A u \in Thread : u # t => call'[u] = call[u],
           call'[t].at # "media", call'[t].c \in {call[t].c, None},
           \A p \in media : p # On(t) => p \in media'
    PROVE  Fresh'
<1> SUFFICES ASSUME NEW u \in Thread, call'[u].at = "media"
             PROVE  /\ \A v \in Vault : <<v, call'[u].c>> \notin given'
                    /\ \A w \in Thread : call'[w].c = call'[u].c => w = u
                    /\ On(u)' \in media'
  BY DEF Fresh
<1>1. u # t /\ call'[u] = call[u] /\ On(u)' = On(u)
  BY DEF On
<1>2. /\ \A v \in Vault : <<v, call[u].c>> \notin given
      /\ \A w \in Thread : call[w].c = call[u].c => w = u
      /\ On(u) \in media
  BY <1>1 DEF KeptInv, Fresh
<1>3. call[u].c \in Capture /\ None \notin Capture
  BY <1>1, Busy, CaptureOK DEF KeptInv, CaptureOK
<1>4. On(u) # On(t)
  BY <1>1, <1>2 DEF On
<1> QED
  BY <1>1, <1>2, <1>3, <1>4

(* The threads that did not move stay settled, and the one that did is     *)
(* settled if its content is.                                              *)
LEMMA SettledStep ==
    ASSUME KeptInv, NEW t \in Thread,
           \A u \in Thread : u # t => call'[u] = call[u],
           stored \subseteq stored', review \subseteq review', pending' \subseteq review',
           \/ call'[t].at \in {"unlink", "record", "answer"}
           \/ call'[t].at = "clean" /\ Settles(call'[t].status)
           => Of(t)' \in stored' \cup review'
    PROVE  Settled'
BY DEF KeptInv, Settled, Of

LEMMA NextKept == KeptInv /\ [Next]_vars => Fresh' /\ Settled' /\ CapturesKept'
<1> SUFFICES ASSUME KeptInv, [Next]_vars PROVE Fresh' /\ Settled' /\ CapturesKept'
  OBVIOUS
<1> USE DEF files, vault, history
<1>a. CaptureTypeOK /\ Fresh /\ Settled /\ CapturesKept /\ call \in [Thread -> Calls]
  BY DEF KeptInv, CaptureTypeOK
<1>d. \A t \in Thread : call[t].at # "idle" => call[t].c \in Capture /\ call[t] \in Calls
  BY <1>a, Busy
<1>1. ASSUME NEW t \in Thread, NEW c \in Capture, Stage(t, c) PROVE Fresh' /\ Settled' /\ CapturesKept'
  <2>1. /\ call'[t] = [at |-> "media", c |-> c, v |-> active, status |-> None]
        /\ \A u \in Thread : u # t => call'[u] = call[u]
        /\ \A v \in Vault : <<v, c>> \notin given
        /\ \A u \in Thread : call[u].c # c
        /\ media' = media \cup {<<active, c>>} /\ given' = given
    BY <1>1, <1>a DEF Stage, Begin
  <2>2. Fresh'
    BY <2>1, <1>a DEF Fresh, On
  <2>3. Settled'
    BY <1>1, <2>1, <1>a, SettledStep DEF Stage, Settled
  <2>4. CapturesKept'
    BY <1>1, <2>1, KeptStep DEF Stage
  <2> QED
    BY <2>2, <2>3, <2>4
<1>2. ASSUME NEW t \in Thread, NEW c \in Capture, Commit(t, c) PROVE Fresh' /\ Settled' /\ CapturesKept'
  <2>1. /\ call'[t] = [at |-> "look", c |-> c, v |-> active, status |-> None]
        /\ \A u \in Thread : u # t => call'[u] = call[u]
        /\ \E v \in Vault : <<v, c>> \in given
        /\ UNCHANGED <<files, vault, history>>
    BY <1>2, <1>a DEF Commit, Begin
  <2>2. Fresh'
    BY <2>1, <1>a DEF Fresh, On
  <2>3. Settled'
    BY <2>1, <1>a, SettledStep DEF Settled
  <2>4. CapturesKept'
    BY <2>1, KeptStep
  <2> QED
    BY <2>2, <2>3, <2>4
<1>3. ASSUME NEW t \in Thread, Reject(t) PROVE Fresh' /\ Settled' /\ CapturesKept'
  <2>1. /\ call[t].at = "media" /\ call'[t] = Idle
        /\ \A u \in Thread : u # t => call'[u] = call[u]
        /\ \A p \in media : p # On(t) => p \in media'
        /\ sidecar' = sidecar /\ UNCHANGED <<vault, history>>
    BY <1>3, <1>a DEF Reject, Return
  <2>2. Idle.at = "idle" /\ Idle.c = None
    BY DEF Idle
  <2>3. Fresh'
    BY <2>1, <2>2, FreshStep
  <2>4. Settled'
    BY <2>1, <2>2, <1>a, SettledStep DEF Settled
  <2>5. On(t) \notin given
    BY <2>1, <1>a, Busy DEF Fresh, On
  <2>6. CapturesKept'
    BY <2>1, <2>5, KeptStep
  <2> QED
    BY <2>3, <2>4, <2>6
<1>4. ASSUME NEW t \in Thread, Sidecar(t) PROVE Fresh' /\ Settled' /\ CapturesKept'
  <2>1. /\ call[t].at = "media" /\ call'[t] = Idle
        /\ \A u \in Thread : u # t => call'[u] = call[u]
        /\ media' = media /\ sidecar' = sidecar \cup {On(t)} /\ given' = given \cup {On(t)}
        /\ UNCHANGED <<vault, discarded>>
    BY <1>4, <1>a DEF Sidecar, Return
  <2>2. Idle.at = "idle" /\ Idle.c = None /\ None \notin Capture
    BY CaptureOK DEF Idle, CaptureOK
  <2>3. On(t) \in media /\ \A u \in Thread : call[u].c = call[t].c => u = t
    BY <2>1, <1>a DEF Fresh
  <2>4. Fresh'
    <3> SUFFICES ASSUME NEW u \in Thread, call'[u].at = "media"
                 PROVE  /\ \A v \in Vault : <<v, call'[u].c>> \notin given'
                        /\ \A w \in Thread : call'[w].c = call'[u].c => w = u
                        /\ On(u)' \in media'
      BY DEF Fresh
    <3>1. u # t /\ call'[u] = call[u] /\ On(u)' = On(u)
      BY <2>1, <2>2 DEF On
    <3>2. call[u].c # call[t].c /\ call[u].c \in Capture
      BY <3>1, <2>3, <1>d
    <3> QED
      BY <3>1, <3>2, <2>1, <2>2, <1>a DEF Fresh, On
  <2>5. Settled'
    BY <2>1, <2>2, <1>a, SettledStep DEF Settled
  <2>6. CapturesKept'
    BY <2>1, <2>3, <1>a DEF CapturesKept
  <2> QED
    BY <2>4, <2>5, <2>6
<1>5. ASSUME NEW t \in Thread, CommitStep(t) PROVE Fresh' /\ Settled' /\ CapturesKept'
  <2>0. call[t].at \notin {"idle", "media"}
    BY <1>5 DEF CommitStep, Look, Acquire, LookAgain, Load, Duplicate, Quarantine, Ingest,
                Unlink, Fail, Clean, Record, RecordFails, Answer
  <2>a. Idle.at = "idle" /\ Idle.c = None
    BY DEF Idle
  <2>b. ASSUME NEW s, Goto(t, s)
        PROVE  /\ call'[t].at = s /\ call'[t].c = call[t].c /\ Of(t)' = Of(t)
               /\ call'[t].status = call[t].status
               /\ \A u \in Thread : u # t => call'[u] = call[u]
    <3>1. call'[t] = [call[t] EXCEPT !.at = s]
      BY <2>b, <1>a DEF Goto
    <3> QED
      BY <2>b, <2>0, <3>1, <1>a, <1>d DEF Goto, Calls, Of
  <2>c. ASSUME NEW s, NEW a, Says(t, a, s)
        PROVE  /\ call'[t].at = s /\ call'[t].c = call[t].c /\ Of(t)' = Of(t)
               /\ call'[t].status = a
               /\ \A u \in Thread : u # t => call'[u] = call[u]
    <3>1. call'[t] = [call[t] EXCEPT !.status = a, !.at = s]
      BY <2>c, <1>a DEF Says
    <3> QED
      BY <2>c, <2>0, <3>1, <1>a, <1>d DEF Says, Calls, Of
  <2>d. ASSUME Return(t) \/ Leave(t)
        PROVE  /\ call'[t].at = "idle" /\ call'[t].c = None
               /\ \A u \in Thread : u # t => call'[u] = call[u]
    BY <2>d, <2>a, <1>a DEF Return, Leave
  <2>e. /\ given' = given /\ discarded' = discarded
        /\ stored \subseteq stored' /\ review \subseteq review' /\ pending' \subseteq review'
        /\ \A u \in Thread : u # t => call'[u] = call[u]
        /\ call'[t].at # "media" /\ call'[t].c \in {call[t].c, None}
        /\ \A p \in media : p # On(t) => p \in media'
        /\ \A p \in sidecar : p # On(t) => p \in sidecar'
    <3>1. CASE Look(t) \/ Acquire(t) \/ LookAgain(t) \/ Load(t)
      BY <3>1, <2>b, <2>d, <1>a DEF Look, Acquire, LookAgain, Load, Settled
    <3>2. CASE Duplicate(t) \/ Quarantine(t) \/ Ingest(t) \/ Fail(t)
      BY <3>2, <2>c, <2>d, <1>a DEF Duplicate, Quarantine, Ingest, Fail, Settled
    <3>3. CASE Unlink(t) \/ Clean(t)
      BY <3>3, <2>b, <2>d, <1>a DEF Unlink, Clean, CleanupStage, Settled
    <3>4. CASE Record(t) \/ RecordFails(t) \/ Answer(t)
      BY <3>4, <2>b, <2>d, <1>a DEF Record, RecordFails, Answer, Settled
    <3> QED
      BY <1>5, <3>1, <3>2, <3>3, <3>4 DEF CommitStep
  <2>1. Fresh'
    BY <2>e, FreshStep
  <2>2. Settled'
    <3>1. CASE Look(t) \/ Acquire(t) \/ LookAgain(t) \/ Load(t)
      <4>1. call'[t].at \in {"idle", "lock", "again", "load", "process"}
        BY <3>1, <2>b, <2>d DEF Look, Acquire, LookAgain, Load
      <4> QED
        BY <4>1, <2>e, SettledStep
    <3>2. CASE Duplicate(t)
      BY <3>2, <2>c, <2>e, <1>a, SettledStep DEF Duplicate, Settled
    <3>3. CASE Quarantine(t) \/ Ingest(t)
      BY <3>3, <2>c, <2>d, <2>e, SettledStep DEF Quarantine, Ingest
    <3>4. CASE Fail(t)
      <4>1. ~Settles("failed")
        BY DEF Settles
      <4> QED
        BY <3>4, <4>1, <2>c, <2>d, <2>e, SettledStep DEF Fail
    <3>5. CASE Unlink(t) \/ Clean(t)
      BY <3>5, <2>b, <2>d, <2>e, <1>a, SettledStep DEF Unlink, Clean, Settled
    <3>6. CASE Record(t) \/ RecordFails(t) \/ Answer(t)
      BY <3>6, <2>b, <2>d, <2>e, <1>a, SettledStep DEF Record, RecordFails, Answer, Settled
    <3> QED
      BY <1>5, <3>1, <3>2, <3>3, <3>4, <3>5, <3>6 DEF CommitStep
  <2>3. ASSUME NEW p \in given, p = On(t), media' # media \/ sidecar' # sidecar PROVE Fixed(p)'
    <3>0. <<p[1], ContentOf[p[2]]>> = Of(t)
      BY <2>3 DEF On, Of
    <3>1. CASE Quarantine(t)
      BY <3>0, <3>1 DEF Quarantine, Fixed
    <3>2. CASE Unlink(t) \/ Clean(t)
      <4>1. Of(t) \in stored \cup review
        BY <2>3, <3>2, <1>a DEF Unlink, Clean, Settled
      <4> QED
        BY <3>0, <4>1, <2>e DEF Fixed
    <3>3. CASE ~Quarantine(t) /\ ~Unlink(t) /\ ~Clean(t)
      BY <1>5, <2>3, <3>3 DEF CommitStep, Look, Acquire, LookAgain, Load, Duplicate, Ingest, Fail,
                              Record, RecordFails, Answer
    <3> QED
      BY <3>1, <3>2, <3>3
  <2>4. CapturesKept'
    <3>1. ASSUME NEW p \in given, p \in media \cap sidecar
          PROVE  p \in media' \cap sidecar' \/ Fixed(p)'
      BY <3>1, <2>3, <2>e
    <3> QED
      BY <3>1, <2>e, KeptStep
  <2> QED
    BY <2>1, <2>2, <2>4
<1>6. ASSUME NEW c \in Capture, DeleteStage(c) PROVE Fresh' /\ Settled' /\ CapturesKept'
  <2> DEFINE p == <<active, c>>
  <2>1. /\ \A q : q # p => (q \in media' <=> q \in media) /\ (q \in sidecar' <=> q \in sidecar)
        /\ discarded' = discarded \cup {p} /\ given' = given /\ call' = call
        /\ UNCHANGED vault
        /\ \E v \in Vault : <<v, c>> \in given
    BY <1>6, Cleared DEF DeleteStage
  <2>2. \A t \in Thread : call[t].at = "media" => On(t) # p
    BY <2>1, <1>a DEF Fresh, On
  <2> HIDE DEF p
  <2>3. Fresh'
    BY <2>1, <2>2, <1>a DEF Fresh, On
  <2>4. Settled'
    BY <2>1, <1>a DEF Settled, Of
  <2>5. CapturesKept'
    BY <2>1, KeptStep
  <2> QED
    BY <2>3, <2>4, <2>5
<1>7. ASSUME Crash PROVE Fresh' /\ Settled' /\ CapturesKept'
  <2>1. \A t \in Thread : call'[t].at = "idle"
    BY <1>7 DEF Crash, Idle
  <2> QED
    BY <1>7, <2>1, <1>a DEF Crash, Fresh, Settled, CapturesKept
<1>8. ASSUME UNCHANGED <<files, vault, call, history>> PROVE Fresh' /\ Settled' /\ CapturesKept'
  BY <1>8, <1>a DEF Fresh, Settled, CapturesKept, On, Of
<1>9. ASSUME NEW v \in Vault, Switch(v) PROVE Fresh' /\ Settled' /\ CapturesKept'
  BY <1>8, <1>9 DEF Switch
<1>10. CASE UNCHANGED vars
  BY <1>8, <1>10 DEF vars
<1> QED
  BY <1>1, <1>2, <1>3, <1>4, <1>5, <1>6, <1>7, <1>9, <1>10 DEF Next

(* No capture whose id was answered is lost: what clears a stage has seen  *)
(* the content stored or in review (_commit_capture_locked), or the client *)
(* asked for it.                                                           *)
THEOREM NoCaptureLost == Spec => []CapturesKept
<1>1. Init => KeptInv
  BY InitTyped, InitKept DEF KeptInv
<1>2. KeptInv /\ [Next]_vars => KeptInv'
  BY NextTyped, NextKept DEF KeptInv
<1>3. KeptInv => CapturesKept
  BY DEF KeptInv
<1> QED
  BY <1>1, <1>2, <1>3, PTL DEF Spec
=============================================================================
