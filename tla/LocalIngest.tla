----------------------------- MODULE LocalIngest -----------------------------
(***************************************************************************)
(* Local ingest runs (backend/api/ingestion.py): one run at a time per     *)
(* vault copies the files it is given into a directory of its own and      *)
(* hands each to process_file, while the page polls its state, asks it to  *)
(* stop after the current file and retries what failed; and the switch of  *)
(* the active vault and the deletion of another one (backend/vaults.py,    *)
(* api/runtime.py), which look at the runs once, before they go ahead.     *)
(*                                                                         *)
(* start, retry and stop are coroutines without an await: the event loop   *)
(* runs them one after the other, but between the steps of one a run, a    *)
(* switch and a deletion, which are threads, may go on.  Nothing of a run  *)
(* outlives the process but the staging directory: a restart is a new      *)
(* beginning, and is not an action.                                        *)
(***************************************************************************)
EXTENDS Naturals, Sequences, FiniteSets, SequencesExt

CONSTANTS
    Paths,      \* files the page may name
    Inputs,     \* the sequences of files it hands over, doublets included
    Outcomes,   \* what process_file may answer in this instance
    Vaults, Active, \* the vaults, and the one active at first
    None,
    ResultsLimit,   \* LOCAL_RESULTS_LIMIT
    MaxRuns,    \* bound: runs
    MaxStops,   \* bound: calls of stop that find a run
    MaxMoves    \* bound: switches and deletions of vaults

Status == {"ingested", "review", "failed", "duplicate"}
Phase == {"idle", "scanning", "staging", "running", "stopping", "finished", "failed"}
Run == 1..MaxRuns

ASSUME LocalOK ==
    /\ Outcomes \subseteq Status /\ Active \in Vaults /\ IsFiniteSet(Vaults)
    /\ Inputs \subseteq Seq(Paths) /\ <<>> \notin Inputs
    /\ None \notin Paths \cup Vaults
    /\ {ResultsLimit, MaxRuns, MaxStops, MaxMoves} \subseteq Nat

VARIABLES
    active,  \* the vault of the runtime context
    deleted, \* vaults whose root is gone
    state,   \* _LOCAL_INGEST_STATES
    stop,    \* the stop event of each vault
    work,    \* the threads of the runs
    dirs,    \* runs whose staging directory exists
    page,    \* the call of the page the event loop is running
    move,    \* a switch or a deletion that has passed its preflight
    count,   \* calls so far
    stray,   \* history: runs begun while a switch was on, or in the vault it left
    wiped    \* history: runs whose stop an earlier run's end took away

history == <<stray, wiped>>
vars == <<active, deleted, state, stop, work, dirs, page, move, count, history>>

-----------------------------------------------------------------------------
(***************************************************************************)
(* The state of a vault's run, each change under its lock.                 *)
(***************************************************************************)
NoSummary == [s \in Status |-> 0]

NewState ==
    [running |-> FALSE, phase |-> "idle", run |-> 0, scanned |-> 0, staged |-> 0,
     queued |-> 0, processed |-> 0, summary |-> NoSummary, results |-> <<>>,
     failed |-> <<>>, stopRequested |-> FALSE]

NewRun(r) == [NewState EXCEPT !.running = TRUE, !.phase = "scanning", !.run = r]

(* The last ResultsLimit results. *)
Capped(results) ==
    SubSeq(results, IF Len(results) > ResultsLimit THEN Len(results) - ResultsLimit + 1 ELSE 1,
           Len(results))

(* One more outcome, of a file or (None) of the run as a whole. *)
Told(s, p, status) ==
    [s EXCEPT !.summary[status] = @ + 1,
              !.results = Capped(Append(@, <<p, status>>)),
              !.failed = IF status = "failed" /\ p # None THEN Append(@, p) ELSE @]

Over(s) ==
    [s EXCEPT !.phase = IF @ = "failed" THEN @ ELSE "finished",
              !.running = FALSE, !.stopRequested = FALSE]

-----------------------------------------------------------------------------
(***************************************************************************)
(* A run: at is where its thread stands, list what is left of the files,   *)
(* seen those it took up, file the one in hand; done is what became of     *)
(* each and crashed whether it gave up.  At "dead" it is gone without      *)
(* having given back the running flag.                                     *)
(***************************************************************************)
NoWork == [at |-> "none", vault |-> None, list |-> <<>>, seen |-> {}, file |-> None,
           done |-> <<>>, crashed |-> FALSE]

NoCall == [kind |-> "none", vault |-> None, list |-> <<>>]

(* The runs that hold the running flag of vault v. *)
Holding(v) == {r \in Run : work[r].vault = v
                            /\ work[r].at \in {"setup", "scan", "copy", "process", "left", "judged",
                                              "end", "dead"}}

Init ==
    /\ active = Active /\ deleted = {}
    /\ state = [v \in Vaults |-> NewState]
    /\ stop = [v \in Vaults |-> FALSE]
    /\ work = [r \in Run |-> NoWork]
    /\ dirs = {} /\ page = NoCall /\ move = None
    /\ count = [runs |-> 0, stops |-> 0, moves |-> 0]
    /\ stray = {} /\ wiped = {}

AlwaysFree(v) == TRUE
Free(v) == ~state[v].running

EventLeft(v) == stop
EventCleared(v) == [stop EXCEPT ![v] = FALSE]

(* A call reads the context before anything else, and works in its vault.  *)
Calls(kind, list) == page' = [kind |-> kind, vault |-> active, list |-> list]

Ask ==
    /\ page = NoCall
    /\ \/ count.runs < MaxRuns /\ \E list \in Inputs : Calls("start", list)
       \/ count.runs < MaxRuns /\ Calls("retry", <<>>)
       \/ count.stops < MaxStops /\ Calls("stop", <<>>)
    /\ UNCHANGED <<active, deleted, state, stop, work, dirs, move, count, history>>

(* The files a retry hands over, read under the lock. *)
Retry ==
    /\ page.kind = "retry"
    /\ LET failed == state[page.vault].failed IN
       page' = IF Free(page.vault) /\ failed # <<>>
               THEN [page EXCEPT !.kind = "start", !.list = failed] ELSE NoCall
    /\ UNCHANGED <<active, deleted, state, stop, work, dirs, move, count, history>>

(* _prepare_local_ingest_run and the submission of the thread. *)
Prepare ==
    /\ page.kind = "start"
    /\ LET v == page.vault
           r == count.runs + 1
       IN  /\ Free(v)
           /\ stop' = EventCleared(v)
           /\ state' = [state EXCEPT ![v] = NewRun(r)]
           /\ work' = [work EXCEPT ![r] = [NoWork EXCEPT !.at = "setup", !.vault = v,
                                                          !.list = page.list]]
           /\ count' = [count EXCEPT !.runs = r]
           /\ stray' = IF v # active \/ (move # None /\ move.kind = "switch")
                       THEN stray \cup {r} ELSE stray
    /\ page' = NoCall
    /\ UNCHANGED <<active, deleted, dirs, move, wiped>>

(* A run is going, or, for a stop, none is. *)
Refused ==
    /\ page.kind \in {"start", "stop"}
    /\ state[page.vault].running <=> page.kind = "start"
    /\ page' = NoCall
    /\ UNCHANGED <<active, deleted, state, stop, work, dirs, move, count, history>>

(* The stop button: the flags under the lock, then the event. *)
Stop ==
    /\ page.kind = "stop"
    /\ state[page.vault].running
    /\ state' = [state EXCEPT ![page.vault].stopRequested = TRUE, ![page.vault].phase = "stopping"]
    /\ page' = [page EXCEPT !.kind = "event"]
    /\ count' = [count EXCEPT !.stops = @ + 1]
    /\ UNCHANGED <<active, deleted, stop, work, dirs, move, history>>

SetEvent ==
    /\ page.kind = "event"
    /\ stop' = [stop EXCEPT ![page.vault] = TRUE]
    /\ page' = NoCall
    /\ UNCHANGED <<active, deleted, state, work, dirs, move, count, history>>

-----------------------------------------------------------------------------
(* A step of run r in vault v, at place a: w its new record, s the new     *)
(* state of the vault.                                                     *)
Step(r, v, a, w, s) ==
    /\ work[r].at = a /\ work[r].vault = v
    /\ work' = [work EXCEPT ![r] = w]
    /\ state' = [state EXCEPT ![v] = s]
    /\ UNCHANGED <<active, deleted, page, move, count, stray>>

Idle == UNCHANGED <<stop, dirs, wiped>>

(* The settings cannot be read: the thread ends before its try block. *)
SetupFails(r, v) ==
    Step(r, v, "setup", [work[r] EXCEPT !.at = "dead"], state[v]) /\ Idle

(* mkdir(parents=True): in a vault deleted meanwhile it makes the root anew. *)
Begin(r, v) ==
    /\ Step(r, v, "setup", [work[r] EXCEPT !.at = "scan"], state[v])
    /\ dirs' = dirs \cup {r} /\ UNCHANGED <<stop, wiped>>

(* _iter_local_ingest_paths: a file is taken up once, and only if it is     *)
(* there; the stop event is looked at before each.                         *)
TakesAgain(r) == TRUE
NotSeen(r) == Head(work[r].list) \notin work[r].seen

Take(r, v) ==
    /\ work[r].list # <<>> /\ ~stop[v] /\ NotSeen(r)
    /\ LET p == Head(work[r].list) IN
       Step(r, v, "scan",
            [work[r] EXCEPT !.at = "copy", !.file = p, !.list = Tail(@), !.seen = @ \cup {p}],
            [state[v] EXCEPT !.scanned = @ + 1, !.phase = "staging"])
    /\ Idle

Skip(r, v) ==
    /\ work[r].list # <<>> /\ ~stop[v]
    /\ Step(r, v, "scan", [work[r] EXCEPT !.list = Tail(@)], state[v])
    /\ Idle

Result(w, status) ==
    [w EXCEPT !.at = "scan", !.file = None, !.done = Append(@, <<w.file, status>>)]

StageFails(r, v) ==
    /\ Step(r, v, "copy", Result(work[r], "failed"), Told(state[v], work[r].file, "failed"))
    /\ Idle

Staged(s) == [s EXCEPT !.staged = @ + 1, !.queued = @ + 1, !.phase = "running"]

Stage(r, v) ==
    /\ r \in dirs
    /\ Step(r, v, "copy", [work[r] EXCEPT !.at = "process"], Staged(state[v]))
    /\ Idle

(* process_file answers.  Without its staged copy it can only fail. *)
Process(r, v) ==
    \E status \in IF r \in dirs THEN Outcomes ELSE {"failed"} :
        LET s == Told(state[v], work[r].file, status) IN
        /\ Step(r, v, "process", Result(work[r], status),
                [s EXCEPT !.processed = @ + 1,
                          !.queued = IF @ > 0 THEN @ - 1 ELSE 0,
                          !.phase = IF stop[v] THEN @ ELSE "scanning"])
        /\ Idle

(* The loop is over, or left because of the stop event. *)
Leave(r, v) ==
    /\ work[r].list = <<>> \/ stop[v]
    /\ Step(r, v, "scan", [work[r] EXCEPT !.at = "left"], state[v])
    /\ Idle

(* The event is looked at again: a run that took up a file acknowledges a   *)
(* stop; one that took up none has failed unless it was stopped, and looks  *)
(* a second time before it says that there was no file.                     *)
Judge(r, v) ==
    /\ LET none == work[r].seen = {}
           phase == IF none THEN IF stop[v] THEN "finished" ELSE "failed"
                    ELSE IF stop[v] THEN "stopping" ELSE state[v].phase
       IN  Step(r, v, "left", [work[r] EXCEPT !.at = IF none THEN "judged" ELSE "end"],
                [state[v] EXCEPT !.phase = phase])
    /\ Idle

NoFiles(r, v) ==
    /\ IF stop[v]
       THEN Step(r, v, "judged", [work[r] EXCEPT !.at = "end"], state[v])
       ELSE Step(r, v, "judged", [work[r] EXCEPT !.at = "end", !.done = Append(@, <<None, "failed">>)],
                 Told(state[v], None, "failed"))
    /\ Idle

(* The directory cannot be made, or the next path not be looked at. *)
GivesUp(w) == [w EXCEPT !.at = "end", !.crashed = TRUE, !.done = Append(@, <<None, "failed">>)]

Fails(r, v) ==
    /\ \E a \in {"setup", "scan"} :
          Step(r, v, a, GivesUp(work[r]), [Told(state[v], None, "failed") EXCEPT !.phase = "failed"])
    /\ Idle

(* The finally block: the directory goes, then the flags, then, outside    *)
(* the lock, the event.  (A directory that cannot be removed is left.)     *)
End(r, v) ==
    /\ Step(r, v, "end", [work[r] EXCEPT !.at = "clear"], Over(state[v]))
    /\ dirs' = dirs \ {r}
    /\ UNCHANGED <<stop, wiped>>

ClearEvent(r, v) ==
    /\ Step(r, v, "clear", IF state[v].run = r THEN [work[r] EXCEPT !.at = "gone"] ELSE NoWork,
            state[v])
    /\ stop' = [stop EXCEPT ![v] = FALSE]
    /\ wiped' = IF stop[v] /\ state[v].running THEN wiped \cup {state[v].run} ELSE wiped
    /\ UNCHANGED dirs

RunStep(r) ==
    \E v \in Vaults :
        \/ SetupFails(r, v) \/ Begin(r, v) \/ Take(r, v) \/ Skip(r, v)
        \/ StageFails(r, v) \/ Stage(r, v) \/ Process(r, v) \/ Leave(r, v)
        \/ Judge(r, v) \/ NoFiles(r, v)
        \/ Fails(r, v) \/ End(r, v) \/ ClearEvent(r, v)

-----------------------------------------------------------------------------
(***************************************************************************)
(* Switching to a vault and deleting one, both under the transition lock   *)
(* and after runtime_switch_preflight of the active vault.                 *)
(***************************************************************************)
AlwaysAllowed(v) == TRUE
Allowed(v) == ~state[v].running

Check ==
    /\ move = None /\ count.moves < MaxMoves
    /\ Allowed(active)
    /\ \E v \in Vaults \ (deleted \cup {active}), kind \in {"switch", "delete"} :
          move' = [kind |-> kind, to |-> v]
    /\ count' = [count EXCEPT !.moves = @ + 1]
    /\ UNCHANGED <<active, deleted, state, stop, work, dirs, page, history>>

Switch ==
    /\ move # None /\ move.kind = "switch"
    /\ active' = move.to /\ move' = None
    /\ UNCHANGED <<deleted, state, stop, work, dirs, page, count, history>>

Delete ==
    /\ move # None /\ move.kind = "delete"
    /\ deleted' = deleted \cup {move.to} /\ move' = None
    /\ dirs' = {r \in dirs : work[r].vault # move.to}
    /\ UNCHANGED <<active, state, stop, work, page, count, history>>

Next ==
    \/ Ask \/ Retry \/ Prepare \/ Refused \/ Stop \/ SetEvent
    \/ \E r \in Run : RunStep(r)
    \/ Check \/ Switch \/ Delete

Spec == Init /\ [][Next]_vars

-----------------------------------------------------------------------------
(* A vault says that a run is going exactly when one thread of it holds    *)
(* the flag: never two runs at once, and none that cannot be started       *)
(* because of one that is over.  (A run that died before its try block     *)
(* counts: it holds the flag for good.)                                    *)
LocalTypeOK ==
    /\ active \in Vaults /\ deleted \subseteq Vaults
    /\ \A v \in Vaults :
          LET s == state[v] IN
          /\ s.phase \in Phase /\ s.running \in BOOLEAN /\ s.run \in 0..MaxRuns
          /\ s.failed \in Seq(Paths) /\ Len(s.results) <= ResultsLimit
          /\ Holding(v) = IF s.running THEN {s.run} ELSE {}
    /\ dirs \subseteq 1..count.runs

Files(done) == {i \in DOMAIN done : done[i][1] # None}
Outcome(done, status) == {i \in DOMAIN done : done[i][2] = status}
FailedFiles(done) == Files(done) \cap Outcome(done, "failed")

(* The summary counts every outcome, the results are the last ones, and    *)
(* the list for a retry names the files that failed, in their order.       *)
Tallied(s, done) ==
    /\ \A status \in Status : s.summary[status] = Cardinality(Outcome(done, status))
    /\ IsSuffix(s.results, done)
    /\ Len(s.results) = IF Len(done) > ResultsLimit THEN ResultsLimit ELSE Len(done)
    /\ Len(s.failed) = Cardinality(FailedFiles(done))
    /\ \A i \in FailedFiles(done) :
          s.failed[Cardinality({j \in FailedFiles(done) : j <= i})] = done[i][1]

EachOnce(done) == \A i, j \in Files(done) : done[i][1] = done[j][1] => i = j

(* The files taken up are those with an outcome and the one in hand.       *)
Progress(s, w) ==
    /\ s.scanned = Cardinality(Files(w.done)) + (IF w.at \in {"copy", "process"} THEN 1 ELSE 0)
    /\ s.staged = s.processed + s.queued
    /\ s.queued = IF w.at = "process" THEN 1 ELSE 0

(* What the page shows of a run is what became of its files: every file    *)
(* has one result, is counted once, and is offered for retry exactly if it *)
(* failed; and the files staged are those handed over and the one in hand. *)
Accounted ==
    \A v \in Vaults : state[v].run # 0 =>
        LET w == work[state[v].run]
        IN  Tallied(state[v], w.done) /\ EachOnce(w.done) /\ Progress(state[v], w)

Setting(v) == page.kind = "event" /\ page.vault = v

(* A stop that the page shows as requested has reached the run, unless the *)
(* run before it, already over, took the event away; and no run stops      *)
(* unasked because of an event left from an earlier one.                   *)
StopAgrees ==
    \A v \in Vaults : state[v].running =>
        /\ state[v].stopRequested => stop[v] \/ Setting(v) \/ state[v].run \in wiped
        /\ stop[v] => state[v].stopRequested

(* A run goes on in the active vault, where the page sees and stops it,    *)
(* and never in a vault that was deleted; but for a run begun while a      *)
(* switch had passed its preflight and not yet gone ahead, or by a call    *)
(* that had read the context before the switch.                            *)
RunsInSight ==
    \A v \in Vaults : state[v].running =>
        (v = active /\ v \notin deleted) \/ state[v].run \in stray
=============================================================================
