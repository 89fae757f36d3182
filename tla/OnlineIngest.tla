---------------------------- MODULE OnlineIngest ----------------------------
(***************************************************************************)
(* The link queues of a vault and the run that works them off.             *)
(*                                                                         *)
(*   - backend/queue_service.py: three text files.  Every call of the HTTP *)
(*     interface holds QUEUE_LOCK from its first read to its last write.   *)
(*   - backend/external_ingestion.py: a run, admitted by INGESTION_LOCK,   *)
(*     reads one file, hands the links to a manager per platform, and at   *)
(*     the end rewrites the file with what is left.  It does not take      *)
(*     QUEUE_LOCK, nor do its workers when they log a failure.             *)
(*                                                                         *)
(* A file is the set of its links.  Rewriting a file is two steps, open    *)
(* for writing (which empties it) and write.  When two writers had it open *)
(* at once, the text of the first may stick out behind the last one's.     *)
(***************************************************************************)
EXTENDS Naturals, FiniteSets

CONSTANTS
    Url, Platform,
    PlatformOf,  \* _get_platform_name
    Workers,     \* num_workers: links of a platform worked on at a time
    Calls,       \* the calls this instance exercises
    LogFails,    \* the failure log cannot always be written
    None,
    MaxCalls,    \* bound: calls
    MaxRuns,     \* bound: runs
    MaxCrashes   \* bound: process crashes

Queue == {"normal", "force"}
File == Queue \cup {"failed"}
Call == {"append", "save", "retry", "clear"}

ASSUME QueuesOK ==
    /\ PlatformOf \in [Url -> Platform]
    /\ Workers \in Nat \ {0}
    /\ Calls \subseteq Call
    /\ LogFails \in BOOLEAN
    /\ None \notin File
    /\ MaxCalls \in Nat /\ MaxRuns \in Nat /\ MaxCrashes \in Nat

VARIABLES
    text,        \* the links in each file
    step,        \* the call that holds QUEUE_LOCK: "none", "open" or "write"
    op, target,  \* what it does and the file it rewrites
    content,     \* the links it writes
    fresh,       \* those of them its caller hands in
    dropped,     \* links its caller does not want any longer
    run,         \* the queue being worked off, None while INGESTION_LOCK is free
    phase,       \* of the run: "none", "parse", "work" or "write"
    links,       \* what the run read
    todo,        \* links no worker has taken yet
    flight,      \* links a worker is at
    crashed,     \* platforms whose manager died
    closed,      \* platforms whose manager has returned
    kept,        \* links to be left in the file
    stop,        \* the stop event
    calls, runs, crashes,
    asked,       \* history: links handed in and not taken back
    done,        \* history: links ingested
    handled,     \* history: links this run ingested or logged as failed
    cut,         \* history: links in a rewrite that a crash cut off
    crossed      \* history: links written while another writer, which has not
                 \* read them, was about to rewrite the file

client  == <<step, op, target, content, fresh, dropped>>
work    == <<links, todo, flight, crashed, closed, kept, handled>>
runner  == <<run, phase, stop, work>>
bounds  == <<calls, runs, crashes>>
history == <<asked, done, cut, crossed>>
vars    == <<text, client, runner, bounds, history>>

Of(p, U) == {u \in U : PlatformOf[u] = p}

(* A run or a call has read a file and not yet written it back. *)
RunHas(f) == f = run /\ phase \in {"work", "write"}
CallHas(f) == step # "none" /\ (f = target \/ (op = "retry" /\ f = "failed"))

(* What stands in a file and is still to be dealt with. *)
Gone == {u \in handled : PlatformOf[u] \notin crashed}
Waiting(f) ==
    IF ~RunHas(f) THEN text[f] ELSE IF phase = "work" THEN text[f] \ Gone ELSE {}
Elsewhere(f) == UNION {Waiting(g) : g \in File \ {f}}

Init ==
    /\ text = [f \in File |-> {}]
    /\ step = "none" /\ op = "none" /\ target = None
    /\ content = {} /\ fresh = {} /\ dropped = {}
    /\ run = None /\ phase = "none" /\ stop = FALSE
    /\ links = {} /\ todo = {} /\ flight = {} /\ crashed = {} /\ closed = {}
    /\ kept = {} /\ handled = {}
    /\ calls = 0 /\ runs = 0 /\ crashes = 0
    /\ asked = {} /\ done = {} /\ cut = {} /\ crossed = {}

-----------------------------------------------------------------------------
(***************************************************************************)
(* Calls of the HTTP interface.                                            *)
(***************************************************************************)

(* QUEUE_LOCK keeps calls apart.  Nothing keeps them off the files of a run:
   the page disables its buttons, another page and the extension do not. *)
Begin(o, f) ==
    /\ step = "none" /\ o \in Calls /\ calls < MaxCalls
    /\ step' = "open" /\ op' = o /\ target' = f
    /\ calls' = calls + 1
    /\ UNCHANGED <<text, runner, runs, crashes, asked, done, cut>>

(* append_queue_block *)
Append(q, u) ==
    /\ Begin("append", q)
    /\ content' = text[q] \cup {u} /\ fresh' = {u} /\ dropped' = {}
    /\ UNCHANGED crossed

(* write_queue replaces the file by what the editor holds.  Links that came
   since the editor was loaded it has not seen, nor dropped on purpose. *)
Replace(o, f, U) ==
    /\ Begin(o, f)
    /\ content' = U
    /\ \E seen \in SUBSET text[f] :
          /\ fresh' = U \ seen
          /\ dropped' = (seen \ U) \ Elsewhere(f)
          /\ crossed' = crossed \cup (text[f] \ (seen \cup U))

Save(f, U) == Replace("save", f, U)

(* move_failed_urls: append_urls first, the failed links are cleared after. *)
Retry(q) ==
    /\ Begin("retry", q)
    /\ text["failed"] # {}
    /\ content' = text[q] \cup text["failed"] /\ fresh' = text["failed"] /\ dropped' = {}
    /\ UNCHANGED crossed

(* clear_failed *)
Clear == Replace("clear", "failed", {})

(* write_text opens the file and writes. *)
Open ==
    /\ step = "open" /\ step' = "write"
    /\ text' = [text EXCEPT ![target] = {}]
    /\ UNCHANGED <<op, target, content, fresh, dropped, runner, bounds, history>>

ClearNext ==
    /\ step' = "open" /\ op' = "cleanup" /\ target' = "failed" /\ content' = {}

Written ==
    IF op = "retry"
      THEN ClearNext
      ELSE step' = "none" /\ op' = "none" /\ target' = None /\ content' = {}

Write ==
    /\ step = "write"
    /\ \E rest \in SUBSET text[target] : text' = [text EXCEPT ![target] = content \cup rest]
    /\ Written
    /\ fresh' = {} /\ dropped' = {}
    /\ asked' = (asked \ dropped) \cup fresh
    /\ crossed' = crossed \cup (IF RunHas(target) THEN fresh \cup (content \ links) ELSE {})
    /\ UNCHANGED <<runner, bounds, done, cut>>

-----------------------------------------------------------------------------
(***************************************************************************)
(* A run.                                                                  *)
(***************************************************************************)
NoWork ==
    /\ links' = {} /\ todo' = {} /\ flight' = {} /\ crashed' = {} /\ closed' = {}
    /\ kept' = {} /\ handled' = {}

(* start_ingestion *)
Start(q) ==
    /\ run = None /\ runs < MaxRuns
    /\ run' = q /\ phase' = "parse" /\ stop' = FALSE
    /\ runs' = runs + 1
    /\ UNCHANGED <<text, client, work, calls, crashes, history>>

(* ingest_stop_after_current *)
RequestStop ==
    /\ run # None /\ ~stop /\ stop' = TRUE
    /\ UNCHANGED <<text, client, run, phase, work, bounds, history>>

(* _parse_links: an empty file ends the run. *)
ParseLinks ==
    /\ phase = "parse"
    /\ IF text[run] = {}
         THEN run' = None /\ phase' = "none" /\ UNCHANGED <<links, todo>>
         ELSE /\ phase' = "work" /\ UNCHANGED run
              /\ links' = text[run] /\ todo' = text[run]
    /\ UNCHANGED <<text, client, stop, flight, crashed, closed, kept, handled, bounds, history>>

(* _manage_platform_queue submits the next link. *)
Managed(p) == phase = "work" /\ p \notin closed \cup crashed
AfterTake(u) == todo \ {u}

Take(u) ==
    LET p == PlatformOf[u]
    IN  /\ Managed(p) /\ u \in todo /\ ~stop
        /\ Cardinality(Of(p, flight)) < Workers
        /\ todo' = AfterTake(u) /\ flight' = flight \cup {u}
        /\ UNCHANGED <<text, client, run, phase, stop, links, crashed, closed, kept,
                       handled, bounds, history>>

Finish(u) ==
    /\ u \in flight /\ flight' = flight \ {u}
    /\ UNCHANGED <<client, run, phase, stop, links, todo, closed, kept, bounds, asked, cut>>

(* _worker_item: the link's files are stored, or were there already. *)
Ingested(u) ==
    /\ Finish(u)
    /\ done' = done \cup {u} /\ handled' = handled \cup {u}
    /\ UNCHANGED <<text, crashed, crossed>>

(* _log_failure, by the worker or, when the worker raised, by the manager. *)
Failed(u) ==
    /\ Finish(u)
    /\ text' = [text EXCEPT !["failed"] = @ \cup {u}]
    /\ handled' = handled \cup {u}
    /\ crossed' = crossed \cup (IF CallHas("failed") THEN {u} ELSE {})
    /\ UNCHANGED <<crashed, done>>

(* The failure cannot be logged by either: the manager dies of it, once its
   other workers are done. *)
ManagerDies(u) ==
    /\ LogFails /\ Finish(u)
    /\ crashed' = crashed \cup {PlatformOf[u]}
    /\ UNCHANGED <<text, handled, done, crossed>>

(* The manager returns: stopped, everything taken, or dead. *)
NothingLeft(p) == p \in crashed \/ Of(p, todo) = {}                      \* mutant
MayClose(p) == p \in crashed \/ stop \/ Of(p, todo) = {}
OnlyCrashed(p) == IF p \in crashed THEN Of(p, links) ELSE {}             \* mutant
Everything(p) == Of(p, links)                                            \* mutant
Remaining(p) == IF p \in crashed THEN Of(p, links) ELSE Of(p, todo)

Close(p) ==
    /\ phase = "work" /\ p \notin closed /\ Of(p, links) # {}
    /\ Of(p, flight) = {} /\ MayClose(p)
    /\ closed' = closed \cup {p}
    /\ kept' = kept \cup Remaining(p)
    /\ todo' = todo \ Of(p, todo)
    /\ UNCHANGED <<text, client, run, phase, stop, links, flight, crashed, handled,
                   bounds, history>>

(* _write_back: the file is opened for writing, and written. *)
OpenBack ==
    /\ phase = "work" /\ \A u \in links : PlatformOf[u] \in closed
    /\ phase' = "write"
    /\ text' = [text EXCEPT ![run] = {}]
    /\ UNCHANGED <<client, run, stop, work, bounds, history>>

WriteBack ==
    /\ phase = "write"
    /\ \E rest \in SUBSET text[run] : text' = [text EXCEPT ![run] = kept \cup rest]
    /\ run' = None /\ phase' = "none"
    /\ NoWork
    /\ crossed' = crossed \cup (IF CallHas(run) THEN kept \ (content \cup dropped) ELSE {})
    /\ UNCHANGED <<client, stop, bounds, asked, done, cut>>

(* The process dies and is started again. *)
Crash ==
    /\ crashes < MaxCrashes /\ crashes' = crashes + 1
    /\ LET unwritten == (IF step = "write" THEN content \cup dropped ELSE {})
                        \cup (IF phase = "write" THEN kept ELSE {})
       IN  cut' = cut \cup (unwritten \ UNION {text[f] : f \in File})
    /\ step' = "none" /\ op' = "none" /\ target' = None
    /\ content' = {} /\ fresh' = {} /\ dropped' = {}
    /\ run' = None /\ phase' = "none" /\ stop' = FALSE /\ NoWork
    /\ UNCHANGED <<text, calls, runs, asked, done, crossed>>

RunStep ==
    \/ ParseLinks \/ OpenBack \/ WriteBack
    \/ \E u \in Url : Take(u) \/ Ingested(u) \/ Failed(u) \/ ManagerDies(u)
    \/ \E p \in Platform : Close(p)

ClientStep ==
    \/ \E q \in Queue, u \in Url : Append(q, u)
    \/ \E f \in File, U \in SUBSET Url : Save(f, U)
    \/ \E q \in Queue : Retry(q)
    \/ Clear \/ Open \/ Write

Quiet == calls = MaxCalls /\ runs = MaxRuns /\ step = "none" /\ run = None /\ UNCHANGED vars

Next ==
    \/ ClientStep \/ RunStep
    \/ \E q \in Queue : Start(q)
    \/ RequestStop \/ Crash \/ Quiet

Spec == Init /\ [][Next]_vars

(* A run has its own threads; downloads and the pipeline return. *)
FairSpec == Spec /\ WF_vars(RunStep)

-----------------------------------------------------------------------------
(* A link of the run is waiting, being worked on, or dealt with, and only one
   of them; no platform has more workers than it should. *)
RunOK ==
    /\ todo \cup flight \cup kept \cup handled \subseteq links
    /\ todo \cap flight = {} /\ handled \cap (todo \cup flight) = {}
    /\ \A p \in Platform : Cardinality(Of(p, flight)) <= Workers
    /\ \A p \in closed : Of(p, todo \cup flight) = {}

QueuesTypeOK ==
    /\ text \in [File -> SUBSET Url]
    /\ step \in {"none", "open", "write"}
    /\ op \in Call \cup {"none", "cleanup"} /\ target \in File \cup {None}
    /\ content \subseteq Url /\ fresh \subseteq content /\ dropped \subseteq Url
    /\ run \in Queue \cup {None} /\ phase \in {"none", "parse", "work", "write"}
    /\ links \subseteq Url /\ crashed \subseteq Platform /\ closed \subseteq Platform
    /\ stop \in BOOLEAN
    /\ calls \in 0..MaxCalls /\ runs \in 0..MaxRuns /\ crashes \in 0..MaxCrashes
    /\ asked \subseteq Url /\ done \subseteq Url /\ cut \subseteq Url /\ crossed \subseteq Url
    /\ RunOK

(* Where a link is while somebody still has to deal with it: in a file, or in
   the hands of who has one open for rewriting. *)
Held ==
    (UNION {text[f] : f \in File})
    \cup (IF step = "write" THEN content \cup dropped ELSE {})
    \cup (IF phase = "write" THEN kept ELSE {})

(* A link somebody handed in is ingested or still there.  Stopping a run, a
   failing link, a dying manager and a crash do not lose it, whatever calls
   come during the run.  The accidents: a crash between opening a file for
   rewriting and writing it (cut), and two writers of one file, of which the
   later has not read what the earlier wrote (crossed). *)
NothingLost == asked \subseteq Held \cup done \cup cut \cup crossed

(* A run puts nothing into its file that it has ingested or logged as failed,
   unless the platform's manager died; what a call has written since the file
   was opened may remain in it. *)
HandledLeaves ==
    [][phase = "write" /\ run' = None =>
          \A u \in Gone : u \in text'[run] => u \in text[run]]_vars

(* Stopped or not, whatever fails, a run ends and the lock is free again. *)
RunEnds == run # None ~> run = None
=============================================================================
