-------------------------- MODULE OnlineIngestProofs --------------------------
(***************************************************************************)
(* Why no link is lost between the calls and a run, whenever the calls     *)
(* come.  What a run has read and not dealt with it keeps (LinksOK); what   *)
(* has come into its file since is among the crossed; and every link is    *)
(* waiting in a file, or in a rewrite that has begun, or settled           *)
(* (FoundOK), where a call that has read a file is counted on for what it  *)
(* will write into it and not for what it is about to empty.               *)
(***************************************************************************)
EXTENDS OnlineIngest, FiniteSetTheorems, TLAPS

OnWork == phase \in {"work", "write"}

(* A run holds the lock exactly while it has a phase, and knows links only *)
(* once it has parsed them; each worker is at a link of its own.           *)
PhaseOK ==
    /\ run = None <=> phase = "none"
    /\ ~OnWork => /\ links = {} /\ todo = {} /\ flight = {} /\ crashed = {} /\ closed = {}
                  /\ kept = {} /\ handled = {}
    /\ step = "none" <=> target = None
    /\ step = "none" => op = "none" /\ content = {} /\ fresh = {} /\ dropped = {}
    /\ step # "none" => op # "none"
    /\ op \in {"append", "retry"} => target \in Queue
    /\ op = "cleanup" => target = "failed"
    /\ \A p \in Platform : IsFiniteSet(Of(p, flight))

TypeInv == QueuesTypeOK /\ PhaseOK

(* The failed links a retry moves are all those there are, unless another  *)
(* has been logged since.                                                  *)
RetryOK == op = "retry" => text["failed"] \subseteq fresh \cup crossed

(* Every link that the run has read is accounted for, and what else stands *)
(* in its file has been written there since.                               *)
LinksOK ==
    /\ phase = "work" => text[run] \subseteq links \cup crossed
    /\ phase = "write" => \A u \in links : PlatformOf[u] \in closed
    /\ \A u \in links : u \in todo \cup flight \cup kept \cup handled \/ PlatformOf[u] \in crashed
    /\ \A u \in links : PlatformOf[u] \in closed \cap crashed => u \in kept
    /\ \A u \in kept : PlatformOf[u] \in closed
    /\ \A u \in kept \cap handled : PlatformOf[u] \in crashed

(* The places where a link is still to be dealt with. *)
InFiles(F) == UNION {Waiting(f) : f \in F}
InCall == (content \ (IF RunHas(target) THEN Gone ELSE {})) \cup dropped
InReturn == IF phase = "write" THEN kept ELSE {}
Settled == InReturn \cup done \cup cut \cup crossed

FoundOK ==
    /\ step # "write" => asked \subseteq InFiles(File) \cup Settled
    /\ step # "none" => asked \subseteq InFiles(File \ {target}) \cup InCall \cup Settled

QueueInv == TypeInv /\ RetryOK /\ LinksOK /\ FoundOK

-----------------------------------------------------------------------------
(* Types. *)
ClientTyped ==
    /\ step \in {"none", "open", "write"}
    /\ op \in Call \cup {"none", "cleanup"} /\ target \in File \cup {None}
    /\ content \subseteq Url /\ fresh \subseteq content /\ dropped \subseteq Url
    /\ step = "none" <=> target = None
    /\ step = "none" => op = "none" /\ content = {} /\ fresh = {} /\ dropped = {}
    /\ step # "none" => op # "none"
    /\ op \in {"append", "retry"} => target \in Queue
    /\ op = "cleanup" => target = "failed"

RunTyped ==
    /\ run \in Queue \cup {None} /\ phase \in {"none", "parse", "work", "write"}
    /\ links \subseteq Url /\ crashed \subseteq Platform /\ closed \subseteq Platform
    /\ stop \in BOOLEAN
    /\ run = None <=> phase = "none"
    /\ ~OnWork => /\ links = {} /\ todo = {} /\ flight = {} /\ crashed = {} /\ closed = {}
                  /\ kept = {} /\ handled = {}
    /\ \A p \in Platform : IsFiniteSet(Of(p, flight))
    /\ RunOK

BoundsTyped ==
    calls \in 0..MaxCalls /\ runs \in 0..MaxRuns /\ crashes \in 0..MaxCrashes

HistoryTyped ==
    asked \subseteq Url /\ done \subseteq Url /\ cut \subseteq Url /\ crossed \subseteq Url

TextTyped == text \in [File -> SUBSET Url]

LEMMA Parts == TypeInv <=> TextTyped /\ ClientTyped /\ RunTyped /\ BoundsTyped /\ HistoryTyped
BY DEF TypeInv, QueuesTypeOK, PhaseOK, TextTyped, ClientTyped, RunTyped, BoundsTyped, HistoryTyped

LEMMA PartsNext ==
    TypeInv' <=> TextTyped' /\ ClientTyped' /\ RunTyped' /\ BoundsTyped' /\ HistoryTyped'
BY DEF TypeInv, QueuesTypeOK, PhaseOK, TextTyped, ClientTyped, RunTyped, BoundsTyped, HistoryTyped

LEMMA Nowhere == None \notin File /\ File = {"normal", "force", "failed"} /\ Queue = {"normal", "force"}
BY QueuesOK DEF QueuesOK, File, Queue

LEMMA PlatformTyped == \A u \in Url : PlatformOf[u] \in Platform
BY QueuesOK DEF QueuesOK

LEMMA InitType == Init => TypeInv
<1> SUFFICES ASSUME Init PROVE TypeInv
  OBVIOUS
<1>1. \A p \in Platform : Of(p, flight) = {}
  BY DEF Init, Of
<1>2. IsFiniteSet({}) /\ Cardinality({}) = 0
  BY FS_EmptySet
<1>3. RunTyped
  <2>1. RunOK
    BY <1>1, <1>2, QueuesOK DEF Init, RunOK, QueuesOK
  <2> QED
    BY <1>1, <1>2, <2>1 DEF Init, RunTyped, OnWork
<1>4. TextTyped /\ ClientTyped /\ HistoryTyped
  BY Nowhere DEF Init, TextTyped, ClientTyped, HistoryTyped
<1>5. BoundsTyped
  BY QueuesOK DEF Init, BoundsTyped, QueuesOK
<1> QED
  BY <1>3, <1>4, <1>5, Parts

(* A client step leaves the run alone, and a run step the client. *)
LEMMA RunFrame == RunTyped /\ UNCHANGED runner => RunTyped'
BY DEF RunTyped, runner, work, OnWork, RunOK, Of

LEMMA ClientFrame == ClientTyped /\ UNCHANGED client => ClientTyped'
BY DEF ClientTyped, client

LEMMA ClientTypes ==
    ASSUME TypeInv, ClientStep
    PROVE  TypeInv'
<1> USE DEF history, bounds
<1>a. TextTyped /\ ClientTyped /\ RunTyped /\ BoundsTyped /\ HistoryTyped
  BY Parts
<1>b. UNCHANGED runner
  BY DEF ClientStep, Append, Save, Retry, Clear, Replace, Begin, Open, Write
<1>c. RunTyped'
  BY <1>a, <1>b, RunFrame
<1>1. ASSUME NEW o \in Call, NEW f \in File, Begin(o, f), content' \subseteq Url, dropped' \subseteq Url,
             fresh' \subseteq content', crossed' \subseteq Url,
             o \in {"append", "retry"} => f \in Queue
      PROVE  TypeInv'
  <2>1. ClientTyped'
    BY <1>1, Nowhere DEF Begin, ClientTyped, Call
  <2>2. TextTyped' /\ BoundsTyped' /\ HistoryTyped'
    BY <1>1, <1>a, QueuesOK DEF Begin, TextTyped, BoundsTyped, HistoryTyped, QueuesOK
  <2> QED
    BY <1>c, <2>1, <2>2, PartsNext
<1>2. ASSUME NEW q \in Queue, NEW u \in Url, Append(q, u) PROVE TypeInv'
  BY <1>1, <1>2, <1>a, Nowhere DEF Append, TextTyped, HistoryTyped, Call
<1>3. ASSUME NEW o \in Call, o \notin {"append", "retry"}, NEW f \in File, NEW U \in SUBSET Url,
             Replace(o, f, U)
      PROVE  TypeInv'
  <2>1. text[f] \subseteq Url /\ crossed \subseteq Url
    BY <1>a DEF TextTyped, HistoryTyped
  <2>2. /\ Begin(o, f) /\ content' \subseteq Url /\ dropped' \subseteq Url
        /\ fresh' \subseteq content' /\ crossed' \subseteq Url
    BY <1>3, <2>1 DEF Replace
  <2> QED
    BY <1>1, <1>3, <2>2
<1>4. ASSUME NEW q \in Queue, Retry(q) PROVE TypeInv'
  BY <1>1, <1>4, <1>a, Nowhere DEF Retry, TextTyped, HistoryTyped, Call
<1>5. ASSUME Clear PROVE TypeInv'
  BY <1>3, <1>5, Nowhere DEF Clear, Call
<1>8. ASSUME NEW f \in File, NEW U \in SUBSET Url, Save(f, U) PROVE TypeInv'
  BY <1>3, <1>8 DEF Save, Call
<1>6. ASSUME Open PROVE TypeInv'
  <2>1. ClientTyped' /\ TextTyped' /\ BoundsTyped' /\ HistoryTyped'
    BY <1>6, <1>a DEF Open, ClientTyped, TextTyped, BoundsTyped, HistoryTyped
  <2> QED
    BY <1>c, <2>1, PartsNext
<1>7. ASSUME Write PROVE TypeInv'
  <2>1. target \in File
    BY <1>7, <1>a DEF Write, ClientTyped
  <2>2. TextTyped'
    BY <1>7, <2>1, <1>a DEF Write, TextTyped, ClientTyped
  <2>3. ClientTyped'
    <3>1. CASE op = "retry"
      BY <1>7, <3>1, Nowhere DEF Write, Written, ClearNext, ClientTyped
    <3>2. CASE op # "retry"
      BY <1>7, <3>2, Nowhere DEF Write, Written, ClientTyped
    <3> QED
      BY <3>1, <3>2
  <2>4. BoundsTyped' /\ HistoryTyped'
    BY <1>7, <1>a DEF Write, ClientTyped, BoundsTyped, HistoryTyped
  <2> QED
    BY <1>c, <2>2, <2>3, <2>4, PartsNext
<1> QED
  BY <1>2, <1>4, <1>5, <1>6, <1>7, <1>8 DEF ClientStep

(* No worker more than a platform may have, when one begins or ends. *)
LEMMA Taken ==
    ASSUME RunTyped, NEW u \in Url, Cardinality(Of(PlatformOf[u], flight)) < Workers,
           flight' = flight \cup {u}
    PROVE  \A p \in Platform : IsFiniteSet(Of(p, flight')) /\ Cardinality(Of(p, flight')) <= Workers
<1> SUFFICES ASSUME NEW p \in Platform
             PROVE  IsFiniteSet(Of(p, flight')) /\ Cardinality(Of(p, flight')) <= Workers
  OBVIOUS
<1>0. IsFiniteSet(Of(p, flight)) /\ Cardinality(Of(p, flight)) <= Workers
  BY DEF RunTyped, RunOK
<1>1. CASE PlatformOf[u] = p
  <2>1. Of(p, flight') = Of(p, flight) \cup {u}
    BY <1>1 DEF Of
  <2>2. Cardinality(Of(p, flight)) \in Nat
    BY <1>0, FS_CardinalityType
  <2> QED
    <3>1. /\ IsFiniteSet(Of(p, flight) \cup {u})
          /\ Cardinality(Of(p, flight) \cup {u}) \in {Cardinality(Of(p, flight)), Cardinality(Of(p, flight)) + 1}
      BY <1>0, FS_AddElement
    <3>2. Cardinality(Of(p, flight)) < Workers /\ Workers \in Nat
      BY <1>1, QueuesOK DEF QueuesOK
    <3>3. ASSUME NEW k \in Nat, NEW j, j \in {k, k + 1}, k < Workers PROVE j <= Workers
      BY <3>2, <3>3
    <3> QED
      BY <2>1, <2>2, <3>1, <3>2, <3>3
<1>2. CASE PlatformOf[u] # p
  <2>1. Of(p, flight') = Of(p, flight)
    BY <1>2 DEF Of
  <2> QED
    BY <1>0, <2>1
<1> QED
  BY <1>1, <1>2

LEMMA Fewer ==
    ASSUME RunTyped, NEW F \in SUBSET flight
    PROVE  \A p \in Platform : IsFiniteSet(Of(p, F)) /\ Cardinality(Of(p, F)) <= Workers
<1> SUFFICES ASSUME NEW p \in Platform
             PROVE  IsFiniteSet(Of(p, F)) /\ Cardinality(Of(p, F)) <= Workers
  OBVIOUS
<1>0. IsFiniteSet(Of(p, flight)) /\ Cardinality(Of(p, flight)) <= Workers
  BY DEF RunTyped, RunOK
<1>1. Of(p, F) \in SUBSET Of(p, flight)
  BY DEF Of
<1>2. /\ IsFiniteSet(Of(p, F)) /\ Cardinality(Of(p, F)) <= Cardinality(Of(p, flight))
      /\ Cardinality(Of(p, F)) \in Nat /\ Cardinality(Of(p, flight)) \in Nat
  BY <1>0, <1>1, FS_Subset, FS_CardinalityType
<1> QED
  BY <1>0, <1>2, QueuesOK DEF QueuesOK

LEMMA RunTypes ==
    ASSUME TypeInv, RunStep
    PROVE  TypeInv'
<1> USE DEF history, bounds
<1>a. TextTyped /\ ClientTyped /\ RunTyped /\ BoundsTyped /\ HistoryTyped
  BY Parts
<1>b. UNCHANGED client /\ UNCHANGED bounds
  BY DEF RunStep, ParseLinks, OpenBack, WriteBack, Take, Ingested, Failed, ManagerDies, Finish, Close
<1>c. ClientTyped' /\ BoundsTyped'
  BY <1>a, <1>b, ClientFrame DEF BoundsTyped
<1>d. ASSUME TextTyped', RunTyped', HistoryTyped' PROVE TypeInv'
  BY <1>c, <1>d, PartsNext
<1>e. /\ todo \cup flight \cup kept \cup handled \subseteq links /\ links \subseteq Url
      /\ todo \cap flight = {} /\ handled \cap (todo \cup flight) = {}
      /\ \A p \in closed : Of(p, todo \cup flight) = {}
      /\ flight # {} \/ links # {} => OnWork
  BY <1>a DEF RunTyped, RunOK
<1>1. ASSUME ParseLinks PROVE TypeInv'
  <2>0. phase = "parse" /\ run \in Queue /\ ~OnWork
    BY <1>1, <1>a DEF ParseLinks, RunTyped, OnWork
  <2>1. TextTyped' /\ HistoryTyped' /\ text[run] \subseteq Url
    BY <1>1, <1>a, <2>0, Nowhere DEF ParseLinks, TextTyped, HistoryTyped
  <2>2. RunTyped'
    <3>1. CASE text[run] = {}
      BY <1>1, <1>a, <2>0, <3>1 DEF ParseLinks, RunTyped, RunOK, OnWork, Of
    <3>2. CASE text[run] # {}
      BY <1>1, <1>a, <2>0, <2>1, <3>2, Nowhere DEF ParseLinks, RunTyped, RunOK, OnWork, Of
    <3> QED
      BY <3>1, <3>2
  <2> QED
    BY <1>d, <2>1, <2>2
<1>2. ASSUME NEW u \in Url, Take(u) PROVE TypeInv'
  <2>1. \A p \in Platform : IsFiniteSet(Of(p, flight')) /\ Cardinality(Of(p, flight')) <= Workers
    BY <1>2, <1>a, Taken DEF Take
  <2>2. TextTyped' /\ HistoryTyped'
    BY <1>2, <1>a DEF Take, TextTyped, HistoryTyped
  <2>3. RunOK'
    <3>1. PlatformOf[u] \notin closed
      BY <1>2 DEF Take, Managed
    <3> QED
      BY <1>2, <1>e, <2>1, <3>1 DEF Take, AfterTake, RunOK, Of
  <2>4. RunTyped'
    BY <1>2, <1>a, <2>1, <2>3 DEF Take, RunTyped, OnWork, Managed
  <2> QED
    BY <1>d, <2>2, <2>4
<1>3. ASSUME NEW u \in Url, Ingested(u) \/ Failed(u) \/ ManagerDies(u) PROVE TypeInv'
  <2>0. /\ u \in flight /\ flight' = flight \ {u} /\ handled' \in {handled, handled \cup {u}}
        /\ crashed' \in {crashed, crashed \cup {PlatformOf[u]}}
        /\ UNCHANGED <<run, phase, stop, links, todo, closed, kept>>
    BY <1>3 DEF Ingested, Failed, ManagerDies, Finish
  <2>1. \A p \in Platform : IsFiniteSet(Of(p, flight')) /\ Cardinality(Of(p, flight')) <= Workers
    BY <2>0, <1>a, Fewer
  <2>2. TextTyped' /\ HistoryTyped'
    BY <1>3, <1>a, Nowhere DEF Ingested, Failed, ManagerDies, Finish, TextTyped, HistoryTyped
  <2>3. RunOK'
    BY <2>0, <2>1, <1>e DEF RunOK, Of
  <2>4. RunTyped'
    BY <2>0, <2>1, <2>3, <1>a, <1>e, PlatformTyped DEF RunTyped, OnWork
  <2> QED
    BY <1>d, <2>2, <2>4
<1>4. ASSUME NEW p \in Platform, Close(p) PROVE TypeInv'
  <2>1. TextTyped' /\ HistoryTyped'
    BY <1>4, <1>a DEF Close, TextTyped, HistoryTyped
  <2>2. Remaining(p) \subseteq links
    BY <1>e DEF Remaining, Of
  <2>3. RunOK'
    <3>1. Of(p, todo' \cup flight') = {}
      BY <1>4 DEF Close, Of
    <3>2. \A r \in closed' : Of(r, todo' \cup flight') = {}
      BY <1>4, <1>e, <3>1 DEF Close, Of
    <3> QED
      BY <1>4, <1>a, <1>e, <2>2, <3>2 DEF Close, RunTyped, RunOK
  <2>4. RunTyped'
    BY <1>4, <1>a, <2>3 DEF Close, RunTyped, OnWork
  <2> QED
    BY <1>d, <2>1, <2>4
<1>5. ASSUME OpenBack PROVE TypeInv'
  <2>1. TextTyped' /\ HistoryTyped'
    BY <1>5, <1>a DEF OpenBack, TextTyped, HistoryTyped
  <2>2. RunTyped'
    BY <1>5, <1>a DEF OpenBack, work, RunTyped, RunOK, OnWork, Of
  <2> QED
    BY <1>d, <2>1, <2>2
<1>6. ASSUME WriteBack PROVE TypeInv'
  <2>0. run \in File
    BY <1>6, <1>a, Nowhere DEF WriteBack, RunTyped
  <2>1. TextTyped' /\ HistoryTyped'
    BY <1>6, <1>a, <1>e, <2>0 DEF WriteBack, TextTyped, HistoryTyped
  <2>2. \A p \in Platform : Of(p, flight') = {} /\ IsFiniteSet(Of(p, flight'))
                            /\ Cardinality(Of(p, flight')) = 0
    BY <1>6, FS_EmptySet DEF WriteBack, NoWork, Of
  <2>3. RunTyped'
    BY <1>6, <1>a, <2>2, QueuesOK DEF WriteBack, NoWork, RunTyped, RunOK, OnWork, QueuesOK
  <2> QED
    BY <1>d, <2>1, <2>3
<1> QED
  BY <1>1, <1>2, <1>3, <1>4, <1>5, <1>6 DEF RunStep

LEMMA NextType == TypeInv /\ [Next]_vars => TypeInv'
<1> SUFFICES ASSUME TypeInv, [Next]_vars PROVE TypeInv'
  OBVIOUS
<1> USE DEF history, bounds
<1>a. TextTyped /\ ClientTyped /\ RunTyped /\ BoundsTyped /\ HistoryTyped
  BY Parts
<1>1. CASE ClientStep
  BY <1>1, ClientTypes
<1>2. CASE RunStep
  BY <1>2, RunTypes
<1>3. ASSUME NEW q \in Queue, Start(q) PROVE TypeInv'
  <2>1. TextTyped' /\ ClientTyped' /\ HistoryTyped'
    BY <1>3, <1>a, ClientFrame DEF Start, TextTyped, HistoryTyped
  <2>2. BoundsTyped'
    BY <1>3, <1>a, QueuesOK DEF Start, BoundsTyped, QueuesOK
  <2>3. RunTyped'
    BY <1>3, <1>a, Nowhere DEF Start, work, RunTyped, RunOK, OnWork, Of
  <2> QED
    BY <2>1, <2>2, <2>3, PartsNext
<1>4. ASSUME RequestStop PROVE TypeInv'
  <2>1. TextTyped' /\ ClientTyped' /\ HistoryTyped' /\ BoundsTyped'
    BY <1>4, <1>a, ClientFrame DEF RequestStop, TextTyped, HistoryTyped, BoundsTyped
  <2>2. RunTyped'
    BY <1>4, <1>a DEF RequestStop, work, RunTyped, RunOK, OnWork, Of
  <2> QED
    BY <2>1, <2>2, PartsNext
<1>5. ASSUME Crash PROVE TypeInv'
  <2>1. TextTyped' /\ ClientTyped'
    BY <1>5, <1>a, Nowhere DEF Crash, TextTyped, ClientTyped
  <2>2. BoundsTyped'
    BY <1>5, <1>a, QueuesOK DEF Crash, BoundsTyped, QueuesOK
  <2>3. HistoryTyped'
    <3>1. content \subseteq Url /\ dropped \subseteq Url /\ kept \subseteq Url
      BY <1>a DEF ClientTyped, RunTyped, RunOK
    <3> QED
      BY <1>5, <1>a, <3>1 DEF Crash, HistoryTyped
  <2>4. \A p \in Platform : Of(p, flight') = {} /\ IsFiniteSet(Of(p, flight'))
                            /\ Cardinality(Of(p, flight')) = 0
    BY <1>5, FS_EmptySet DEF Crash, NoWork, Of
  <2>5. RunTyped'
    <3>1. run' = None /\ phase' = "none" /\ stop' = FALSE /\ NoWork
      BY <1>5 DEF Crash
    <3>2. \A p \in Platform : Cardinality(Of(p, flight')) <= Workers
      BY <2>4, QueuesOK DEF QueuesOK
    <3>3. RunOK'
      BY <3>1, <3>2 DEF NoWork, RunOK
    <3> QED
      BY <3>1, <3>3, <2>4 DEF NoWork, RunTyped, OnWork
  <2> QED
    BY <2>1, <2>2, <2>3, <2>5, PartsNext
<1>6. CASE UNCHANGED vars
  <2>1. TextTyped' /\ ClientTyped' /\ RunTyped' /\ BoundsTyped' /\ HistoryTyped'
    BY <1>6, <1>a, ClientFrame, RunFrame DEF vars, TextTyped, BoundsTyped, HistoryTyped
  <2> QED
    BY <2>1, PartsNext
<1> QED
  BY <1>1, <1>2, <1>3, <1>4, <1>5, <1>6 DEF Next, Quiet

(* Files, calls and runs are well typed; each link of a run is in one      *)
(* place; and no platform has more workers than num_workers.               *)
THEOREM QueuesTypeCorrect == Spec => []QueuesTypeOK
<1>1. TypeInv => QueuesTypeOK
  BY DEF TypeInv
<1> QED
  BY <1>1, InitType, NextType, PTL DEF Spec

-----------------------------------------------------------------------------
(* What is known of the links in every state. *)
Known == TextTyped /\ ClientTyped /\ RunTyped /\ RetryOK /\ LinksOK /\ FoundOK

LEMMA InvKnown == QueueInv => Known
BY Parts DEF QueueInv, Known

(* The first look of a call at its file, and what it has in its hands. *)
LEMMA Begun ==
    ASSUME NEW o, NEW f, Begin(o, f)
    PROVE  /\ step = "none" /\ step' = "open" /\ op' = o /\ target' = f
           /\ UNCHANGED <<text, runner, asked, done, cut>>
BY DEF Begin

(* The file of a run is a queue; the failed links are in none. *)
LEMMA Worked ==
    ASSUME RunTyped
    PROVE  /\ \A f : RunHas(f) => f \in Queue /\ f \in File /\ f # "failed" /\ f = run /\ OnWork
           /\ OnWork => RunHas(run) /\ run # None
BY Nowhere DEF RunTyped, RunHas, OnWork

LEMMA RetryNext ==
    ASSUME Known, [Next]_vars
    PROVE  RetryOK'
<1> USE DEF history, bounds
<1>a. TextTyped /\ ClientTyped /\ RunTyped /\ RetryOK
  BY DEF Known
<1>0. CASE op' # "retry"
  BY <1>0 DEF RetryOK
<1>1. ASSUME NEW q \in Queue, Retry(q) PROVE RetryOK'
  BY <1>1 DEF Retry, Begin, RetryOK
<1>2. ASSUME NEW o, NEW f \in File, Begin(o, f), o # "retry" PROVE RetryOK'
  BY <1>2, <1>0 DEF Begin
<1>3. ASSUME Open PROVE RetryOK'
  <2>1. text'["failed"] \subseteq text["failed"]
    BY <1>3, <1>a, Nowhere DEF Open, TextTyped, ClientTyped
  <2> QED
    BY <1>3, <1>a, <2>1 DEF Open, RetryOK
<1>4. ASSUME Write PROVE RetryOK'
  BY <1>4, <1>0 DEF Write, Written, ClearNext
<1>5. ASSUME NEW u \in Url, Failed(u) PROVE RetryOK'
  <2>1. text'["failed"] = text["failed"] \cup {u} /\ UNCHANGED client
    BY <1>5, <1>a, Nowhere DEF Failed, Finish, TextTyped
  <2>2. op = "retry" => CallHas("failed")
    BY <1>a DEF ClientTyped, CallHas
  <2> QED
    BY <1>5, <1>a, <2>1, <2>2 DEF Failed, client, RetryOK
<1>6. ASSUME UNCHANGED client, crossed \subseteq crossed', text'["failed"] = text["failed"] PROVE RetryOK'
  BY <1>6, <1>a DEF client, RetryOK
<1>7. ASSUME OpenBack \/ WriteBack PROVE RetryOK'
  <2>1. run \in Queue /\ run # "failed"
    BY <1>7, <1>a, Nowhere DEF OpenBack, WriteBack, RunTyped
  <2>2. text'["failed"] = text["failed"]
    BY <1>7, <1>a, <2>1, Nowhere DEF OpenBack, WriteBack, TextTyped
  <2> QED
    BY <1>6, <1>7, <2>2 DEF OpenBack, WriteBack
<1>8. CASE RunStep
  <2>1. ASSUME ParseLinks PROVE RetryOK'
    BY <2>1, <1>6 DEF ParseLinks
  <2>2. ASSUME NEW u \in Url, Take(u) \/ Ingested(u) \/ ManagerDies(u) PROVE RetryOK'
    BY <2>2, <1>6 DEF Take, Ingested, ManagerDies, Finish
  <2>3. ASSUME NEW p \in Platform, Close(p) PROVE RetryOK'
    BY <2>3, <1>6 DEF Close
  <2> QED
    BY <1>8, <1>5, <1>7, <2>1, <2>2, <2>3 DEF RunStep
<1>9. CASE ClientStep
  <2>1. ASSUME NEW q \in Queue, NEW u \in Url, Append(q, u) PROVE RetryOK'
    BY <2>1, <1>2, Nowhere DEF Append
  <2>2. ASSUME NEW f \in File, NEW U \in SUBSET Url, Save(f, U) PROVE RetryOK'
    BY <2>2, <1>2 DEF Save, Replace
  <2>3. ASSUME Clear PROVE RetryOK'
    BY <2>3, <1>2, Nowhere DEF Clear, Replace
  <2> QED
    BY <1>9, <1>1, <1>3, <1>4, <2>1, <2>2, <2>3 DEF ClientStep
<1>10. CASE Crash
  BY <1>0, <1>10 DEF Crash
<1>11. CASE RequestStop \/ UNCHANGED vars \/ \E q \in Queue : Start(q)
  BY <1>6, <1>11 DEF RequestStop, Start, vars
<1> QED
  BY <1>8, <1>9, <1>10, <1>11 DEF Next, Quiet

(* A step that changes nothing of the run. *)
LEMMA LinksFrame ==
    ASSUME LinksOK, UNCHANGED <<run, phase, work>>, crossed \subseteq crossed',
           phase = "work" => text'[run] \subseteq text[run] \cup links \cup crossed'
    PROVE  LinksOK'
BY DEF LinksOK, work

LEMMA LinksNext ==
    ASSUME Known, [Next]_vars
    PROVE  LinksOK'
<1> USE DEF history, bounds
<1>a. TextTyped /\ ClientTyped /\ RunTyped /\ LinksOK
  BY DEF Known
<1>b. OnWork => run \in Queue /\ run # None /\ run # "failed" /\ run \in File
  BY <1>a, Nowhere DEF OnWork, RunTyped
<1>d. /\ todo \cup flight \cup kept \cup handled \subseteq links /\ links \subseteq Url
      /\ todo \cap flight = {} /\ handled \cap (todo \cup flight) = {}
      /\ \A p \in closed : Of(p, todo \cup flight) = {}
      /\ links # {} => OnWork
  BY <1>a DEF RunTyped, RunOK
<1>0. ASSUME UNCHANGED <<text, runner>>, crossed \subseteq crossed' PROVE LinksOK'
  BY <1>0, <1>a, LinksFrame DEF runner
<1>1. ASSUME ClientStep PROVE LinksOK'
  <2>1. ASSUME NEW o, NEW f, NEW U, Replace(o, f, U) PROVE LinksOK'
    BY <2>1, <1>0, Begun DEF Replace
  <2>2. ASSUME NEW q, NEW u, Append(q, u) PROVE LinksOK'
    BY <2>2, <1>0, Begun DEF Append
  <2>3. ASSUME NEW q, Retry(q) PROVE LinksOK'
    BY <2>3, <1>0, Begun DEF Retry
  <2>4. ASSUME Open PROVE LinksOK'
    <3>1. phase = "work" => text'[run] \subseteq text[run]
      BY <2>4, <1>a, <1>b DEF Open, TextTyped, ClientTyped, OnWork
    <3> QED
      BY <2>4, <3>1, <1>a, LinksFrame DEF Open, runner
  <2>5. ASSUME Write PROVE LinksOK'
    <3>1. crossed \subseteq crossed' /\ (RunHas(target) => content \subseteq links \cup crossed')
      BY <2>5 DEF Write
    <3>2. phase = "work" => text'[run] \subseteq text[run] \cup links \cup crossed'
      <4>1. CASE run = target
        <5>1. text'[target] \subseteq content \cup text[target]
          BY <2>5, <1>a DEF Write, TextTyped, ClientTyped
        <5> QED
          BY <3>1, <4>1, <5>1 DEF RunHas
      <4>2. CASE run # target
        BY <2>5, <1>a, <1>b, <4>2 DEF Write, TextTyped, OnWork
      <4> QED
        BY <4>1, <4>2
    <3> QED
      BY <2>5, <3>1, <3>2, <1>a, LinksFrame DEF Write, runner
  <2> QED
    BY <1>1, <2>1, <2>2, <2>3, <2>4, <2>5 DEF ClientStep, Save, Clear
<1>2. ASSUME ParseLinks PROVE LinksOK'
  <2>1. phase = "parse" /\ ~OnWork
    BY <1>2 DEF ParseLinks, OnWork
  <2>2. closed = {} /\ crashed = {} /\ kept = {} /\ handled = {} /\ links = {}
    BY <2>1, <1>a DEF RunTyped
  <2> QED
    BY <1>2, <2>1, <2>2 DEF ParseLinks, LinksOK
<1>3. ASSUME NEW u \in Url, Take(u) PROVE LinksOK'
  BY <1>3, <1>a DEF Take, AfterTake, LinksOK
<1>4. ASSUME NEW u \in Url, Ingested(u) \/ Failed(u) \/ ManagerDies(u) PROVE LinksOK'
  <2>0. /\ u \in flight /\ flight' = flight \ {u} /\ UNCHANGED <<run, phase, links, todo, closed, kept>>
        /\ \/ handled' = handled \cup {u} /\ crashed' = crashed
           \/ handled' = handled /\ crashed' = crashed \cup {PlatformOf[u]}
        /\ crossed \subseteq crossed'
    BY <1>4 DEF Ingested, Failed, ManagerDies, Finish
  <2>1. u \in links /\ PlatformOf[u] \notin closed /\ u \notin kept
    <3>1. u \in links /\ u \in Of(PlatformOf[u], todo \cup flight)
      BY <2>0, <1>d DEF Of
    <3> QED
      BY <3>1, <1>a, <1>d DEF LinksOK
  <2>2. OnWork /\ phase = "work"
    BY <2>1, <1>a, <1>d DEF OnWork, LinksOK
  <2>3. text'[run] = text[run]
    BY <1>4, <1>a, <1>b, <2>2, Nowhere DEF Ingested, Failed, ManagerDies, TextTyped
  <2>5. \A x \in links : x \in todo' \cup flight' \cup kept' \cup handled' \/ PlatformOf[x] \in crashed'
    BY <2>0, <1>a DEF LinksOK
  <2> QED
    BY <2>0, <2>1, <2>2, <2>3, <2>5, <1>a DEF LinksOK
<1>5. ASSUME NEW p \in Platform, Close(p) PROVE LinksOK'
  <2>0. /\ phase = "work" /\ p \notin closed /\ Of(p, flight) = {}
        /\ closed' = closed \cup {p} /\ kept' = kept \cup Remaining(p) /\ todo' = todo \ Of(p, todo)
        /\ UNCHANGED <<text, run, phase, links, flight, crashed, handled, crossed>>
    BY <1>5 DEF Close
  <2>1. /\ Remaining(p) \subseteq Of(p, links)
        /\ p \in crashed => Remaining(p) = Of(p, links)
        /\ p \notin crashed => Remaining(p) = Of(p, todo)
    BY <1>d DEF Remaining, Of
  <2>2. \A x \in links : x \in todo' \cup flight' \cup kept' \cup handled' \/ PlatformOf[x] \in crashed'
    BY <2>0, <2>1, <1>a DEF LinksOK, Of
  <2>3. \A x \in links : PlatformOf[x] \in closed' \cap crashed' => x \in kept'
    BY <2>0, <2>1, <1>a DEF LinksOK, Of
  <2>4. \A x \in kept' : PlatformOf[x] \in closed'
    BY <2>0, <2>1, <1>a DEF LinksOK, Of
  <2>5. \A x \in kept' \cap handled' : PlatformOf[x] \in crashed'
    BY <2>0, <2>1, <1>a, <1>d DEF LinksOK, Of
  <2> QED
    BY <2>0, <2>2, <2>3, <2>4, <2>5, <1>a DEF LinksOK
<1>6. ASSUME OpenBack PROVE LinksOK'
  BY <1>6, <1>a DEF OpenBack, work, LinksOK
<1>7. ASSUME NoWork, phase' = "none" PROVE LinksOK'
  BY <1>7 DEF NoWork, LinksOK
<1>8. ASSUME NEW q \in Queue, Start(q) PROVE LinksOK'
  <2>1. ~OnWork
    BY <1>8, <1>a DEF Start, RunTyped, OnWork
  <2>2. closed = {} /\ crashed = {} /\ kept = {} /\ handled = {} /\ links = {}
    BY <2>1, <1>a DEF RunTyped
  <2> QED
    BY <1>8, <2>2 DEF Start, work, LinksOK
<1>9. CASE RequestStop \/ UNCHANGED vars
  BY <1>9, <1>a, LinksFrame DEF RequestStop, vars, runner
<1>10. ASSUME RunStep PROVE LinksOK'
  BY <1>2, <1>3, <1>4, <1>5, <1>6, <1>7, <1>10 DEF RunStep, WriteBack
<1>11. ASSUME Crash PROVE LinksOK'
  BY <1>7, <1>11 DEF Crash
<1> QED
  BY <1>1, <1>8, <1>9, <1>10, <1>11 DEF Next, Quiet

-----------------------------------------------------------------------------
(* Every link is found. *)
LEMMA Files ==
    /\ \A x, F : x \in InFiles(F) <=> \E f \in F : x \in Waiting(f)
    /\ \A x, F : (x \in InFiles(F))' <=> \E f \in F : x \in Waiting(f)'
BY DEF InFiles

(* What waits in a file stands in it; only the run's own file may hold     *)
(* more than waits in it.                                                  *)
LEMMA WaitingIn ==
    /\ \A f : Waiting(f) \subseteq text[f]
    /\ \A f : RunHas(f) => Waiting(f) \cap Gone = {}
    /\ \A f : ~RunHas(f) => Waiting(f) = text[f]
BY DEF Waiting

(* A call begins on a file whose links it will write or has been told to   *)
(* drop, but for those that wait elsewhere too or have crossed.            *)
LEMMA FoundBegin ==
    ASSUME Known, NEW o, NEW f \in File, Begin(o, f), crossed \subseteq crossed',
           text[f] \subseteq content' \cup dropped' \cup Elsewhere(f) \cup crossed'
    PROVE  FoundOK'
<1>1. /\ step = "none" /\ step' = "open" /\ target' = f
      /\ UNCHANGED <<text, run, phase, kept, handled, crashed, asked, done, cut>>
  BY DEF Begin, runner, work
<1>2. asked \subseteq InFiles(File) \cup Settled
  BY <1>1 DEF Known, FoundOK
<1>3. (\A g : Waiting(g)' = Waiting(g)) /\ Gone' = Gone /\ Settled \subseteq Settled'
  BY <1>1 DEF Waiting, RunHas, Gone, Settled, InReturn
<1>4. asked' \subseteq InFiles(File)' \cup Settled'
  BY <1>1, <1>2, <1>3 DEF InFiles
<1>5. ASSUME NEW x \in asked PROVE x \in (InFiles(File \ {target}) \cup InCall \cup Settled)'
  <2>1. CASE x \in Settled
    BY <1>3, <2>1
  <2>2. CASE \E g \in File \ {f} : x \in Waiting(g)
    BY <1>1, <1>3, <2>2 DEF InFiles
  <2>3. CASE x \in Waiting(f)
    <3>1. x \in text[f] /\ (RunHas(f)' => x \notin Gone')
      BY <1>1, <1>3, <2>3, WaitingIn DEF RunHas
    <3>2. x \in Elsewhere(f) => \E g \in File \ {f} : x \in Waiting(g)
      BY DEF Elsewhere
    <3>3. x \in content' \cup dropped' => x \in InCall'
      BY <1>1, <3>1 DEF InCall, RunHas
    <3> QED
      BY <2>2, <3>1, <3>2, <3>3 DEF Settled
  <2> QED
    BY <1>2, <2>1, <2>2, <2>3, Files
<1>6. step' # "none" => asked' \subseteq (InFiles(File \ {target}) \cup InCall \cup Settled)'
  BY <1>1, <1>5
<1> QED
  BY <1>1, <1>4, <1>6 DEF FoundOK

(* A step of another than the call: what waits in a file waits there       *)
(* still, or is settled by it, or waits in a file no call has; and what    *)
(* the run keeps does not count any longer only once it is in its file.    *)
LEMMA FoundStep ==
    ASSUME Known, UNCHANGED <<client, asked>>,
           \A x \in asked : \A f \in File : x \in Waiting(f) =>
               x \in Waiting(f)' \/ x \in Settled' \/ (\E g \in File : g # target /\ x \in Waiting(g)'),
           \A x \in asked \cap Settled : x \in Settled'
               \/ \E g \in File : x \in Waiting(g)' /\ (g = target => x \in InCall'),
           \A x \in asked \cap InCall : step # "none" => x \in InCall' \/ x \in Settled'
               \/ \E g \in File : g # target /\ x \in Waiting(g)'
    PROVE  FoundOK'
<1>1. step' = step /\ target' = target
  BY DEF client
<1>2. ASSUME step # "write", NEW x \in asked PROVE x \in (InFiles(File) \cup Settled)'
  <2>1. x \in Settled \/ \E f \in File : x \in Waiting(f)
    BY <1>2, Files DEF Known, FoundOK
  <2>2. x \in Settled' \/ \E f \in File : x \in Waiting(f)'
    BY <2>1
  <2> QED
    BY <2>2, Files
<1>3. ASSUME step # "none", NEW x \in asked
      PROVE  x \in (InFiles(File \ {target}) \cup InCall \cup Settled)'
  <2>1. x \in Settled \/ x \in InCall \/ \E f \in File : f # target /\ x \in Waiting(f)
    BY <1>3, Files DEF Known, FoundOK
  <2>2. x \in Settled' \/ x \in InCall' \/ \E f \in File : f # target /\ x \in Waiting(f)'
    BY <1>3, <2>1
  <2>3. (\E f \in File : f # target /\ x \in Waiting(f)') => x \in InFiles(File \ {target})'
    BY <1>1 DEF InFiles
  <2> QED
    BY <2>2, <2>3
<1> QED
  BY <1>1, <1>2, <1>3 DEF FoundOK

(* The two steps of a rewrite by a call. *)
LEMMA FoundOpen ==
    ASSUME Known, Open
    PROVE  FoundOK'
<1> USE DEF history, bounds
<1>a. TextTyped /\ ClientTyped /\ FoundOK
  BY DEF Known
<1>1. /\ step = "open" /\ step' = "write" /\ \A f \in File \ {target} : text'[f] = text[f]
      /\ UNCHANGED <<target, content, dropped, run, phase, kept, handled, crashed, asked, done, cut, crossed>>
  BY <1>a DEF Open, TextTyped, runner, work
<1>2. (\A f \in File \ {target} : Waiting(f)' = Waiting(f)) /\ InCall' = InCall /\ Settled' = Settled
  BY <1>1 DEF Waiting, RunHas, Gone, InCall, Settled, InReturn
<1>3. InFiles(File \ {target})' = InFiles(File \ {target})
  BY <1>1, <1>2 DEF InFiles
<1> QED
  BY <1>1, <1>2, <1>3, <1>a DEF FoundOK

LEMMA FoundWrite ==
    ASSUME Known, Write
    PROVE  FoundOK'
<1> USE DEF history, bounds
<1>a. TextTyped /\ ClientTyped /\ RunTyped /\ RetryOK /\ LinksOK /\ FoundOK
  BY DEF Known
<1>0. PICK t \in File : t = target
  BY <1>a DEF Write, ClientTyped
<1>1. /\ target \in File /\ step = "write" /\ content \subseteq text'[target]
      /\ \A f \in File \ {target} : text'[f] = text[f]
      /\ asked' = (asked \ dropped) \cup fresh /\ fresh \subseteq content
      /\ crossed' = crossed \cup (IF RunHas(target) THEN fresh \cup (content \ links) ELSE {})
      /\ UNCHANGED <<run, phase, kept, handled, crashed, closed, links, done, cut>>
      /\ step' \in {"none", "open"}
  BY <1>a DEF Write, Written, ClearNext, ClientTyped, TextTyped, runner, work
<1>2. /\ \A f \in File \ {target} : Waiting(f)' = Waiting(f)
      /\ Settled \subseteq Settled' /\ crossed' \subseteq Settled' /\ Gone' = Gone
  BY <1>1 DEF Waiting, RunHas, Gone, Settled, InReturn
<1>3. ASSUME NEW x \in content, x \in asked', x \in InCall \ dropped \/ x \in fresh
      PROVE  x \in Settled' \/ x \in Waiting(t)'
  <2>1. CASE ~RunHas(target)
    BY <1>0, <1>1, <2>1 DEF Waiting, RunHas
  <2>2. CASE RunHas(target) /\ x \in fresh \cup (content \ links)
    BY <1>1, <1>2, <2>2
  <2>3. CASE RunHas(target) /\ x \notin fresh /\ x \in links
    <3>1. x \notin Gone
      BY <1>1, <1>3, <2>3 DEF InCall
    <3>2. CASE phase = "work"
      BY <1>0, <1>1, <1>2, <2>3, <3>1, <3>2 DEF Waiting, RunHas
    <3>3. CASE phase = "write"
      <4>1. PlatformOf[x] \in closed
        BY <1>a, <2>3, <3>3 DEF LinksOK
      <4>2. x \notin todo \cup flight
        BY <1>a, <2>3, <4>1 DEF RunTyped, RunOK, Of
      <4>3. x \in kept
        BY <1>a, <2>3, <3>1, <4>1, <4>2 DEF LinksOK, Gone
      <4> QED
        BY <1>1, <3>3, <4>3 DEF Settled, InReturn
    <3> QED
      BY <2>3, <3>2, <3>3 DEF RunHas
  <2> QED
    BY <1>3, <2>1, <2>2, <2>3
<1>4. ASSUME NEW x \in asked'
      PROVE  \/ x \in Settled'
             \/ x \in content /\ x \in Waiting(t)'
             \/ \E f \in File \ {target} : x \in Waiting(f)'
  <2>1. CASE x \in fresh
    BY <1>1, <1>3, <2>1
  <2>2. CASE x \in asked /\ x \notin dropped
    <3>1. x \in Settled \/ x \in InCall \/ \E f \in File \ {target} : x \in Waiting(f)
      BY <1>1, <1>a, <2>2, Files DEF FoundOK
    <3>2. x \in InCall => x \in content /\ x \in InCall \ dropped
      BY <2>2 DEF InCall
    <3> QED
      BY <1>2, <1>3, <3>1, <3>2
  <2> QED
    BY <1>1, <2>1, <2>2
<1>5. asked' \subseteq (InFiles(File) \cup Settled)'
  BY <1>0, <1>1, <1>4, Files
<1>6. ASSUME step' = "open", NEW x \in asked'
      PROVE  x \in (InFiles(File \ {target}) \cup InCall \cup Settled)'
  <2>1. op = "retry" /\ target' = "failed" /\ target \in Queue /\ target # "failed"
    BY <1>6, <1>a, Nowhere DEF Write, Written, ClearNext, ClientTyped
  <2>2. text["failed"] \subseteq fresh \cup crossed /\ Waiting("failed") \subseteq text["failed"]
    BY <1>a, <2>1, WaitingIn DEF RetryOK
  <2>3. ASSUME x \in Waiting("failed")' PROVE x \in Settled' \/ x \in Waiting(t)'
    <3>1. x \in fresh \cup crossed
      BY <1>0, <1>2, <2>1, <2>2, <2>3, Nowhere
    <3> QED
      BY <1>1, <1>2, <1>3, <3>1
  <2>4. x \in Settled' \/ \E f \in File : f # "failed" /\ x \in Waiting(f)'
    BY <1>0, <1>1, <1>4, <2>1, <2>3
  <2>5. (\E f \in File : f # "failed" /\ x \in Waiting(f)') => x \in InFiles(File \ {target})'
    BY <2>1 DEF InFiles
  <2> QED
    BY <2>4, <2>5
<1> QED
  BY <1>1, <1>5, <1>6 DEF FoundOK

(* The run opens its file: what waits in it is kept or has crossed. *)
LEMMA FoundOpenBack ==
    ASSUME Known, OpenBack
    PROVE  FoundOK'
<1> USE DEF history, bounds
<1>a. TextTyped /\ RunTyped /\ LinksOK
  BY DEF Known
<1>1. /\ phase = "work" /\ phase' = "write" /\ run \in File
      /\ \A f \in File : f # run => text'[f] = text[f]
      /\ UNCHANGED <<client, asked, done, cut, crossed, run, handled, crashed, kept>>
      /\ \A u \in links : PlatformOf[u] \in closed
  BY <1>a, Nowhere DEF OpenBack, TextTyped, RunTyped, work
<1>2. Settled' = Settled \cup kept /\ Settled = done \cup cut \cup crossed
  BY <1>1 DEF Settled, InReturn
<1>3. ASSUME NEW x \in Waiting(run) PROVE x \in kept \cup crossed
  <2>1. x \in text[run] /\ x \notin Gone
    BY <1>1, <1>3, WaitingIn DEF RunHas
  <2>2. CASE x \in links
    <3>1. PlatformOf[x] \in closed /\ x \notin todo \cup flight
      BY <1>1, <1>a, <2>2 DEF RunTyped, RunOK, Of
    <3> QED
      BY <1>a, <2>1, <2>2, <3>1 DEF LinksOK, Gone
  <2> QED
    BY <1>1, <1>a, <2>1, <2>2 DEF LinksOK
<1>4. \A f \in File : f # run => Waiting(f)' = Waiting(f)
  BY <1>1 DEF Waiting, RunHas, Gone
<1>5. InCall' = InCall
  BY <1>1 DEF InCall, RunHas, Gone, client
<1> QED
  BY <1>1, <1>2, <1>3, <1>4, <1>5, FoundStep

(* The run writes what it keeps; a call that has the file either writes it *)
(* too, or drops it, or it has crossed.                                    *)
LEMMA FoundWriteBack ==
    ASSUME Known, WriteBack
    PROVE  FoundOK'
<1> USE DEF history, bounds
<1>a. TextTyped /\ ClientTyped /\ RunTyped
  BY DEF Known
<1>0. PICK r \in File : r = run
  BY <1>a, Nowhere DEF WriteBack, RunTyped
<1>1. /\ phase = "write" /\ phase' = "none" /\ run' = None /\ kept \subseteq text'[run] /\ run \in File
      /\ \A f \in File : f # run => text'[f] = text[f]
      /\ UNCHANGED <<client, asked, done, cut>>
      /\ crossed' = crossed \cup (IF CallHas(run) THEN kept \ (content \cup dropped) ELSE {})
  BY <1>a, Nowhere DEF WriteBack, RunTyped, TextTyped
<1>2. (\A f : Waiting(f)' = text'[f]) /\ Waiting(run) = {} /\ \A f \in File : f # run => Waiting(f) = text[f]
  BY <1>1 DEF Waiting, RunHas
<1>3. InCall' = content \cup dropped /\ InCall \subseteq InCall'
  BY <1>1 DEF InCall, RunHas, client
<1>4. Settled = kept \cup done \cup cut \cup crossed /\ Settled' = done \cup cut \cup crossed'
  BY <1>1 DEF Settled, InReturn
<1>5. ASSUME NEW x \in kept
      PROVE  x \in Settled' \/ \E g \in File : x \in Waiting(g)' /\ (g = target => x \in InCall')
  <2>1. x \in Waiting(r)'
    BY <1>0, <1>1, <1>2
  <2>2. run = target => CallHas(run)
    BY <1>1, <1>a, Nowhere DEF CallHas, ClientTyped
  <2>3. run = target => x \in content \cup dropped \/ x \in crossed'
    BY <1>1, <2>2
  <2> QED
    BY <1>0, <1>1, <1>3, <1>4, <2>1, <2>3
<1>6. \A x \in Settled : x \in Settled' \/ x \in kept
  BY <1>1, <1>4
<1>7. \A x : \A f \in File : x \in Waiting(f) => x \in Waiting(f)'
  BY <1>1, <1>2
<1> QED
  BY <1>1, <1>3, <1>5, <1>6, <1>7, FoundStep

(* A worker ends: what has been dealt with waits no longer, but is         *)
(* ingested or stands among the failed.                                    *)
LEMMA FoundWorker ==
    ASSUME Known, NEW u \in Url, Ingested(u) \/ Failed(u) \/ ManagerDies(u)
    PROVE  FoundOK'
<1> USE DEF history, bounds
<1>a. TextTyped /\ ClientTyped /\ RunTyped
  BY DEF Known
<1>1. /\ UNCHANGED <<client, asked, cut, run, phase, kept>> /\ done \subseteq done' /\ crossed \subseteq crossed'
      /\ \A f \in File : text[f] \subseteq text'[f]
      /\ Gone' \subseteq Gone \cup {u}
  BY <1>a DEF Ingested, Failed, ManagerDies, Finish, TextTyped, Gone
<1>2. Settled \subseteq Settled'
  BY <1>1 DEF Settled, InReturn
<1>3. u \in Settled' \/ Gone' \subseteq Gone \/ (u \in Waiting("failed")' /\ (step # "none" => target # "failed"))
  <2>1. CASE Ingested(u)
    BY <2>1 DEF Ingested, Settled
  <2>2. CASE ManagerDies(u)
    BY <2>2 DEF ManagerDies, Finish, Gone
  <2>3. CASE Failed(u)
    <3>1. CallHas("failed") => u \in Settled'
      BY <2>3 DEF Failed, Settled
    <3>2. u \in text'["failed"] /\ run' = run
      BY <2>3, <1>a, Nowhere DEF Failed, Finish, TextTyped
    <3>3. ~RunHas("failed")'
      BY <1>a, <3>2, Nowhere DEF RunTyped, RunHas
    <3> QED
      BY <3>1, <3>2, <3>3 DEF CallHas, Waiting
  <2> QED
    BY <2>1, <2>2, <2>3
<1>4. target = "failed" => step # "none"
  BY <1>a, Nowhere DEF ClientTyped
<1>5. \A x : \A f \in File : x \in Waiting(f) => x \in Waiting(f)' \/ (x = u /\ ~(Gone' \subseteq Gone))
  BY <1>1 DEF Waiting, RunHas
<1>6. \A x \in InCall : x \in InCall' \/ (x = u /\ ~(Gone' \subseteq Gone))
  BY <1>1 DEF InCall, RunHas, client
<1>7. ~(Gone' \subseteq Gone) => u \in Settled' \/ \E g \in File : g # target /\ u \in Waiting(g)'
  BY <1>3, <1>4, Nowhere
<1> QED
  BY <1>1, <1>2, <1>5, <1>6, <1>7, FoundStep

LEMMA FoundNext ==
    ASSUME Known, [Next]_vars
    PROVE  FoundOK'
<1> USE DEF history, bounds
<1>a. TextTyped /\ ClientTyped /\ RunTyped /\ LinksOK /\ FoundOK
  BY DEF Known
<1>1. ASSUME NEW q \in Queue, NEW u \in Url, Append(q, u) PROVE FoundOK'
  <2>1. q \in File /\ text[q] \subseteq content' /\ crossed' = crossed
    BY <1>1, Nowhere DEF Append
  <2> QED
    BY <1>1, <2>1, FoundBegin DEF Append
<1>2. ASSUME NEW o, NEW f \in File, NEW U, Replace(o, f, U) PROVE FoundOK'
  <2>1. PICK seen \in SUBSET text[f] : /\ dropped' = (seen \ U) \ Elsewhere(f)
                                      /\ crossed' = crossed \cup (text[f] \ (seen \cup U))
    BY <1>2 DEF Replace
  <2>2. content' = U /\ Begin(o, f)
    BY <1>2 DEF Replace
  <2> QED
    BY <2>1, <2>2, FoundBegin
<1>3. ASSUME NEW q \in Queue, Retry(q) PROVE FoundOK'
  <2>1. q \in File /\ text[q] \subseteq content' /\ crossed' = crossed
    BY <1>3, Nowhere DEF Retry
  <2> QED
    BY <1>3, <2>1, FoundBegin DEF Retry
<1>4. ASSUME ClientStep PROVE FoundOK'
  <2>1. ASSUME NEW f \in File, NEW U \in SUBSET Url, Save(f, U) PROVE FoundOK'
    BY <2>1, <1>2 DEF Save
  <2>2. ASSUME Clear PROVE FoundOK'
    BY <2>2, <1>2, Nowhere DEF Clear
  <2> QED
    BY <1>1, <1>3, <1>4, <2>1, <2>2, FoundOpen, FoundWrite DEF ClientStep
<1>5. ASSUME UNCHANGED <<client, asked, Settled>>, \A f : Waiting(f)' = Waiting(f), InCall' = InCall
      PROVE  FoundOK'
  BY <1>5, FoundStep
<1>6. ASSUME UNCHANGED <<client, text, run, phase, handled, crashed, asked, done, cut, crossed>>,
             phase = "write" => kept' = kept
      PROVE  FoundOK'
  <2>1. Settled' = Settled /\ (\A f : Waiting(f)' = Waiting(f)) /\ InCall' = InCall
    BY <1>6 DEF Settled, InReturn, Waiting, RunHas, Gone, InCall, client
  <2> QED
    BY <1>5, <1>6, <2>1
<1>7. ASSUME UNCHANGED <<client, text, handled, asked, done, cut, crossed>>,
             phase # "write", phase' # "write", handled = {}
      PROVE  FoundOK'
  <2>1. Settled' = Settled /\ (\A f : Waiting(f)' = text[f]) /\ (\A f : Waiting(f) = text[f])
    BY <1>7 DEF Settled, InReturn, Waiting, RunHas, Gone
  <2>2. InCall' = content \cup dropped /\ InCall = content \cup dropped
    BY <1>7 DEF InCall, Gone, client
  <2> QED
    BY <1>5, <1>7, <2>1, <2>2
<1>8. ASSUME RunStep PROVE FoundOK'
  <2>1. ASSUME ParseLinks PROVE FoundOK'
    <3>1. phase = "parse" /\ handled = {}
      BY <2>1, <1>a DEF ParseLinks, RunTyped, OnWork
    <3> QED
      BY <2>1, <3>1, <1>7 DEF ParseLinks
  <2>2. ASSUME NEW u \in Url, Take(u) PROVE FoundOK'
    BY <2>2, <1>6 DEF Take
  <2>3. ASSUME NEW p \in Platform, Close(p) PROVE FoundOK'
    BY <2>3, <1>6 DEF Close
  <2> QED
    BY <1>8, <2>1, <2>2, <2>3, FoundWorker, FoundOpenBack, FoundWriteBack DEF RunStep
<1>9. ASSUME NEW q \in Queue, Start(q) PROVE FoundOK'
  <2>1. phase = "none" /\ handled = {} /\ phase' = "parse"
    BY <1>9, <1>a DEF Start, RunTyped, OnWork
  <2> QED
    BY <1>7, <1>9, <2>1 DEF Start, work
<1>10. ASSUME Crash PROVE FoundOK'
  <2>1. /\ (IF step = "write" THEN content \cup dropped ELSE {}) \cup InReturn
              \subseteq cut' \cup UNION {text[f] : f \in File}
        /\ cut \subseteq cut' /\ UNCHANGED <<text, asked, done, crossed>> /\ step' = "none" /\ phase' = "none"
    BY <1>10 DEF Crash, InReturn
  <2>2. \A f : Waiting(f)' = text[f]
    BY <2>1 DEF Waiting, RunHas
  <2>3. \A x : (\E f \in File : x \in text[f]) => x \in InFiles(File)'
    BY <2>2 DEF InFiles
  <2>4. \A x \in Settled : x \in InReturn \/ x \in Settled'
    BY <2>1 DEF Settled
  <2>5. \A x \in InFiles(File) \cup InFiles(File \ {target}) : \E f \in File : x \in text[f]
    BY Files, WaitingIn
  <2>6. ASSUME NEW x \in asked PROVE x \in (InFiles(File) \cup Settled)'
    <3>1. x \in InFiles(File) \cup InFiles(File \ {target}) \/ x \in Settled
            \/ (step = "write" /\ x \in content \cup dropped)
      BY <1>a DEF FoundOK, InCall
    <3>2. x \in cut' => x \in Settled'
      BY DEF Settled
    <3> QED
      BY <2>1, <2>3, <2>4, <2>5, <3>1, <3>2
  <2> QED
    BY <2>1, <2>6 DEF FoundOK
<1>11. CASE RequestStop \/ UNCHANGED vars
  BY <1>6, <1>11 DEF RequestStop, vars, runner, work
<1> QED
  BY <1>4, <1>8, <1>9, <1>10, <1>11 DEF Next, Quiet

LEMMA InitFound == Init => RetryOK /\ LinksOK /\ FoundOK
BY DEF Init, RetryOK, LinksOK, FoundOK

LEMMA QueueAlways == Spec => []QueueInv
<1>1. Init => QueueInv
  BY InitType, InitFound DEF QueueInv
<1>2. QueueInv /\ [Next]_vars => QueueInv'
  <2> SUFFICES ASSUME QueueInv, [Next]_vars PROVE QueueInv'
    OBVIOUS
  <2>1. Known
    BY InvKnown
  <2> QED
    BY <2>1, NextType, RetryNext, LinksNext, FoundNext DEF QueueInv
<1> QED
  BY <1>1, <1>2, PTL DEF Spec

(* No link that was handed in is lost by a stop, a failing link, a dying   *)
(* manager or a crash, whatever calls come before, during and after a run  *)
(* (queue_service.py, _write_back), but for the rewrite a crash has cut    *)
(* off and for links written to a file while another writer that had not   *)
(* read them was about to rewrite it.                                      *)
THEOREM LinksAreKept == Spec => []NothingLost
<1>1. QueueInv => NothingLost
  <2> SUFFICES ASSUME QueueInv, NEW x \in asked PROVE x \in Held \cup done \cup cut \cup crossed
    BY DEF NothingLost
  <2>1. x \in InFiles(File) \cup InFiles(File \ {target}) \/ x \in Settled
            \/ (step = "write" /\ x \in content \cup dropped)
    <3>1. CASE step # "write"
      BY <3>1 DEF QueueInv, FoundOK
    <3>2. CASE step = "write"
      BY <3>2 DEF QueueInv, FoundOK, InCall
    <3> QED
      BY <3>1, <3>2
  <2>2. x \in InFiles(File) \cup InFiles(File \ {target}) => \E f \in File : x \in text[f]
    BY Files, WaitingIn
  <2> QED
    BY <2>1, <2>2 DEF Held, Settled, InReturn
<1> QED
  BY <1>1, QueueAlways, PTL

(* The run puts nothing into its file that it dealt with, but for          *)
(* platforms whose manager died.                                           *)
THEOREM HandledAreGone == Spec => HandledLeaves
<1> DEFINE Left == phase = "write" /\ run' = None =>
                     \A u \in Gone : u \in text'[run] => u \in text[run]
<1>1. QueueInv /\ [Next]_vars => [Left]_vars
  <2> SUFFICES ASSUME QueueInv, [Next]_vars, phase = "write", run' = None, NEW u \in Gone,
                      u \in text'[run]
               PROVE  u \in text[run]
    OBVIOUS
  <2>a. TextTyped /\ ClientTyped /\ RunTyped /\ LinksOK
    BY Parts DEF QueueInv
  <2>1. run # None /\ run \in File /\ u \notin kept
    BY <2>a, Nowhere DEF RunTyped, LinksOK, Gone
  <2>2. CASE WriteBack
    BY <2>1, <2>2, <2>a DEF WriteBack, TextTyped
  <2>3. CASE ~WriteBack
    <3>1. text' = text
      BY <2>1, <2>3 DEF Next, ClientStep, RunStep, Append, Save, Retry, Clear, Replace, Begin, Open,
               Write, ParseLinks, OpenBack, Take, Ingested, Failed, ManagerDies, Finish, Close, Start,
               RequestStop, Crash, Quiet, vars, runner, work
    <3> QED
      BY <2>1, <3>1
  <2> QED
    BY <2>2, <2>3
<1> QED
  BY <1>1, QueueAlways, PTL DEF Spec, HandledLeaves
=============================================================================
