-------------------------- MODULE LocalIngestProofs --------------------------
(***************************************************************************)
(* Why one run at a time holds a vault's running flag, why a stop request  *)
(* and the event agree, and why a run goes on in the active vault.  The    *)
(* flag of a vault names the run that holds it (FlagHeld); a stop call     *)
(* that has yet to set the event has asked the run that is going           *)
(* (AskedFirst); and after the preflight of a switch every run that is     *)
(* still going was begun since (SwitchSafe).  And why the counters of the  *)
(* page are those of the files (AccountInv).                               *)
(***************************************************************************)
EXTENDS LocalIngest, SearchIndex, SequenceTheorems, FiniteSetTheorems, TLAPS

Entry == (Paths \cup {None}) \X Status
StateRec == [running : BOOLEAN, phase : Phase, run : 0..MaxRuns, scanned : Nat, staged : Nat,
             queued : Nat, processed : Nat, summary : [Status -> Nat], results : Seq(Entry),
             failed : Seq(Paths), stopRequested : BOOLEAN]
Holds == {"setup", "scan", "copy", "process", "left", "judged", "end", "dead"}
Work == [at : Holds \cup {"none", "clear", "gone"}, vault : Vaults \cup {None}, list : Seq(Paths),
         seen : SUBSET Paths, file : Paths \cup {None}, done : Seq(Entry), crashed : BOOLEAN]
Call == [kind : {"start", "retry", "stop", "event"}, vault : Vaults, list : Seq(Paths)]
Move == [kind : {"switch", "delete"}, to : Vaults]

Shapes ==
    /\ active \in Vaults /\ deleted \subseteq Vaults \ {active}
    /\ page \in Call \cup {NoCall} /\ move \in Move \cup {None}
    /\ state \in [Vaults -> StateRec] /\ stop \in [Vaults -> BOOLEAN] /\ work \in [Run -> Work]
    /\ count \in [runs : 0..MaxRuns, stops : Nat, moves : Nat]
    /\ dirs \subseteq 1..count.runs
    /\ page.kind \in {"start", "retry"} => count.runs < MaxRuns
    /\ \A v \in Vaults : Len(state[v].results) <= ResultsLimit
    /\ \A r \in Run : /\ r > count.runs => work[r] = NoWork
                      /\ work[r].at \in {"copy", "process"} => work[r].file \in Paths

(* Run r holds the flag of vault v exactly if the flag says so. *)
FlagHeld ==
    \A v \in Vaults :
        /\ state[v].running => state[v].run # 0
        /\ \A r \in Run : (work[r].vault = v /\ work[r].at \in Holds)
                            <=> (state[v].running /\ state[v].run = r)

AskedFirst ==
    page.kind = "event" /\ state[page.vault].running
        => state[page.vault].stopRequested

SwitchSafe ==
    move # None =>
        /\ move.kind = "switch" =>
              /\ move.to \notin deleted
              /\ \A v \in Vaults : state[v].running => state[v].run \in stray
        /\ move.kind = "delete" => move.to # active

LocalInv == Shapes /\ FlagHeld /\ AskedFirst /\ StopAgrees /\ SwitchSafe /\ RunsInSight

-----------------------------------------------------------------------------
(* The results keep their type and stay within their limit. *)
LEMMA CappedOK ==
  ASSUME NEW S, NEW q \in Seq(S)
  PROVE  Capped(q) \in Seq(S) /\ Len(Capped(q)) <= ResultsLimit
<1> DEFINE m == IF Len(q) > ResultsLimit THEN Len(q) - ResultsLimit + 1 ELSE 1
<1>1. ResultsLimit \in Nat /\ Len(q) \in Nat
  BY LocalOK DEF LocalOK
<1>2. m \in 1..(Len(q) + 1) /\ Len(q) - m + 1 <= ResultsLimit
  BY <1>1
<1>3. \A i \in m..Len(q) : q[i] \in S
  BY <1>1, <1>2
<1> HIDE DEF m
<1>4. SubSeq(q, m, Len(q)) \in Seq(S)
  BY <1>1, <1>2, <1>3, SubSeqProperties
<1>5. Len(SubSeq(q, m, Len(q))) = IF m <= Len(q) THEN Len(q) - m + 1 ELSE 0
  BY <1>1, <1>2, <1>3, SubSeqProperties
<1>6. Capped(q) = SubSeq(q, m, Len(q))
  BY DEF Capped, m
<1> QED
  BY <1>1, <1>2, <1>4, <1>5, <1>6

(* Telling one more result touches nothing but the tallies. *)
LEMMA ToldOK ==
  ASSUME NEW s \in StateRec, NEW p \in Paths \cup {None}, NEW status \in Status
  PROVE  /\ Told(s, p, status) \in StateRec
         /\ Len(Told(s, p, status).results) <= ResultsLimit
         /\ Told(s, p, status).running = s.running /\ Told(s, p, status).run = s.run
         /\ Told(s, p, status).stopRequested = s.stopRequested
<1>1. <<p, status>> \in Entry
  BY DEF Entry
<1> HIDE DEF Entry
<1>2. Append(s.results, <<p, status>>) \in Seq(Entry)
  BY <1>1 DEF StateRec
<1>3. /\ Capped(Append(s.results, <<p, status>>)) \in Seq(Entry)
      /\ Len(Capped(Append(s.results, <<p, status>>))) <= ResultsLimit
  BY <1>2, CappedOK
<1>4. [s.summary EXCEPT ![status] = @ + 1] \in [Status -> Nat]
  BY DEF StateRec
<1>5. (IF status = "failed" /\ p # None THEN Append(s.failed, p) ELSE s.failed) \in Seq(Paths)
  BY DEF StateRec
<1> DEFINE sm == [s.summary EXCEPT ![status] = @ + 1]
           rs == Capped(Append(s.results, <<p, status>>))
           fl == IF status = "failed" /\ p # None THEN Append(s.failed, p) ELSE s.failed
<1>6. Told(s, p, status) = [s EXCEPT !.summary = sm, !.results = rs, !.failed = fl]
  BY DEF Told, StateRec
<1> HIDE DEF sm, rs, fl
<1>7. sm \in [Status -> Nat] /\ rs \in Seq(Entry) /\ Len(rs) <= ResultsLimit /\ fl \in Seq(Paths)
  BY <1>3, <1>4, <1>5 DEF sm, rs, fl
<1> QED
  BY <1>6, <1>7 DEF StateRec

(* At the start no vault has a run. *)
LEMMA LocalInit == Init => LocalInv
<1> SUFFICES ASSUME Init PROVE LocalInv
  OBVIOUS
<1>1. /\ Active \in Vaults /\ None \notin Paths \cup Vaults
      /\ ResultsLimit \in Nat /\ MaxRuns \in Nat
  BY LocalOK DEF LocalOK
<1>2. NewState \in StateRec /\ Len(NewState.results) = 0 /\ ~NewState.running
  BY <1>1 DEF NewState, StateRec, Phase, NoSummary
<1>3. NoWork \in Work /\ NoWork.at = "none"
  BY DEF NoWork, Work
<1>4. Shapes
  BY <1>1, <1>2, <1>3 DEF Init, Shapes, NoCall
<1>5. \A v \in Vaults : ~state[v].running /\ ~stop[v]
  BY <1>2 DEF Init
<1>6. \A r \in Run : work[r].at \notin Holds
  BY <1>3 DEF Init, Holds
<1> QED
  BY <1>4, <1>5, <1>6 DEF Init, LocalInv, FlagHeld, AskedFirst, StopAgrees, NoCall, SwitchSafe, RunsInSight

(* A step of a run that goes on: it keeps the flag, and what the page asked. *)
LEMMA RunGoesOn ==
  ASSUME LocalInv, NEW r \in Run, NEW v \in Vaults, NEW a \in Holds, NEW w \in Work, NEW s \in StateRec,
         Step(r, v, a, w, s), UNCHANGED <<stop, wiped>>,
         dirs' \subseteq dirs \cup {r},
         w.vault = v, w.at \in Holds, w.at \in {"copy", "process"} => w.file \in Paths,
         Len(s.results) <= ResultsLimit,
         s.running = state[v].running, s.run = state[v].run, s.stopRequested = state[v].stopRequested
  PROVE  LocalInv'
<1>1. /\ state' = [state EXCEPT ![v] = s] /\ work' = [work EXCEPT ![r] = w]
      /\ UNCHANGED <<active, deleted, page, move, count, stray, stop, wiped>>
      /\ work[r].at = a /\ work[r].vault = v
  BY DEF Step
<1>2. /\ state \in [Vaults -> StateRec] /\ work \in [Run -> Work]
      /\ count.runs \in Nat /\ None \notin Vaults
  BY LocalOK DEF LocalInv, Shapes, LocalOK
<1>3. \A u \in Vaults : /\ state'[u].running = state[u].running /\ state'[u].run = state[u].run
                        /\ state'[u].stopRequested = state[u].stopRequested
  BY <1>1, <1>2
<1>4. r <= count.runs
  <2>1. work[r].at \in Holds /\ NoWork.at \notin Holds
    BY <1>1 DEF NoWork, Holds
  <2>2. r > count.runs => work[r] = NoWork
    BY DEF LocalInv, Shapes
  <2>3. r \in Nat
    BY DEF Run
  <2> QED
    BY <1>2, <2>1, <2>2, <2>3
<1>5. Shapes'
  <2>1. dirs' \subseteq 1..count'.runs
    <3>1. r \in 1..count.runs
      BY <1>2, <1>4 DEF Run
    <3> QED
      BY <1>1, <3>1 DEF LocalInv, Shapes
  <2>2. state' \in [Vaults -> StateRec] /\ work' \in [Run -> Work]
    BY <1>1, <1>2
  <2>3. \A u \in Vaults : Len(state'[u].results) <= ResultsLimit
    BY <1>1, <1>2 DEF LocalInv, Shapes
  <2>4. \A q \in Run : /\ q > count'.runs => work'[q] = NoWork
                       /\ work'[q].at \in {"copy", "process"} => work'[q].file \in Paths
    <3>1. ASSUME NEW q \in Run, q # r PROVE work'[q] = work[q]
      BY <1>1, <1>2, <3>1
    <3>2. work'[r] = w /\ ~(r > count.runs)
      BY <1>1, <1>2, <1>4 DEF Run
    <3> QED
      BY <1>1, <3>1, <3>2 DEF LocalInv, Shapes
  <2> QED
    BY <1>1, <2>1, <2>2, <2>3, <2>4 DEF LocalInv, Shapes
<1>6. FlagHeld'
  <2>1. \A q \in Run : (q # r => work'[q] = work[q]) /\ work'[r] = w
    BY <1>1, <1>2
  <2> QED
    BY <1>1, <1>3, <2>1 DEF LocalInv, FlagHeld
<1>7. AskedFirst' /\ StopAgrees' /\ SwitchSafe' /\ RunsInSight'
  <2>1. AskedFirst'
    BY <1>1, <1>3 DEF LocalInv, Shapes, AskedFirst, Call
  <2>2. StopAgrees'
    BY <1>1, <1>3 DEF LocalInv, StopAgrees, Setting
  <2>3. SwitchSafe'
    BY <1>1, <1>3 DEF LocalInv, SwitchSafe
  <2>4. RunsInSight'
    BY <1>1, <1>3 DEF LocalInv, RunsInSight
  <2> QED
    BY <2>1, <2>2, <2>3, <2>4
<1> QED
  BY <1>5, <1>6, <1>7 DEF LocalInv

(* The steps of a run that goes on, one by one. *)
LEMMA GoingSteps ==
  ASSUME LocalInv, NEW r \in Run, NEW v \in Vaults,
         \/ SetupFails(r, v) \/ Begin(r, v) \/ Take(r, v) \/ Skip(r, v)
         \/ StageFails(r, v) \/ Stage(r, v) \/ Process(r, v) \/ Leave(r, v) \/ Judge(r, v)
         \/ NoFiles(r, v) \/ Fails(r, v)
  PROVE  LocalInv'
<1> USE DEF Idle
<1>1. work[r] \in Work /\ state[v] \in StateRec /\ Len(state[v].results) <= ResultsLimit
  BY DEF LocalInv, Shapes
<1>2. work[r].at \in {"copy", "process"} => work[r].file \in Paths
  BY DEF LocalInv, Shapes
<1>3. "failed" \in Status /\ "failed" \in Phase /\ "scanning" \in Phase /\ "staging" \in Phase
      /\ "running" \in Phase /\ "finished" \in Phase /\ "stopping" \in Phase /\ Outcomes \subseteq Status
      /\ None \notin Vaults
  BY LocalOK DEF Status, Phase, LocalOK
<1>4. \A p \in Paths \cup {None}, status \in Status :
        /\ <<p, status>> \in Entry
        /\ Append(work[r].done, <<p, status>>) \in Seq(Entry)
  <2> SUFFICES ASSUME NEW p \in Paths \cup {None}, NEW status \in Status
               PROVE  <<p, status>> \in Entry /\ Append(work[r].done, <<p, status>>) \in Seq(Entry)
    OBVIOUS
  <2>1. <<p, status>> \in Entry
    BY DEF Entry
  <2>2. work[r].done \in Seq(Entry)
    BY <1>1 DEF Work
  <2> HIDE DEF Entry
  <2> QED
    BY <2>1, <2>2
<1>h. work[r].list # <<>> => Head(work[r].list) \in Paths /\ Tail(work[r].list) \in Seq(Paths)
  BY <1>1, HeadTailProperties DEF Work
<1>s. \A ph \in Phase : /\ [state[v] EXCEPT !.phase = ph] \in StateRec
                        /\ Len([state[v] EXCEPT !.phase = ph].results) <= ResultsLimit
  BY <1>1 DEF StateRec
<1>5. CASE SetupFails(r, v)
  <2>1. Step(r, v, "setup", [work[r] EXCEPT !.at = "dead"], state[v])
    BY <1>5 DEF SetupFails
  <2>2. [work[r] EXCEPT !.at = "dead"] \in Work /\ work[r].vault = v
    BY <1>1, <2>1 DEF Work, Holds, Step
  <2> QED
    BY <1>1, <1>5, <2>1, <2>2, RunGoesOn DEF SetupFails, Holds, Work
<1>6. CASE Begin(r, v)
  <2>1. Step(r, v, "setup", [work[r] EXCEPT !.at = "scan"], state[v])
    BY <1>6 DEF Begin
  <2>2. [work[r] EXCEPT !.at = "scan"] \in Work /\ work[r].vault = v
    BY <1>1, <2>1 DEF Work, Holds, Step
  <2> QED
    BY <1>1, <1>6, <2>1, <2>2, RunGoesOn DEF Begin, Holds, Work
<1>7. CASE Skip(r, v)
  <2>1. Step(r, v, "scan", [work[r] EXCEPT !.list = Tail(@)], state[v])
    BY <1>7 DEF Skip
  <2>2. [work[r] EXCEPT !.list = Tail(@)] \in Work /\ work[r].vault = v /\ work[r].at = "scan"
    BY <1>1, <1>7, <1>h, <2>1 DEF Work, Step, Skip
  <2> QED
    BY <1>1, <1>7, <2>1, <2>2, RunGoesOn DEF Skip, Holds, Work
<1>8. CASE Take(r, v)
  <2> DEFINE p == Head(work[r].list)
             w == [work[r] EXCEPT !.at = "copy", !.file = p, !.list = Tail(@), !.seen = @ \cup {p}]
             s == [state[v] EXCEPT !.scanned = @ + 1, !.phase = "staging"]
  <2>1. Step(r, v, "scan", w, s)
    BY <1>8 DEF Take
  <2>2. w \in Work /\ w.vault = v /\ w.at = "copy" /\ w.file \in Paths
    BY <1>1, <1>8, <1>h, <2>1 DEF Work, Step, Take, Holds
  <2>3. /\ s \in StateRec /\ s.results = state[v].results /\ s.running = state[v].running
        /\ s.run = state[v].run /\ s.stopRequested = state[v].stopRequested
    <3> DEFINE n == state[v].scanned + 1
    <3>1. n \in Nat
      BY <1>1 DEF StateRec
    <3>2. s = [state[v] EXCEPT !.scanned = n, !.phase = "staging"]
      BY <1>1 DEF StateRec
    <3> HIDE DEF n, s
    <3> QED
      BY <1>1, <1>3, <3>1, <3>2 DEF StateRec
  <2> HIDE DEF w, s
  <2> QED
    BY <1>1, <1>8, <2>1, <2>2, <2>3, RunGoesOn DEF Take, Holds
<1>9. CASE Stage(r, v)
  <2> DEFINE w == [work[r] EXCEPT !.at = "process"]
             s == Staged(state[v])
  <2>1. Step(r, v, "copy", w, s)
    BY <1>9 DEF Stage
  <2>2. w \in Work /\ w.vault = v /\ w.at = "process" /\ w.file \in Paths
    BY <1>1, <1>2, <2>1 DEF Work, Step, Holds
  <2>3. /\ s \in StateRec /\ s.results = state[v].results /\ s.running = state[v].running
        /\ s.run = state[v].run /\ s.stopRequested = state[v].stopRequested
    <3> DEFINE m == state[v].staged + 1
               n == state[v].queued + 1
    <3>1. m \in Nat /\ n \in Nat
      BY <1>1 DEF StateRec
    <3>2. s = [state[v] EXCEPT !.staged = m, !.queued = n, !.phase = "running"]
      BY <1>1 DEF StateRec, Staged
    <3> HIDE DEF m, n, s
    <3> QED
      BY <1>1, <1>3, <3>1, <3>2 DEF StateRec
  <2> HIDE DEF w, s
  <2> QED
    BY <1>1, <1>9, <2>1, <2>2, <2>3, RunGoesOn DEF Stage, Holds
(* The result of the file in hand. *)
<1>r. ASSUME work[r].at \in {"copy", "process"}, NEW status \in Status
      PROVE  /\ Result(work[r], status) \in Work /\ Result(work[r], status).vault = work[r].vault
             /\ Result(work[r], status).at = "scan"
  <2>1. Append(work[r].done, <<work[r].file, status>>) \in Seq(Entry)
    BY <1>2, <1>4, <1>r
  <2> QED
    BY <1>1, <2>1 DEF Result, Work, Holds
<1>10. CASE StageFails(r, v)
  <2>1. Step(r, v, "copy", Result(work[r], "failed"), Told(state[v], work[r].file, "failed"))
    BY <1>10 DEF StageFails
  <2>2. work[r].vault = v /\ work[r].at = "copy" /\ work[r].file \in Paths
    BY <1>2, <2>1 DEF Step
  <2>3. /\ Result(work[r], "failed") \in Work /\ Result(work[r], "failed").vault = v
        /\ Result(work[r], "failed").at = "scan"
    BY <1>3, <1>r, <2>2
  <2> QED
    BY <1>1, <1>3, <1>10, <2>1, <2>2, <2>3, ToldOK, RunGoesOn DEF StageFails, Holds
<1>11. CASE Process(r, v)
  <2>1. PICK status \in Status :
           Step(r, v, "process", Result(work[r], status),
                [Told(state[v], work[r].file, status)
                   EXCEPT !.processed = @ + 1, !.queued = IF @ > 0 THEN @ - 1 ELSE 0,
                          !.phase = IF stop[v] THEN @ ELSE "scanning"])
    BY <1>3, <1>11 DEF Process
  <2> DEFINE t == Told(state[v], work[r].file, status)
             s == [t EXCEPT !.processed = @ + 1, !.queued = IF @ > 0 THEN @ - 1 ELSE 0,
                            !.phase = IF stop[v] THEN @ ELSE "scanning"]
  <2>2. work[r].vault = v /\ work[r].at = "process" /\ work[r].file \in Paths
    BY <1>2, <2>1 DEF Step
  <2>3. /\ t \in StateRec /\ Len(t.results) <= ResultsLimit /\ t.running = state[v].running
        /\ t.run = state[v].run /\ t.stopRequested = state[v].stopRequested
    BY <1>1, <2>2, ToldOK
  <2> HIDE DEF t
  <2>4. /\ s \in StateRec /\ s.results = t.results /\ s.running = t.running
        /\ s.run = t.run /\ s.stopRequested = t.stopRequested
    <3> DEFINE m == t.processed + 1
               n == IF t.queued > 0 THEN t.queued - 1 ELSE 0
               ph == IF stop[v] THEN t.phase ELSE "scanning"
    <3>1. m \in Nat /\ n \in Nat /\ ph \in Phase
      BY <1>3, <2>3 DEF StateRec
    <3>2. s = [t EXCEPT !.processed = m, !.queued = n, !.phase = ph]
      BY <2>3 DEF StateRec
    <3> HIDE DEF m, n, ph, s
    <3> QED
      BY <2>3, <3>1, <3>2 DEF StateRec
  <2>5. Step(r, v, "process", Result(work[r], status), s)
    BY <2>1 DEF t
  <2>6. /\ Result(work[r], status) \in Work /\ Result(work[r], status).vault = v
        /\ Result(work[r], status).at = "scan"
    BY <1>r, <2>2
  <2> HIDE DEF s
  <2>7. UNCHANGED <<stop, wiped>> /\ dirs' \subseteq dirs \cup {r}
    BY <1>11 DEF Process, Idle
  <2> QED
    BY <2>3, <2>4, <2>5, <2>6, <2>7, RunGoesOn DEF Holds
<1>12. CASE NoFiles(r, v)
  <2> DEFINE w == [work[r] EXCEPT !.at = "end", !.done = Append(@, <<None, "failed">>)]
             t == Told(state[v], None, "failed")
  <2>1. work[r].vault = v /\ work[r].at = "judged"
    BY <1>12 DEF NoFiles, Step
  <2>2. CASE stop[v]
    <3>1. Step(r, v, "judged", [work[r] EXCEPT !.at = "end"], state[v])
      BY <1>12, <2>2 DEF NoFiles
    <3>2. [work[r] EXCEPT !.at = "end"] \in Work
      BY <1>1 DEF Work, Holds
    <3> QED
      BY <1>1, <1>12, <2>1, <3>1, <3>2, RunGoesOn DEF NoFiles, Holds, Work
  <2>3. CASE ~stop[v]
    <3>1. Step(r, v, "judged", w, t)
      BY <1>12, <2>3 DEF NoFiles
    <3>2. w \in Work /\ w.vault = v /\ w.at = "end"
      <4>1. Append(work[r].done, <<None, "failed">>) \in Seq(Entry)
        BY <1>3, <1>4
      <4> QED
        BY <1>1, <2>1, <4>1 DEF Work, Holds
    <3>3. /\ t \in StateRec /\ Len(t.results) <= ResultsLimit /\ t.running = state[v].running
          /\ t.run = state[v].run /\ t.stopRequested = state[v].stopRequested
      BY <1>1, <1>3, ToldOK
    <3> HIDE DEF t, w
    <3> QED
      BY <1>12, <3>1, <3>2, <3>3, RunGoesOn DEF NoFiles, Holds
  <2> QED
    BY <2>2, <2>3
<1>14. CASE Leave(r, v)
  <2>1. Step(r, v, "scan", [work[r] EXCEPT !.at = "left"], state[v])
    BY <1>14 DEF Leave
  <2>2. [work[r] EXCEPT !.at = "left"] \in Work /\ work[r].vault = v
    BY <1>1, <2>1 DEF Work, Holds, Step
  <2> QED
    BY <1>1, <1>14, <2>1, <2>2, RunGoesOn DEF Leave, Holds, Work
<1>15. CASE Judge(r, v)
  <2> DEFINE none == work[r].seen = {}
             ph == IF none THEN IF stop[v] THEN "finished" ELSE "failed"
                   ELSE IF stop[v] THEN "stopping" ELSE state[v].phase
             w == [work[r] EXCEPT !.at = IF none THEN "judged" ELSE "end"]
             s == [state[v] EXCEPT !.phase = ph]
  <2>1. Step(r, v, "left", w, s)
    BY <1>15 DEF Judge
  <2>2. work[r].vault = v
    BY <2>1 DEF Step
  <2>3. ph \in Phase
    BY <1>1, <1>3 DEF StateRec
  <2>4. w \in Work /\ w.vault = v /\ w.at \in {"judged", "end"}
    BY <1>1, <2>2 DEF Work, Holds
  <2> HIDE DEF ph, w, none
  <2>5. /\ s \in StateRec /\ Len(s.results) <= ResultsLimit /\ s.running = state[v].running
        /\ s.run = state[v].run /\ s.stopRequested = state[v].stopRequested
    BY <1>1, <1>s, <2>3 DEF StateRec
  <2> HIDE DEF s
  <2> QED
    BY <1>15, <2>1, <2>4, <2>5, RunGoesOn DEF Judge, Holds
<1>13. CASE Fails(r, v)
  <2>1. PICK a \in {"setup", "scan"} :
           Step(r, v, a, GivesUp(work[r]), [Told(state[v], None, "failed") EXCEPT !.phase = "failed"])
    BY <1>13 DEF Fails
  <2> DEFINE t == Told(state[v], None, "failed")
             s == [t EXCEPT !.phase = "failed"]
  <2>2. /\ t \in StateRec /\ Len(t.results) <= ResultsLimit /\ t.running = state[v].running
        /\ t.run = state[v].run /\ t.stopRequested = state[v].stopRequested
    BY <1>1, <1>3, ToldOK
  <2> HIDE DEF t
  <2>3. /\ s \in StateRec /\ s.results = t.results /\ s.running = t.running
        /\ s.run = t.run /\ s.stopRequested = t.stopRequested
    BY <1>3, <2>2 DEF StateRec
  <2>4. Step(r, v, a, GivesUp(work[r]), s)
    BY <2>1 DEF t
  <2>5. GivesUp(work[r]) \in Work /\ GivesUp(work[r]).vault = v /\ GivesUp(work[r]).at = "end"
    <3>1. Append(work[r].done, <<None, "failed">>) \in Seq(Entry)
      BY <1>3, <1>4
    <3>2. work[r].vault = v
      BY <2>1 DEF Step
    <3> QED
      BY <1>1, <3>1, <3>2 DEF GivesUp, Work, Holds
  <2> HIDE DEF s
  <2> QED
    BY <1>13, <2>2, <2>3, <2>4, <2>5, RunGoesOn DEF Fails, Holds
<1> QED
  BY <1>5, <1>6, <1>7, <1>8, <1>9, <1>10, <1>11, <1>12, <1>13, <1>14, <1>15

(* A run gives up the flag; the event is cleared later. *)
LEMMA EndStep == ASSUME LocalInv, NEW r \in Run, NEW v \in Vaults, End(r, v) PROVE LocalInv'
<1>1. /\ state' = [state EXCEPT ![v] = Over(state[v])] /\ work' = [work EXCEPT ![r] = [work[r] EXCEPT !.at = "clear"]]
      /\ UNCHANGED <<active, deleted, page, move, count, stray, stop, wiped>>
      /\ work[r].at = "end" /\ work[r].vault = v /\ dirs' = dirs \ {r}
  BY DEF End, Step
<1>2. /\ state \in [Vaults -> StateRec] /\ work \in [Run -> Work] /\ None \notin Vaults
  BY LocalOK DEF LocalInv, Shapes, LocalOK
<1>3. state[v].running /\ state[v].run = r
  BY <1>1, <1>2 DEF LocalInv, FlagHeld, Holds
<1>4. /\ Over(state[v]) \in StateRec /\ ~Over(state[v]).running /\ Over(state[v]).results = state[v].results
  BY <1>2 DEF Over, StateRec, Phase
<1>5. \A u \in Vaults : u # v => state'[u] = state[u]
  BY <1>1, <1>2
<1>6. state'[v] = Over(state[v]) /\ ~state'[v].running
  BY <1>1, <1>2, <1>4
<1>7. /\ [work[r] EXCEPT !.at = "clear"] \in Work /\ [work[r] EXCEPT !.at = "clear"].at = "clear"
      /\ work'[r] = [work[r] EXCEPT !.at = "clear"] /\ \A q \in Run : q # r => work'[q] = work[q]
  BY <1>1, <1>2 DEF Work
<1>8. Shapes'
  <2>1. work[r] # NoWork
    BY <1>1 DEF NoWork
  <2>2. \A q \in Run : /\ q > count'.runs => work'[q] = NoWork
                       /\ work'[q].at \in {"copy", "process"} => work'[q].file \in Paths
    BY <1>1, <1>7, <2>1 DEF LocalInv, Shapes
  <2>3. state' \in [Vaults -> StateRec] /\ work' \in [Run -> Work]
    BY <1>1, <1>2, <1>4, <1>7
  <2>4. \A u \in Vaults : Len(state'[u].results) <= ResultsLimit
    BY <1>2, <1>4, <1>5, <1>6 DEF LocalInv, Shapes
  <2> QED
    BY <1>1, <2>2, <2>3, <2>4 DEF LocalInv, Shapes
<1>9. FlagHeld'
  <2>1. ASSUME NEW u \in Vaults, NEW q \in Run
        PROVE  (work'[q].vault = u /\ work'[q].at \in Holds) <=> (state'[u].running /\ state'[u].run = q)
    <3>1. CASE u = v
      <4>1. q # r => ~(work[q].vault = v /\ work[q].at \in Holds)
        BY <1>3 DEF LocalInv, FlagHeld
      <4>2. q = r => work'[q].at \notin Holds
        BY <1>7 DEF Holds
      <4> QED
        BY <1>6, <1>7, <3>1, <4>1, <4>2
    <3>2. CASE u # v /\ q = r
      BY <1>1, <1>2, <1>5, <1>7, <3>2 DEF LocalInv, FlagHeld, Holds
    <3>3. CASE u # v /\ q # r
      BY <1>5, <1>7, <3>3 DEF LocalInv, FlagHeld
    <3> QED
      BY <3>1, <3>2, <3>3
  <2> QED
    BY <1>5, <1>6, <2>1 DEF LocalInv, FlagHeld
<1>10. AskedFirst' /\ StopAgrees' /\ SwitchSafe' /\ RunsInSight'
  <2>1. AskedFirst'
    BY <1>1, <1>5, <1>6 DEF LocalInv, Shapes, AskedFirst, Call
  <2>2. StopAgrees'
    BY <1>1, <1>5, <1>6 DEF LocalInv, StopAgrees, Setting
  <2>3. SwitchSafe'
    BY <1>1, <1>5, <1>6 DEF LocalInv, SwitchSafe
  <2>4. RunsInSight'
    BY <1>1, <1>5, <1>6 DEF LocalInv, RunsInSight
  <2> QED
    BY <2>1, <2>2, <2>3, <2>4
<1> QED
  BY <1>8, <1>9, <1>10 DEF LocalInv

(* A run that is over clears the event, of whatever run it is now. *)
LEMMA ClearStep == ASSUME LocalInv, NEW r \in Run, NEW v \in Vaults, ClearEvent(r, v) PROVE LocalInv'
<1> DEFINE w == IF state[v].run = r THEN [work[r] EXCEPT !.at = "gone"] ELSE NoWork
<1>2. /\ state \in [Vaults -> StateRec] /\ work \in [Run -> Work] /\ stop \in [Vaults -> BOOLEAN]
      /\ None \notin Vaults
  BY LocalOK DEF LocalInv, Shapes, LocalOK
<1>1. /\ state' = state /\ work' = [work EXCEPT ![r] = w]
      /\ UNCHANGED <<active, deleted, page, move, count, stray, dirs>>
      /\ work[r].at = "clear" /\ work[r].vault = v
  BY <1>2 DEF ClearEvent, Step
<1>3. /\ stop' = [stop EXCEPT ![v] = FALSE]
      /\ wiped' = IF stop[v] /\ state[v].running THEN wiped \cup {state[v].run} ELSE wiped
  BY DEF ClearEvent
<1>4. /\ NoWork \in Work /\ NoWork.at = "none"
  BY DEF NoWork, Work
<1>5. w \in Work /\ w.at \in {"gone", "none"}
  BY <1>1, <1>2, <1>4 DEF Work
<1> HIDE DEF w
<1>6. work'[r] = w /\ \A q \in Run : q # r => work'[q] = work[q]
  BY <1>1, <1>2
<1>7. Shapes'
  <2>1. \A q \in Run : /\ q > count'.runs => work'[q] = NoWork
                       /\ work'[q].at \in {"copy", "process"} => work'[q].file \in Paths
    <3>1. ~(r > count.runs)
      BY <1>1, <1>4 DEF LocalInv, Shapes
    <3> QED
      BY <1>1, <1>5, <1>6, <3>1 DEF LocalInv, Shapes
  <2>2. work' \in [Run -> Work] /\ stop' \in [Vaults -> BOOLEAN]
    BY <1>1, <1>2, <1>3, <1>5
  <2> QED
    BY <1>1, <2>1, <2>2 DEF LocalInv, Shapes
<1>8. FlagHeld'
  BY <1>1, <1>5, <1>6 DEF LocalInv, FlagHeld, Holds
<1>9. AskedFirst' /\ SwitchSafe' /\ RunsInSight'
  BY <1>1 DEF LocalInv, AskedFirst, SwitchSafe, RunsInSight
<1>10. StopAgrees'
  <2>1. ASSUME NEW u \in Vaults, state[u].running
        PROVE  /\ state[u].stopRequested => stop'[u] \/ Setting(u) \/ state[u].run \in wiped'
               /\ stop'[u] => state[u].stopRequested
    <3>1. /\ state[u].stopRequested => stop[u] \/ Setting(u) \/ state[u].run \in wiped
          /\ stop[u] => state[u].stopRequested
      BY <2>1 DEF LocalInv, StopAgrees
    <3>2. CASE u # v
      <4>1. stop'[u] = stop[u]
        BY <1>2, <1>3, <3>2
      <4> QED
        BY <1>3, <3>1, <4>1
    <3>3. CASE u = v
      <4>1. ~stop'[u]
        BY <1>2, <1>3, <3>3
      <4> QED
        BY <1>3, <2>1, <3>1, <3>3, <4>1
    <3> QED
      BY <3>2, <3>3
  <2> QED
    BY <1>1, <2>1 DEF StopAgrees, Setting
<1> QED
  BY <1>7, <1>8, <1>9, <1>10 DEF LocalInv

(* A run begins: it takes the flag of the call's vault, with no event set. *)
LEMMA PrepareStep == ASSUME LocalInv, Prepare PROVE LocalInv'
<1>0. PICK v, list : v = page.vault /\ list = page.list
  OBVIOUS
<1> DEFINE r == count.runs + 1
           w == [NoWork EXCEPT !.at = "setup", !.vault = v, !.list = list]
<1>1. /\ page' = NoCall /\ page.kind = "start" /\ ~state[v].running
      /\ stop' = [stop EXCEPT ![v] = FALSE] /\ state' = [state EXCEPT ![v] = NewRun(r)]
      /\ work' = [work EXCEPT ![r] = w] /\ count' = [count EXCEPT !.runs = r]
      /\ stray' = IF v # active \/ (move # None /\ move.kind = "switch") THEN stray \cup {r} ELSE stray
      /\ UNCHANGED <<active, deleted, dirs, move, wiped>>
  BY <1>0 DEF Prepare, Free, EventCleared
<1>2. /\ state \in [Vaults -> StateRec] /\ work \in [Run -> Work] /\ stop \in [Vaults -> BOOLEAN]
      /\ None \notin Vaults /\ active \in Vaults /\ active \notin deleted
      /\ count \in [runs : 0..MaxRuns, stops : Nat, moves : Nat]
      /\ ResultsLimit \in Nat /\ MaxRuns \in Nat
      /\ v \in Vaults /\ list \in Seq(Paths) /\ r \in Run
  <2>1. page \in Call /\ count.runs < MaxRuns
    BY <1>1 DEF LocalInv, Shapes, NoCall
  <2> QED
    BY <1>0, <2>1, LocalOK DEF LocalInv, Shapes, LocalOK, Call, Run
<1>3. NewRun(r) \in StateRec /\ NewRun(r).run = r /\ Len(NewRun(r).results) = 0
      /\ NewRun(r).running /\ ~NewRun(r).stopRequested
  <2>1. NewState \in StateRec /\ NewState.results = <<>> /\ ~NewState.stopRequested
    BY <1>2 DEF NewState, StateRec, Phase, NoSummary
  <2>2. r \in 0..MaxRuns /\ "scanning" \in Phase
    BY <1>2 DEF Run, Phase
  <2> HIDE DEF r
  <2>3. NewRun(r) = [NewState EXCEPT !.running = TRUE, !.phase = "scanning", !.run = r]
    BY DEF NewRun
  <2>4. Len(NewState.results) = 0
    BY <2>1
  <2> QED
    BY <2>1, <2>2, <2>3, <2>4 DEF StateRec
<1>4. w \in Work /\ w.at = "setup" /\ w.vault = v
  <2>1. NoWork \in Work
    BY DEF NoWork, Work
  <2> QED
    BY <1>2, <2>1 DEF Work, Holds
<1>5. /\ work[r] = NoWork /\ NoWork.at \notin Holds /\ r # 0
      /\ count' \in [runs : 0..MaxRuns, stops : Nat, moves : Nat] /\ count'.runs = r
  <2>1. r > count.runs /\ r # 0 /\ r \in 0..MaxRuns
    BY <1>1, <1>2 DEF Run
  <2>2. work[r] = NoWork
    BY <1>2, <2>1 DEF LocalInv, Shapes
  <2>3. NoWork.at \notin Holds
    BY DEF NoWork, Holds
  <2> HIDE DEF r
  <2> QED
    BY <1>1, <1>2, <2>1, <2>2, <2>3
<1> HIDE DEF w
<1>6. /\ work'[r] = w /\ \A q \in Run : q # r => work'[q] = work[q]
      /\ state'[v] = NewRun(r) /\ \A u \in Vaults : u # v => state'[u] = state[u]
      /\ ~stop'[v] /\ \A u \in Vaults : u # v => stop'[u] = stop[u]
  BY <1>1, <1>2
<1>7. Shapes'
  <2>1. \A q \in Run : /\ q > count'.runs => work'[q] = NoWork
                       /\ work'[q].at \in {"copy", "process"} => work'[q].file \in Paths
    <3>1. r > count.runs /\ count'.runs = r /\ w.at = "setup"
      BY <1>1, <1>2, <1>4, <1>5 DEF Run, r
    <3>2. ASSUME NEW q \in Run, q # r
          PROVE  /\ q > count'.runs => work'[q] = NoWork
                 /\ work'[q].at \in {"copy", "process"} => work'[q].file \in Paths
      <4>1. /\ q > count.runs => work[q] = NoWork
            /\ work[q].at \in {"copy", "process"} => work[q].file \in Paths
        BY DEF LocalInv, Shapes
      <4>2. q > count'.runs => q > count.runs
        BY <1>1, <1>2, <3>1 DEF Run
      <4> QED
        BY <1>6, <3>2, <4>1, <4>2
    <3>3. ~(r > count'.runs)
      BY <1>2, <3>1 DEF Run
    <3> QED
      BY <1>6, <3>1, <3>2, <3>3
  <2>2. /\ work' \in [Run -> Work] /\ stop' \in [Vaults -> BOOLEAN] /\ state' \in [Vaults -> StateRec]
    BY <1>1, <1>2, <1>3, <1>4
  <2>3. \A u \in Vaults : Len(state'[u].results) <= ResultsLimit
    BY <1>2, <1>3, <1>6 DEF LocalInv, Shapes
  <2>4. dirs' \subseteq 1..count'.runs
    BY <1>1, <1>2, <1>5 DEF LocalInv, Shapes
  <2> QED
    BY <1>1, <1>5, <2>1, <2>2, <2>3, <2>4 DEF LocalInv, Shapes, NoCall
<1> HIDE DEF r
<1>8. FlagHeld'
  <2>1. ASSUME NEW u \in Vaults, NEW q \in Run
        PROVE  (work'[q].vault = u /\ work'[q].at \in Holds) <=> (state'[u].running /\ state'[u].run = q)
    <3>1. \A x \in Run : (work[x].vault = u /\ work[x].at \in Holds) <=> (state[u].running /\ state[u].run = x)
      BY DEF LocalInv, FlagHeld
    <3>2. CASE q = r
      BY <1>1, <1>3, <1>4, <1>5, <1>6, <3>1, <3>2 DEF Holds
    <3>3. CASE q # r
      BY <1>1, <1>3, <1>6, <3>1, <3>3
    <3> QED
      BY <3>2, <3>3
  <2>2. \A u \in Vaults : state'[u].running => state'[u].run # 0
    BY <1>3, <1>5, <1>6 DEF LocalInv, FlagHeld
  <2> QED
    BY <2>1, <2>2 DEF FlagHeld
<1>9. AskedFirst' /\ StopAgrees' /\ SwitchSafe' /\ RunsInSight'
  <2>1. AskedFirst'
    BY <1>1 DEF AskedFirst, NoCall
  <2>2. StopAgrees'
    BY <1>1, <1>3, <1>6 DEF LocalInv, StopAgrees, Setting, NoCall
  <2>3. SwitchSafe'
    BY <1>1, <1>2, <1>3, <1>6 DEF LocalInv, SwitchSafe
  <2>4. RunsInSight'
    BY <1>1, <1>2, <1>3, <1>6 DEF LocalInv, RunsInSight
  <2> QED
    BY <2>1, <2>2, <2>3, <2>4
<1> QED
  BY <1>7, <1>8, <1>9 DEF LocalInv

(* The page's calls, the switch and the deletion. *)
LEMMA PageStep ==
  ASSUME LocalInv, Ask \/ Retry \/ Refused \/ Stop \/ SetEvent \/ Check \/ Switch \/ Delete
  PROVE  LocalInv'
<1>2. /\ state \in [Vaults -> StateRec] /\ work \in [Run -> Work] /\ stop \in [Vaults -> BOOLEAN]
      /\ None \notin Vaults /\ active \in Vaults /\ active \notin deleted /\ count.runs \in Nat
      /\ count \in [runs : 0..MaxRuns, stops : Nat, moves : Nat]
      /\ page \in Call \cup {NoCall}
  BY LocalOK DEF LocalInv, Shapes, LocalOK
(* A call that sets no event yet leaves everything but itself alone. *)
<1>c. ASSUME UNCHANGED <<active, deleted, state, stop, work, dirs, move, count, stray, wiped>>,
             page' \in Call \cup {NoCall}, page'.kind # "event",
             page.kind # "event",
             page'.kind \in {"start", "retry"} => count.runs < MaxRuns
      PROVE  LocalInv'
  <2>1. Shapes'
    BY <1>c DEF LocalInv, Shapes
  <2>2. AskedFirst' /\ StopAgrees'
    BY <1>c DEF LocalInv, AskedFirst, StopAgrees, Setting
  <2> QED
    BY <1>c, <2>1, <2>2 DEF LocalInv, FlagHeld, SwitchSafe, RunsInSight
<1>8. CASE Ask
  <2>1. Inputs \subseteq Seq(Paths) /\ <<>> \in Seq(Paths)
    BY LocalOK DEF LocalOK
  <2>2. PICK kind \in {"start", "retry", "stop"}, list \in Seq(Paths) :
          page' = [kind |-> kind, vault |-> active, list |-> list]
          /\ (kind \in {"start", "retry"} => count.runs < MaxRuns)
    BY <1>8, <2>1 DEF Ask, Calls
  <2>3. page' \in Call /\ page'.kind = kind
    BY <1>2, <2>2 DEF Call
  <2>4. page.kind = "none" /\ UNCHANGED <<active, deleted, state, stop, work, dirs, move, count, stray, wiped>>
    BY <1>8 DEF Ask, NoCall, history
  <2> QED
    BY <1>c, <2>2, <2>3, <2>4
<1>9. CASE Retry
  <2>1. /\ page.kind = "retry" /\ page \in Call
        /\ UNCHANGED <<active, deleted, state, stop, work, dirs, move, count, stray, wiped>>
    BY <1>2, <1>9 DEF Retry, NoCall, history
  <2>2. count.runs < MaxRuns
    BY <2>1 DEF LocalInv, Shapes
  <2>3. state[page.vault].failed \in Seq(Paths)
    BY <1>2, <2>1 DEF Call, StateRec
  <2>4. page' = NoCall \/ page' = [page EXCEPT !.kind = "start", !.list = state[page.vault].failed]
    BY <1>9 DEF Retry
  <2>5. page' \in Call \cup {NoCall} /\ page'.kind \in {"none", "start"}
    <3>1. PICK failed \in Seq(Paths) : failed = state[page.vault].failed
      BY <2>3
    <3>2. page' = NoCall \/ page' = [page EXCEPT !.kind = "start", !.list = failed]
      BY <2>4, <3>1
    <3>3. [page EXCEPT !.kind = "start", !.list = failed] \in Call
      BY <2>1 DEF Call
    <3>4. NoCall.kind = "none" /\ [page EXCEPT !.kind = "start", !.list = failed].kind = "start"
      BY <2>1 DEF Call, NoCall
    <3> QED
      BY <3>2, <3>3, <3>4
  <2> QED
    BY <1>c, <2>1, <2>2, <2>5
<1>10. CASE Refused
  BY <1>c, <1>10 DEF Refused, NoCall, history
<1>3. CASE Stop
  <2>0. PICK v : v = page.vault
    OBVIOUS
  <2> DEFINE s == [state[v] EXCEPT !.stopRequested = TRUE, !.phase = "stopping"]
  <2>1. /\ page.kind = "stop" /\ page \in Call /\ v \in Vaults
        /\ state[v].running /\ page' = [page EXCEPT !.kind = "event"] /\ count'.runs = count.runs
        /\ count' \in [runs : 0..MaxRuns, stops : Nat, moves : Nat]
        /\ UNCHANGED <<active, deleted, stop, work, dirs, move, stray, wiped>>
    BY <1>2, <1>3, <2>0 DEF Stop, NoCall, history, Call
  <2>2. state' = [state EXCEPT ![v] = s]
    BY <1>2, <1>3, <2>0 DEF Stop
  <2>3. /\ s \in StateRec /\ s.stopRequested /\ s.running = state[v].running
        /\ s.run = state[v].run /\ s.results = state[v].results
    <3>1. "stopping" \in Phase /\ state[v] \in StateRec
      BY <1>2, <2>1 DEF Phase
    <3> QED
      BY <3>1 DEF StateRec
  <2> HIDE DEF s
  <2>4. state'[v] = s /\ \A u \in Vaults : u # v => state'[u] = state[u]
    BY <1>2, <2>1, <2>2
  <2>p. page' \in Call /\ page'.kind = "event" /\ page'.vault = v
    BY <2>0, <2>1 DEF Call
  <2>5. Shapes'
    BY <1>2, <2>1, <2>2, <2>3, <2>4, <2>p DEF LocalInv, Shapes
  <2>6. \A u \in Vaults : /\ state'[u].running = state[u].running /\ state'[u].run = state[u].run
                          /\ u # v => state'[u].stopRequested = state[u].stopRequested
    BY <2>3, <2>4
  <2>7. state'[v].stopRequested
    BY <2>3, <2>4
  <2>8. FlagHeld'
    BY <2>1, <2>6 DEF LocalInv, FlagHeld
  <2>9. AskedFirst' /\ StopAgrees' /\ SwitchSafe' /\ RunsInSight'
    <3>1. AskedFirst'
      BY <2>7, <2>p DEF AskedFirst
    <3>2. StopAgrees'
      <4>1. \A u \in Vaults : ~Setting(u)
        BY <2>1 DEF Setting
      <4>2. Setting(v)'
        BY <2>p DEF Setting
      <4> QED
        BY <2>1, <2>6, <2>7, <4>1, <4>2 DEF LocalInv, StopAgrees
    <3>3. SwitchSafe' /\ RunsInSight'
      BY <2>1, <2>6 DEF LocalInv, SwitchSafe, RunsInSight
    <3> QED
      BY <3>1, <3>2, <3>3
  <2> QED
    BY <2>5, <2>8, <2>9 DEF LocalInv
<1>4. CASE SetEvent
  <2>0. PICK v : v = page.vault
    OBVIOUS
  <2>1. /\ page.kind = "event" /\ page' = NoCall /\ stop' = [stop EXCEPT ![v] = TRUE]
        /\ UNCHANGED <<active, deleted, state, work, dirs, move, count, stray, wiped>>
    BY <1>4, <2>0 DEF SetEvent, history
  <2>2. v \in Vaults
    BY <1>2, <2>0, <2>1 DEF Call, NoCall
  <2>3. Shapes'
    BY <1>2, <2>1 DEF LocalInv, Shapes, NoCall
  <2>4. StopAgrees'
    <3>1. state[v].running => state[v].stopRequested
      BY <2>0, <2>1 DEF LocalInv, AskedFirst
    <3>2. \A u \in Vaults : (u # v => stop'[u] = stop[u] /\ ~Setting(u)) /\ stop'[v]
      BY <1>2, <2>0, <2>1, <2>2 DEF Setting, NoCall
    <3> QED
      BY <2>1, <2>2, <3>1, <3>2 DEF LocalInv, StopAgrees
  <2> QED
    BY <2>1, <2>3, <2>4 DEF LocalInv, FlagHeld, AskedFirst, SwitchSafe, RunsInSight, NoCall
<1>5. CASE Check
  <2>1. PICK v \in Vaults \ (deleted \cup {active}), kind \in {"switch", "delete"} :
           move' = [kind |-> kind, to |-> v]
    BY <1>5 DEF Check
  <2>2. /\ ~state[active].running /\ count'.runs = count.runs
        /\ count' \in [runs : 0..MaxRuns, stops : Nat, moves : Nat]
        /\ UNCHANGED <<active, deleted, state, stop, work, dirs, page, stray, wiped>>
    BY <1>2, <1>5 DEF Check, Allowed, history
  <2>3. Shapes'
    BY <2>1, <2>2 DEF LocalInv, Shapes, Move
  <2>4. SwitchSafe'
    BY <2>1, <2>2 DEF LocalInv, SwitchSafe, RunsInSight
  <2> QED
    BY <2>2, <2>3, <2>4 DEF LocalInv, FlagHeld, AskedFirst, StopAgrees, Setting, RunsInSight
<1>6. CASE Switch
  <2>1. /\ move # None /\ move.kind = "switch" /\ active' = move.to /\ move' = None
        /\ UNCHANGED <<deleted, state, stop, work, dirs, page, count, stray, wiped>>
    BY <1>6 DEF Switch, history
  <2>2. move.to \in Vaults /\ move.to \notin deleted /\ \A v \in Vaults : state[v].running => state[v].run \in stray
    BY <2>1 DEF LocalInv, Shapes, Move, SwitchSafe
  <2>3. Shapes'
    BY <2>1, <2>2 DEF LocalInv, Shapes
  <2>4. RunsInSight'
    BY <2>1, <2>2 DEF RunsInSight
  <2> QED
    BY <2>1, <2>3, <2>4 DEF LocalInv, FlagHeld, AskedFirst, StopAgrees, Setting, SwitchSafe
<1>7. CASE Delete
  <2>1. /\ move # None /\ move.kind = "delete" /\ deleted' = deleted \cup {move.to} /\ move' = None
        /\ dirs' \subseteq dirs
        /\ UNCHANGED <<active, state, stop, work, page, count, stray, wiped>>
    BY <1>7 DEF Delete, history
  <2>2. move.to \in Vaults /\ move.to # active
    BY <2>1 DEF LocalInv, Shapes, Move, SwitchSafe
  <2>3. Shapes'
    BY <2>1, <2>2 DEF LocalInv, Shapes
  <2>4. RunsInSight'
    BY <1>2, <2>1, <2>2 DEF LocalInv, RunsInSight
  <2> QED
    BY <2>1, <2>3, <2>4 DEF LocalInv, FlagHeld, AskedFirst, StopAgrees, Setting, SwitchSafe
<1> QED
  BY <1>3, <1>4, <1>5, <1>6, <1>7, <1>8, <1>9, <1>10

-----------------------------------------------------------------------------
LEMMA LocalNext == LocalInv /\ [Next]_vars => LocalInv'
<1> SUFFICES ASSUME LocalInv, [Next]_vars PROVE LocalInv'
  OBVIOUS
<1>1. CASE Prepare
  BY <1>1, PrepareStep
<1>2. ASSUME NEW r \in Run, RunStep(r) PROVE LocalInv'
  BY <1>2, GoingSteps, EndStep, ClearStep DEF RunStep
<1>3. CASE Ask \/ Retry \/ Refused \/ Stop \/ SetEvent \/ Check \/ Switch \/ Delete
  BY <1>3, PageStep
<1>4. CASE UNCHANGED vars
  BY <1>4 DEF vars, history, LocalInv, Shapes, FlagHeld, AskedFirst, StopAgrees, SwitchSafe, RunsInSight,
              Setting
<1> QED
  BY <1>1, <1>2, <1>3, <1>4 DEF Next

(* A vault says that a run is going exactly when one thread of it holds    *)
(* the flag, whatever the runs, the page and the switches do.              *)
THEOREM OneRunPerVault == Spec => []LocalTypeOK
<1>1. LocalInv => LocalTypeOK
  <2> SUFFICES ASSUME LocalInv PROVE LocalTypeOK
    OBVIOUS
  <2>1. None \notin Vaults
    BY LocalOK DEF LocalOK
  <2>2. ASSUME NEW v \in Vaults
        PROVE  Holding(v) = IF state[v].running THEN {state[v].run} ELSE {}
    <3>1. Holding(v) = {r \in Run : state[v].running /\ state[v].run = r}
      BY DEF LocalInv, FlagHeld, Holding, Holds
    <3>2. state[v].running => state[v].run \in Run
      BY DEF LocalInv, Shapes, StateRec, FlagHeld, Run
    <3> QED
      BY <3>1, <3>2
  <2>3. ASSUME NEW v \in Vaults
        PROVE  /\ state[v].phase \in Phase /\ state[v].running \in BOOLEAN /\ state[v].run \in 0..MaxRuns
               /\ state[v].failed \in Seq(Paths) /\ Len(state[v].results) <= ResultsLimit
    BY DEF LocalInv, Shapes, StateRec
  <2> QED
    BY <2>2, <2>3 DEF LocalTypeOK, LocalInv, Shapes
<1> QED
  BY <1>1, LocalInit, LocalNext, PTL DEF Spec

(* A stop the page shows as requested has reached the run, and no run      *)
(* stops unasked, but for the stop an earlier run's end took away.         *)
THEOREM StopsReachTheRun == Spec => []StopAgrees
<1>1. LocalInv => StopAgrees
  BY DEF LocalInv
<1> QED
  BY <1>1, LocalInit, LocalNext, PTL DEF Spec

(* No run goes on in a vault that was left or deleted, but for those begun *)
(* between a switch's preflight and the switch.                            *)
THEOREM RunsStayInSight == Spec => []RunsInSight
<1>1. LocalInv => RunsInSight
  BY DEF LocalInv
<1> QED
  BY <1>1, LocalInit, LocalNext, PTL DEF Spec

-----------------------------------------------------------------------------
(***************************************************************************)
(* What the page shows is what became of the files.  The sequence of       *)
(* outcomes and the tallies grow together (AppendTallied), and a file is   *)
(* taken up once because those with an outcome have been seen (SeenOnce).  *)
(***************************************************************************)
SeenOnce(w) ==
    /\ \A i \in Files(w.done) : w.done[i][1] \in w.seen
    /\ w.at \in {"copy", "process"} =>
          w.file \in w.seen /\ \A i \in Files(w.done) : w.done[i][1] # w.file

Agrees(s, w) == Tallied(s, w.done) /\ EachOnce(w.done) /\ Progress(s, w) /\ SeenOnce(w)

AccountInv ==
    \A v \in Vaults : state[v].run # 0 =>
        work[state[v].run].vault = v /\ Agrees(state[v], work[state[v].run])

(* A suffix, index by index. *)
LEMMA SuffixIs ==
  ASSUME NEW S, NEW s \in Seq(S), NEW t \in Seq(S)
  PROVE  IsSuffix(s, t) <=> /\ Len(s) <= Len(t)
                            /\ \A i \in 1..Len(s) : s[i] = t[(Len(t) - Len(s)) + i]
<1>1. /\ Reverse(s) \in Seq(S) /\ Len(Reverse(s)) = Len(s)
      /\ \A i \in 1..Len(s) : Reverse(s)[i] = s[(Len(s) - i) + 1]
  BY DEF Reverse
<1>2. /\ Reverse(t) \in Seq(S) /\ Len(Reverse(t)) = Len(t)
      /\ \A i \in 1..Len(t) : Reverse(t)[i] = t[(Len(t) - i) + 1]
  BY DEF Reverse
<1>0. Len(s) \in Nat /\ Len(t) \in Nat
  OBVIOUS
<1> DEFINE a == Reverse(s)
           b == Reverse(t)
<1>3. IsSuffix(s, t) <=> Len(a) <= Len(b) /\ SubSeq(a, 1, Len(a)) = SubSeq(b, 1, Len(a))
  BY DEF IsSuffix, IsPrefix
<1>4. SubSeq(a, 1, Len(a)) = a
  BY <1>1, SubSeqFull
<1>5. Len(a) <= Len(b) =>
        (a = SubSeq(b, 1, Len(a)) <=> \A i \in 1..Len(a) : a[i] = b[i])
  <2> SUFFICES ASSUME Len(a) <= Len(b)
               PROVE  a = SubSeq(b, 1, Len(a)) <=> \A i \in 1..Len(a) : a[i] = b[i]
    OBVIOUS
  <2>1. /\ SubSeq(b, 1, Len(a)) \in Seq(S) /\ Len(SubSeq(b, 1, Len(a))) = Len(a)
        /\ \A i \in 1..Len(a) : SubSeq(b, 1, Len(a))[i] = b[i]
    <3> HIDE DEF a, b
    <3> QED
      BY <1>0, <1>1, <1>2 DEF a, b
  <2> HIDE DEF a, b
  <2>2. a \in Seq(S)
    BY <1>1 DEF a
  <2> QED
    BY <2>1, <2>2, SeqEqual
<1>6. Len(s) <= Len(t) =>
        ((\A i \in 1..Len(s) : a[i] = b[i])
           <=> \A i \in 1..Len(s) : s[i] = t[(Len(t) - Len(s)) + i])
  <2> SUFFICES ASSUME Len(s) <= Len(t)
               PROVE  (\A i \in 1..Len(s) : a[i] = b[i])
                        <=> \A i \in 1..Len(s) : s[i] = t[(Len(t) - Len(s)) + i]
    OBVIOUS
  <2>1. \A i \in 1..Len(s) : (Len(s) - i) + 1 \in 1..Len(s)
                             /\ (Len(s) - ((Len(s) - i) + 1)) + 1 = i
                             /\ (Len(t) - Len(s)) + ((Len(s) - i) + 1) = (Len(t) - i) + 1
                             /\ i \in 1..Len(t)
    BY <1>0
  <2>2. \A i \in 1..Len(s) : a[i] = s[(Len(s) - i) + 1] /\ b[i] = t[(Len(t) - i) + 1]
    BY <1>1, <1>2, <2>1
  <2> HIDE DEF a, b
  <2>3. ASSUME \A i \in 1..Len(s) : a[i] = b[i], NEW i \in 1..Len(s)
        PROVE  s[i] = t[(Len(t) - Len(s)) + i]
    <3> DEFINE j == (Len(s) - i) + 1
    <3>1. j \in 1..Len(s) /\ (Len(s) - j) + 1 = i /\ (Len(t) - j) + 1 = (Len(t) - Len(s)) + i
      BY <1>0
    <3> HIDE DEF j
    <3>2. a[j] = b[j] /\ a[j] = s[(Len(s) - j) + 1] /\ b[j] = t[(Len(t) - j) + 1]
      BY <2>2, <2>3, <3>1
    <3> QED
      BY <3>1, <3>2
  <2>4. ASSUME \A i \in 1..Len(s) : s[i] = t[(Len(t) - Len(s)) + i], NEW i \in 1..Len(s)
        PROVE  a[i] = b[i]
    <3> DEFINE j == (Len(s) - i) + 1
    <3>1. j \in 1..Len(s) /\ (Len(t) - Len(s)) + j = (Len(t) - i) + 1
      BY <1>0
    <3> HIDE DEF j
    <3>2. s[j] = t[(Len(t) - Len(s)) + j]
      BY <2>4, <3>1
    <3> QED
      BY <2>2, <3>1, <3>2 DEF j
  <2> QED
    BY <2>3, <2>4
<1> HIDE DEF a, b
<1>7. Len(a) = Len(s) /\ Len(b) = Len(t)
  BY <1>1, <1>2 DEF a, b
<1> QED
  BY <1>0, <1>3, <1>4, <1>5, <1>6, <1>7

(* The arithmetic of it. *)
LEMMA CapLength ==
  ASSUME NEW a \in Nat, NEW b \in Nat, NEW k \in Nat, a = IF b > k THEN k ELSE b
  PROVE  ((a + 1) - (IF a + 1 > k THEN (a + 1) - k + 1 ELSE 1)) + 1
            = IF b + 1 > k THEN k ELSE b + 1
OBVIOUS

LEMMA CapIndex ==
  ASSUME NEW a \in Nat, NEW b \in Nat, NEW c \in Nat, NEW m \in Nat, NEW i \in Nat,
         c = (a + 2) - m, a <= b
  PROVE  /\ ((b + 1) - c) + i = (b - a) + ((m + i) - 1)
         /\ (m + i) - 1 \in 1..a => (b - a) + ((m + i) - 1) \in 1..b
OBVIOUS

(* The last results, with one more, are the last of one more. *)
LEMMA CappedSuffix ==
  ASSUME NEW S, NEW s \in Seq(S), NEW t \in Seq(S), NEW e \in S,
         IsSuffix(s, t), Len(s) = IF Len(t) > ResultsLimit THEN ResultsLimit ELSE Len(t)
  PROVE  /\ IsSuffix(Capped(Append(s, e)), Append(t, e))
         /\ Len(Capped(Append(s, e))) =
               IF Len(Append(t, e)) > ResultsLimit THEN ResultsLimit ELSE Len(Append(t, e))
<1> DEFINE q == Append(s, e)
           u == Append(t, e)
           m == IF Len(q) > ResultsLimit THEN Len(q) - ResultsLimit + 1 ELSE 1
           c == SubSeq(q, m, Len(q))
<1>1. ResultsLimit \in Nat /\ Len(s) \in Nat /\ Len(t) \in Nat
  BY LocalOK DEF LocalOK
<1>2. /\ q \in Seq(S) /\ Len(q) = Len(s) + 1 /\ q[Len(s) + 1] = e
      /\ \A i \in 1..Len(s) : q[i] = s[i]
  OBVIOUS
<1>3. /\ u \in Seq(S) /\ Len(u) = Len(t) + 1 /\ u[Len(t) + 1] = e
      /\ \A i \in 1..Len(t) : u[i] = t[i]
  OBVIOUS
<1>4. Len(s) <= Len(t) /\ \A i \in 1..Len(s) : s[i] = t[(Len(t) - Len(s)) + i]
  BY SuffixIs
<1> HIDE DEF q, u
<1>5. m \in Nat /\ m >= 1 /\ m <= Len(q) + 1
  BY <1>1, <1>2
<1>6. /\ c \in Seq(S) /\ Len(c) = (Len(q) - m) + 1
      /\ \A i \in 1..Len(c) : c[i] = q[(m + i) - 1]
  <2> HIDE DEF m
  <2>1. \A i \in m..Len(q) : q[i] \in S
    BY <1>1, <1>2, <1>5
  <2>2. /\ SubSeq(q, m, Len(q)) \in Seq(S)
        /\ Len(SubSeq(q, m, Len(q))) = IF m <= Len(q) THEN Len(q) - m + 1 ELSE 0
        /\ \A i \in 1..Len(q) - m + 1 : SubSeq(q, m, Len(q))[i] = q[m + i - 1]
    BY <1>1, <1>2, <1>5, <2>1, SubSeqProperties
  <2> QED
    BY <1>1, <1>2, <1>5, <2>2
<1>7. Capped(q) = c
  BY DEF Capped
<1>8. Len(c) = IF Len(u) > ResultsLimit THEN ResultsLimit ELSE Len(u)
  <2>0. Len(s) <= Len(t)
    BY <1>4
  <2>1. Len(c) = (Len(q) - m) + 1
    BY <1>6
  <2> HIDE DEF c
  <2>2. Len(q) = Len(s) + 1 /\ Len(u) = Len(t) + 1
    BY <1>2, <1>3
  <2>3. ((Len(s) + 1) - (IF Len(s) + 1 > ResultsLimit THEN (Len(s) + 1) - ResultsLimit + 1 ELSE 1)) + 1
           = IF Len(t) + 1 > ResultsLimit THEN ResultsLimit ELSE Len(t) + 1
    <3> HIDE DEF m
    <3> QED
      BY ONLY <1>1, Len(s) = IF Len(t) > ResultsLimit THEN ResultsLimit ELSE Len(t), CapLength
  <2> QED
    BY <2>1, <2>2, <2>3
<1>9. Len(c) <= Len(u) /\ \A i \in 1..Len(c) : c[i] = u[(Len(u) - Len(c)) + i]
  <2> HIDE DEF c, m
  <2>0. Len(c) <= Len(u)
    BY <1>1, <1>3, <1>8
  <2>5. Len(c) = (Len(s) + 2) - m /\ Len(c) \in Nat
    BY <1>1, <1>2, <1>5, <1>6
  <2>6. Len(s) <= Len(t)
    BY <1>4
  <2>1. ASSUME NEW i \in 1..Len(c) PROVE c[i] = u[(Len(u) - Len(c)) + i]
    <3>1. c[i] = q[(m + i) - 1] /\ i \in Nat /\ (m + i) - 1 \in 1..Len(s) + 1
      BY <1>1, <1>2, <1>5, <1>6
    <3>4. /\ (Len(u) - Len(c)) + i = (Len(t) - Len(s)) + ((m + i) - 1)
          /\ (m + i) - 1 \in 1..Len(s) => (Len(t) - Len(s)) + ((m + i) - 1) \in 1..Len(t)
      <4>1. Len(u) = Len(t) + 1
        BY <1>3
      <4>2. i \in Nat /\ m \in Nat
        BY <1>5, <3>1
      <4> QED
        <5>1. /\ ((Len(t) + 1) - Len(c)) + i = (Len(t) - Len(s)) + ((m + i) - 1)
              /\ (m + i) - 1 \in 1..Len(s) => (Len(t) - Len(s)) + ((m + i) - 1) \in 1..Len(t)
          BY ONLY <1>1, <2>5, <2>6, <4>2, CapIndex
        <5> QED
          BY <4>1, <5>1
    <3>2. CASE (m + i) - 1 = Len(s) + 1
      <4>1. (Len(u) - Len(c)) + i = Len(t) + 1
        BY <1>1, <3>1, <3>2, <3>4
      <4> QED
        BY <1>2, <1>3, <3>1, <3>2, <4>1
    <3>3. CASE (m + i) - 1 \in 1..Len(s)
      <4> DEFINE j == (m + i) - 1
      <4>1. /\ (Len(t) - Len(s)) + j = (Len(u) - Len(c)) + i
            /\ (Len(t) - Len(s)) + j \in 1..Len(t)
        BY <3>3, <3>4
      <4>2. q[j] = s[j] /\ s[j] = t[(Len(t) - Len(s)) + j]
        BY <1>2, <1>4, <3>3
      <4> HIDE DEF j
      <4>3. u[(Len(t) - Len(s)) + j] = t[(Len(t) - Len(s)) + j]
        BY <1>3, <4>1
      <4> QED
        BY <3>1, <4>1, <4>2, <4>3 DEF j
    <3> QED
      BY <1>1, <3>1, <3>2, <3>3
  <2> QED
    BY <2>0, <2>1
<1> HIDE DEF c, m
<1>10. IsSuffix(c, u)
  BY <1>3, <1>6, <1>9, SuffixIs
<1> QED
  BY <1>7, <1>8, <1>10 DEF q, u

(* One more outcome, of a file or of the run. *)
LEMMA DoneGrows ==
  ASSUME NEW done \in Seq(Entry), NEW p \in Paths \cup {None}, NEW status \in Status
  PROVE  LET e == <<p, status>>
             n == Len(done) + 1
             more == Append(done, e)
         IN  /\ more \in Seq(Entry) /\ n \notin DOMAIN done /\ more[n] = e
             /\ \A i \in DOMAIN done : i < n /\ more[i] = done[i]
             /\ \A x : Outcome(more, x) = IF x = status THEN Outcome(done, x) \cup {n} ELSE Outcome(done, x)
             /\ Files(more) = IF p # None THEN Files(done) \cup {n} ELSE Files(done)
             /\ FailedFiles(more) = IF status = "failed" /\ p # None
                                    THEN FailedFiles(done) \cup {n} ELSE FailedFiles(done)
<1> DEFINE e == <<p, status>>
           n == Len(done) + 1
           more == Append(done, e)
<1>1. e \in Entry /\ e[1] = p /\ e[2] = status
  BY DEF Entry
<1>2. /\ more \in Seq(Entry) /\ DOMAIN done = 1..Len(done) /\ DOMAIN more = 1..n /\ Len(done) \in Nat
      /\ more[n] = e /\ \A i \in 1..Len(done) : more[i] = done[i]
  <2> HIDE DEF e, Entry
  <2> QED
    BY <1>1
<1> HIDE DEF e, more
<1>3. DOMAIN more = DOMAIN done \cup {n} /\ n \notin DOMAIN done /\ \A i \in DOMAIN done : i < n
  BY <1>2
<1> HIDE DEF n
<1>4. \A i \in DOMAIN done : more[i] = done[i]
  BY <1>2
<1>5. more[n] = e
  BY <1>2 DEF n
<1>6. \A x : Outcome(more, x) = IF x = status THEN Outcome(done, x) \cup {n} ELSE Outcome(done, x)
  BY <1>1, <1>3, <1>4, <1>5 DEF Outcome
<1>7. Files(more) = IF p # None THEN Files(done) \cup {n} ELSE Files(done)
  BY <1>1, <1>3, <1>4, <1>5 DEF Files
<1>8. FailedFiles(more) = IF status = "failed" /\ p # None
                          THEN FailedFiles(done) \cup {n} ELSE FailedFiles(done)
  <2>1. n \notin Files(done) /\ n \notin Outcome(done, "failed")
    BY <1>3 DEF Files, Outcome
  <2> QED
    BY <1>6, <1>7, <2>1 DEF FailedFiles
<1> QED
  BY <1>2, <1>3, <1>4, <1>5, <1>6, <1>7, <1>8 DEF e, n, more

(* The sets of outcomes are finite. *)
LEMMA DoneFinite ==
  ASSUME NEW done \in Seq(Entry)
  PROVE  /\ \A x : IsFiniteSet(Outcome(done, x)) /\ Cardinality(Outcome(done, x)) \in Nat
         /\ IsFiniteSet(Files(done)) /\ Cardinality(Files(done)) \in Nat
         /\ \A T \in SUBSET FailedFiles(done) : IsFiniteSet(T) /\ Cardinality(T) \in Nat
<1>1. DOMAIN done = 1..Len(done) /\ Len(done) \in Nat
  <2> HIDE DEF Entry
  <2> QED
    OBVIOUS
<1>2. IsFiniteSet(DOMAIN done)
  BY <1>1, FS_Interval
<1>3. \A T \in SUBSET DOMAIN done : IsFiniteSet(T) /\ Cardinality(T) \in Nat
  BY <1>2, FS_Subset, FS_CardinalityType
<1> QED
  BY <1>3 DEF Outcome, Files, FailedFiles

(* Telling a result keeps the tallies in step with the outcomes. *)
LEMMA AppendTallied ==
  ASSUME NEW s \in StateRec, NEW done \in Seq(Entry), NEW p \in Paths \cup {None}, NEW status \in Status,
         Tallied(s, done)
  PROVE  Tallied(Told(s, p, status), Append(done, <<p, status>>))
<1> DEFINE e == <<p, status>>
           n == Len(done) + 1
           more == Append(done, e)
           t == Told(s, p, status)
           was == FailedFiles(done)
           now == FailedFiles(more)
<1>1. /\ more \in Seq(Entry) /\ n \notin DOMAIN done /\ more[n] = e
      /\ \A i \in DOMAIN done : i < n /\ more[i] = done[i]
      /\ \A x : Outcome(more, x) = IF x = status THEN Outcome(done, x) \cup {n} ELSE Outcome(done, x)
      /\ now = IF status = "failed" /\ p # None THEN was \cup {n} ELSE was
  BY DoneGrows
<1>2. e \in Entry /\ e[1] = p
  BY DEF Entry
<1>3. /\ t.summary = [s.summary EXCEPT ![status] = @ + 1]
      /\ t.results = Capped(Append(s.results, e))
      /\ t.failed = IF status = "failed" /\ p # None THEN Append(s.failed, p) ELSE s.failed
  BY DEF Told, StateRec
<1>4. /\ s.summary \in [Status -> Nat] /\ s.results \in Seq(Entry) /\ s.failed \in Seq(Paths)
  BY DEF StateRec
<1>5. was \subseteq DOMAIN done /\ \A T \in SUBSET was : IsFiniteSet(T) /\ Cardinality(T) \in Nat
  BY DoneFinite DEF FailedFiles, Files
<1> HIDE DEF e, more, t, n
<1>6. \A x \in Status : t.summary[x] = Cardinality(Outcome(more, x))
  <2> TAKE x \in Status
  <2>1. s.summary[x] = Cardinality(Outcome(done, x)) /\ IsFiniteSet(Outcome(done, x))
    BY DoneFinite DEF Tallied
  <2>2. n \notin Outcome(done, x)
    BY <1>1 DEF Outcome
  <2>3. Cardinality(Outcome(done, x) \cup {n}) = Cardinality(Outcome(done, x)) + 1
    BY <2>1, <2>2, FS_AddElement
  <2> QED
    BY <1>1, <1>3, <1>4, <2>1, <2>3
<1>7. /\ IsSuffix(t.results, more)
      /\ Len(t.results) = IF Len(more) > ResultsLimit THEN ResultsLimit ELSE Len(more)
  <2> HIDE DEF Entry
  <2> QED
    BY <1>2, <1>3, <1>4, CappedSuffix DEF Tallied, more
<1>8. /\ Len(t.failed) = Cardinality(now)
      /\ \A i \in now : t.failed[Cardinality({j \in now : j <= i})] = more[i][1]
  <2>1. /\ Len(s.failed) = Cardinality(was)
        /\ \A i \in was : s.failed[Cardinality({j \in was : j <= i})] = done[i][1]
    BY DEF Tallied
  <2>2. CASE ~(status = "failed" /\ p # None)
    <3>1. now = was /\ t.failed = s.failed
      BY <1>1, <1>3, <2>2
    <3> QED
      BY <1>1, <1>5, <2>1, <3>1
  <2>3. CASE status = "failed" /\ p # None
    <3>1. now = was \cup {n} /\ t.failed = Append(s.failed, p) /\ n \notin was /\ p \in Paths
      BY <1>1, <1>3, <1>5, <2>3
    <3> HIDE DEF was, now
    <3>2. Cardinality(now) = Cardinality(was) + 1
      BY <1>5, <3>1, FS_AddElement
    <3>3. /\ Len(t.failed) = Len(s.failed) + 1 /\ t.failed[Len(s.failed) + 1] = p
          /\ \A i \in 1..Len(s.failed) : t.failed[i] = s.failed[i]
      BY <1>4, <3>1
    <3>4. {j \in now : j <= n} = now
      <4>1. \A j \in was : j < n
        BY <1>1, <1>5
      <4>2. n \in Nat /\ DOMAIN done \subseteq Nat
        <5> HIDE DEF Entry
        <5> QED
          BY DEF n
      <4> QED
        BY <1>5, <3>1, <4>1, <4>2
    <3>5. ASSUME NEW i \in was
          PROVE  /\ {j \in now : j <= i} = {j \in was : j <= i}
                 /\ Cardinality({j \in was : j <= i}) \in 1..Len(s.failed)
      <4> DEFINE R == {j \in was : j <= i}
      <4>1. i < n /\ i \in Nat /\ n \in Nat
        <5> HIDE DEF Entry
        <5>1. DOMAIN done = 1..Len(done) /\ Len(done) \in Nat
          OBVIOUS
        <5> QED
          BY <1>5, <5>1 DEF n
      <4>2. {j \in now : j <= i} = R
        BY <3>1, <4>1
      <4>3. R \in SUBSET was /\ i \in R
        BY <4>1
      <4> HIDE DEF R
      <4>4. /\ Cardinality(R) \in Nat /\ Cardinality(R) <= Cardinality(was) /\ IsFiniteSet(R)
        BY <1>5, <4>3, FS_Subset
      <4>5. Cardinality(R) # 0
        BY <4>3, <4>4, FS_EmptySet
      <4> QED
        BY <2>1, <4>2, <4>4, <4>5 DEF R
    <3>6. ASSUME NEW i \in now PROVE t.failed[Cardinality({j \in now : j <= i})] = more[i][1]
      <4>1. CASE i = n
        <5>1. Cardinality({j \in now : j <= i}) = Len(s.failed) + 1
          BY <2>1, <3>2, <3>4, <4>1
        <5> QED
          BY <1>1, <1>2, <3>3, <4>1, <5>1
      <4>2. CASE i \in was
        <5>1. more[i] = done[i]
          BY <1>1, <1>5, <4>2
        <5> QED
          BY <2>1, <3>3, <3>5, <4>2, <5>1
      <4> QED
        BY <3>1, <4>1, <4>2
    <3> QED
      BY <2>1, <3>2, <3>3, <3>6
  <2> QED
    BY <2>2, <2>3
<1> QED
  BY <1>6, <1>7, <1>8 DEF Tallied, more, t, e

(* What the page shows, and whether a file is in hand. *)
Tallies(s) ==
    <<s.summary, s.results, s.failed, s.scanned, s.staged, s.processed, s.queued>>
InHand(w) == w.at \in {"copy", "process"}

(* A step that takes up no file and tells nothing. *)
LEMMA StillAgrees ==
  ASSUME NEW s, NEW t, NEW w, NEW x, Agrees(s, w), Tallies(t) = Tallies(s),
         x.done = w.done, x.seen = w.seen,
         InHand(w) \/ InHand(x) => x.at = w.at /\ x.file = w.file
  PROVE  Agrees(t, x)
<1>1. /\ t.summary = s.summary /\ t.results = s.results /\ t.failed = s.failed
      /\ t.scanned = s.scanned /\ t.staged = s.staged /\ t.processed = s.processed
      /\ t.queued = s.queued
  BY DEF Tallies
<1>2. Tallied(t, x.done) /\ EachOnce(x.done)
  BY <1>1 DEF Agrees, Tallied
<1>3. (x.at \in {"copy", "process"} <=> w.at \in {"copy", "process"}) /\ (x.at = "process" <=> w.at = "process")
  BY DEF InHand
<1>4. Progress(t, x)
  BY <1>1, <1>3 DEF Agrees, Progress
<1>5. SeenOnce(x)
  BY <1>3 DEF Agrees, SeenOnce, InHand
<1> QED
  BY <1>2, <1>4, <1>5 DEF Agrees

(* The file in hand, or the run as a whole, has its outcome. *)
LEMMA OutcomeAgrees ==
  ASSUME NEW s \in StateRec, NEW t, NEW w \in Work, NEW x \in Work, NEW p \in Paths \cup {None},
         NEW status \in Status,
         Agrees(s, w),
         IF p = None THEN ~InHand(w) ELSE InHand(w) /\ w.file = p,
         ~InHand(x), x.done = Append(w.done, <<p, status>>), x.seen = w.seen,
         LET told == Told(s, p, status) IN
         /\ t.summary = told.summary /\ t.results = told.results /\ t.failed = told.failed
         /\ t.scanned = s.scanned /\ t.staged = s.staged
         /\ t.processed = IF w.at = "process" THEN s.processed + 1 ELSE s.processed
         /\ t.queued = IF w.at = "process" THEN 0 ELSE s.queued
  PROVE  Agrees(t, x)
<1> DEFINE e == <<p, status>>
           n == Len(w.done) + 1
           told == Told(s, p, status)
<1>0. w.done \in Seq(Entry) /\ w.seen \subseteq Paths /\ None \notin Paths
  BY LocalOK DEF Work, LocalOK
<1>1. /\ n \notin DOMAIN w.done /\ x.done[n] = e
      /\ \A i \in DOMAIN w.done : i < n /\ x.done[i] = w.done[i]
      /\ Files(x.done) = IF p # None THEN Files(w.done) \cup {n} ELSE Files(w.done)
  <2> DEFINE done == w.done
             more == Append(done, e)
  <2>1. done \in Seq(Entry)
    BY <1>0
  <2> HIDE DEF done
  <2>2. LET m == Len(done) + 1
        IN  /\ m \notin DOMAIN done /\ more[m] = e
            /\ \A i \in DOMAIN done : i < m /\ more[i] = done[i]
            /\ Files(more) = IF p # None THEN Files(done) \cup {m} ELSE Files(done)
    BY <2>1, DoneGrows
  <2>4. n = Len(done) + 1
    BY DEF done
  <2>3. x.done = more
    BY DEF done
  <2> HIDE DEF more, n, e
  <2> QED
    BY <2>2, <2>3, <2>4 DEF done
<1>2. e[1] = p
  OBVIOUS
<1>3. Tallied(told, x.done)
  BY <1>0, AppendTallied DEF Agrees
<1>4. IsFiniteSet(Files(w.done)) /\ Cardinality(Files(w.done)) \in Nat
  BY <1>0, DoneFinite
<1>5. Files(w.done) \subseteq DOMAIN w.done
  BY DEF Files
<1> HIDE DEF e, n
<1>6. Tallied(t, x.done)
  <2> HIDE DEF told
  <2>1. t.summary = told.summary /\ t.results = told.results /\ t.failed = told.failed
    BY DEF told
  <2> QED
    BY <1>3, <2>1 DEF Tallied
<1>7. EachOnce(x.done)
  <2>1. ASSUME NEW i \in Files(x.done), NEW j \in Files(x.done), x.done[i][1] = x.done[j][1]
        PROVE  i = j
    <3>1. ASSUME NEW k \in Files(w.done) PROVE x.done[k][1] = w.done[k][1]
      BY <1>1, <1>5
    <3>2. CASE i \in Files(w.done) /\ j \in Files(w.done)
      BY <2>1, <3>1, <3>2 DEF Agrees, EachOnce
    <3>3. CASE ~(i \in Files(w.done) /\ j \in Files(w.done))
      <4>1. p # None /\ InHand(w) /\ w.file = p /\ (i = n \/ j = n)
        BY <1>1, <3>3
      <4>2. \A k \in Files(w.done) : x.done[k][1] # p
        BY <3>1, <4>1 DEF Agrees, SeenOnce, InHand
      <4>3. x.done[n][1] = p
        BY <1>1, <1>2
      <4>4. CASE i = n
        BY <1>1, <2>1, <4>1, <4>2, <4>3, <4>4
      <4>5. CASE j = n
        BY <1>1, <2>1, <4>1, <4>2, <4>3, <4>5
      <4> QED
        BY <4>1, <4>4, <4>5
    <3> QED
      BY <3>2, <3>3
  <2> QED
    BY <2>1 DEF EachOnce
<1>8. Progress(t, x)
  <2>1. /\ s.scanned = Cardinality(Files(w.done)) + (IF InHand(w) THEN 1 ELSE 0)
        /\ s.staged = s.processed + s.queued /\ s.queued = IF w.at = "process" THEN 1 ELSE 0
    BY DEF Agrees, Progress, InHand
  <2>2. t.scanned = Cardinality(Files(x.done))
    <3>1. CASE p = None
      BY <1>1, <1>4, <2>1, <3>1
    <3>2. CASE p # None
      <4>1. Cardinality(Files(w.done) \cup {n}) = Cardinality(Files(w.done)) + 1
        BY <1>1, <1>4, <1>5, FS_AddElement
      <4> QED
        BY <1>1, <2>1, <3>2, <4>1
    <3> QED
      BY <3>1, <3>2
  <2>3. Cardinality(Files(x.done)) \in Nat
    BY <1>4, <2>1, <2>2 DEF StateRec
  <2>4. t.staged = t.processed + t.queued /\ t.queued = 0
    <3>1. s.processed \in Nat
      BY DEF StateRec
    <3> QED
      BY <2>1, <3>1
  <2> QED
    BY <2>2, <2>3, <2>4 DEF Progress, InHand
<1>9. SeenOnce(x)
  <2>1. ASSUME NEW i \in Files(x.done) PROVE x.done[i][1] \in x.seen
    <3>1. CASE i \in Files(w.done)
      BY <1>1, <1>5, <3>1 DEF Agrees, SeenOnce
    <3>2. CASE i \notin Files(w.done)
      BY <1>1, <1>2, <3>2 DEF Agrees, SeenOnce, InHand
    <3> QED
      BY <3>1, <3>2
  <2> QED
    BY <2>1 DEF SeenOnce, InHand
<1> QED
  BY <1>6, <1>7, <1>8, <1>9 DEF Agrees

(* The same for a file. *)
LEMMA FileAgrees ==
  ASSUME NEW s \in StateRec, NEW t, NEW w \in Work, NEW x \in Work, NEW p \in Paths, NEW status \in Status,
         Agrees(s, w), InHand(w), w.file = p,
         ~InHand(x), x.done = Append(w.done, <<p, status>>), x.seen = w.seen,
         t.summary = Told(s, p, status).summary, t.results = Told(s, p, status).results,
         t.failed = Told(s, p, status).failed, t.scanned = s.scanned, t.staged = s.staged,
         t.processed = IF w.at = "process" THEN s.processed + 1 ELSE s.processed,
         t.queued = IF w.at = "process" THEN 0 ELSE s.queued
  PROVE  Agrees(t, x)
<1>1. p \in Paths \cup {None} /\ p # None
  BY LocalOK DEF LocalOK
<1> QED
  BY <1>1, OutcomeAgrees

(* The same for a run that fails with no file in hand. *)
LEMMA RunAgrees ==
  ASSUME NEW s \in StateRec, NEW t, NEW w \in Work, NEW x \in Work,
         Agrees(s, w), w.at \notin {"copy", "process"}, x.at \notin {"copy", "process"},
         x.done = Append(w.done, <<None, "failed">>), x.seen = w.seen,
         t.summary = Told(s, None, "failed").summary, t.results = Told(s, None, "failed").results,
         t.failed = Told(s, None, "failed").failed, t.scanned = s.scanned, t.staged = s.staged,
         t.processed = s.processed, t.queued = s.queued
  PROVE  Agrees(t, x)
<1>1. "failed" \in Status /\ None \in Paths \cup {None} /\ ~InHand(w) /\ ~InHand(x)
  BY DEF Status, InHand
<1>2. /\ t.processed = IF w.at = "process" THEN s.processed + 1 ELSE s.processed
      /\ t.queued = IF w.at = "process" THEN 0 ELSE s.queued
  BY <1>1 DEF InHand
<1> HIDE DEF Status
<1> QED
  BY <1>1, <1>2, OutcomeAgrees

(* What a step of a run says of its own vault is all it can disturb. *)
LEMMA AccountStep ==
  ASSUME LocalInv, AccountInv, NEW r \in Run, NEW v \in Vaults, NEW a, NEW w, NEW s,
         Step(r, v, a, w, s),
         s.run = state[v].run,
         state[v].run # r => s = state[v],
         state[v].run = r => w.vault = v /\ Agrees(s, w)
  PROVE  AccountInv'
<1>1. /\ state' = [state EXCEPT ![v] = s] /\ work' = [work EXCEPT ![r] = w]
      /\ work[r].at = a /\ work[r].vault = v
  BY DEF Step
<1>2. state \in [Vaults -> StateRec] /\ work \in [Run -> Work]
  BY DEF LocalInv, Shapes
<1>3. ASSUME NEW u \in Vaults, state'[u].run # 0
      PROVE  work'[state'[u].run].vault = u /\ Agrees(state'[u], work'[state'[u].run])
  <2>1. state'[u].run = state[u].run
    BY <1>1, <1>2
  <2>2. work[state[u].run].vault = u /\ Agrees(state[u], work[state[u].run])
    BY <1>3, <2>1 DEF AccountInv
  <2>3. CASE state[u].run # r
    <3>1. state'[u] = state[u] /\ work'[state[u].run] = work[state[u].run]
      BY <1>1, <1>2, <2>3
    <3> QED
      BY <2>1, <2>2, <3>1
  <2>4. CASE state[u].run = r
    <3>1. u = v
      BY <1>1, <2>2, <2>4
    <3>2. state'[u] = s /\ work'[r] = w
      BY <1>1, <1>2, <3>1
    <3> QED
      BY <2>1, <2>4, <3>1, <3>2
  <2> QED
    BY <2>3, <2>4
<1> QED
  BY <1>3 DEF AccountInv

(* The steps of a run, one by one. *)
LEMMA AccountRun ==
  ASSUME LocalInv, AccountInv, NEW r \in Run, RunStep(r) PROVE AccountInv'
<1>0. PICK v \in Vaults :
        \/ SetupFails(r, v) \/ Begin(r, v) \/ Take(r, v) \/ Skip(r, v)
        \/ StageFails(r, v) \/ Stage(r, v) \/ Process(r, v) \/ Leave(r, v)
        \/ Judge(r, v) \/ NoFiles(r, v) \/ Fails(r, v) \/ End(r, v) \/ ClearEvent(r, v)
  BY DEF RunStep
<1>1. work[r] \in Work /\ state[v] \in StateRec
  BY DEF LocalInv, Shapes
<1>2. work[r].done \in Seq(Entry) /\ "failed" \in Status /\ None \notin Paths /\ Outcomes \subseteq Status
  BY <1>1, LocalOK DEF Work, Status, LocalOK
(* While it has the flag, the state is this run's. *)
<1>3. work[r].vault = v /\ work[r].at \in Holds =>
        state[v].run = r /\ state[v].run # 0 /\ Agrees(state[v], work[r])
  BY DEF LocalInv, FlagHeld, AccountInv
<1>4. CASE SetupFails(r, v) \/ Begin(r, v)
  <2>1. PICK at \in {"dead", "scan"} : Step(r, v, "setup", [work[r] EXCEPT !.at = at], state[v])
    BY <1>4 DEF SetupFails, Begin
  <2> DEFINE x == [work[r] EXCEPT !.at = at]
  <2>2. work[r].at = "setup" /\ work[r].vault = v
    BY <2>1 DEF Step
  <2>3. /\ x.vault = v /\ x.done = work[r].done /\ x.seen = work[r].seen /\ x.at = at
    BY <1>1, <2>2 DEF Work
  <2> HIDE DEF x
  <2>4. state[v].run = r /\ Agrees(state[v], work[r])
    BY <1>3, <2>2 DEF Holds
  <2>5. Agrees(state[v], x)
    BY <2>2, <2>3, <2>4, StillAgrees DEF InHand
  <2>6. Step(r, v, "setup", x, state[v])
    BY <2>1 DEF x
  <2> QED
    BY <2>3, <2>4, <2>5, <2>6, AccountStep
<1>5. CASE Skip(r, v)
  <2> DEFINE x == [work[r] EXCEPT !.list = Tail(@)]
  <2>1. Step(r, v, "scan", x, state[v])
    BY <1>5 DEF Skip
  <2>2. work[r].at = "scan" /\ work[r].vault = v
    BY <2>1 DEF Step
  <2>3. x.vault = v /\ x.done = work[r].done /\ x.seen = work[r].seen /\ x.at = work[r].at
    BY <1>1, <2>2 DEF Work
  <2> HIDE DEF x
  <2>4. state[v].run = r /\ Agrees(state[v], work[r])
    BY <1>3, <2>2 DEF Holds
  <2>5. Agrees(state[v], x)
    BY <2>2, <2>3, <2>4, StillAgrees DEF InHand
  <2> QED
    BY <2>1, <2>3, <2>4, <2>5, AccountStep
<1>6. CASE Take(r, v)
  <2> DEFINE p == Head(work[r].list)
             x == [work[r] EXCEPT !.at = "copy", !.file = p, !.list = Tail(@), !.seen = @ \cup {p}]
             s == [state[v] EXCEPT !.scanned = @ + 1, !.phase = "staging"]
  <2>1. Step(r, v, "scan", x, s) /\ p \notin work[r].seen
    BY <1>6 DEF Take, NotSeen
  <2>2. work[r].at = "scan" /\ work[r].vault = v
    BY <2>1 DEF Step
  <2>3. /\ x.vault = v /\ x.done = work[r].done /\ x.seen = work[r].seen \cup {p}
        /\ x.at = "copy" /\ x.file = p
    BY <1>1, <2>2 DEF Work
  <2>4. /\ s.scanned = state[v].scanned + 1 /\ s.summary = state[v].summary
        /\ s.results = state[v].results /\ s.failed = state[v].failed /\ s.staged = state[v].staged
        /\ s.processed = state[v].processed /\ s.queued = state[v].queued /\ s.run = state[v].run
    BY <1>1 DEF StateRec
  <2> HIDE DEF x, s, p
  <2>5. state[v].run = r /\ Agrees(state[v], work[r])
    BY <1>3, <2>2 DEF Holds
  <2>6. Tallied(s, x.done) /\ EachOnce(x.done)
    BY <2>3, <2>4, <2>5 DEF Agrees, Tallied
  <2>7. Progress(s, x)
    <3>1. Cardinality(Files(x.done)) \in Nat
      BY <1>2, <2>3, DoneFinite
    <3> QED
      BY <2>2, <2>3, <2>4, <2>5, <3>1 DEF Agrees, Progress
  <2>8. SeenOnce(x)
    BY <2>1, <2>3, <2>5 DEF Agrees, SeenOnce
  <2>9. Agrees(s, x)
    BY <2>6, <2>7, <2>8 DEF Agrees
  <2> QED
    BY <2>1, <2>3, <2>4, <2>5, <2>9, AccountStep
<1>7. CASE Stage(r, v)
  <2> DEFINE x == [work[r] EXCEPT !.at = "process"]
             s == Staged(state[v])
  <2>1. Step(r, v, "copy", x, s)
    BY <1>7 DEF Stage
  <2>2. work[r].at = "copy" /\ work[r].vault = v
    BY <2>1 DEF Step
  <2>3. /\ x.vault = v /\ x.done = work[r].done /\ x.seen = work[r].seen
        /\ x.at = "process" /\ x.file = work[r].file
    BY <1>1, <2>2 DEF Work
  <2>4. /\ s.staged = state[v].staged + 1 /\ s.queued = state[v].queued + 1
        /\ s.summary = state[v].summary /\ s.results = state[v].results /\ s.failed = state[v].failed
        /\ s.processed = state[v].processed /\ s.scanned = state[v].scanned /\ s.run = state[v].run
        /\ state[v].processed \in Nat
    BY <1>1 DEF StateRec, Staged
  <2> HIDE DEF x, s
  <2>5. state[v].run = r /\ Agrees(state[v], work[r])
    BY <1>3, <2>2 DEF Holds
  <2>6. Tallied(s, x.done) /\ EachOnce(x.done)
    BY <2>3, <2>4, <2>5 DEF Agrees, Tallied
  <2>7. Progress(s, x)
    BY <2>2, <2>3, <2>4, <2>5 DEF Agrees, Progress
  <2>8. SeenOnce(x)
    BY <2>2, <2>3, <2>5 DEF Agrees, SeenOnce
  <2>9. Agrees(s, x)
    BY <2>6, <2>7, <2>8 DEF Agrees
  <2> QED
    BY <2>1, <2>3, <2>4, <2>5, <2>9, AccountStep
(* The outcome of the file in hand, or of the run as a whole. *)
<1>t. ASSUME NEW p \in Paths \cup {None}, NEW status \in Status
      PROVE  LET t == Told(state[v], p, status) IN
             /\ t.scanned = state[v].scanned /\ t.staged = state[v].staged
             /\ t.processed = state[v].processed /\ t.queued = state[v].queued
             /\ t.run = state[v].run /\ t \in StateRec
  <2>1. Told(state[v], p, status) \in StateRec /\ Told(state[v], p, status).run = state[v].run
    BY <1>1, ToldOK
  <2> QED
    BY <1>1, <2>1 DEF Told, StateRec
<1>r. ASSUME work[r].at \in {"copy", "process"}, NEW status \in Status
      PROVE  LET x == Result(work[r], status) IN
             /\ x \in Work /\ x.vault = work[r].vault /\ x.at = "scan" /\ x.seen = work[r].seen
             /\ x.done = Append(work[r].done, <<work[r].file, status>>)
             /\ work[r].file \in Paths
  <2>1. work[r].file \in Paths
    BY <1>r DEF LocalInv, Shapes
  <2>2. Append(work[r].done, <<work[r].file, status>>) \in Seq(Entry)
    BY <1>2, <2>1, DoneGrows
  <2> QED
    BY <1>1, <2>1, <2>2 DEF Result, Work, Holds
<1>8. CASE StageFails(r, v)
  <2> DEFINE x == Result(work[r], "failed")
             s == Told(state[v], work[r].file, "failed")
  <2>1. Step(r, v, "copy", x, s)
    BY <1>8 DEF StageFails
  <2>2. work[r].at = "copy" /\ work[r].vault = v
    BY <2>1 DEF Step
  <2>3. /\ x \in Work /\ x.vault = v /\ x.at = "scan" /\ x.seen = work[r].seen
        /\ x.done = Append(work[r].done, <<work[r].file, "failed">>) /\ work[r].file \in Paths
    BY <1>2, <1>r, <2>2
  <2>4. state[v].run = r /\ Agrees(state[v], work[r])
    BY <1>3, <2>2 DEF Holds
  <2>5. /\ s.scanned = state[v].scanned /\ s.staged = state[v].staged
        /\ s.processed = state[v].processed /\ s.queued = state[v].queued /\ s.run = state[v].run
    BY <1>2, <1>t, <2>3
  <2> DEFINE p == work[r].file
  <2>7. /\ p \in Paths \cup {None} /\ p # None /\ InHand(work[r]) /\ ~InHand(x)
        /\ work[r].at # "process" /\ x.done = Append(work[r].done, <<p, "failed">>)
    BY <1>2, <2>2, <2>3 DEF InHand
  <2>8. /\ s.summary = Told(state[v], p, "failed").summary
        /\ s.results = Told(state[v], p, "failed").results
        /\ s.failed = Told(state[v], p, "failed").failed
    OBVIOUS
  <2> HIDE DEF x, s
  <2>6. Agrees(s, x)
    <3>1. work[r].file = p
      OBVIOUS
    <3> HIDE DEF p
    <3>2. InHand(work[r]) /\ work[r].file = p /\ p \in Paths
      BY <2>7, <3>1
    <3>3. /\ s.processed = IF work[r].at = "process" THEN state[v].processed + 1 ELSE state[v].processed
          /\ s.queued = IF work[r].at = "process" THEN 0 ELSE state[v].queued
      BY <2>5, <2>7
    <3> QED
      BY <1>1, <1>2, <2>3, <2>4, <2>5, <2>7, <2>8, <3>2, <3>3, FileAgrees
  <2> QED
    BY <2>1, <2>3, <2>4, <2>5, <2>6, AccountStep
<1>9. CASE Process(r, v)
  <2>1. PICK status \in Status :
           Step(r, v, "process", Result(work[r], status),
                [Told(state[v], work[r].file, status)
                   EXCEPT !.processed = @ + 1, !.queued = IF @ > 0 THEN @ - 1 ELSE 0,
                          !.phase = IF stop[v] THEN @ ELSE "scanning"])
    BY <1>2, <1>9 DEF Process
  <2> DEFINE x == Result(work[r], status)
             t == Told(state[v], work[r].file, status)
             s == [t EXCEPT !.processed = @ + 1, !.queued = IF @ > 0 THEN @ - 1 ELSE 0,
                            !.phase = IF stop[v] THEN @ ELSE "scanning"]
  <2>2. work[r].at = "process" /\ work[r].vault = v
    BY <2>1 DEF Step
  <2>3. /\ x \in Work /\ x.vault = v /\ x.at = "scan" /\ x.seen = work[r].seen
        /\ x.done = Append(work[r].done, <<work[r].file, status>>) /\ work[r].file \in Paths
    BY <1>r, <2>2
  <2>4. state[v].run = r /\ Agrees(state[v], work[r])
    BY <1>3, <2>2 DEF Holds
  <2>5. /\ t.scanned = state[v].scanned /\ t.staged = state[v].staged /\ t \in StateRec
        /\ t.processed = state[v].processed /\ t.queued = state[v].queued /\ t.run = state[v].run
    BY <1>t, <2>3
  <2>6. state[v].queued = 1
    BY <2>2, <2>4 DEF Agrees, Progress
  <2>7. Step(r, v, "process", x, s)
    BY <2>1 DEF t
  <2>8. /\ s.scanned = state[v].scanned /\ s.staged = state[v].staged /\ s.run = state[v].run
        /\ s.processed = state[v].processed + 1 /\ s.queued = 0
        /\ s.summary = t.summary /\ s.results = t.results /\ s.failed = t.failed
    <3> HIDE DEF t
    <3> QED
      BY <2>5, <2>6 DEF StateRec
  <2> DEFINE p == work[r].file
  <2>10. /\ p \in Paths \cup {None} /\ p # None /\ InHand(work[r]) /\ ~InHand(x)
         /\ x.done = Append(work[r].done, <<p, status>>) /\ t = Told(state[v], p, status)
    BY <1>2, <2>2, <2>3 DEF InHand
  <2> HIDE DEF x, s, t
  <2>9. Agrees(s, x)
    <3>1. work[r].file = p
      OBVIOUS
    <3> HIDE DEF p
    <3>2. InHand(work[r]) /\ work[r].file = p /\ p \in Paths
      BY <2>10, <3>1
    <3>3. /\ s.processed = IF work[r].at = "process" THEN state[v].processed + 1 ELSE state[v].processed
          /\ s.queued = IF work[r].at = "process" THEN 0 ELSE state[v].queued
          /\ s.summary = Told(state[v], p, status).summary /\ s.results = Told(state[v], p, status).results
          /\ s.failed = Told(state[v], p, status).failed
      BY <2>2, <2>8, <2>10
    <3> QED
      BY <1>1, <1>2, <2>3, <2>4, <2>8, <2>10, <3>2, <3>3, FileAgrees
  <2> QED
    BY <2>3, <2>4, <2>7, <2>8, <2>9, AccountStep
<1>10. CASE NoFiles(r, v)
  <2> DEFINE x == [work[r] EXCEPT !.at = "end", !.done = Append(@, <<None, "failed">>)]
             t == Told(state[v], None, "failed")
             y == [work[r] EXCEPT !.at = "end"]
  <2>2. work[r].at = "judged" /\ work[r].vault = v
    BY <1>10 DEF NoFiles, Step
  <2>3. state[v].run = r /\ Agrees(state[v], work[r])
    BY <1>3, <2>2 DEF Holds
  <2>5. CASE ~stop[v]
    <3>0. Step(r, v, "judged", x, t)
      BY <1>10, <2>5 DEF NoFiles
    <3>1. Append(work[r].done, <<None, "failed">>) \in Seq(Entry)
      BY <1>2, DoneGrows
    <3>2. /\ x \in Work /\ x.done = Append(work[r].done, <<None, "failed">>)
          /\ x.vault = v /\ x.at = "end" /\ x.seen = work[r].seen
      BY <1>1, <2>2, <3>1 DEF Work, Holds
    <3>3. /\ t.scanned = state[v].scanned /\ t.staged = state[v].staged /\ t \in StateRec
          /\ t.processed = state[v].processed /\ t.queued = state[v].queued /\ t.run = state[v].run
      BY <1>2, <1>t
    <3> HIDE DEF x
    <3>5. Agrees(t, x)
      <4>1. work[r] \in Work /\ state[v] \in StateRec
        BY <1>1
      <4> QED
        BY <2>2, <2>3, <3>2, <3>3, <4>1, RunAgrees DEF t
    <3> HIDE DEF t
    <3> QED
      BY <2>3, <3>0, <3>2, <3>3, <3>5, AccountStep
  <2>6. CASE stop[v]
    <3>0. Step(r, v, "judged", y, state[v])
      BY <1>10, <2>6 DEF NoFiles
    <3>1. y.done = work[r].done /\ y.vault = v /\ y.at = "end" /\ y.seen = work[r].seen
      BY <1>1, <2>2 DEF Work
    <3> HIDE DEF y
    <3>3. Agrees(state[v], y)
      BY <2>2, <2>3, <3>1, StillAgrees DEF InHand
    <3> QED
      BY <2>3, <3>0, <3>1, <3>3, AccountStep
  <2> QED
    BY <2>5, <2>6
<1>14. CASE Leave(r, v)
  <2> DEFINE x == [work[r] EXCEPT !.at = "left"]
  <2>1. Step(r, v, "scan", x, state[v])
    BY <1>14 DEF Leave
  <2>2. work[r].at = "scan" /\ work[r].vault = v
    BY <2>1 DEF Step
  <2>3. state[v].run = r /\ Agrees(state[v], work[r])
    BY <1>3, <2>2 DEF Holds
  <2>4. x.done = work[r].done /\ x.vault = v /\ x.at = "left" /\ x.seen = work[r].seen
    BY <1>1, <2>2 DEF Work
  <2> HIDE DEF x
  <2>5. Agrees(state[v], x)
    BY <2>2, <2>3, <2>4, StillAgrees DEF InHand
  <2> QED
    BY <2>1, <2>3, <2>4, <2>5, AccountStep
<1>15. CASE Judge(r, v)
  <2> DEFINE none == work[r].seen = {}
             ph == IF none THEN IF stop[v] THEN "finished" ELSE "failed"
                   ELSE IF stop[v] THEN "stopping" ELSE state[v].phase
             x == [work[r] EXCEPT !.at = IF none THEN "judged" ELSE "end"]
             s == [state[v] EXCEPT !.phase = ph]
  <2>1. Step(r, v, "left", x, s)
    BY <1>15 DEF Judge
  <2>2. work[r].at = "left" /\ work[r].vault = v
    BY <2>1 DEF Step
  <2>3. state[v].run = r /\ Agrees(state[v], work[r])
    BY <1>3, <2>2 DEF Holds
  <2>4. x.done = work[r].done /\ x.vault = v /\ x.at \in {"judged", "end"} /\ x.seen = work[r].seen
    BY <1>1, <2>2 DEF Work
  <2> HIDE DEF ph
  <2>5. Tallies(s) = Tallies(state[v]) /\ s.run = state[v].run
    BY <1>1 DEF StateRec, Tallies
  <2> HIDE DEF x, s, none
  <2>6. Agrees(s, x)
    BY <2>2, <2>3, <2>4, <2>5, StillAgrees DEF InHand
  <2> QED
    BY <2>1, <2>3, <2>4, <2>5, <2>6, AccountStep
<1>11. CASE Fails(r, v)
  <2>1. PICK a \in {"setup", "scan"} :
           Step(r, v, a, GivesUp(work[r]), [Told(state[v], None, "failed") EXCEPT !.phase = "failed"])
    BY <1>11 DEF Fails
  <2> DEFINE x == GivesUp(work[r])
             t == Told(state[v], None, "failed")
             s == [t EXCEPT !.phase = "failed"]
  <2>2. work[r].at = a /\ work[r].vault = v
    BY <2>1 DEF Step
  <2>3. state[v].run = r /\ Agrees(state[v], work[r])
    BY <1>3, <2>2 DEF Holds
  <2>4. Append(work[r].done, <<None, "failed">>) \in Seq(Entry)
    BY <1>2, DoneGrows
  <2>5. /\ x \in Work /\ x.vault = v /\ x.at = "end" /\ x.seen = work[r].seen
        /\ x.done = Append(work[r].done, <<None, "failed">>)
    BY <1>1, <2>2, <2>4 DEF GivesUp, Work, Holds
  <2>6. /\ t.scanned = state[v].scanned /\ t.staged = state[v].staged /\ t \in StateRec
        /\ t.processed = state[v].processed /\ t.queued = state[v].queued /\ t.run = state[v].run
    BY <1>2, <1>t
  <2>7. Step(r, v, a, x, s)
    BY <2>1 DEF t
  <2>8. /\ s.scanned = state[v].scanned /\ s.staged = state[v].staged /\ s.run = state[v].run
        /\ s.processed = state[v].processed /\ s.queued = state[v].queued
        /\ s.summary = t.summary /\ s.results = t.results /\ s.failed = t.failed
    <3> HIDE DEF t
    <3> QED
      BY <2>6 DEF StateRec
  <2> HIDE DEF x, s
  <2>9. Agrees(s, x)
    <3>1. work[r] \in Work /\ state[v] \in StateRec
      BY <1>1
    <3> QED
      BY <2>2, <2>3, <2>5, <2>8, <3>1, RunAgrees DEF t
  <2> QED
    BY <2>3, <2>5, <2>7, <2>8, <2>9, AccountStep
<1>12. CASE End(r, v)
  <2> DEFINE x == [work[r] EXCEPT !.at = "clear"]
             s == Over(state[v])
  <2>1. Step(r, v, "end", x, s)
    BY <1>12 DEF End
  <2>2. work[r].at = "end" /\ work[r].vault = v
    BY <2>1 DEF Step
  <2>3. x.vault = v /\ x.done = work[r].done /\ x.seen = work[r].seen /\ x.at = "clear"
    BY <1>1, <2>2 DEF Work
  <2>4. state[v].run = r /\ Agrees(state[v], work[r])
    BY <1>3, <2>2 DEF Holds
  <2>5. Tallies(s) = Tallies(state[v]) /\ s.run = state[v].run
    BY <1>1 DEF Over, Tallies, StateRec
  <2> HIDE DEF x, s
  <2>6. Agrees(s, x)
    BY <2>2, <2>3, <2>4, <2>5, StillAgrees DEF InHand
  <2> QED
    BY <2>1, <2>3, <2>4, <2>5, <2>6, AccountStep
<1>13. CASE ClearEvent(r, v)
  <2> DEFINE x == IF state[v].run = r THEN [work[r] EXCEPT !.at = "gone"] ELSE NoWork
  <2>1. Step(r, v, "clear", x, state[v])
    BY <1>13 DEF ClearEvent
  <2>2. work[r].at = "clear" /\ work[r].vault = v
    BY <2>1 DEF Step
  <2>3. ASSUME state[v].run = r PROVE x.vault = v /\ Agrees(state[v], x)
    <3>1. x.vault = v /\ x.done = work[r].done /\ x.seen = work[r].seen /\ x.at = "gone"
      BY <1>1, <2>2, <2>3 DEF Work
    <3>2. Agrees(state[v], work[r])
      BY <2>3 DEF AccountInv, Run
    <3> HIDE DEF x
    <3>3. Agrees(state[v], x)
      BY <2>2, <3>1, <3>2, StillAgrees DEF InHand
    <3> QED
      BY <3>1, <3>3
  <2> HIDE DEF x
  <2> QED
    BY <2>1, <2>3, AccountStep
<1> QED
  BY <1>0, <1>4, <1>5, <1>6, <1>7, <1>8, <1>9, <1>10, <1>11, <1>12, <1>13, <1>14, <1>15

(* A run begins with nothing told. *)
LEMMA AccountPrepare ==
  ASSUME LocalInv, AccountInv, Prepare PROVE AccountInv'
<1>0. PICK v, list : v = page.vault /\ list = page.list
  OBVIOUS
<1> DEFINE r == count.runs + 1
           w == [NoWork EXCEPT !.at = "setup", !.vault = v, !.list = list]
<1>1. /\ page.kind = "start"
      /\ state' = [state EXCEPT ![v] = NewRun(r)] /\ work' = [work EXCEPT ![r] = w]
  BY <1>0 DEF Prepare
<1>2. /\ state \in [Vaults -> StateRec] /\ work \in [Run -> Work] /\ v \in Vaults
      /\ count.runs \in Nat /\ None \notin Vaults /\ work[r] = NoWork /\ ResultsLimit \in Nat
      /\ r \in Run
  <2>1. page \in Call /\ count.runs < MaxRuns
    BY <1>1 DEF LocalInv, Shapes, NoCall
  <2>2. r \in Run /\ r > count.runs /\ count.runs \in Nat
    BY <2>1, LocalOK DEF LocalInv, Shapes, Run, LocalOK
  <2> HIDE DEF r
  <2> QED
    BY <1>0, <2>1, <2>2, LocalOK DEF LocalInv, Shapes, LocalOK, Call
<1>3. NoWork.vault = None
  BY DEF NoWork
<1>4. w.vault = v /\ w.done = <<>> /\ w.seen = {} /\ w.at = "setup"
  BY DEF NoWork
<1> DEFINE s == NewRun(r)
<1>5. /\ s.run = r /\ s.summary = NoSummary /\ s.results = <<>> /\ s.failed = <<>>
      /\ s.scanned = 0 /\ s.staged = 0 /\ s.processed = 0 /\ s.queued = 0
  BY DEF NewRun, NewState
<1> HIDE DEF w, s, r
<1>6. Agrees(s, w)
  <2>1. DOMAIN w.done = {} /\ Len(w.done) = 0
    BY <1>4
  <2>2. /\ Files(w.done) = {} /\ FailedFiles(w.done) = {} /\ \A x : Outcome(w.done, x) = {}
    BY <2>1 DEF Files, FailedFiles, Outcome
  <2>3. Cardinality({}) = 0
    BY FS_EmptySet
  <2>4. IsSuffix(s.results, w.done)
    <3>1. <<>> \in Seq(Entry) /\ Len(<<>>) = 0 /\ 1..0 = {}
      OBVIOUS
    <3>2. IsSuffix(<<>>, <<>>)
      <4> DEFINE q == <<>>
      <4>1. q \in Seq(Entry) /\ Len(q) <= Len(q) /\ \A i \in 1..Len(q) : q[i] = q[(Len(q) - Len(q)) + i]
        BY <3>1
      <4> HIDE DEF q, Entry
      <4>2. IsSuffix(q, q)
        BY <4>1, SuffixIs
      <4> QED
        BY <4>2 DEF q
    <3> QED
      BY <1>4, <1>5, <3>2
  <2>5. Len(s.results) = 0 /\ Len(s.failed) = 0
    BY <1>5
  <2>6. Tallied(s, w.done)
    <3>1. \A status \in Status : s.summary[status] = Cardinality(Outcome(w.done, status))
      BY <1>5, <2>2, <2>3 DEF NoSummary
    <3>2. Len(s.results) = IF Len(w.done) > ResultsLimit THEN ResultsLimit ELSE Len(w.done)
      BY <1>2, <2>1, <2>5
    <3> QED
      BY <2>2, <2>3, <2>4, <2>5, <3>1, <3>2 DEF Tallied
  <2>7. EachOnce(w.done) /\ Progress(s, w) /\ SeenOnce(w)
    <3>1. EachOnce(w.done) /\ SeenOnce(w)
      BY <1>4, <2>2 DEF EachOnce, SeenOnce
    <3>6. Cardinality(Files(w.done)) = 0
      BY <2>2, <2>3
    <3>2. s.scanned = Cardinality(Files(w.done)) + (IF w.at \in {"copy", "process"} THEN 1 ELSE 0)
      BY <1>4, <1>5, <3>6
    <3>4. s.staged = s.processed + s.queued /\ s.queued = IF w.at = "process" THEN 1 ELSE 0
      BY <1>4, <1>5
    <3>5. Progress(s, w)
      BY <3>2, <3>4 DEF Progress
    <3> QED
      BY <3>1, <3>5
  <2> QED
    BY <2>6, <2>7 DEF Agrees
<1>7. ASSUME NEW u \in Vaults, state'[u].run # 0
      PROVE  work'[state'[u].run].vault = u /\ Agrees(state'[u], work'[state'[u].run])
  <2>1. CASE u = v
    <3>1. state'[u] = s /\ work'[r] = w
      BY <1>1, <1>2, <2>1 DEF s
    <3> QED
      BY <1>4, <1>5, <1>6, <2>1, <3>1
  <2>2. CASE u # v
    <3>1. state'[u] = state[u]
      BY <1>1, <1>2, <2>2
    <3>2. work[state[u].run].vault = u /\ Agrees(state[u], work[state[u].run])
      BY <1>7, <3>1 DEF AccountInv
    <3>3. state[u].run # r
      BY <1>2, <1>3, <3>2
    <3>4. work'[state[u].run] = work[state[u].run]
      BY <1>1, <1>2, <3>3
    <3> QED
      BY <3>1, <3>2, <3>4
  <2> QED
    BY <2>1, <2>2
<1> QED
  BY <1>7 DEF AccountInv

(* Nothing else touches the outcomes. *)
LEMMA AccountNext == LocalInv /\ AccountInv /\ [Next]_vars => AccountInv'
<1> SUFFICES ASSUME LocalInv, AccountInv, [Next]_vars PROVE AccountInv'
  OBVIOUS
<1>1. CASE Prepare
  BY <1>1, AccountPrepare
<1>2. ASSUME NEW r \in Run, RunStep(r) PROVE AccountInv'
  BY <1>2, AccountRun
<1>3. CASE Stop
  <2>0. PICK v : v = page.vault /\ page.kind = "stop" /\ page \in Call
    BY <1>3 DEF Stop, LocalInv, Shapes, NoCall
  <2> DEFINE s == [state[v] EXCEPT !.stopRequested = TRUE, !.phase = "stopping"]
  <2>1. state \in [Vaults -> StateRec] /\ v \in Vaults
    BY <2>0 DEF Call, LocalInv, Shapes
  <2>2. state' = [state EXCEPT ![v] = s] /\ work' = work
    BY <1>3, <2>0, <2>1 DEF Stop
  <2>3. Tallies(s) = Tallies(state[v]) /\ s.run = state[v].run
    BY <2>1 DEF StateRec, Tallies
  <2> HIDE DEF s
  <2>4. ASSUME NEW u \in Vaults, state'[u].run # 0
        PROVE  work'[state'[u].run].vault = u /\ Agrees(state'[u], work'[state'[u].run])
    <3>1. state'[u].run = state[u].run /\ Tallies(state'[u]) = Tallies(state[u])
      BY <2>1, <2>2, <2>3
    <3>2. work[state[u].run].vault = u /\ Agrees(state[u], work[state[u].run])
      BY <2>4, <3>1 DEF AccountInv
    <3>3. Agrees(state'[u], work[state[u].run])
      BY <3>1, <3>2, StillAgrees
    <3> QED
      BY <2>2, <3>1, <3>2, <3>3
  <2> QED
    BY <2>4 DEF AccountInv
<1>4. CASE Ask \/ Retry \/ Refused \/ SetEvent \/ Check \/ Switch \/ Delete \/ UNCHANGED vars
  <2>1. UNCHANGED <<state, work>>
    BY <1>4 DEF Ask, Retry, Refused, SetEvent, Check, Switch, Delete, vars
  <2> QED
    BY <2>1 DEF AccountInv
<1> QED
  BY <1>1, <1>2, <1>3, <1>4 DEF Next

(* The page's counters, results and list of failed files are what became of
   the files of the run, and each file was taken up once, whatever is stopped,
   retried, switched or fails. *)
THEOREM FilesAreAccounted == Spec => []Accounted
<1>1. Init => AccountInv
  BY DEF Init, AccountInv, NewState
<1>2. AccountInv => Accounted
  BY DEF AccountInv, Accounted, Agrees
<1> QED
  BY <1>1, <1>2, LocalInit, LocalNext, AccountNext, PTL DEF Spec

-----------------------------------------------------------------------------
(***************************************************************************)
(* The RAM index in which a run looks for duplicates (SearchIndex): why a  *)
(* rebuild that works on a copy of the lists neither loses nor resurrects  *)
(* an item.  Between the plan and its application the indexed items only   *)
(* shrink and the pending ones of the plan stay, unless the version has    *)
(* moved on; only hydrate() adds to the indexed items, and the plans it    *)
(* overtakes are in early.                                                 *)
(***************************************************************************)
(* The plan taken from the lists, against the lists as they are now. *)
PlanValid(t) ==
    plan[t].needed =>
        /\ plan[t].version <= version[t]
        /\ ~IsStale(t) => Combined(t) \subseteq Members(t)
        /\ t \notin early =>
              /\ indexed[t] \subseteq plan[t].indexed
              /\ ~IsStale(t) => indexed[t] = plan[t].indexed /\ plan[t].pending \subseteq pending[t]

(* Before hydrate() there is nothing to overtake. *)
NoneEarly == early = {} /\ \A t \in VPTree : overrun[t] = {}

IndexInv ==
    /\ IndexTypeOK
    /\ ~hydrated => NoneEarly
    /\ MembersKept /\ TreeIsCurrent
    /\ \A t \in VPTree : PlanValid(t)

(* rebuild_plan returning None: nothing to do for this tree. *)
LEMMA NoPlanType == NoPlan \in Plan /\ ~NoPlan.needed
BY DEF NoPlan, Plan

(* The contents that have a signature for an index. *)
LEMMA OfType == \A t, H : Of(t, H) \subseteq H
BY DEF Of

(* New indexes are empty. *)
LEMMA IndexTypeInit == IndexInit => IndexTypeOK
<1> SUFFICES ASSUME IndexInit PROVE IndexTypeOK
  OBVIOUS
<1>0. MaxCalls \in Nat
  BY BoundsOK DEF BoundsOK
<1>1. images \subseteq Hash /\ calls \in 0..MaxCalls
      /\ early \subseteq VPTree /\ overrun \in [VPTree -> SUBSET Hash]
  BY <1>0 DEF IndexInit
<1>3. known \subseteq Hash
  BY IndexParametersOK DEF IndexParametersOK, IndexInit
<1>2. plan \in [VPTree -> Plan] /\ phase \in RebuildPhase
  BY NoPlanType DEF IndexInit, RebuildPhase
<1> QED
  BY <1>1, <1>2, <1>3 DEF IndexInit, IndexTypeOK

(* Every call and every step of a rebuild keeps the types. *)
LEMMA IndexTypeNext == IndexTypeOK /\ [IndexNext]_indexVars => IndexTypeOK'
<1> SUFFICES ASSUME IndexTypeOK, [IndexNext]_indexVars PROVE IndexTypeOK'
  OBVIOUS
<1>a. waiting \in Nat /\ calls \in Nat /\ phase \in RebuildPhase /\ MaxCalls \in Nat
  BY BoundsOK DEF BoundsOK, IndexTypeOK
<1>b. \A t \in VPTree : version[t] \in Nat /\ dirty[t] \in BOOLEAN
  BY DEF IndexTypeOK
<1>c. known \subseteq Hash /\ images \subseteq Hash
  BY DEF IndexTypeOK
<1>d. ASSUME NEW H, Settled(H) PROVE early' \subseteq VPTree /\ overrun' \in [VPTree -> SUBSET Hash]
  BY <1>d DEF Settled, IndexTypeOK
<1>1. CASE UNCHANGED indexVars
  BY <1>1 DEF indexVars, IndexTypeOK, lists, rebuild, accident
<1>2. CASE Hydrate
  <2>1. \A t \in VPTree : Members(t) \cup Of(t, known) \in SUBSET Hash
    BY OfType DEF Members, IndexTypeOK, lists, rebuild, accident
  <2>2. indexed' \in [VPTree -> SUBSET Hash]
    BY <1>2, <2>1 DEF Hydrate, Built, IndexTypeOK, lists, rebuild, accident
  <2>3. \A t \in VPTree : tree'[t] \in {NoTree, tree[t], indexed'[t]}
    BY <1>2 DEF Hydrate, Built, IndexTypeOK, lists, rebuild, accident
  <2>4. tree' = [t \in VPTree |-> tree'[t]]
    BY <1>2 DEF Hydrate, Built, IndexTypeOK, lists, rebuild, accident
  <2>5. \A t \in VPTree : tree'[t] \in (SUBSET Hash) \cup {NoTree}
    BY <2>2, <2>3 DEF IndexTypeOK, lists, rebuild, accident
  <2>6. tree' \in [VPTree -> (SUBSET Hash) \cup {NoTree}]
    BY <2>4, <2>5 DEF IndexTypeOK, lists, rebuild, accident
  <2>7. Of("image", known) \subseteq Hash
    BY OfType DEF IndexTypeOK, lists, rebuild, accident
  <2>8. early' \subseteq VPTree
    BY <1>2 DEF Hydrate
  <2> QED
    BY <1>2, <2>2, <2>6, <2>7, <2>8 DEF Hydrate, Built, IndexTypeOK, lists, rebuild, accident
<1>3. ASSUME NEW H \in SUBSET Hash, Added(H)
      PROVE  /\ images' \subseteq Hash /\ pending' \in [VPTree -> SUBSET Hash]
             /\ dirty' \in [VPTree -> BOOLEAN]
  BY <1>3, OfType DEF Added, IndexTypeOK, lists, rebuild, accident
<1>4. ASSUME NEW h \in Hash, Update(h) PROVE IndexTypeOK'
  <2>2. early' \subseteq VPTree /\ overrun' \in [VPTree -> SUBSET Hash]
    BY <1>4, <1>d DEF Update
  <2>1. Added({h}) /\ waiting' \in Nat /\ known' \subseteq Hash /\ calls' \in 0..MaxCalls
    BY <1>a, <1>c, <1>4 DEF Update
  <2> QED
    BY <1>4, <2>1, <2>2, <1>3 DEF Update, IndexTypeOK, lists, rebuild, accident
<1>5. ASSUME NEW H \in SUBSET Hash, UpdateBatch(H) PROVE IndexTypeOK'
  <2>2. early' \subseteq VPTree /\ overrun' \in [VPTree -> SUBSET Hash]
    BY <1>5, <1>d DEF UpdateBatch
  <2>1. Added(H) /\ waiting' \in Nat /\ known' \subseteq Hash /\ calls' \in 0..MaxCalls
    BY <1>a, <1>c, <1>5 DEF UpdateBatch
  <2> QED
    BY <1>5, <2>1, <2>2, <1>3 DEF UpdateBatch, IndexTypeOK, lists, rebuild, accident
<1>6. ASSUME NEW H \in SUBSET Hash, RemoveBatch(H) PROVE IndexTypeOK'
  <2>1. waiting' \in Nat /\ known' \subseteq Hash /\ calls' \in 0..MaxCalls /\ images' \subseteq Hash
    BY <1>a, <1>c, <1>6 DEF RemoveBatch, TreeAfter
  <2>2. /\ indexed' \in [VPTree -> SUBSET Hash] /\ pending' \in [VPTree -> SUBSET Hash]
        /\ tree' \in [VPTree -> (SUBSET Hash) \cup {NoTree}]
    BY <1>6 DEF RemoveBatch, TreeAfter, IndexTypeOK, lists, rebuild, accident
  <2>3. \A t \in VPTree : DirtyAfter(t, H) \in BOOLEAN /\ VersionAfter(t, H) \in Nat
    <3>1. ASSUME NEW t \in VPTree PROVE DirtyAfter(t, H) \in BOOLEAN
      BY DEF DirtyAfter
    <3>2. ASSUME NEW t \in VPTree PROVE VersionAfter(t, H) \in Nat
      BY <1>b DEF VersionAfter
    <3> QED
      BY <3>1, <3>2
  <2>4. dirty' \in [VPTree -> BOOLEAN] /\ version' \in [VPTree -> Nat]
    BY <1>6, <2>3 DEF RemoveBatch, TreeAfter, IndexTypeOK, lists, rebuild, accident
  <2>5. early' \subseteq VPTree /\ overrun' \in [VPTree -> SUBSET Hash]
    BY <1>6, <1>d DEF RemoveBatch
  <2> QED
    BY <1>6, <2>1, <2>2, <2>4, <2>5 DEF RemoveBatch, TreeAfter, IndexTypeOK, lists, rebuild, accident
<1>7. CASE TryRebuild
  <2>1. waiting' \in Nat /\ phase' \in RebuildPhase
    BY <1>a, <1>7 DEF TryRebuild, RebuildPhase
  <2> QED
    BY <1>7, <2>1 DEF TryRebuild, IndexTypeOK, lists, rebuild, accident
<1>8. CASE MakePlans
  <2>1. \A t \in VPTree : [indexed |-> indexed[t], pending |-> pending[t],
                            version |-> version[t], needed |-> TRUE] \in Plan
    BY DEF Plan, IndexTypeOK, lists, rebuild, accident
  <2>2. plan' \in [VPTree -> Plan]
    BY <1>8, <2>1, NoPlanType DEF MakePlans, IndexTypeOK, lists, rebuild, accident
  <2> QED
    BY <1>8, <2>2 DEF MakePlans, RebuildPhase, IndexTypeOK, lists, rebuild, accident
<1>9. ASSUME NEW t \in VPTree, Apply(t) PROVE IndexTypeOK'
  <2>1. Combined(t) \in SUBSET Hash /\ Surviving(t) \in SUBSET Hash /\ StillPending(t) \in SUBSET Hash
    BY DEF Combined, Surviving, StillPending, Plan, IndexTypeOK, lists, rebuild, accident
  <2>2. DirtyApplied(t) \in BOOLEAN
    BY DEF DirtyApplied, IndexTypeOK, lists, rebuild, accident
  <2>3. indexed' \in [VPTree -> SUBSET Hash] /\ pending' \in [VPTree -> SUBSET Hash]
    BY <1>9, <2>1 DEF Apply, IndexTypeOK, lists, rebuild, accident
  <2>4. tree' \in [VPTree -> (SUBSET Hash) \cup {NoTree}]
    BY <1>9, <2>1 DEF Apply, IndexTypeOK, lists, rebuild, accident
  <2>5. dirty' \in [VPTree -> BOOLEAN] /\ plan' \in [VPTree -> Plan]
    BY <1>9, <2>2, NoPlanType DEF Apply, IndexTypeOK, lists, rebuild, accident
  <2>6. Overrun(t) \in SUBSET Hash
    BY DEF Overrun, IndexTypeOK
  <2>7. early' \subseteq VPTree /\ overrun' \in [VPTree -> SUBSET Hash]
    BY <1>9, <2>6 DEF Apply, IndexTypeOK
  <2> QED
    BY <1>9, <2>3, <2>4, <2>5, <2>7 DEF Apply, IndexTypeOK, lists, rebuild, accident
<1>10. CASE CheckFollowUp
  BY <1>10 DEF CheckFollowUp, RebuildPhase, IndexTypeOK, lists, rebuild, accident
<1>11. CASE Release
  <2>1. waiting' \in Nat /\ phase' \in RebuildPhase
    BY <1>a, <1>11 DEF Release, RebuildPhase
  <2> QED
    BY <1>11, <2>1 DEF Release, IndexTypeOK, lists, rebuild, accident
<1>12. CASE NoMoreCalls
  BY <1>12 DEF NoMoreCalls, indexVars, IndexTypeOK, lists, rebuild, accident
<1> QED
  BY <1>1, <1>2, <1>4, <1>5, <1>6, <1>7, <1>8, <1>9, <1>10, <1>11, <1>12 DEF IndexNext, Rebuild

(* The indexes stay in their types; in particular a tree is a set of contents
   or absent, and a plan is a copy of lists that existed. *)
THEOREM IndexTypeCorrect == IndexSpec => []IndexTypeOK
BY IndexTypeInit, IndexTypeNext, PTL DEF IndexSpec

-----------------------------------------------------------------------------
(* Empty indexes hold nothing that is not known. *)
LEMMA IndexInvInit == IndexInit => IndexInv
<1> SUFFICES ASSUME IndexInit PROVE IndexInv
  OBVIOUS
<1>1. IndexTypeOK
  BY IndexTypeInit
<1>2. ~hydrated /\ \A t \in VPTree : ~plan[t].needed
  BY DEF IndexInit, NoPlan
<1>3. NoneEarly /\ \A t \in VPTree : Members(t) = {}
  BY <1>2 DEF IndexInit, NoneEarly, Members
<1>4. TreeIsCurrent
  BY DEF IndexInit, TreeIsCurrent
<1> QED
  BY <1>1, <1>2, <1>3, <1>4 DEF IndexInv, MembersKept, PlanValid

(* What the lists of one tree should hold before and after a call. *)
LEMMA KeptAfter ==
    ASSUME IndexInv, hydrated' = hydrated,
           \A t \in VPTree : \/ hydrated /\ Members(t)' = Of(t, known)' \ overrun'[t]
                             \/ ~hydrated /\ Members(t)' \subseteq Of(t, known)'
    PROVE  MembersKept'
BY DEF MembersKept

(* A call that only adds: the plan of a rebuild in flight stays valid. *)
LEMMA AddKeeps ==
    ASSUME IndexInv, NEW H \in SUBSET Hash, Added(H), Settled(H),
           known' = known \cup H, UNCHANGED <<tree, indexed, version, plan, hydrated>>
    PROVE  MembersKept' /\ TreeIsCurrent' /\ \A t \in VPTree : PlanValid(t)'
<1>1. \A t \in VPTree : /\ pending'[t] = pending[t] \cup Of(t, H)
                        /\ overrun'[t] = overrun[t] \ H
  BY DEF Added, Settled
<1>2. \A t \in VPTree : Of(t, known)' = Of(t, known) \cup Of(t, H)
  BY DEF Of
<1>3. \A t \in VPTree : Members(t)' = Members(t) \cup Of(t, H)
  BY <1>1 DEF Members
<1>4. ASSUME NEW t \in VPTree, hydrated PROVE Members(t)' = Of(t, known)' \ overrun'[t]
  <2>1. Members(t) = Of(t, known) \ overrun[t]
    BY <1>4 DEF IndexInv, MembersKept
  <2>2. (Of(t, known) \cup Of(t, H)) \ (overrun[t] \ H)
            = (Of(t, known) \ overrun[t]) \cup Of(t, H)
    BY DEF Of
  <2> QED
    BY <1>1, <1>2, <1>3, <2>1, <2>2
<1>5. ASSUME NEW t \in VPTree, ~hydrated PROVE Members(t)' \subseteq Of(t, known)'
  BY <1>2, <1>3, <1>5 DEF IndexInv, MembersKept
<1>6. MembersKept'
  BY <1>4, <1>5, KeptAfter
<1>7. TreeIsCurrent'
  BY DEF IndexInv, TreeIsCurrent
<1>8. ASSUME NEW t \in VPTree PROVE PlanValid(t)'
  <2>1. early' = early /\ PlanValid(t)
    BY DEF Settled, IndexInv
  <2>2. Combined(t)' = Combined(t) /\ IsStale(t)' = IsStale(t)
    BY DEF Combined, IsStale
  <2> QED
    BY <1>1, <1>3, <2>1, <2>2 DEF PlanValid
<1> QED
  BY <1>6, <1>7, <1>8

(* A removal takes the same from the lists and from what is known; it leaves
   a plan unchanged in version only if it touched nothing the plan had. *)
LEMMA RemoveKeeps ==
    ASSUME IndexInv, NEW H \in SUBSET Hash, RemoveBatch(H)
    PROVE  MembersKept' /\ TreeIsCurrent' /\ \A t \in VPTree : PlanValid(t)'
<1>1. ASSUME NEW t \in VPTree
      PROVE  /\ indexed'[t] = indexed[t] \ H /\ pending'[t] = pending[t] \ H
             /\ version'[t] = VersionAfter(t, H) /\ plan'[t] = plan[t]
             /\ tree'[t] = (IF indexed[t] \cap H # {} THEN NoTree ELSE tree[t])
             /\ overrun'[t] = overrun[t] \ H
  BY DEF RemoveBatch, TreeAfter, rebuild, Settled
<1>2. known' = known \ H /\ hydrated' = hydrated /\ early' = early
  BY DEF RemoveBatch, TreeAfter, Settled
<1>3. \A t \in VPTree : Members(t)' = Members(t) \ H /\ Of(t, known)' = Of(t, known) \ H
  BY <1>1, <1>2 DEF Members, Of
<1>4. ASSUME NEW t \in VPTree, hydrated PROVE Members(t)' = Of(t, known)' \ overrun'[t]
  <2>1. Members(t) = Of(t, known) \ overrun[t]
    BY <1>4 DEF IndexInv, MembersKept
  <2> QED
    BY <1>1, <1>3, <2>1
<1>5. ASSUME NEW t \in VPTree, ~hydrated PROVE Members(t)' \subseteq Of(t, known)'
  BY <1>3, <1>5 DEF IndexInv, MembersKept
<1>6. MembersKept'
  BY <1>2, <1>4, <1>5, KeptAfter
<1>7. ASSUME NEW t \in VPTree PROVE tree'[t] \in {NoTree, indexed'[t]}
  <2>1. tree[t] \in {NoTree, indexed[t]}
    BY DEF IndexInv, TreeIsCurrent
  <2>2. CASE indexed[t] \cap H = {}
    BY <1>1, <2>1, <2>2
  <2>3. CASE indexed[t] \cap H # {}
    BY <1>1, <2>3
  <2> QED
    BY <2>2, <2>3
<1>8. TreeIsCurrent'
  BY <1>7 DEF TreeIsCurrent
<1>9. ASSUME NEW t \in VPTree PROVE PlanValid(t)'
  <2>1. version[t] \in Nat /\ plan[t].version \in Nat
    BY DEF IndexInv, IndexTypeOK, Plan
  <2>2. PlanValid(t) /\ Combined(t)' = Combined(t)
    BY <1>1 DEF IndexInv, Combined
  <2>3. CASE Members(t) \cap H = {}
    <3>1. indexed[t] \ H = indexed[t] /\ pending[t] \ H = pending[t] /\ Members(t) \ H = Members(t)
      BY <2>3 DEF Members
    <3>2. version'[t] = version[t]
      BY <1>1, <2>1, <2>3 DEF VersionAfter
    <3> QED
      BY <1>1, <1>2, <1>3, <2>2, <3>1, <3>2 DEF PlanValid, IsStale
  <2>4. CASE Members(t) \cap H # {}
    <3>1. version'[t] = version[t] + 1
      BY <1>1, <2>4 DEF VersionAfter
    <3>2. plan[t].needed => plan[t].version < version'[t]
      BY <2>1, <2>2, <3>1 DEF PlanValid
    <3>3. plan[t].needed => plan[t].version <= version'[t] /\ version'[t] # plan[t].version
      BY <2>1, <3>1, <3>2
    <3> QED
      BY <1>1, <1>2, <2>2, <3>3 DEF PlanValid, IsStale
  <2> QED
    BY <2>3, <2>4
<1> QED
  BY <1>6, <1>8, <1>9

(* Applying a replacement moves items between the lists and loses none, but
   for those hydrate() put in after the plan was made. *)
LEMMA ApplyKeeps ==
    ASSUME IndexInv, NEW t \in VPTree, Apply(t)
    PROVE  MembersKept' /\ TreeIsCurrent' /\ \A u \in VPTree : PlanValid(u)'
<1>t. /\ indexed \in [VPTree -> SUBSET Hash] /\ pending \in [VPTree -> SUBSET Hash]
      /\ plan \in [VPTree -> Plan] /\ tree \in [VPTree -> (SUBSET Hash) \cup {NoTree}]
      /\ overrun \in [VPTree -> SUBSET Hash]
  BY DEF IndexInv, IndexTypeOK
<1>1. /\ pending'[t] = StillPending(t)
      /\ indexed'[t] = IF IsStale(t) THEN Surviving(t) ELSE Combined(t)
      /\ tree'[t] = IF IsStale(t) \/ Combined(t) = {} THEN NoTree ELSE Combined(t)
      /\ plan'[t] = NoPlan
      /\ overrun'[t] = overrun[t] \cup Overrun(t)
  BY <1>t DEF Apply
<1>2. ASSUME NEW u \in VPTree, u # t
      PROVE  /\ pending'[u] = pending[u] /\ indexed'[u] = indexed[u]
             /\ tree'[u] = tree[u] /\ plan'[u] = plan[u] /\ overrun'[u] = overrun[u]
  BY <1>t, <1>2 DEF Apply
<1>3. version' = version /\ known' = known /\ hydrated' = hydrated /\ early' = early \ {t}
  BY DEF Apply
<1>4. Members(t)' = Members(t) \ Overrun(t)
  <2>1. /\ ~IsStale(t) => Combined(t) \subseteq Members(t)
        /\ t \notin early =>
              /\ indexed[t] \subseteq plan[t].indexed
              /\ ~IsStale(t) => indexed[t] = plan[t].indexed /\ plan[t].pending \subseteq pending[t]
    BY DEF Apply, IndexInv, PlanValid
  <2>2. Members(t)' = (IF IsStale(t) THEN Combined(t) \cap Members(t) ELSE Combined(t))
                        \cup StillPending(t)
    BY <1>1 DEF Members, Surviving
  <2>3. CASE t \in early
    <3>1. Members(t) \ (indexed[t] \ (Combined(t) \cup StillPending(t)))
            = Members(t) \cap (Combined(t) \cup StillPending(t))
      BY DEF Members, Combined, StillPending
    <3>2. StillPending(t) \subseteq Members(t)
      BY DEF Members, StillPending
    <3> QED
      BY <2>1, <2>2, <2>3, <3>1, <3>2 DEF Overrun
  <2>4. CASE t \notin early
    <3>1. Overrun(t) = {}
      BY <2>4 DEF Overrun
    <3>2. CASE IsStale(t)
      BY <2>1, <2>2, <2>4, <3>1, <3>2 DEF Members, Combined, StillPending
    <3>3. CASE ~IsStale(t)
      BY <2>1, <2>2, <2>4, <3>1, <3>3 DEF Members, Combined, StillPending
    <3> QED
      BY <3>2, <3>3
  <2> QED
    BY <2>3, <2>4
<1>5. \A u \in VPTree : u # t => Members(u)' = Members(u)
  BY <1>2 DEF Members
<1>6. \A u \in VPTree : Of(u, known)' = Of(u, known)
  BY <1>3 DEF Of
<1>7. ASSUME NEW u \in VPTree, hydrated PROVE Members(u)' = Of(u, known)' \ overrun'[u]
  <2>1. Members(u) = Of(u, known) \ overrun[u]
    BY <1>7 DEF IndexInv, MembersKept
  <2>2. CASE u = t
    BY <1>1, <1>4, <1>6, <2>1, <2>2
  <2>3. CASE u # t
    BY <1>2, <1>5, <1>6, <2>1, <2>3
  <2> QED
    BY <2>2, <2>3
<1>8. ASSUME NEW u \in VPTree, ~hydrated PROVE Members(u)' \subseteq Of(u, known)'
  BY <1>4, <1>5, <1>6, <1>8 DEF IndexInv, MembersKept
<1>9. MembersKept'
  BY <1>3, <1>7, <1>8, KeptAfter
<1>10. TreeIsCurrent'
  <2>1. tree'[t] \in {NoTree, indexed'[t]}
    BY <1>1
  <2>2. \A u \in VPTree : u # t => tree'[u] \in {NoTree, indexed'[u]}
    BY <1>2 DEF IndexInv, TreeIsCurrent
  <2> QED
    BY <2>1, <2>2 DEF TreeIsCurrent
<1>11. PlanValid(t)'
  BY <1>1, NoPlanType DEF PlanValid
<1>12. ASSUME NEW u \in VPTree, u # t PROVE PlanValid(u)'
  BY <1>2, <1>3, <1>12 DEF IndexInv, PlanValid, IsStale, Combined, Members
<1> QED
  BY <1>9, <1>10, <1>11, <1>12

(* Hydration adds what is known to the lists, and overtakes a plan there is. *)
LEMMA HydrateKeeps ==
    ASSUME IndexInv, Hydrate
    PROVE  MembersKept' /\ TreeIsCurrent' /\ \A t \in VPTree : PlanValid(t)'
<1>1. NoneEarly /\ \A t \in VPTree : Members(t) \subseteq Of(t, known)
  BY DEF IndexInv, Hydrate, MembersKept
<1>2. /\ known' = known /\ plan' = plan /\ version' = version /\ overrun' = overrun /\ hydrated'
      /\ early' = {t \in VPTree : plan[t].needed}
  BY DEF Hydrate, rebuild
<1>3. \A t \in VPTree : indexed'[t] = Members(t) \cup Of(t, known) /\ pending'[t] = {}
  BY DEF Hydrate
<1>4. \A t \in VPTree : Members(t)' = Of(t, known) /\ overrun'[t] = {}
  BY <1>1, <1>2, <1>3 DEF Members, NoneEarly
<1>5. MembersKept'
  BY <1>2, <1>4 DEF MembersKept, Of
<1>6. ASSUME NEW t \in VPTree PROVE tree'[t] \in {NoTree, indexed'[t]}
  <2>1. tree'[t] = Built(t, Of(t, known)) /\ tree[t] \in {NoTree, indexed[t]}
    BY DEF Hydrate, IndexInv, TreeIsCurrent
  <2>2. CASE pending[t] \cup Of(t, known) = {}
    <3>1. indexed'[t] = indexed[t]
      BY <1>3, <2>2 DEF Members
    <3> QED
      BY <1>3, <2>1, <3>1 DEF Built
  <2>3. CASE pending[t] \cup Of(t, known) # {}
    BY <1>3, <2>1, <2>3 DEF Built
  <2> QED
    BY <2>2, <2>3
<1>7. TreeIsCurrent'
  BY <1>6 DEF TreeIsCurrent
<1>8. ASSUME NEW t \in VPTree PROVE PlanValid(t)'
  <2>1. PlanValid(t) /\ Combined(t)' = Combined(t) /\ IsStale(t)' = IsStale(t)
    BY <1>2 DEF IndexInv, Combined, IsStale
  <2>2. Members(t) \subseteq Members(t)'
    BY <1>1, <1>4
  <2> QED
    BY <1>2, <2>1, <2>2 DEF PlanValid
<1> QED
  BY <1>5, <1>7, <1>8

(* Steps that change neither the lists nor what is known. *)
LEMMA OthersKeep ==
    ASSUME IndexInv, UNCHANGED <<tree, indexed, pending, version, hydrated, known, accident>>
    PROVE  /\ MembersKept' /\ TreeIsCurrent'
           /\ \A t \in VPTree : plan'[t] = plan[t] => PlanValid(t)'
<1>1. MembersKept' /\ TreeIsCurrent'
  BY DEF IndexInv, MembersKept, TreeIsCurrent, Members, Of, accident
<1>2. ASSUME NEW t \in VPTree, plan'[t] = plan[t] PROVE PlanValid(t)'
  BY <1>2 DEF IndexInv, PlanValid, IsStale, Combined, Members, accident
<1> QED
  BY <1>1, <1>2

(* Every step keeps the invariant. *)
LEMMA IndexInvNext ==
    ASSUME IndexInv, [IndexNext]_indexVars
    PROVE  IndexInv'
<1>0. IndexTypeOK' /\ (~hydrated => NoneEarly)
  BY IndexTypeNext DEF IndexInv
<1>b. UNCHANGED <<tree, indexed, version, pending, plan, hydrated, known, accident>> => IndexInv'
  BY <1>0, OthersKeep DEF IndexInv, NoneEarly, accident
<1>1. CASE UNCHANGED indexVars
  BY <1>1, <1>b DEF indexVars, lists, rebuild
<1>2. CASE Hydrate
  BY <1>0, <1>2, HydrateKeeps DEF Hydrate, IndexInv
<1>3. ASSUME NEW H, Settled(H), hydrated' = hydrated PROVE ~hydrated' => NoneEarly'
  BY <1>0, <1>3 DEF Settled, NoneEarly
<1>4. ASSUME NEW h \in Hash, Update(h) PROVE IndexInv'
  <2>1. {h} \in SUBSET Hash /\ hydrated' = hydrated
    BY <1>4 DEF Update
  <2>2. MembersKept' /\ TreeIsCurrent' /\ \A t \in VPTree : PlanValid(t)'
    BY <1>4, <2>1, AddKeeps DEF Update, rebuild
  <2>3. ~hydrated' => NoneEarly'
    BY <1>3, <1>4, <2>1 DEF Update
  <2> QED
    BY <1>0, <2>2, <2>3 DEF IndexInv
<1>5. ASSUME NEW H \in SUBSET Hash, UpdateBatch(H) PROVE IndexInv'
  <2>1. MembersKept' /\ TreeIsCurrent' /\ \A t \in VPTree : PlanValid(t)'
    BY <1>5, AddKeeps DEF UpdateBatch, rebuild
  <2>2. ~hydrated' => NoneEarly'
    BY <1>3, <1>5 DEF UpdateBatch
  <2> QED
    BY <1>0, <2>1, <2>2 DEF IndexInv
<1>6. ASSUME NEW H \in SUBSET Hash, RemoveBatch(H) PROVE IndexInv'
  <2>1. ~hydrated' => NoneEarly'
    BY <1>3, <1>6 DEF RemoveBatch
  <2> QED
    BY <1>0, <1>6, <2>1, RemoveKeeps DEF IndexInv
<1>7. CASE TryRebuild
  BY <1>7, <1>b DEF TryRebuild, lists
<1>8. CASE MakePlans
  <2>0. UNCHANGED <<tree, indexed, pending, version, hydrated, known, accident>>
    BY <1>8 DEF MakePlans, lists
  <2>1. ASSUME NEW t \in VPTree PROVE PlanValid(t)'
    <3>1. /\ version[t] \in Nat /\ version'[t] = version[t] /\ indexed'[t] = indexed[t]
          /\ pending'[t] = pending[t]
      BY <2>0 DEF IndexInv, IndexTypeOK
    <3>2. CASE PlanNeeded(t)
      BY <1>8, <3>1, <3>2 DEF MakePlans, PlanValid, IsStale, Combined, Members
    <3>3. CASE ~PlanNeeded(t)
      BY <1>8, <3>3, NoPlanType DEF MakePlans, PlanValid
    <3> QED
      BY <3>2, <3>3
  <2>2. MembersKept' /\ TreeIsCurrent'
    BY <2>0, OthersKeep
  <2> QED
    BY <1>0, <2>0, <2>1, <2>2 DEF IndexInv, NoneEarly, accident
<1>9. ASSUME NEW t \in VPTree, Apply(t) PROVE IndexInv'
  <2>1. ~hydrated' => NoneEarly'
    BY <1>0, <1>9 DEF Apply, NoneEarly, Overrun, IndexInv, IndexTypeOK
  <2> QED
    BY <1>0, <1>9, <2>1, ApplyKeeps DEF IndexInv
<1>10. CASE CheckFollowUp
  BY <1>10, <1>b DEF CheckFollowUp, lists
<1>11. CASE Release
  BY <1>11, <1>b DEF Release, lists
<1>12. CASE NoMoreCalls
  BY <1>12, <1>1 DEF NoMoreCalls
<1> QED
  BY <1>1, <1>2, <1>4, <1>5, <1>6, <1>7, <1>8, <1>9, <1>10, <1>11, <1>12 DEF IndexNext, Rebuild

(* The inductive invariant holds in every reachable state. *)
LEMMA IndexAlways == IndexSpec => []IndexInv
<1>1. IndexInv /\ [IndexNext]_indexVars => IndexInv'
  BY IndexInvNext
<1> QED
  BY <1>1, IndexInvInit, PTL DEF IndexSpec

(* The lists of both trees hold exactly what was reported added and not
   removed since, however many calls come between a rebuild's plan and its
   application and whether they come before or after hydrate(); what a plan
   older than hydrate() threw out of hydrate()'s work is named in overrun. *)
THEOREM NothingLostOrRevived == IndexSpec => []MembersKept
BY IndexAlways, PTL DEF IndexInv

(* A query never searches a tree built from items that have been removed
   since, not even one a rebuild brings that hydrate() overtook. *)
THEOREM NoStaleTree == IndexSpec => []TreeIsCurrent
BY IndexAlways, PTL DEF IndexInv
=============================================================================
