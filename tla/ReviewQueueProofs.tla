-------------------------- MODULE ReviewQueueProofs --------------------------
(***************************************************************************)
(* Why the review cache adds up, why no file leaves the queue unsettled,   *)
(* why replacing never takes the last of the similar contents, and why a   *)
(* file that waits is found when its content comes again.                  *)
(***************************************************************************)
EXTENDS ReviewQueue, FiniteSetTheorems, TLAPS

Entries == [Name -> Entry \cup {None}]
Cache == [dirty : BOOLEAN, entry : Entries, counts : [Tally -> Nat], index : [Hash -> Name \cup {None}]]

(* What the cache says when it is not dirty. *)
Exact(C) ==
    /\ C.counts = Counts(C.entry)
    /\ \A h \in Hash : C.index[h] # None => C.entry[C.index[h]] = [hash |-> h, state |-> "pending"]

CacheOK(C) == C \in Cache /\ (~ C.dirty => Exact(C))

-----------------------------------------------------------------------------
(* Sets of names are finite, and Max chooses one of them. *)
LEMMA BoundsKnown == MaxFiles \in Nat /\ IsFiniteSet(Hash) /\ IsFiniteSet(Proc)
BY ReviewOK DEF ReviewOK

LEMMA NamesFinite == \A S \in SUBSET Name : IsFiniteSet(S) /\ Cardinality(S) \in Nat
<1>1. IsFiniteSet(Name)
  BY FS_Interval, BoundsKnown DEF Name
<1> QED
  BY <1>1, FS_Subset, FS_CardinalityType

LEMMA MaxOfNames == ASSUME NEW S \in SUBSET Name, S # {} PROVE Max(S) \in S
<1> DEFINE T == {MaxFiles - n : n \in S}
<1>0. MaxFiles \in Nat /\ \A n \in S : n \in Nat /\ MaxFiles - n \in Nat
  BY BoundsKnown DEF Name
<1>1. T \subseteq Nat /\ T # {}
  BY <1>0
<1>2. PICK m \in T : \A y \in T : <<y, m>> \notin OpToRel(<, Nat)
  BY <1>1, NatLessThanWellFounded, WFMin
<1>3. \A y \in T : y \in Nat /\ m \in Nat /\ ~(y < m)
  BY <1>1, <1>2 DEF OpToRel
<1>4. PICK x \in S : m = MaxFiles - x
  OBVIOUS
<1>5. \A n \in S : x >= n
  <2> TAKE n \in S
  <2>1. MaxFiles - n \in T
    OBVIOUS
  <2> QED
    BY <2>1, <1>0, <1>3, <1>4
<1> QED
  BY <1>5 DEF Max

LEMMA NamesCounted == \A n \in Name : n \in Nat /\ n >= 1
BY BoundsKnown DEF Name

-----------------------------------------------------------------------------
(* The counts follow entry by entry. *)
LEMMA CountsTyped == \A E \in Entries : Counts(E) \in [Tally -> Nat]
BY NamesFinite DEF Counts, Counted

LEMMA LessExact ==
  ASSUME NEW E \in Entries, NEW n \in Name
  PROVE  Less(Counts(E), E[n]) = Counts([E EXCEPT ![n] = None])
<1> DEFINE F == [E EXCEPT ![n] = None]
<1>1. CASE E[n] = None
  <2>1. F = E
    BY <1>1 DEF Entries
  <2> QED
    BY <2>1, <1>1 DEF Less
<1>2. CASE E[n] # None
  <2> SUFFICES ASSUME NEW s \in Tally
               PROVE  (IF s \in {E[n].state, "total"} THEN OneLess(Cardinality(Counted(E, s)))
                                                    ELSE Cardinality(Counted(E, s)))
                      = Cardinality(Counted(F, s))
    BY <1>2 DEF Less, Counts
  <2>1. Counted(F, s) = Counted(E, s) \ {n} /\ (n \in Counted(E, s) <=> s \in {E[n].state, "total"})
    BY <1>2 DEF Entries, Counted
  <2>2. IsFiniteSet(Counted(E, s)) /\ Cardinality(Counted(E, s)) \in Nat
    BY NamesFinite DEF Counted
  <2>3. Cardinality(Counted(F, s)) = IF n \in Counted(E, s) THEN Cardinality(Counted(E, s)) - 1
                                                           ELSE Cardinality(Counted(E, s))
    BY <2>1, <2>2, FS_RemoveElement
  <2>4. n \in Counted(E, s) => Cardinality(Counted(E, s)) # 0
    BY <2>2, FS_EmptySet
  <2> QED
    BY <2>1, <2>2, <2>3, <2>4 DEF OneLess
<1> QED
  BY <1>1, <1>2

LEMMA MoreExact ==
  ASSUME NEW E \in Entries, NEW n \in Name, E[n] = None, NEW e \in Entry
  PROVE  More(Counts(E), e) = Counts([E EXCEPT ![n] = e])
<1> DEFINE F == [E EXCEPT ![n] = e]
<1> SUFFICES ASSUME NEW s \in Tally
             PROVE  (IF s \in {e.state, "total"} THEN Cardinality(Counted(E, s)) + 1 ELSE Cardinality(Counted(E, s)))
                    = Cardinality(Counted(F, s))
  BY DEF More, Counts
<1>1. e # None
  BY ReviewOK DEF ReviewOK
<1>2. Counted(F, s) = (IF s \in {e.state, "total"} THEN Counted(E, s) \cup {n} ELSE Counted(E, s))
      /\ n \notin Counted(E, s)
  BY <1>1 DEF Entries, Counted
<1>3. IsFiniteSet(Counted(E, s))
  BY NamesFinite DEF Counted
<1> QED
  BY <1>2, <1>3, FS_AddElement

-----------------------------------------------------------------------------
(* What each operation of the cache makes of it. *)
LEMMA NoneApart == None \notin Hash /\ None \notin Name /\ None \notin Sidecar /\ None \notin Entry
                   /\ None \notin Action
BY ReviewOK DEF ReviewOK

LEMMA EntryOfTyped == \A sc \in Sidecar \cup {None} : EntryOf(sc) \in Entry
BY DEF EntryOf, Sidecar, Entry, State

LEMMA CacheOfOK == ASSUME NEW E \in Entries PROVE CacheOK(CacheOf(E)) /\ ~ CacheOf(E).dirty
<1> DEFINE S(h) == {n \in Listed(E, "pending") : E[n].hash = h}
           I == [h \in Hash |-> IF S(h) = {} THEN None ELSE Max(S(h))]
<1>1. CacheOf(E) = [dirty |-> FALSE, entry |-> E, counts |-> Counts(E), index |-> I]
  BY DEF CacheOf
<1>2. ASSUME NEW h \in Hash PROVE I[h] # None => I[h] \in S(h)
  <2>1. S(h) \in SUBSET Name
    BY DEF Listed
  <2> QED
    BY <2>1, MaxOfNames
<1>3. ASSUME NEW h \in Hash, NEW n \in S(h) PROVE n \in Name /\ E[n] = [hash |-> h, state |-> "pending"]
  <2>1. n \in Name /\ E[n] \in Entry /\ E[n].hash = h /\ E[n].state = "pending"
    BY DEF Listed, Entries
  <2> QED
    BY <2>1 DEF Entry
<1>4. I \in [Hash -> Name \cup {None}]
  BY <1>2, <1>3
<1>5. CacheOf(E) \in Cache
  BY <1>1, <1>4, CountsTyped DEF Cache
<1>6. \A h \in Hash : I[h] # None => E[I[h]] = [hash |-> h, state |-> "pending"]
  BY <1>2, <1>3
<1> HIDE DEF I
<1> QED
  BY <1>1, <1>5, <1>6 DEF CacheOK, Exact

LEMMA DirtyOK == \A C \in Cache : CacheOK(Dirty(C)) /\ CacheOK([C EXCEPT !.dirty = TRUE])
BY DEF CacheOK, Dirty, Cache

LEMMA WithoutOK ==
  ASSUME NEW C \in Cache, Exact(C), NEW n \in Name
  PROVE  LET W == Without(C.index, C.entry[n]) IN
         /\ W \in [Hash -> Name \cup {None}]
         /\ \A h \in Hash : W[h] # None => W[h] = C.index[h] /\ W[h] # n
<1> DEFINE W == Without(C.index, C.entry[n])
<1>1. C.index \in [Hash -> Name \cup {None}] /\ C.entry[n] \in Entry \cup {None}
  BY DEF Cache, Entries
<1>2. ASSUME NEW h \in Hash, C.index[h] = n
      PROVE  C.entry[n] = [hash |-> h, state |-> "pending"] /\ C.entry[n].hash = h
  BY <1>2, NoneApart DEF Exact
<1>3. CASE C.entry[n] = None \/ C.entry[n].hash = None
  <2>1. W = C.index
    BY <1>3 DEF Without
  <2>2. ASSUME NEW h \in Hash PROVE C.index[h] # n
    <3> SUFFICES ASSUME C.index[h] = n PROVE FALSE
      OBVIOUS
    <3>1. C.entry[n] = [hash |-> h, state |-> "pending"] /\ C.entry[n].hash = h
      BY <1>2
    <3>2. [hash |-> h, state |-> "pending"] \in Entry
      BY DEF Entry
    <3> QED
      BY <3>1, <3>2, <1>3, NoneApart
  <2> QED
    BY <2>1, <2>2, <1>1
<1>4. CASE C.entry[n] # None /\ C.entry[n].hash # None
  <2>1. W = [C.index EXCEPT ![C.entry[n].hash] = None]
    BY <1>4 DEF Without
  <2> QED
    BY <2>1, <1>1, <1>2
<1> QED
  BY <1>3, <1>4

LEMMA UpsertOK ==
  ASSUME NEW C, CacheOK(C), NEW n \in Name, NEW sc \in Sidecar
  PROVE  CacheOK(Upsert(C, n, sc))
<1> DEFINE e == EntryOf(sc)
           E == [C.entry EXCEPT ![n] = e]
           W == Without(C.index, C.entry[n])
           I == IF e.state = "pending" /\ e.hash # None THEN [W EXCEPT ![e.hash] = n] ELSE W
           K == More(Less(C.counts, C.entry[n]), e)
<1>1. CASE C.dirty
  BY <1>1 DEF Upsert
<1>2. CASE ~ C.dirty
  <2>1. C \in Cache /\ Exact(C)
    BY <1>2 DEF CacheOK
  <2>2. Upsert(C, n, sc) = [C EXCEPT !.entry = E, !.counts = K, !.index = I]
    BY <1>2, <2>1 DEF Upsert, Cache
  <2>3. e \in Entry
    BY EntryOfTyped
  <2>4. E \in Entries /\ C.entry \in Entries
    BY <2>1, <2>3 DEF Cache, Entries
  <2>5. K = Counts(E)
    <3> DEFINE D == [C.entry EXCEPT ![n] = None]
    <3>1. D \in Entries /\ D[n] = None /\ [D EXCEPT ![n] = e] = E
      BY <2>4, <2>3 DEF Entries
    <3>2. Less(C.counts, C.entry[n]) = Counts(D)
      BY <2>1, <2>4, LessExact DEF Exact
    <3> HIDE DEF D
    <3> QED
      BY <3>1, <3>2, <2>3, MoreExact
  <2>6. W \in [Hash -> Name \cup {None}] /\ \A h \in Hash : W[h] # None => W[h] = C.index[h] /\ W[h] # n
    BY <2>1, WithoutOK
  <2>7. I \in [Hash -> Name \cup {None}]
    BY <2>6
  <2>8. ASSUME NEW h \in Hash, I[h] # None PROVE E[I[h]] = [hash |-> h, state |-> "pending"]
    <3>1. CASE e.state = "pending" /\ e.hash = h
      <4>1. e = [hash |-> h, state |-> "pending"]
        BY <2>3, <3>1 DEF Entry
      <4>2. h # None /\ I[h] = n
        BY <3>1, <2>6, NoneApart
      <4> QED
        BY <4>1, <4>2, <2>4 DEF Entries
    <3>2. CASE ~ (e.state = "pending" /\ e.hash = h)
      <4>1. I[h] = W[h]
        BY <3>2, <2>6
      <4>2. I[h] = C.index[h] /\ I[h] # n /\ C.entry[C.index[h]] = [hash |-> h, state |-> "pending"]
        BY <4>1, <2>6, <2>1, <2>8 DEF Exact
      <4>3. C.index[h] \in Name
        BY <2>1, <2>8, <4>2 DEF Cache
      <4> QED
        BY <4>2, <4>3, <2>4 DEF Entries
    <3> QED
      BY <3>1, <3>2
  <2> HIDE DEF E, K, I
  <2>9. [C EXCEPT !.entry = E, !.counts = K, !.index = I] \in Cache
    BY <2>1, <2>4, <2>5, <2>7, CountsTyped DEF Cache
  <2>10. Exact([C EXCEPT !.entry = E, !.counts = K, !.index = I])
    BY <2>1, <2>5, <2>8 DEF Cache, Exact
  <2> QED
    BY <2>2, <2>9, <2>10 DEF CacheOK
<1> QED
  BY <1>1, <1>2

LEMMA RemovedOK ==
  ASSUME NEW C, CacheOK(C), NEW n \in Name
  PROVE  CacheOK(Removed(C, n))
<1> DEFINE E == [C.entry EXCEPT ![n] = None]
           W == Without(C.index, C.entry[n])
           K == Less(C.counts, C.entry[n])
<1>1. CASE C.dirty
  BY <1>1 DEF Removed
<1>2. CASE ~ C.dirty
  <2>1. C \in Cache /\ Exact(C) /\ C.entry \in Entries
    BY <1>2 DEF CacheOK, Cache
  <2>2. Removed(C, n) = [C EXCEPT !.entry = E, !.counts = K, !.index = W]
    BY <1>2, <2>1 DEF Removed, Cache
  <2>3. E \in Entries /\ K = Counts(E)
    BY <2>1, LessExact DEF Exact, Entries
  <2>4. W \in [Hash -> Name \cup {None}] /\ \A h \in Hash : W[h] # None => W[h] = C.index[h] /\ W[h] # n
    BY <2>1, WithoutOK
  <2>5. ASSUME NEW h \in Hash, W[h] # None PROVE E[W[h]] = [hash |-> h, state |-> "pending"]
    <3>1. W[h] = C.index[h] /\ W[h] # n /\ C.entry[C.index[h]] = [hash |-> h, state |-> "pending"]
      BY <2>4, <2>1, <2>5 DEF Exact
    <3>2. C.index[h] \in Name
      BY <2>4, <2>5, <3>1
    <3> QED
      BY <3>1, <3>2, <2>1 DEF Entries
  <2> HIDE DEF E, K, W
  <2>6. [C EXCEPT !.entry = E, !.counts = K, !.index = W] \in Cache
    BY <2>1, <2>3, <2>4, CountsTyped DEF Cache
  <2>7. Exact([C EXCEPT !.entry = E, !.counts = K, !.index = W])
    BY <2>1, <2>3, <2>5 DEF Cache, Exact
  <2> QED
    BY <2>2, <2>6, <2>7 DEF CacheOK
<1> QED
  BY <1>1, <1>2

-----------------------------------------------------------------------------
(* Types of the directory, the vault and the threads. *)
Got == [entry : Entry, changed : BOOLEAN]
Ops == Action \cup {"none", "ingest", "list", "clean"}
Places == {"idle", "similar", "sidecar", "upsert", "examine", "persist", "purge", "orphans",
           "note", "store", "source", "unlink", "meta", "mark", "target"}
Thread == [op : Ops, pc : Places, name : Name \cup {None}, hash : Hash \cup {None}, state : State,
           target : Hash \cup {None}, todo : SUBSET Name, got : [Name -> Got \cup {None}],
           kept : BOOLEAN, failed : BOOLEAN]

(* What a step finds of the thread that takes it. *)
Ready(t) ==
    /\ t.pc \in {"similar", "sidecar", "upsert", "note", "store"} => t.hash # None
    /\ t.pc \in {"sidecar", "upsert", "note", "store", "source", "unlink", "meta", "mark", "target"} => t.name # None
    /\ t.pc \in {"note", "store", "source"} => t.op \in Action
    /\ t.pc = "target" => t.op = "replace"
    /\ t.pc \in {"similar", "sidecar", "upsert"} => t.op = "ingest"
    /\ t.pc \in {"unlink", "meta", "mark"} => t.op \in Action \cup {"clean"}
    /\ t.op \in Action => t.pc \in {"note", "store", "source", "unlink", "meta", "mark", "target"}
    /\ t.pc \in {"examine", "persist"} => t.op \in {"list", "clean"}
    /\ t.pc = "persist" => \A n \in t.todo : t.got[n] # None
    /\ t.pc \in {"purge", "orphans"} => t.op = "clean"

DiskTyped ==
    /\ media \in [Name -> Hash \cup {None}] /\ sidecar \in [Name -> Sidecar \cup {None}]
    /\ fresh \in 1..(MaxFiles + 1) /\ vault \in SUBSET Hash /\ given \in SUBSET Hash

ThreadsTyped == th \in [Proc -> Thread] /\ \A p \in Proc : Ready(th[p])

TypeInv == DiskTyped /\ ThreadsTyped /\ CacheOK(cache)

LEMMA Becoming ==
  ASSUME ThreadsTyped, NEW p \in Proc, NEW r \in Thread, Ready(r), Become(p, r)
  PROVE  ThreadsTyped'
BY DEF ThreadsTyped, Become

LEMMA FoundTyped == ASSUME ThreadsTyped, NEW p \in Proc PROVE Found(p) \in Entries
<1>1. th[p].got \in [Name -> Got \cup {None}]
  BY DEF ThreadsTyped, Thread
<1> QED
  BY <1>1 DEF Found, Entries, Got

LEMMA IdleTyped == Idle \in Thread /\ Ready(Idle)
BY DEF Idle, Thread, Ready, Ops, Places, State, NoEntry, Action

LEMMA OnDiskTyped == DiskTyped => OnDisk \in Entries
<1> SUFFICES ASSUME DiskTyped, NEW n \in Name
             PROVE  (IF media[n] = None THEN None ELSE EntryOf(sidecar[n])) \in Entry \cup {None}
  BY DEF OnDisk, Entries
<1> QED
  BY EntryOfTyped DEF DiskTyped

LEMMA EnsuredOK == DiskTyped /\ CacheOK(cache) => CacheOK(Ensured)
BY OnDiskTyped, CacheOfOK DEF Ensured

LEMMA TypeInit == Init => TypeInv
<1> SUFFICES ASSUME Init PROVE TypeInv
  OBVIOUS
<1>1. PICK s \in Starts : /\ media = s.media /\ sidecar = s.sidecar /\ vault = s.vault
                          /\ fresh = 1 + Cardinality({n \in Name : s.media[n] # None})
  BY DEF Init
<1>2. Cardinality({n \in Name : s.media[n] # None}) \in 0..MaxFiles
  <2>1. IsFiniteSet(Name) /\ Cardinality(Name) = MaxFiles
    BY FS_Interval, BoundsKnown DEF Name
  <2>2. {n \in Name : s.media[n] # None} \in SUBSET Name
    OBVIOUS
  <2>3. /\ Cardinality({n \in Name : s.media[n] # None}) \in Nat
        /\ Cardinality({n \in Name : s.media[n] # None}) <= MaxFiles
    BY <2>1, <2>2, FS_Subset, FS_CardinalityType
  <2> QED
    BY <2>3, BoundsKnown
<1>3. DiskTyped
  BY <1>1, <1>2, ReviewOK DEF ReviewOK, DiskTyped, Init
<1>4. ThreadsTyped
  BY IdleTyped DEF ThreadsTyped, Init
<1>5. CacheOK(cache)
  <2>1. NoEntry \in Entries
    BY DEF NoEntry, Entries
  <2>2. CacheOf(NoEntry) \in Cache
    BY <2>1, CacheOfOK DEF CacheOK
  <2> QED
    BY <2>2, DirtyOK DEF Init
<1> QED
  BY <1>3, <1>4, <1>5 DEF TypeInv

LEMMA IngestTyped ==
  ASSUME TypeInv, NEW p \in Proc,
         (\E c \in Hash : Ingest(p, c)) \/ IngestStores(p) \/ IngestMoves(p) \/ IngestSidecar(p) \/ IngestUpsert(p)
  PROVE  TypeInv'
<1> USE DEF TypeInv, disk, history
<1>1. th[p] \in Thread /\ Ready(th[p]) /\ th \in [Proc -> Thread]
  BY DEF ThreadsTyped
<1>2. ASSUME NEW c \in Hash, Ingest(p, c) PROVE TypeInv'
  <2>1. DiskTyped' /\ CacheOK(cache')
    BY <1>2, EnsuredOK DEF Ingest, DiskTyped
  <2>2. [Idle EXCEPT !.op = "ingest", !.pc = "similar", !.hash = c] \in Thread
        /\ Ready([Idle EXCEPT !.op = "ingest", !.pc = "similar", !.hash = c])
    BY NoneApart DEF Idle, Thread, Ready, Ops, Places, State, NoEntry, Action
  <2>3. ThreadsTyped'
    BY <1>2, <2>2, Becoming DEF Ingest, ThreadsTyped
  <2> QED
    BY <2>1, <2>3
<1>3. CASE IngestStores(p)
  BY <1>1, <1>3, IdleTyped, Becoming DEF IngestStores, DiskTyped, Thread, Ready
<1>4. CASE IngestMoves(p)
  <2>1. fresh \in Name /\ fresh + 1 \in 1..(MaxFiles + 1) /\ fresh # None
    BY <1>4, NoneApart, BoundsKnown DEF IngestMoves, DiskTyped, Name
  <2>2. DiskTyped'
    BY <1>1, <1>4, <2>1 DEF IngestMoves, DiskTyped, Thread, Ready
  <2>3. [th[p] EXCEPT !.pc = "sidecar", !.name = fresh] \in Thread
        /\ Ready([th[p] EXCEPT !.pc = "sidecar", !.name = fresh])
    BY <1>1, <1>4, <2>1 DEF IngestMoves, Thread, Ready, Places, Action
  <2> QED
    BY <1>4, <2>2, <2>3, Becoming DEF IngestMoves
<1>5. CASE IngestSidecar(p)
  <2>1. [hash |-> th[p].hash, state |-> "pending"] \in Sidecar /\ th[p].name \in Name
    BY <1>1, <1>5 DEF IngestSidecar, Thread, Ready, Sidecar, State
  <2>2. DiskTyped'
    BY <1>5, <2>1 DEF IngestSidecar, DiskTyped
  <2>3. [th[p] EXCEPT !.pc = "upsert"] \in Thread /\ Ready([th[p] EXCEPT !.pc = "upsert"])
    BY <1>1, <1>5 DEF IngestSidecar, Thread, Ready, Places, Action
  <2> QED
    BY <1>5, <2>2, <2>3, Becoming DEF IngestSidecar
<1>6. CASE IngestUpsert(p)
  <2>1. [hash |-> th[p].hash, state |-> "pending"] \in Sidecar /\ th[p].name \in Name
    BY <1>1, <1>6 DEF IngestUpsert, Thread, Ready, Sidecar, State
  <2>2. DiskTyped' /\ CacheOK(cache')
    BY <1>6, <2>1, UpsertOK DEF IngestUpsert, DiskTyped
  <2> QED
    BY <1>6, <2>2, IdleTyped, Becoming DEF IngestUpsert
<1> QED
  BY <1>2, <1>3, <1>4, <1>5, <1>6

LEMMA ListTyped ==
  ASSUME TypeInv, NEW p \in Proc,
         \/ \E op \in {"list", "clean"} : ListStart(p, op)
         \/ \E n \in Name : ListExamine(p, n) \/ ListPersist(p, n) \/ Purge(p, n) \/ PurgeOrphan(p, n)
         \/ ListExamined(p) \/ ListReplace(p) \/ Purged(p) \/ CleanEnds(p)
  PROVE  TypeInv'
<1> USE DEF TypeInv, disk, history
<1>1. th[p] \in Thread /\ Ready(th[p]) /\ th \in [Proc -> Thread]
  BY DEF ThreadsTyped
<1>2. ASSUME NEW op \in {"list", "clean"}, ListStart(p, op) PROVE TypeInv'
  <2> DEFINE r == [Idle EXCEPT !.op = op, !.pc = "examine", !.todo = {n \in Name : media[n] # None}]
  <2>1. r \in Thread /\ Ready(r)
    BY DEF Idle, Thread, Ready, Ops, Places, State, NoEntry, Action
  <2> QED
    BY <1>2, <2>1, Becoming DEF ListStart, DiskTyped
<1>3. ASSUME NEW n \in Name, ListExamine(p, n) PROVE TypeInv'
  <2> DEFINE r == [th[p] EXCEPT !.todo = @ \ {n}, !.got[n] = [entry |-> Examined(n), changed |-> Incomplete(n)]]
  <2>1. EntryOf(sidecar[n]) \in Entry
    BY EntryOfTyped DEF DiskTyped
  <2>2. media[n] # None => Examined(n) \in Entry
    BY <2>1 DEF Examined, DiskTyped, Entry
  <2>3. media[n] # None => [entry |-> Examined(n), changed |-> Incomplete(n)] \in Got
    BY <2>2 DEF Got, Incomplete
  <2>4. media[n] # None => r \in Thread
    BY <1>1, <2>3 DEF Thread
  <2>5. Ready(r)
    BY <1>1, <1>3 DEF ListExamine, Ready, Thread, Action
  <2> QED
    BY <1>3, <2>4, <2>5, IdleTyped, Becoming DEF ListExamine, DiskTyped
<1>4. ASSUME NEW n \in Name, ListPersist(p, n) PROVE TypeInv'
  <2> DEFINE r == [th[p] EXCEPT !.todo = @ \ {n}]
  <2>1. r \in Thread /\ Ready(r)
    BY <1>1, <1>4 DEF ListPersist, Ready, Thread
  <2>2. Found(p)[n] \in Sidecar
    <3>1. th[p].got[n] # None /\ th[p].got[n] \in Got
      BY <1>1, <1>4 DEF ListPersist, Ready, Thread
    <3> QED
      BY <3>1 DEF Found, Got, Entry, Sidecar, State
  <2>3. CacheOK(cache')
    BY <1>4, <2>2, UpsertOK DEF ListPersist
  <2>4. DiskTyped'
    BY <1>4, <2>2 DEF ListPersist, DiskTyped
  <2>5. ThreadsTyped'
    BY <1>4, <2>1, Becoming DEF ListPersist
  <2> QED
    BY <2>3, <2>4, <2>5
<1>5. ASSUME NEW n \in Name, Purge(p, n) PROVE TypeInv'
  <2> DEFINE r == [th[p] EXCEPT !.pc = "unlink", !.name = n, !.todo = @ \ {n}]
  <2>1. r \in Thread /\ Ready(r)
    BY <1>1, <1>5, NoneApart DEF Purge, Ready, Thread, Places, Action
  <2> QED
    BY <1>5, <2>1, Becoming DEF Purge, DiskTyped
<1>6. ASSUME NEW n \in Name, PurgeOrphan(p, n) PROVE TypeInv'
  <2> DEFINE r == [th[p] EXCEPT !.todo = @ \ {n}]
  <2>1. r \in Thread /\ Ready(r)
    BY <1>1, <1>6 DEF PurgeOrphan, Ready, Thread
  <2>2. DiskTyped' /\ CacheOK(cache')
    BY <1>6, DirtyOK DEF PurgeOrphan, CleanSidecar, DiskTyped, CacheOK
  <2> QED
    BY <1>6, <2>1, <2>2, Becoming DEF PurgeOrphan
<1>7. CASE ListExamined(p)
  <2> DEFINE r == [th[p] EXCEPT !.pc = "persist", !.todo = {n \in Name : th[p].got[n] # None /\ th[p].got[n].changed}]
  <2>1. r \in Thread /\ Ready(r)
    BY <1>1, <1>7 DEF ListExamined, Ready, Thread, Places, Action
  <2> QED
    BY <1>7, <2>1, Becoming DEF ListExamined, DiskTyped
<1>8. CASE ListReplace(p)
  <2> DEFINE r == [th[p] EXCEPT !.pc = "purge", !.todo = Listed(Found(p), "cleanup")]
  <2>1. r \in Thread /\ (th[p].op = "clean" => Ready(r))
    BY <1>1, <1>8 DEF ListReplace, Ready, Thread, Places, Action, Listed
  <2>2. CacheOK(cache')
    BY <1>8, FoundTyped, CacheOfOK DEF ListReplace
  <2>3. th[p].op \in {"list", "clean"}
    BY <1>1, <1>8 DEF ListReplace, Ready
  <2>4. ThreadsTyped'
    BY <1>8, <2>1, <2>3, IdleTyped, Becoming DEF ListReplace
  <2> QED
    BY <1>8, <2>2, <2>4 DEF ListReplace, DiskTyped
<1>9. CASE Purged(p)
  <2> DEFINE r == [th[p] EXCEPT !.pc = "orphans",
                     !.todo = {n \in Name : sidecar[n] # None} \ Listed(Found(p), "cleanup")]
  <2>1. r \in Thread /\ Ready(r)
    BY <1>1, <1>9 DEF Purged, Ready, Thread, Places, Action
  <2> QED
    BY <1>9, <2>1, Becoming DEF Purged, DiskTyped
<1>10. CASE CleanEnds(p)
  BY <1>10, IdleTyped, Becoming DEF CleanEnds, DiskTyped
<1> QED
  BY <1>2, <1>3, <1>4, <1>5, <1>6, <1>7, <1>8, <1>9, <1>10

LEMMA CleanTyped ==
  ASSUME TypeInv, NEW p \in Proc, UnlinkMedia(p) \/ UnlinkSidecar(p) \/ MarkCleanup(p)
  PROVE  TypeInv'
<1> USE DEF TypeInv, disk, history
<1>1. th[p] \in Thread /\ Ready(th[p]) /\ th \in [Proc -> Thread]
  BY DEF ThreadsTyped
<1>2. CASE UnlinkMedia(p)
  <2> DEFINE r == [th[p] EXCEPT !.pc = "meta"]
             k == [r EXCEPT !.kept = TRUE]
  <2>1. r \in Thread /\ Ready(r) /\ k \in Thread /\ Ready(k)
    BY <1>1, <1>2 DEF UnlinkMedia, Ready, Thread, Places, Action
  <2>2. th[p].name \in Name
    BY <1>1, <1>2 DEF UnlinkMedia, Ready, Thread
  <2>3. Become(p, r) \/ Become(p, k)
    BY <1>2 DEF UnlinkMedia, CleanMedia
  <2>4. CacheOK(cache')
    BY <1>2, <2>2, RemovedOK DEF UnlinkMedia, CleanMedia
  <2>5. DiskTyped'
    BY <1>2, <2>2 DEF UnlinkMedia, CleanMedia, DiskTyped
  <2> QED
    BY <2>1, <2>3, <2>4, <2>5, Becoming
<1>3. CASE UnlinkSidecar(p)
  <2>1. AfterClean(p) \in Thread /\ Ready(AfterClean(p))
    <3>1. th[p].op \in Action \cup {"clean"} /\ th[p].name # None
      BY <1>1, <1>3 DEF UnlinkSidecar, Ready
    <3>2. LET r == [th[p] EXCEPT !.pc = "mark"] IN r \in Thread /\ Ready(r)
      BY <1>1, <3>1 DEF Ready, Thread, Places, Action
    <3>3. th[p].op = "replace" => LET r == [th[p] EXCEPT !.pc = "target"] IN r \in Thread /\ Ready(r)
      BY <1>1, <3>1 DEF Ready, Thread, Places, Action
    <3>4. th[p].op = "clean" =>
              LET r == [th[p] EXCEPT !.pc = "purge", !.name = None] IN r \in Thread /\ Ready(r)
      BY <1>1, <3>1 DEF Ready, Thread, Places, Action
    <3> QED
      BY <3>2, <3>3, <3>4, IdleTyped DEF AfterClean
  <2>2. DiskTyped' /\ CacheOK(cache')
    BY <1>3, DirtyOK DEF UnlinkSidecar, CleanSidecar, DiskTyped, CacheOK
  <2> QED
    BY <1>3, <2>1, <2>2, Becoming DEF UnlinkSidecar
<1>4. CASE MarkCleanup(p)
  <2> DEFINE r == [th[p] EXCEPT !.pc = "purge", !.name = None, !.kept = FALSE]
  <2>1. th[p].op = "clean" => r \in Thread /\ Ready(r)
    BY <1>1, <1>4 DEF MarkCleanup, Ready, Thread, Places, Action
  <2>2. th[p].name \in Name /\ th[p].hash \in Hash \cup {None}
    BY <1>1, <1>4 DEF MarkCleanup, Ready, Thread
  <2>3. Marked(p) \in Sidecar
    BY <2>2 DEF Marked, DiskTyped, Sidecar, State
  <2>4. DiskTyped' /\ CacheOK(cache')
    BY <1>4, <2>2, <2>3, UpsertOK DEF MarkCleanup, DiskTyped
  <2>5. ThreadsTyped'
    BY <1>4, <2>1, IdleTyped, Becoming DEF MarkCleanup
  <2> QED
    BY <2>4, <2>5
<1> QED
  BY <1>2, <1>3, <1>4

LEMMA ActTyped ==
  ASSUME TypeInv, NEW p \in Proc,
         \/ \E n \in Name, action \in Action, target \in Hash \cup {None} : Act(p, n, action, target)
         \/ ActNote(p) \/ ActStore(p) \/ ActSource(p) \/ ActTarget(p)
  PROVE  TypeInv'
<1> USE DEF TypeInv, disk, history
<1>1. th[p] \in Thread /\ Ready(th[p]) /\ th \in [Proc -> Thread]
  BY DEF ThreadsTyped
<1>2. ASSUME NEW n \in Name, NEW action \in Action, NEW target \in Hash \cup {None}, Act(p, n, action, target)
      PROVE  TypeInv'
  <2> DEFINE s == IF sidecar[n] = None THEN "pending" ELSE sidecar[n].state
             r == [Idle EXCEPT !.op = action, !.pc = "note", !.name = n, !.hash = media[n],
                               !.state = s, !.target = target]
  <2>1. media[n] \in Hash /\ s \in State
    BY <1>2 DEF Act, DiskTyped, Sidecar, State
  <2>2. r \in Thread /\ Ready(r)
    BY <2>1, NoneApart DEF Idle, Thread, Ready, Ops, Places, NoEntry, Action
  <2>3. UNCHANGED th \/ Become(p, r)
    BY <1>2 DEF Act
  <2>4. ThreadsTyped'
    BY <2>2, <2>3, Becoming DEF ThreadsTyped
  <2> QED
    BY <1>2, <2>4 DEF Act, DiskTyped
<1>3. CASE ActNote(p)
  <2> DEFINE sc == [hash |-> th[p].hash, state |-> th[p].state]
             r == [th[p] EXCEPT !.pc = IF th[p].op = "delete" THEN "unlink" ELSE "store"]
  <2>1. sc \in Sidecar /\ th[p].name \in Name /\ th[p].hash \in Hash
    BY <1>1, <1>3 DEF ActNote, Ready, Thread, Sidecar
  <2>2. r \in Thread /\ Ready(r)
    BY <1>1, <1>3 DEF ActNote, Ready, Thread, Places, Action
  <2>3. DiskTyped'
    BY <1>3, <2>1 DEF ActNote, DiskTyped
  <2>4. CacheOK(cache')
    BY <1>3, <2>1, UpsertOK DEF ActNote
  <2>5. ThreadsTyped'
    BY <1>3, <2>2, IdleTyped, Becoming DEF ActNote
  <2> QED
    BY <2>3, <2>4, <2>5
<1>4. CASE ActStore(p)
  <2> DEFINE r == [th[p] EXCEPT !.pc = "source"]
  <2>1. r \in Thread /\ Ready(r) /\ th[p].hash \in Hash
    BY <1>1, <1>4 DEF ActStore, Ready, Thread, Places, Action
  <2> QED
    BY <1>4, <2>1, IdleTyped, Becoming DEF ActStore, DiskTyped
<1>5. CASE ActSource(p)
  <2>1. \A failed \in BOOLEAN : [th[p] EXCEPT !.pc = "unlink", !.failed = failed] \in Thread
                               /\ Ready([th[p] EXCEPT !.pc = "unlink", !.failed = failed])
    BY <1>1, <1>5 DEF ActSource, Ready, Thread, Places, Action
  <2>2. PICK failed \in BOOLEAN : Become(p, [th[p] EXCEPT !.pc = "unlink", !.failed = failed])
    BY <1>5 DEF ActSource
  <2>3. ThreadsTyped'
    BY <2>1, <2>2, Becoming
  <2>4. DiskTyped'
    BY <1>1, <1>5 DEF ActSource, DiskTyped, Ready, Thread
  <2> QED
    BY <1>5, <2>3, <2>4 DEF ActSource
<1>6. CASE ActTarget(p)
  BY <1>6, IdleTyped, Becoming DEF ActTarget, DiskTyped
<1> QED
  BY <1>2, <1>3, <1>4, <1>5, <1>6

LEMMA TypeNext == TypeInv /\ [Next]_vars => TypeInv'
<1> SUFFICES ASSUME TypeInv, [Next]_vars PROVE TypeInv'
  OBVIOUS
<1>1. ASSUME NEW p \in Proc, Step(p) \/ Call(p) PROVE TypeInv'
  BY <1>1, IngestTyped, ListTyped, CleanTyped, ActTyped DEF Step, Call
<1>2. CASE Crash
  <2>1. NoEntry \in Entries
    BY DEF NoEntry, Entries
  <2>2. CacheOK(cache')
    BY <1>2, <2>1, CacheOfOK, DirtyOK DEF Crash, CacheOK
  <2>3. ThreadsTyped' /\ DiskTyped'
    BY <1>2, IdleTyped DEF Crash, TypeInv, ThreadsTyped, DiskTyped, disk, history
  <2> QED
    BY <2>2, <2>3 DEF TypeInv
<1>3. CASE UNCHANGED vars
  BY <1>3 DEF vars, TypeInv, ThreadsTyped, DiskTyped, disk, history
<1> QED
  BY <1>1, <1>2, <1>3 DEF Next

-----------------------------------------------------------------------------
(* Nothing is dropped: every step that takes a file out of the queue comes *)
(* after one that has settled its content.                                 *)
Settled(n) == media[n] = None \/ media[n] \in vault \cup given

NamesInv == \A n \in Name : n >= fresh => media[n] = None /\ sidecar[n] = None

(* A sidecar that no longer waits was written for a settled file. *)
SidecarsInv == \A n \in Name : sidecar[n] # None /\ sidecar[n].state # "pending" => Settled(n)

KnownTo(t) ==
    /\ t.name # None => t.name < fresh
    /\ \A n \in t.todo : n < fresh
    /\ \A n \in Name : t.got[n] # None => n < fresh /\ (t.got[n].entry.state = "cleanup" => Settled(n))
    /\ t.op = "clean" /\ t.pc \in {"purge", "unlink", "meta", "mark"} => \A n \in t.todo : Settled(n)
    /\ t.op \in Action => media[t.name] \in {None, t.hash}
    /\ t.pc \in {"source", "unlink", "meta", "mark", "target"} => Settled(t.name)
    /\ t.pc = "note" /\ t.state # "pending" => Settled(t.name)

ThreadsInv == \A p \in Proc : KnownTo(th[p])

SettledInv == NamesInv /\ SidecarsInv /\ ThreadsInv

(* Files and contents that have a name keep what a thread knows of them. *)
Onward ==
    /\ fresh' >= fresh /\ vault \cup given \subseteq vault' \cup given'
    /\ \A n \in Name : n < fresh => media'[n] \in {None, media[n]}

LEMMA StaysKnown ==
  ASSUME TypeInv, TypeInv', ThreadsInv, Onward, NEW q \in Proc, th'[q] = th[q]
  PROVE  KnownTo(th[q])'
<1>1. fresh \in Nat /\ fresh' \in Nat /\ th[q] \in Thread /\ Ready(th[q]) /\ KnownTo(th[q])
  BY DEF TypeInv, DiskTyped, ThreadsTyped, ThreadsInv
<1>2. \A n \in Name : n < fresh => n < fresh' /\ (Settled(n) => Settled(n)')
  BY <1>1, NamesCounted DEF Onward, Settled
<1>3. th[q].name \in Name \cup {None} /\ th[q].todo \subseteq Name
  BY <1>1 DEF Thread
<1>4. th[q].op \in Action \/ th[q].pc \in {"source", "unlink", "meta", "mark", "target", "note"}
        => th[q].name \in Name /\ th[q].name < fresh
  BY <1>1, <1>3 DEF Ready, KnownTo
<1>5. th[q].op \in Action => media'[th[q].name] \in {None, th[q].hash}
  BY <1>1, <1>4 DEF KnownTo, Onward
<1> QED
  BY <1>1, <1>2, <1>3, <1>4, <1>5 DEF KnownTo

LEMMA OneMoves ==
  ASSUME TypeInv, TypeInv', SettledInv, Onward, NEW p \in Proc, NEW r, Become(p, r),
         KnownTo(th[p])', NamesInv', SidecarsInv'
  PROVE  SettledInv'
<1>1. \A q \in Proc : q # p => th'[q] = th[q]
  BY DEF Become, TypeInv, ThreadsTyped
<1> QED
  BY <1>1, StaysKnown DEF SettledInv, ThreadsInv

(* Steps that leave the directory, the vault and what was given up alone. *)
LEMMA ThreadMoves ==
  ASSUME TypeInv, TypeInv', SettledInv, NEW p \in Proc, NEW r, Become(p, r),
         UNCHANGED <<media, sidecar, fresh, vault, given>>, KnownTo(th[p])'
  PROVE  SettledInv'
<1>1. Onward
  BY DEF Onward, TypeInv, DiskTyped
<1>2. NamesInv' /\ SidecarsInv'
  BY DEF SettledInv, NamesInv, SidecarsInv, Settled
<1> QED
  BY <1>1, <1>2, OneMoves

LEMMA IdleKnown == \A p \in Proc : th'[p] = Idle => KnownTo(th[p])'
BY NoneApart DEF KnownTo, Idle, NoEntry, Action

LEMMA Moved == ASSUME TypeInv, NEW p \in Proc, NEW r, Become(p, r) PROVE th'[p] = r
BY DEF Become, TypeInv, ThreadsTyped

LEMMA IngestSettled ==
  ASSUME TypeInv, TypeInv', SettledInv, NEW p \in Proc,
         (\E c \in Hash : Ingest(p, c)) \/ IngestStores(p) \/ IngestMoves(p) \/ IngestSidecar(p) \/ IngestUpsert(p)
  PROVE  SettledInv'
<1> USE DEF disk, history
<1>1. th[p] \in Thread /\ Ready(th[p]) /\ KnownTo(th[p]) /\ fresh \in Nat
  BY DEF TypeInv, DiskTyped, ThreadsTyped, SettledInv, ThreadsInv
<1>2. ASSUME NEW c \in Hash, Ingest(p, c) PROVE SettledInv'
  <2> DEFINE r == [Idle EXCEPT !.op = "ingest", !.pc = "similar", !.hash = c]
  <2>1. CASE Become(p, r)
    <3>1. th'[p] = r
      BY <2>1, Moved
    <3>2. KnownTo(th[p])'
      BY <3>1, NoneApart DEF KnownTo, Idle, NoEntry, Action
    <3> QED
      BY <1>2, <2>1, <3>2, ThreadMoves DEF Ingest
  <2>2. CASE UNCHANGED th
    BY <1>2, <2>2 DEF Ingest, SettledInv, ThreadsInv, NamesInv, SidecarsInv, KnownTo, Settled
  <2> QED
    BY <1>2, <2>1, <2>2 DEF Ingest
<1>3. CASE IngestStores(p)
  <2>1. Onward /\ NamesInv' /\ SidecarsInv'
    BY <1>1, <1>3 DEF IngestStores, Onward, SettledInv, NamesInv, SidecarsInv, Settled
  <2>2. Become(p, Idle) /\ th'[p] = Idle
    BY <1>3, Moved DEF IngestStores
  <2> QED
    BY <2>1, <2>2, IdleKnown, OneMoves
<1>4. CASE IngestMoves(p)
  <2> DEFINE r == [th[p] EXCEPT !.pc = "sidecar", !.name = fresh]
  <2>1. fresh \in Name /\ fresh' = fresh + 1 /\ Become(p, r) /\ th'[p] = r
    BY <1>1, <1>4, Moved DEF IngestMoves, TypeInv, DiskTyped, Name
  <2>2. Onward
    BY <1>1, <1>4, <2>1 DEF IngestMoves, Onward, TypeInv, DiskTyped
  <2>3. NamesInv'
    BY <1>1, <1>4, <2>1 DEF IngestMoves, SettledInv, NamesInv, TypeInv, DiskTyped, Name
  <2>4. SidecarsInv'
    <3>1. sidecar[fresh] = None
      BY <1>1, <2>1 DEF SettledInv, NamesInv
    <3> QED
      BY <1>4, <2>1, <3>1 DEF IngestMoves, SettledInv, SidecarsInv, Settled, TypeInv, DiskTyped
  <2>5. KnownTo(th[p])'
    <3>1. th[p].op \notin Action
      BY <1>1, <1>4 DEF IngestMoves, Ready
    <3>2. \A n \in Name : n < fresh => n < fresh' /\ (Settled(n) => Settled(n)')
      BY <1>1, <1>4, <2>1 DEF IngestMoves, Settled, Name, TypeInv, DiskTyped
    <3> QED
      BY <1>1, <2>1, <3>1, <3>2 DEF KnownTo, Thread
  <2> QED
    BY <2>1, <2>2, <2>3, <2>4, <2>5, OneMoves
<1>5. CASE IngestSidecar(p)
  <2> DEFINE r == [th[p] EXCEPT !.pc = "upsert"]
  <2>1. th[p].name \in Name /\ th[p].name < fresh /\ Become(p, r) /\ th'[p] = r
    BY <1>1, <1>5, Moved DEF IngestSidecar, Ready, KnownTo, Thread
  <2>2. Onward /\ NamesInv' /\ SidecarsInv'
    BY <1>1, <1>5, <2>1
       DEF IngestSidecar, Onward, SettledInv, NamesInv, SidecarsInv, Settled, TypeInv, DiskTyped, Name
  <2>3. KnownTo(th[p])'
    BY <1>1, <1>5, <2>1 DEF IngestSidecar, KnownTo, Thread, Settled
  <2> QED
    BY <2>1, <2>2, <2>3, OneMoves
<1>6. CASE IngestUpsert(p)
  BY <1>6, Moved, IdleKnown, ThreadMoves DEF IngestUpsert
<1> QED
  BY <1>2, <1>3, <1>4, <1>5, <1>6

LEMMA ListSettled ==
  ASSUME TypeInv, TypeInv', SettledInv, NEW p \in Proc,
         \/ \E op \in {"list", "clean"} : ListStart(p, op)
         \/ \E n \in Name : ListExamine(p, n) \/ ListPersist(p, n) \/ Purge(p, n) \/ PurgeOrphan(p, n)
         \/ ListExamined(p) \/ ListReplace(p) \/ Purged(p) \/ CleanEnds(p)
  PROVE  SettledInv'
<1> USE DEF disk, history
<1>1. th[p] \in Thread /\ Ready(th[p]) /\ KnownTo(th[p]) /\ fresh \in Nat
  BY DEF TypeInv, DiskTyped, ThreadsTyped, SettledInv, ThreadsInv
<1>2. \A n \in Name : media[n] # None \/ sidecar[n] # None => n < fresh
  BY <1>1, NamesCounted DEF SettledInv, NamesInv
<1>3. ASSUME NEW op \in {"list", "clean"}, ListStart(p, op) PROVE SettledInv'
  <2> DEFINE r == [Idle EXCEPT !.op = op, !.pc = "examine", !.todo = {n \in Name : media[n] # None}]
  <2>1. Become(p, r) /\ th'[p] = r
    BY <1>3, Moved DEF ListStart
  <2>2. KnownTo(th[p])'
    BY <1>2, <1>3, <2>1, NoneApart DEF ListStart, KnownTo, Idle, NoEntry, Action
  <2> QED
    BY <1>3, <2>1, <2>2, ThreadMoves DEF ListStart
<1>4. ASSUME NEW n \in Name, ListExamine(p, n) PROVE SettledInv'
  <2> DEFINE r == [th[p] EXCEPT !.todo = @ \ {n}, !.got[n] = [entry |-> Examined(n), changed |-> Incomplete(n)]]
  <2>1. CASE media[n] = None
    BY <1>4, <2>1, Moved, IdleKnown, ThreadMoves DEF ListExamine
  <2>2. CASE media[n] # None
    <3>1. Become(p, r) /\ th'[p] = r
      BY <1>4, <2>2, Moved DEF ListExamine
    <3>2. Examined(n).state = "cleanup" => Settled(n)
      <4>1. Examined(n).state = EntryOf(sidecar[n]).state
        BY EntryOfTyped DEF Examined, TypeInv, DiskTyped, Entry
      <4>2. EntryOf(sidecar[n]).state = "cleanup" => sidecar[n] # None /\ sidecar[n].state # "pending"
        BY DEF EntryOf
      <4> QED
        BY <4>1, <4>2 DEF SettledInv, SidecarsInv
    <3> DEFINE g == [entry |-> Examined(n), changed |-> Incomplete(n)]
    <3>3. r.got = [th[p].got EXCEPT ![n] = g] /\ r.todo = th[p].todo \ {n} /\ g.entry = Examined(n)
          /\ r.op = th[p].op /\ r.pc = th[p].pc /\ r.name = th[p].name
          /\ r.pc \notin {"purge", "source", "unlink", "meta", "mark", "target", "note"} /\ r.op \notin Action
      BY <1>1, <1>4 DEF ListExamine, Ready, Thread, Action
    <3>4. \A m \in Name : r.got[m] # None => m < fresh /\ (r.got[m].entry.state = "cleanup" => Settled(m))
      BY <1>1, <1>2, <2>2, <3>2, <3>3 DEF KnownTo, Thread
    <3> HIDE DEF r
    <3>5. KnownTo(th[p])'
      BY <1>1, <1>4, <2>2, <3>1, <3>3, <3>4 DEF ListExamine, KnownTo, Settled
    <3> QED
      BY <1>4, <3>1, <3>5, ThreadMoves DEF ListExamine
  <2> QED
    BY <2>1, <2>2
<1>5. ASSUME NEW n \in Name, ListPersist(p, n) PROVE SettledInv'
  <2> DEFINE r == [th[p] EXCEPT !.todo = @ \ {n}]
  <2>1. Become(p, r) /\ th'[p] = r
    BY <1>5, Moved DEF ListPersist
  <2>2. th[p].got[n] # None /\ n < fresh /\ Found(p)[n] = th[p].got[n].entry
    BY <1>1, <1>5 DEF ListPersist, Ready, KnownTo, Found
  <2>3. th[p].got[n].entry.state \in {"pending", "cleanup"}
    BY <1>1, <2>2 DEF Thread, Got, Entry
  <2>4. Onward /\ NamesInv' /\ SidecarsInv'
    BY <1>1, <1>5, <2>2, <2>3
       DEF ListPersist, Onward, SettledInv, NamesInv, SidecarsInv, Settled, TypeInv, DiskTyped, KnownTo, Name
  <2>5. KnownTo(th[p])'
    BY <1>1, <1>5, <2>1 DEF ListPersist, KnownTo, Thread, Settled
  <2> QED
    BY <2>1, <2>4, <2>5, OneMoves
<1>6. ASSUME NEW n \in Name, Purge(p, n) PROVE SettledInv'
  <2> DEFINE r == [th[p] EXCEPT !.pc = "unlink", !.name = n, !.todo = @ \ {n}]
  <2>1. Become(p, r) /\ th'[p] = r
    BY <1>6, Moved DEF Purge
  <2>2. th[p].op \notin Action /\ n < fresh /\ Settled(n)
    BY <1>1, <1>6 DEF Purge, Ready, KnownTo, Action
  <2>3. KnownTo(th[p])'
    BY <1>1, <1>6, <2>1, <2>2 DEF Purge, KnownTo, Thread, Settled
  <2> QED
    BY <1>6, <2>1, <2>3, ThreadMoves DEF Purge
<1>7. ASSUME NEW n \in Name, PurgeOrphan(p, n) PROVE SettledInv'
  <2> DEFINE r == [th[p] EXCEPT !.todo = @ \ {n}]
  <2>1. Become(p, r) /\ th'[p] = r
    BY <1>7, Moved DEF PurgeOrphan
  <2>2. Onward /\ NamesInv' /\ SidecarsInv'
    BY <1>1, <1>7
       DEF PurgeOrphan, CleanSidecar, Onward, SettledInv, NamesInv, SidecarsInv, Settled, TypeInv, DiskTyped
  <2>3. KnownTo(th[p])'
    BY <1>1, <1>7, <2>1 DEF PurgeOrphan, KnownTo, Thread, Settled
  <2> QED
    BY <2>1, <2>2, <2>3, OneMoves
<1>8. CASE ListExamined(p)
  <2> DEFINE r == [th[p] EXCEPT !.pc = "persist", !.todo = {n \in Name : th[p].got[n] # None /\ th[p].got[n].changed}]
  <2>1. Become(p, r) /\ th'[p] = r
    BY <1>8, Moved DEF ListExamined
  <2>2. KnownTo(th[p])'
    BY <1>1, <1>8, <2>1 DEF ListExamined, KnownTo, Thread, Settled, Ready, Action
  <2> QED
    BY <1>8, <2>1, <2>2, ThreadMoves DEF ListExamined
<1>9. CASE ListReplace(p)
  <2> DEFINE r == [th[p] EXCEPT !.pc = "purge", !.todo = Listed(Found(p), "cleanup")]
  <2>1. CASE th[p].op = "list"
    BY <1>9, <2>1, Moved, IdleKnown, ThreadMoves DEF ListReplace
  <2>2. CASE th[p].op # "list"
    <3>1. Become(p, r) /\ th'[p] = r
      BY <1>9, <2>2, Moved DEF ListReplace
    <3>2. \A n \in Listed(Found(p), "cleanup") : n \in Name /\ n < fresh /\ Settled(n)
      BY <1>1 DEF Listed, Found, KnownTo
    <3>3. KnownTo(th[p])'
      BY <1>1, <1>9, <3>1, <3>2 DEF ListReplace, KnownTo, Thread, Settled, Ready, Action
    <3> QED
      BY <1>9, <3>1, <3>3, ThreadMoves DEF ListReplace
  <2> QED
    BY <2>1, <2>2
<1>10. CASE Purged(p)
  <2> DEFINE r == [th[p] EXCEPT !.pc = "orphans",
                     !.todo = {n \in Name : sidecar[n] # None} \ Listed(Found(p), "cleanup")]
  <2>1. Become(p, r) /\ th'[p] = r
    BY <1>10, Moved DEF Purged
  <2>2. KnownTo(th[p])'
    BY <1>1, <1>2, <1>10, <2>1 DEF Purged, KnownTo, Thread, Settled, Ready, Action
  <2> QED
    BY <1>10, <2>1, <2>2, ThreadMoves DEF Purged
<1>11. CASE CleanEnds(p)
  BY <1>11, Moved, IdleKnown, ThreadMoves DEF CleanEnds
<1> QED
  BY <1>3, <1>4, <1>5, <1>6, <1>7, <1>8, <1>9, <1>10, <1>11

LEMMA CleanSettled ==
  ASSUME TypeInv, TypeInv', SettledInv, NEW p \in Proc, UnlinkMedia(p) \/ UnlinkSidecar(p) \/ MarkCleanup(p)
  PROVE  SettledInv'
<1> USE DEF disk, history
<1>1. /\ th[p] \in Thread /\ Ready(th[p]) /\ KnownTo(th[p]) /\ fresh \in Nat
      /\ th[p].name \in Name /\ th[p].name < fresh /\ Settled(th[p].name)
  BY DEF TypeInv, DiskTyped, ThreadsTyped, SettledInv, ThreadsInv, UnlinkMedia, UnlinkSidecar, MarkCleanup,
         Thread, Ready, KnownTo
<1>2. CASE UnlinkMedia(p)
  <2> DEFINE r == [th[p] EXCEPT !.pc = "meta"]
             k == [r EXCEPT !.kept = TRUE]
  <2>1. PICK s \in {r, k} : Become(p, s)
    BY <1>2 DEF UnlinkMedia, CleanMedia
  <2>2. th'[p] = s
    BY <2>1, Moved
  <2>3. media' = media \/ media' = [media EXCEPT ![th[p].name] = None]
    BY <1>2 DEF UnlinkMedia, CleanMedia
  <2>4. Onward /\ NamesInv' /\ SidecarsInv'
    BY <1>1, <1>2, <2>3 DEF UnlinkMedia, Onward, SettledInv, NamesInv, SidecarsInv, Settled, TypeInv, DiskTyped
  <2>5. \A n \in Name : Settled(n) => Settled(n)'
    BY <1>1, <1>2, <2>3 DEF UnlinkMedia, Settled, TypeInv, DiskTyped
  <2>6. media'[th[p].name] \in {None, media[th[p].name]}
    BY <1>1, <2>3 DEF TypeInv, DiskTyped
  <2>7. /\ s.name = th[p].name /\ s.todo = th[p].todo /\ s.got = th[p].got /\ s.op = th[p].op
        /\ s.hash = th[p].hash /\ s.pc = "meta"
    BY <1>1 DEF Thread
  <2> HIDE DEF r, k
  <2>8. KnownTo(th[p])'
    BY <1>1, <1>2, <2>2, <2>5, <2>6, <2>7 DEF UnlinkMedia, KnownTo, Thread
  <2> QED
    BY <2>1, <2>4, <2>8, OneMoves
<1>3. CASE UnlinkSidecar(p)
  <2>1. Become(p, AfterClean(p)) /\ th'[p] = AfterClean(p)
    BY <1>3, Moved DEF UnlinkSidecar
  <2>2. Onward /\ NamesInv' /\ SidecarsInv'
    BY <1>1, <1>3
       DEF UnlinkSidecar, CleanSidecar, Onward, SettledInv, NamesInv, SidecarsInv, Settled, TypeInv, DiskTyped
  <2>3. KnownTo(th[p])'
    <3>1. CASE AfterClean(p) = Idle
      BY <2>1, <3>1, IdleKnown
    <3>2. CASE AfterClean(p) \in {[th[p] EXCEPT !.pc = "mark"], [th[p] EXCEPT !.pc = "target"]}
      BY <1>1, <1>3, <2>1, <3>2 DEF UnlinkSidecar, KnownTo, Thread, Settled
    <3>3. CASE AfterClean(p) = [th[p] EXCEPT !.pc = "purge", !.name = None] /\ th[p].op = "clean"
      <4>1. \A n \in th[p].todo : Settled(n)
        BY <1>1, <1>3, <3>3 DEF KnownTo, UnlinkSidecar
      <4> QED
        BY <1>1, <1>3, <2>1, <3>3, <4>1 DEF UnlinkSidecar, KnownTo, Thread, Settled, Action
    <3> QED
      BY <3>1, <3>2, <3>3 DEF AfterClean
  <2> QED
    BY <2>1, <2>2, <2>3, OneMoves
<1>4. CASE MarkCleanup(p)
  <2> DEFINE r == IF th[p].op = "clean" THEN [th[p] EXCEPT !.pc = "purge", !.name = None, !.kept = FALSE] ELSE Idle
  <2>1. Become(p, r) /\ th'[p] = r
    BY <1>4, Moved DEF MarkCleanup
  <2>2. sidecar' = sidecar \/ sidecar' = [sidecar EXCEPT ![th[p].name] = Marked(p)]
    BY <1>4 DEF MarkCleanup
  <2>3. Onward /\ NamesInv' /\ SidecarsInv'
    <3>1. Onward /\ UNCHANGED <<media, fresh, vault, given>>
      BY <1>4 DEF MarkCleanup, Onward, TypeInv, DiskTyped
    <3>2. \A n \in Name : sidecar'[n] # sidecar[n] => n < fresh /\ Settled(n)
      BY <1>1, <2>2 DEF TypeInv, DiskTyped
    <3> QED
      BY <1>1, <3>1, <3>2, NamesCounted DEF SettledInv, NamesInv, SidecarsInv, Settled
  <2>4. KnownTo(th[p])'
    <3>1. CASE r = Idle
      BY <2>1, <3>1, IdleKnown
    <3>2. CASE r # Idle
      <4>1. th[p].op = "clean" /\ \A n \in th[p].todo : Settled(n)
        BY <1>1, <1>4, <3>2 DEF KnownTo, MarkCleanup
      <4> QED
        BY <1>1, <1>4, <2>1, <4>1 DEF MarkCleanup, KnownTo, Thread, Settled, Action
    <3> QED
      BY <3>1, <3>2
  <2> QED
    BY <2>1, <2>3, <2>4, OneMoves
<1> QED
  BY <1>2, <1>3, <1>4

LEMMA ActSettled ==
  ASSUME TypeInv, TypeInv', SettledInv, NEW p \in Proc,
         \/ \E n \in Name, action \in Action, target \in Hash \cup {None} : Act(p, n, action, target)
         \/ ActNote(p) \/ ActStore(p) \/ ActSource(p) \/ ActTarget(p)
  PROVE  SettledInv'
<1> USE DEF disk, history
<1>1. th[p] \in Thread /\ Ready(th[p]) /\ KnownTo(th[p]) /\ fresh \in Nat
  BY DEF TypeInv, DiskTyped, ThreadsTyped, SettledInv, ThreadsInv
<1>2. ASSUME NEW n \in Name, NEW action \in Action, NEW target \in Hash \cup {None}, Act(p, n, action, target)
      PROVE  SettledInv'
  <2> DEFINE state == IF sidecar[n] = None THEN "pending" ELSE sidecar[n].state
             r == [Idle EXCEPT !.op = action, !.pc = "note", !.name = n, !.hash = media[n],
                               !.state = state, !.target = target]
  <2>1. CASE UNCHANGED th
    BY <1>2, <2>1 DEF Act, SettledInv, ThreadsInv, NamesInv, SidecarsInv, KnownTo, Settled
  <2>2. CASE Become(p, r)
    <3>1. th'[p] = r
      BY <2>2, Moved
    <3>2. n < fresh
      <4>1. media[n] # None /\ n \in Nat
        BY <1>2, NamesCounted DEF Act
      <4> QED
        BY <1>1, <4>1 DEF SettledInv, NamesInv
    <3>3. state # "pending" => Settled(n)
      BY DEF SettledInv, SidecarsInv
    <3>4. /\ r.name = n /\ r.todo = {} /\ r.got = NoEntry /\ r.op = action /\ r.hash = media[n]
          /\ r.pc = "note" /\ r.state = state
      BY DEF Idle
    <3> HIDE DEF r, state
    <3>5. KnownTo(th[p])'
      BY <1>2, <3>1, <3>2, <3>3, <3>4 DEF Act, KnownTo, NoEntry, Settled, Action
    <3> QED
      BY <1>2, <2>2, <3>5, ThreadMoves DEF Act
  <2> QED
    BY <1>2, <2>1, <2>2 DEF Act
<1>3. CASE ActNote(p)
  <2> DEFINE n == th[p].name
             sc == [hash |-> th[p].hash, state |-> th[p].state]
  <2>1. /\ n \in Name /\ n < fresh /\ th[p].op \in Action /\ media[n] \in {None, th[p].hash} /\ th[p].hash # None
        /\ th[p].state # "pending" => Settled(n)
    BY <1>1, <1>3 DEF ActNote, Ready, KnownTo, Thread
  <2>2. sidecar' = [sidecar EXCEPT ![n] = sc] /\ UNCHANGED <<media, fresh, vault>> /\ given \subseteq given'
    BY <1>3 DEF ActNote
  <2>3. \A m \in Name : Settled(m) => Settled(m)'
    BY <2>2 DEF Settled
  <2>4. Onward /\ NamesInv'
    <3>1. \A m \in Name : sidecar'[m] # sidecar[m] => m < fresh
      BY <2>1, <2>2 DEF TypeInv, DiskTyped
    <3> QED
      BY <1>1, <2>2, <3>1, NamesCounted DEF Onward, SettledInv, NamesInv, TypeInv, DiskTyped
  <2>5. SidecarsInv'
    BY <2>1, <2>2, <2>3 DEF SettledInv, SidecarsInv, TypeInv, DiskTyped
  <2>6. CASE Become(p, Idle)
    BY <2>4, <2>5, <2>6, Moved, IdleKnown, OneMoves
  <2>7. CASE Become(p, [th[p] EXCEPT !.pc = IF th[p].op = "delete" THEN "unlink" ELSE "store"])
    <3> DEFINE r == [th[p] EXCEPT !.pc = IF th[p].op = "delete" THEN "unlink" ELSE "store"]
    <3>1. th'[p] = r
      BY <2>7, Moved
    <3>2. r.pc \in {"unlink", "store"} /\ (r.pc = "unlink" => media'[n] \in {None} \cup vault' \cup given')
      <4>1. r.pc = IF th[p].op = "delete" THEN "unlink" ELSE "store"
        BY <1>1 DEF Thread
      <4>2. th[p].op = "delete" => th[p].hash \in given'
        BY <1>3 DEF ActNote
      <4> QED
        BY <2>1, <2>2, <4>1, <4>2
    <3>3. r.name = n /\ r.todo = th[p].todo /\ r.got = th[p].got /\ r.op = th[p].op /\ r.hash = th[p].hash
      BY <1>1 DEF Thread
    <3> HIDE DEF r
    <3>4. KnownTo(th[p])'
      BY <1>1, <2>1, <2>2, <2>3, <3>1, <3>2, <3>3 DEF KnownTo, Settled, Action
    <3> QED
      BY <2>4, <2>5, <2>7, <3>4, OneMoves
  <2> QED
    BY <1>3, <2>6, <2>7 DEF ActNote
<1>4. CASE ActStore(p)
  <2>1. Onward /\ NamesInv' /\ SidecarsInv' /\ UNCHANGED <<media, fresh, given>>
    BY <1>4 DEF ActStore, Onward, SettledInv, NamesInv, SidecarsInv, Settled, TypeInv, DiskTyped
  <2>2. CASE Become(p, Idle)
    BY <2>1, <2>2, Moved, IdleKnown, OneMoves
  <2>3. CASE vault' = vault \cup {th[p].hash} /\ Become(p, [th[p] EXCEPT !.pc = "source"])
    <3> DEFINE r == [th[p] EXCEPT !.pc = "source"]
    <3>1. th'[p] = r /\ th[p].pc = "store" /\ th[p].op \in Action
      BY <1>1, <1>4, <2>3, Moved DEF ActStore, Ready
    <3>2. \A m \in Name : Settled(m) => Settled(m)'
      BY <2>1, <2>3 DEF Settled
    <3>3. /\ r.name = th[p].name /\ r.todo = th[p].todo /\ r.got = th[p].got /\ r.op = th[p].op
          /\ r.hash = th[p].hash /\ r.pc = "source" /\ r.name \in Name
      BY <1>1, <3>1 DEF Thread, Ready
    <3>4. media'[r.name] \in {None} \cup vault' \cup given'
      BY <1>1, <2>1, <2>3, <3>1, <3>3 DEF KnownTo
    <3> HIDE DEF r
    <3>5. KnownTo(th[p])'
      BY <1>1, <2>1, <3>1, <3>2, <3>3, <3>4 DEF KnownTo, Settled, Action
    <3> QED
      BY <2>1, <2>3, <3>1, <3>5, OneMoves
  <2> QED
    BY <1>4, <2>2, <2>3 DEF ActStore
<1>5. CASE ActSource(p)
  <2>1. th[p].name \in Name /\ th[p].name < fresh /\ Settled(th[p].name) /\ th[p].op \in Action
    BY <1>1, <1>5 DEF ActSource, Ready, KnownTo, Thread
  <2>2. media' = media \/ media' = [media EXCEPT ![th[p].name] = None]
    BY <1>5 DEF ActSource
  <2>3. PICK f \in {FALSE, th[p].op = "replace"} : Become(p, [th[p] EXCEPT !.pc = "unlink", !.failed = f])
    BY <1>5 DEF ActSource
  <2> DEFINE r == [th[p] EXCEPT !.pc = "unlink", !.failed = f]
  <2>4. th'[p] = r
    BY <2>3, Moved
  <2>5. Onward /\ NamesInv' /\ SidecarsInv'
    BY <1>1, <1>5, <2>1, <2>2 DEF ActSource, Onward, SettledInv, NamesInv, SidecarsInv, Settled, TypeInv, DiskTyped
  <2>6. \A m \in Name : Settled(m) => Settled(m)'
    BY <1>5, <2>2 DEF ActSource, Settled, TypeInv, DiskTyped
  <2>7. media'[th[p].name] \in {None, media[th[p].name]}
    BY <2>1, <2>2 DEF TypeInv, DiskTyped
  <2>8. /\ r.name = th[p].name /\ r.todo = th[p].todo /\ r.got = th[p].got /\ r.op = th[p].op
        /\ r.hash = th[p].hash /\ r.pc = "unlink"
    BY <1>1 DEF Thread
  <2> HIDE DEF r
  <2>9. KnownTo(th[p])'
    BY <1>1, <1>5, <2>1, <2>4, <2>6, <2>7, <2>8 DEF ActSource, KnownTo, Action
  <2> QED
    BY <2>3, <2>5, <2>9, OneMoves DEF r
<1>6. CASE ActTarget(p)
  <2>1. vault \cup given \subseteq vault' \cup given' /\ UNCHANGED <<media, sidecar, fresh>> /\ Become(p, Idle)
    BY <1>6 DEF ActTarget
  <2>2. Onward /\ NamesInv' /\ SidecarsInv'
    BY <2>1 DEF Onward, SettledInv, NamesInv, SidecarsInv, Settled, TypeInv, DiskTyped
  <2> QED
    BY <2>1, <2>2, Moved, IdleKnown, OneMoves
<1> QED
  BY <1>2, <1>3, <1>4, <1>5, <1>6

LEMMA SettledInit == Init => SettledInv
<1> SUFFICES ASSUME Init PROVE SettledInv
  OBVIOUS
<1>1. PICK s \in Starts : /\ media = s.media /\ sidecar = s.sidecar /\ vault = s.vault
                          /\ fresh = 1 + Cardinality({n \in Name : s.media[n] # None})
  BY DEF Init
<1>2. Cardinality({n \in Name : s.media[n] # None}) \in Nat
  BY NamesFinite
<1>3. NamesInv
  <2>1. \A n \in Name : s.media[n] # None <=> n <= Cardinality({m \in Name : s.media[m] # None})
    BY ReviewOK DEF ReviewOK
  <2>2. \A n \in Name : s.sidecar[n] # None => s.media[n] # None
    BY ReviewOK DEF ReviewOK
  <2>3. \A n \in Name : n >= fresh => ~ (n <= Cardinality({m \in Name : s.media[m] # None}))
    BY <1>1, <1>2, NamesCounted
  <2> QED
    BY <1>1, <2>1, <2>2, <2>3 DEF NamesInv
<1>4. SidecarsInv
  BY <1>1, ReviewOK DEF ReviewOK, SidecarsInv, Settled
<1>5. ThreadsInv
  BY NoneApart DEF Init, ThreadsInv, KnownTo, Idle, NoEntry, Action
<1> QED
  BY <1>3, <1>4, <1>5 DEF SettledInv

LEMMA SettledNext == TypeInv /\ TypeInv' /\ SettledInv /\ [Next]_vars => SettledInv'
<1> SUFFICES ASSUME TypeInv, TypeInv', SettledInv, [Next]_vars PROVE SettledInv'
  OBVIOUS
<1>1. ASSUME NEW p \in Proc, Step(p) \/ Call(p) PROVE SettledInv'
  BY <1>1, IngestSettled, ListSettled, CleanSettled, ActSettled DEF Step, Call
<1>2. CASE Crash
  BY <1>2, NoneApart DEF Crash, SettledInv, NamesInv, SidecarsInv, ThreadsInv, KnownTo, Settled, Idle, NoEntry,
                         Action, disk, history
<1>3. CASE UNCHANGED vars
  BY <1>3 DEF vars, disk, history, SettledInv, NamesInv, SidecarsInv, ThreadsInv, KnownTo, Settled
<1> QED
  BY <1>1, <1>2, <1>3 DEF Next

-----------------------------------------------------------------------------
(* A replacement that has stored its content and not yet removed its target: *)
(* there is always one content more than there are of these.                *)
Under == {p \in Proc : th[p].op = "replace" /\ th[p].pc \in {"source", "unlink", "meta", "target"}}
Room == Cardinality(Under) < Cardinality(vault)

LEMMA FewUnder == IsFiniteSet(Under) /\ Cardinality(Under) \in Nat
<1>1. Under \subseteq Proc
  BY DEF Under
<1> QED
  BY <1>1, BoundsKnown, FS_Subset, FS_CardinalityType

LEMMA FewStored == DiskTyped => IsFiniteSet(vault) /\ Cardinality(vault) \in Nat
BY BoundsKnown, FS_Subset, FS_CardinalityType DEF DiskTyped

LEMMA NotFewer == TypeInv /\ TypeInv' /\ Room /\ vault \subseteq vault' /\ Under' \subseteq Under => Room'
<1> SUFFICES ASSUME TypeInv, TypeInv', Room, vault \subseteq vault', Under' \subseteq Under PROVE Room'
  OBVIOUS
<1>1. IsFiniteSet(Under) /\ IsFiniteSet(vault') /\ Cardinality(Under) \in Nat /\ Cardinality(vault) \in Nat
  <2>1. IsFiniteSet(Hash) /\ vault' \subseteq Hash
    BY BoundsKnown DEF TypeInv, DiskTyped
  <2> QED
    BY <2>1, FewUnder, FewStored, FS_Subset DEF TypeInv
<1>2. Cardinality(vault) <= Cardinality(vault') /\ Cardinality(vault') \in Nat
  BY <1>1, FS_Subset, FS_CardinalityType
<1>3. Cardinality(Under') <= Cardinality(Under) /\ Cardinality(Under') \in Nat
  BY <1>1, FS_Subset, FS_CardinalityType
<1> QED
  BY <1>1, <1>2, <1>3 DEF Room

(* Steps of a thread that neither store for a replacement nor remove. *)
LEMMA NoNewUnder ==
  ASSUME TypeInv, NEW p \in Proc, NEW r, Become(p, r),
         r.op = "replace" /\ r.pc \in {"source", "unlink", "meta", "target"} => p \in Under
  PROVE  Under' \subseteq Under
BY DEF Become, Under, TypeInv, ThreadsTyped

LEMMA OneAtATime ==
  ASSUME TypeInv, NEW p \in Proc, Step(p) \/ Call(p), NEW q \in Proc, q # p
  PROVE  th'[q] = th[q]
<1>1. UNCHANGED th \/ \E r : Become(p, r)
  <2>1. CASE Call(p)
    BY <2>1 DEF Call, Ingest, ListStart, Act
  <2>2. CASE IngestStores(p) \/ IngestMoves(p) \/ IngestSidecar(p) \/ IngestUpsert(p)
    BY <2>2 DEF IngestStores, IngestMoves, IngestSidecar, IngestUpsert
  <2>3. CASE \E n \in Name : ListExamine(p, n) \/ ListPersist(p, n) \/ Purge(p, n) \/ PurgeOrphan(p, n)
    BY <2>3 DEF ListExamine, ListPersist, Purge, PurgeOrphan
  <2>4. CASE ListExamined(p) \/ ListReplace(p) \/ Purged(p) \/ CleanEnds(p)
    BY <2>4 DEF ListExamined, ListReplace, Purged, CleanEnds
  <2>5. CASE UnlinkMedia(p) \/ UnlinkSidecar(p) \/ MarkCleanup(p)
    BY <2>5 DEF UnlinkMedia, CleanMedia, UnlinkSidecar, MarkCleanup
  <2>6. CASE ActNote(p) \/ ActStore(p) \/ ActSource(p) \/ ActTarget(p)
    BY <2>6 DEF ActNote, ActStore, ActSource, ActTarget
  <2> QED
    BY <2>1, <2>2, <2>3, <2>4, <2>5, <2>6 DEF Step
<1> QED
  BY <1>1 DEF Become, TypeInv, ThreadsTyped

LEMMA Elsewhere ==
  ASSUME TypeInv, NEW p \in Proc, Step(p) \/ Call(p), ~ ActStore(p)
  PROVE  th'[p].op = "replace" /\ th'[p].pc \in {"source", "unlink", "meta", "target"} => p \in Under
<1> DEFINE Goal == th'[p].op = "replace" /\ th'[p].pc \in {"source", "unlink", "meta", "target"} => p \in Under
<1>1. th[p] \in Thread /\ Ready(th[p]) /\ \A r : Become(p, r) => th'[p] = r
  BY Moved DEF TypeInv, ThreadsTyped
<1>2. CASE th'[p] \in {Idle, th[p]}
  BY <1>2 DEF Idle, Under
<1>3. ASSUME NEW c \in Hash, Ingest(p, c) PROVE Goal
  BY <1>1, <1>2, <1>3 DEF Ingest, Idle
<1>4. ASSUME NEW op \in {"list", "clean"}, ListStart(p, op) PROVE Goal
  BY <1>1, <1>4 DEF ListStart, Idle
<1>5. ASSUME NEW n \in Name, NEW a \in Action, NEW t \in Hash \cup {None}, Act(p, n, a, t) PROVE Goal
  <2>1. UNCHANGED th \/ th'[p].pc = "note"
    BY <1>1, <1>5 DEF Act, Idle
  <2> QED
    BY <1>2, <2>1
<1>6. CASE IngestStores(p) \/ IngestMoves(p) \/ IngestSidecar(p) \/ IngestUpsert(p)
  <2>1. th'[p] = Idle \/ th'[p].pc \in {"sidecar", "upsert"}
    BY <1>1, <1>6 DEF IngestStores, IngestMoves, IngestSidecar, IngestUpsert, Thread
  <2> QED
    BY <1>2, <2>1
<1>7. ASSUME NEW n \in Name, ListExamine(p, n) \/ ListPersist(p, n) \/ Purge(p, n) \/ PurgeOrphan(p, n) PROVE Goal
  <2>1. th'[p] = Idle \/ th'[p].op = th[p].op
    BY <1>1, <1>7 DEF ListExamine, ListPersist, Purge, PurgeOrphan, Thread
  <2>2. th[p].op \in {"list", "clean"}
    BY <1>1, <1>7 DEF ListExamine, ListPersist, Purge, PurgeOrphan, Ready
  <2> QED
    BY <1>2, <2>1, <2>2
<1>8. CASE ListExamined(p) \/ ListReplace(p) \/ Purged(p) \/ CleanEnds(p)
  <2>1. th'[p] = Idle \/ th'[p].pc \in {"persist", "purge", "orphans"}
    BY <1>1, <1>8 DEF ListExamined, ListReplace, Purged, CleanEnds, Thread
  <2> QED
    BY <1>2, <2>1
<1>9. CASE UnlinkMedia(p)
  <2>1. th[p].pc = "unlink" /\ th'[p].op = th[p].op
    BY <1>1, <1>9 DEF UnlinkMedia, CleanMedia, Thread
  <2> QED
    BY <2>1 DEF Under
<1>10. CASE UnlinkSidecar(p)
  <2>1. th[p].pc = "meta" /\ (th'[p] = Idle \/ th'[p].op = th[p].op)
    BY <1>1, <1>10 DEF UnlinkSidecar, AfterClean, Thread
  <2> QED
    BY <1>2, <2>1 DEF Under
<1>11. CASE MarkCleanup(p)
  <2>1. th'[p] = Idle \/ th'[p].pc = "purge"
    BY <1>1, <1>11 DEF MarkCleanup, Thread
  <2> QED
    BY <1>2, <2>1
<1>12. CASE ActNote(p)
  <2>1. th'[p] = Idle \/ th'[p].pc = "store" \/ th'[p].op = "delete"
    BY <1>1, <1>12 DEF ActNote, Thread
  <2> QED
    BY <1>2, <2>1
<1>13. CASE ActSource(p)
  <2>1. th[p].pc = "source" /\ th'[p].op = th[p].op
    BY <1>1, <1>13 DEF ActSource, Thread
  <2> QED
    BY <2>1 DEF Under
<1>14. CASE ActTarget(p)
  BY <1>1, <1>2, <1>14 DEF ActTarget
<1> QED
  BY <1>3, <1>4, <1>5, <1>6, <1>7, <1>8, <1>9, <1>10, <1>11, <1>12, <1>13, <1>14 DEF Step, Call

LEMMA RoomNext == TypeInv /\ TypeInv' /\ Room /\ [Next]_vars => Room'
<1> SUFFICES ASSUME TypeInv, TypeInv', Room, [Next]_vars PROVE Room'
  OBVIOUS
<1> USE DEF disk, history
<1>1. ASSUME NEW p \in Proc, ActStore(p) PROVE Room'
  <2>1. th[p] \in Thread /\ th[p].pc = "store"
    BY <1>1 DEF ActStore, TypeInv, ThreadsTyped
  <2>2. CASE UNCHANGED vault /\ Become(p, Idle)
    <3>1. Under' \subseteq Under
      BY <2>2, NoNewUnder DEF Idle
    <3> QED
      BY <2>2, <3>1, NotFewer
  <2>3. CASE ~ Refuses(p) /\ vault' = vault \cup {th[p].hash} /\ Become(p, [th[p] EXCEPT !.pc = "source"])
    <3>1. Under' \subseteq Under \cup {p} /\ th[p].hash \notin vault
      BY <2>3, <2>1 DEF Under, Become, TypeInv, ThreadsTyped, Refuses
    <3>2. IsFiniteSet(Under \cup {p}) /\ Cardinality(Under \cup {p}) <= Cardinality(Under) + 1
          /\ Cardinality(Under \cup {p}) \in Nat
      <4>1. p \notin Under => Cardinality(Under \cup {p}) = Cardinality(Under) + 1
        BY FewUnder, FS_AddElement
      <4>2. p \in Under => Under \cup {p} = Under
        OBVIOUS
      <4> QED
        BY <4>1, <4>2, FewUnder, FS_AddElement
    <3>3. Cardinality(Under') <= Cardinality(Under) + 1 /\ Cardinality(Under') \in Nat
      <4>1. Cardinality(Under') <= Cardinality(Under \cup {p}) /\ Cardinality(Under') \in Nat
        BY <3>1, <3>2, FS_Subset, FS_CardinalityType
      <4> QED
        BY <4>1, <3>2, FewUnder
    <3>4. Cardinality(vault') = Cardinality(vault) + 1 /\ Cardinality(vault) \in Nat
      BY <2>3, <3>1, FewStored, FS_AddElement DEF TypeInv
    <3> QED
      BY <3>3, <3>4, FewUnder DEF Room
  <2> QED
    BY <1>1, <2>2, <2>3 DEF ActStore
<1>2. ASSUME NEW p \in Proc, ActTarget(p) PROVE Room'
  <2>1. th[p] \in Thread /\ Ready(th[p]) /\ th[p].pc = "target" /\ Become(p, Idle)
    BY <1>2 DEF ActTarget, TypeInv, ThreadsTyped
  <2>2. p \in Under /\ Under' \subseteq Under \ {p}
    <3>1. th[p].op = "replace" /\ th' = [th EXCEPT ![p] = Idle] /\ th \in [Proc -> Thread]
      BY <2>1 DEF Become, TypeInv, ThreadsTyped, Ready
    <3> QED
      BY <2>1, <3>1 DEF Under, Idle
  <2>3. IsFiniteSet(Under \ {p}) /\ Cardinality(Under \ {p}) = Cardinality(Under) - 1
    BY <2>2, FewUnder, FS_RemoveElement
  <2>4. Cardinality(Under') <= Cardinality(Under) - 1 /\ Cardinality(Under') \in Nat
    BY <2>2, <2>3, FS_Subset, FS_CardinalityType
  <2>5. Cardinality(vault') >= Cardinality(vault) - 1 /\ Cardinality(vault') \in Nat
    <3>1. IsFiniteSet(vault) /\ Cardinality(vault) \in Nat /\ vault' \in {vault, vault \ {th[p].target}}
      BY <1>2, FewStored DEF ActTarget, TypeInv
    <3>2. th[p].target \in vault => Cardinality(vault \ {th[p].target}) = Cardinality(vault) - 1
                                     /\ Cardinality(vault) - 1 \in Nat
      <4>1. IsFiniteSet(vault \ {th[p].target})
            /\ (th[p].target \in vault => Cardinality(vault \ {th[p].target}) = Cardinality(vault) - 1)
        BY <3>1, FS_RemoveElement
      <4>2. Cardinality(vault \ {th[p].target}) \in Nat
        BY <4>1, FS_CardinalityType
      <4> QED
        BY <4>1, <4>2
    <3>3. th[p].target \notin vault => vault \ {th[p].target} = vault
      OBVIOUS
    <3> QED
      BY <3>1, <3>2, <3>3
  <2> QED
    BY <2>4, <2>5, FewUnder, FewStored DEF Room, TypeInv
<1>3. ASSUME NEW p \in Proc, Step(p) \/ Call(p), ~ ActStore(p), ~ ActTarget(p) PROVE Room'
  <2>1. vault \subseteq vault'
    BY <1>3 DEF Step, Call, Ingest, IngestStores, IngestMoves, IngestSidecar, IngestUpsert, ListStart, ListExamine,
                ListExamined, ListPersist, ListReplace, UnlinkMedia, UnlinkSidecar, MarkCleanup, Purge, Purged,
                PurgeOrphan, CleanEnds, Act, ActNote, ActSource
  <2>2. th'[p].op = "replace" /\ th'[p].pc \in {"source", "unlink", "meta", "target"} => p \in Under
    BY <1>3, Elsewhere
  <2>3. \A q \in Proc : q # p => th'[q] = th[q]
    BY <1>3, OneAtATime
  <2> QED
    BY <2>1, <2>2, <2>3, NotFewer DEF Under
<1>4. CASE Crash
  <2>1. Under' = {} /\ vault' = vault
    BY <1>4 DEF Crash, Under, Idle
  <2> QED
    BY <2>1, NotFewer
<1>5. CASE UNCHANGED vars
  BY <1>5 DEF vars, Room, Under
<1> QED
  BY <1>1, <1>2, <1>3, <1>4, <1>5 DEF Next

LEMMA RoomInit == Init => Room
<1> SUFFICES ASSUME Init PROVE Room
  OBVIOUS
<1>1. Under = {}
  BY DEF Init, Under, Idle
<1>2. vault # {} /\ IsFiniteSet(vault) /\ Cardinality(vault) \in Nat
  <2>1. vault # {}
    BY ReviewOK DEF Init, ReviewOK
  <2> QED
    BY <2>1, TypeInit, FewStored DEF TypeInv
<1>3. Cardinality(vault) # 0 /\ Cardinality({}) = 0
  BY <1>2, FS_EmptySet
<1> QED
  BY <1>1, <1>2, <1>3 DEF Room

LEMMA RoomKeeps == TypeInv /\ Room => SimilarKept
<1> SUFFICES ASSUME TypeInv, Room, vault = {} PROVE FALSE
  BY DEF SimilarKept
<1> QED
  BY FewUnder, FS_EmptySet DEF Room

-----------------------------------------------------------------------------
LEMMA TypeHolds == Spec => []TypeInv
<1> QED
  BY TypeInit, TypeNext, PTL DEF Spec

LEMMA SettledHolds == Spec => []SettledInv
<1> QED
  BY TypeHolds, SettledInit, SettledNext, PTL DEF Spec

(* The directory, the vault and the cache keep their shapes; no name is given *)
(* out twice; and the counts and the hash index of the cache are those of its *)
(* entries after any sequence of upserts, removals, rebuilds and listings.    *)
THEOREM ReviewTypeCorrect == Spec => []ReviewTypeOK
<1>1. TypeInv /\ SettledInv => ReviewTypeOK
  BY DEF TypeInv, SettledInv, DiskTyped, CacheOK, Cache, Exact, Entries, NamesInv, ReviewTypeOK
<1> QED
  BY <1>1, TypeHolds, SettledHolds, PTL

(* Whatever listings, cleanups, actions and crashes come between, a file is *)
(* deleted only after its content was stored or given up.                   *)
THEOREM FilesLeaveSettled == Spec => NothingDropped
<1>1. ASSUME TypeInv, SettledInv, Next, NEW n \in Name, media[n] # None, media'[n] = None
      PROVE  media[n] \in vault \cup given
  <2> USE DEF disk, history
  <2>1. PICK p \in Proc : UnlinkMedia(p) \/ ActSource(p)
    <3>1. media' # media
      BY <1>1
    <3>2. PICK p \in Proc : Step(p) \/ Call(p)
      BY <1>1, <3>1 DEF Next, Crash
    <3>3. ~ IngestMoves(p)
      <4> SUFFICES ASSUME IngestMoves(p) PROVE FALSE
        OBVIOUS
      <4>1. th[p].hash # None
        BY <1>1 DEF IngestMoves, TypeInv, ThreadsTyped, Ready
      <4> QED
        BY <1>1, <4>1 DEF IngestMoves, TypeInv, DiskTyped
    <3> QED
      BY <3>1, <3>2, <3>3
         DEF Step, Call, Ingest, IngestStores, IngestSidecar, IngestUpsert, ListStart, ListExamine,
             ListExamined, ListPersist, ListReplace, UnlinkSidecar, MarkCleanup, Purge, Purged,
             PurgeOrphan, CleanEnds, Act, ActNote, ActStore, ActTarget
  <2>2. th[p] \in Thread /\ Ready(th[p]) /\ KnownTo(th[p])
    BY <1>1 DEF TypeInv, ThreadsTyped, SettledInv, ThreadsInv
  <2>3. th[p].name = n
    BY <1>1, <2>1 DEF UnlinkMedia, CleanMedia, ActSource, TypeInv, DiskTyped
  <2> QED
    BY <1>1, <2>1, <2>2, <2>3 DEF UnlinkMedia, ActSource, KnownTo, Settled
<1>2. TypeInv /\ SettledInv /\ [Next]_vars
        => [\A n \in Name : media[n] # None /\ media'[n] = None => media[n] \in vault \cup given]_vars
  BY <1>1
<1> QED
  BY <1>2, TypeHolds, SettledHolds, PTL DEF Spec, NothingDropped

(* However many replacements run together, and whichever of their targets and *)
(* sources they share, one of the similar contents stays stored.              *)
THEOREM OneSimilarStays == Spec => []SimilarKept
<1>1. Spec => []Room
  BY TypeHolds, RoomInit, RoomNext, PTL DEF Spec
<1> QED
  BY <1>1, TypeHolds, RoomKeeps, PTL

-----------------------------------------------------------------------------
(* What waits is found: a file nobody else's content is mistaken for keeps *)
(* its place in the hash index.                                            *)
Waits(h) == [hash |-> h, state |-> "pending"]
Has(e, h) == e # None /\ e.hash = h

(* The one file of its content, and not touched behind a listing's back. *)
Sole(n, h) == media[n] = h /\ n \notin late /\ h \notin twin

Apart(C, n, h) == ~ C.dirty => \A m \in Name \ {n} : ~ Has(C.entry[m], h)
Finds(C, n, h) == ~ C.dirty => C.index[h] = n

(* A thread that may yet write an entry of the content h for m. *)
Examines(t) == t.pc \in {"examine", "persist"}
Handles(t, m, h) ==
    \/ t.name = m /\ t.hash = h
    \/ Examines(t) /\ t.got[m] # None /\ t.got[m].entry.hash = h
Leaves(t, n, h) == \A m \in Name \ {n} : ~ Handles(t, m, h)

(* A listing that has yet to look at n, or has seen it wait. *)
Sees(t, sc, n, h) ==
    Examines(t) =>
        \/ t.pc = "examine" /\ n \in t.todo
        \/ /\ t.got[n] # None /\ t.got[n].entry.hash = h
           /\ sc = Waits(h) => t.got[n].entry = Waits(h)

Upserts(t, n) == t.pc = "upsert" /\ t.name = n
Told(n, h) ==
    sidecar[n] = Waits(h) /\ (\A q \in Proc : ~ Upserts(th[q], n)) => Finds(cache, n, h)

Kept(n, h) ==
    /\ \A m \in Name \ {n} : media[m] # h
    /\ Apart(cache, n, h)
    /\ \A q \in Proc : Leaves(th[q], n, h) /\ Sees(th[q], sidecar[n], n, h)
    /\ Told(n, h)

(* The hash a thread or a sidecar has of a file is the file's. *)
Knows(t) ==
    /\ t.hash # None /\ t.name # None => media[t.name] \in {None, t.hash}
    /\ \A n \in Name : t.got[n] # None => media[n] \in {None, t.got[n].entry.hash}
    /\ t.op = "clean" => t.hash = None
SidecarTrue == \A n \in Name : media[n] # None /\ sidecar[n] # None => sidecar[n].hash \in {None, media[n]}
HashesTrue == SidecarTrue /\ \A q \in Proc : Knows(th[q])

KeptInv == HashesTrue /\ \A n \in Name, h \in Hash : Sole(n, h) => Kept(n, h)

LEMMA WaitsIs == \A h \in Hash : Waits(h) \in Entry /\ Waits(h) # None /\ Waits(h).hash = h /\ Waits(h).state = "pending" /\ h # None
BY NoneApart DEF Waits, Entry

LEMMA WaitsOnly == \A e \in Entry, h \in Hash : e.hash = h /\ e.state = "pending" => e = Waits(h)
BY DEF Waits, Entry

(* What the operations of the cache mean for one file and its hash. *)
LEMMA WithoutApart ==
  ASSUME NEW C \in Cache, NEW m \in Name, NEW h \in Hash, ~ Has(C.entry[m], h)
  PROVE  Without(C.index, C.entry[m])[h] = C.index[h]
BY DEF Without, Has, Cache

LEMMA UpsertApart ==
  ASSUME NEW C, CacheOK(C), NEW m \in Name, NEW sc \in Sidecar, NEW n \in Name, NEW h \in Hash,
         Apart(C, n, h), m # n => sc.hash # h
  PROVE  /\ Apart(Upsert(C, m, sc), n, h)
         /\ m # n /\ Finds(C, n, h) => Finds(Upsert(C, m, sc), n, h)
         /\ m = n /\ sc = Waits(h) => Finds(Upsert(C, m, sc), n, h)
<1> DEFINE e == EntryOf(sc)
           E == [C.entry EXCEPT ![m] = e]
           W == Without(C.index, C.entry[m])
           I == IF e.state = "pending" /\ e.hash # None THEN [W EXCEPT ![e.hash] = m] ELSE W
           U == Upsert(C, m, sc)
<1>1. CASE C.dirty
  BY <1>1 DEF Upsert, Apart, Finds
<1>2. CASE ~ C.dirty
  <2>1. C \in Cache /\ Exact(C) /\ C.entry \in Entries
    BY <1>2 DEF CacheOK, Cache
  <2>2. U.dirty = FALSE /\ U.entry = E /\ U.index = I
    BY <1>2, <2>1 DEF Upsert, Cache
  <2>3. e \in Entry /\ e # None /\ sc # None
    BY EntryOfTyped, NoneApart
  <2>4. e.hash = sc.hash /\ (sc = Waits(h) => e = Waits(h))
    <3>1. e = [hash |-> sc.hash, state |-> IF sc.state = "pending" THEN "pending" ELSE "cleanup"]
      BY <2>3 DEF EntryOf
    <3> QED
      BY <3>1 DEF Waits
  <2>5. W \in [Hash -> Name \cup {None}]
    BY <2>1, WithoutOK
  <2>6. m # n => W[h] = C.index[h]
    BY <1>2, <2>1, WithoutApart DEF Apart
  <2> HIDE DEF e, W
  <2>7. Apart(U, n, h)
    <3>1. \A k \in Name \ {n} : ~ Has(E[k], h)
      BY <1>2, <2>1, <2>3, <2>4 DEF Apart, Has, Entries
    <3> QED
      BY <2>2, <3>1 DEF Apart
  <2>8. CASE m # n
    <3>1. I[h] = C.index[h]
      BY <2>4, <2>5, <2>6, <2>8
    <3> QED
      BY <1>2, <2>2, <2>7, <2>8, <3>1 DEF Finds
  <2>9. CASE m = n /\ sc = Waits(h)
    <3>1. I[h] = n
      BY <2>4, <2>5, <2>9, WaitsIs
    <3> QED
      BY <2>2, <2>7, <2>9, <3>1 DEF Finds
  <2> QED
    BY <2>7, <2>8, <2>9
<1> QED
  BY <1>1, <1>2

LEMMA RemovedApart ==
  ASSUME NEW C, CacheOK(C), NEW m \in Name, NEW n \in Name, NEW h \in Hash, Apart(C, n, h)
  PROVE  /\ Apart(Removed(C, m), n, h)
         /\ m # n /\ Finds(C, n, h) => Finds(Removed(C, m), n, h)
<1>1. CASE C.dirty
  BY <1>1 DEF Removed, Apart, Finds
<1>2. CASE ~ C.dirty
  <2>1. C \in Cache /\ C.entry \in Entries
    BY DEF CacheOK, Cache
  <2>2. /\ Removed(C, m).dirty = FALSE /\ Removed(C, m).entry = [C.entry EXCEPT ![m] = None]
        /\ Removed(C, m).index = Without(C.index, C.entry[m])
    BY <1>2, <2>1 DEF Removed, Cache
  <2>3. Apart(Removed(C, m), n, h)
    BY <1>2, <2>1, <2>2 DEF Apart, Has, Entries
  <2>4. m # n => Without(C.index, C.entry[m])[h] = C.index[h]
    BY <1>2, <2>1, WithoutApart DEF Apart
  <2> QED
    BY <1>2, <2>2, <2>3, <2>4 DEF Finds
<1> QED
  BY <1>1, <1>2

LEMMA CacheOfApart ==
  ASSUME NEW E \in Entries, NEW n \in Name, NEW h \in Hash, \A m \in Name \ {n} : ~ Has(E[m], h)
  PROVE  Apart(CacheOf(E), n, h) /\ (E[n] = Waits(h) => Finds(CacheOf(E), n, h))
<1> DEFINE S(g) == {m \in Listed(E, "pending") : E[m].hash = g}
<1>1. /\ CacheOf(E).dirty = FALSE /\ CacheOf(E).entry = E
      /\ CacheOf(E).index[h] = IF S(h) = {} THEN None ELSE Max(S(h))
  BY DEF CacheOf
<1>2. Apart(CacheOf(E), n, h)
  BY <1>1 DEF Apart
<1>3. ASSUME E[n] = Waits(h) PROVE Finds(CacheOf(E), n, h)
  <2>1. S(h) = {n}
    BY <1>3, WaitsIs DEF Listed, Has
  <2>2. Max(S(h)) \in S(h)
    BY <2>1, MaxOfNames
  <2> QED
    BY <1>1, <2>1, <2>2 DEF Finds
<1> QED
  BY <1>2, <1>3

-----------------------------------------------------------------------------
LEMMA IdleLeaves ==
  \A n \in Name : /\ \A h \in Hash : Leaves(Idle, n, h) /\ \A sc : Sees(Idle, sc, n, h)
                  /\ ~ Upserts(Idle, n)
BY NoneApart DEF Leaves, Handles, Idle, Examines, Sees, Upserts

(* A thread moves; what of n changes is told to the cache. *)
LEMMA KeptMoves ==
  ASSUME TypeInv, NEW p \in Proc, NEW r, Become(p, r), NEW n \in Name, NEW h \in Hash, Kept(n, h),
         \A m \in Name \ {n} : media'[m] # h,
         Apart(cache', n, h), Leaves(r, n, h), Sees(r, sidecar'[n], n, h),
         sidecar'[n] # Waits(h) \/ sidecar'[n] = sidecar[n] \/ Listing \ {p} = {},
         sidecar'[n] = Waits(h) /\ ~ Upserts(r, n) =>
            Finds(cache', n, h) \/ \E q \in Proc \ {p} : Upserts(th[q], n)
  PROVE  Kept(n, h)'
<1>1. th'[p] = r /\ \A q \in Proc \ {p} : th'[q] = th[q]
  BY DEF Become, TypeInv, ThreadsTyped
<1>2. ASSUME NEW q \in Proc PROVE Leaves(th[q], n, h)' /\ Sees(th[q], sidecar[n], n, h)'
  <2>1. CASE q = p
    BY <1>1, <2>1 DEF Leaves, Handles, Examines, Sees
  <2>2. CASE q # p
    <3>1. th'[q] = th[q] /\ Leaves(th[q], n, h) /\ Sees(th[q], sidecar[n], n, h)
      BY <1>1, <2>2 DEF Kept
    <3>2. Examines(th[q]) => q \in Listing
      BY DEF Examines, Listing, TypeInv, ThreadsTyped, Ready
    <3>3. sidecar'[n] = Waits(h) /\ Examines(th[q]) => sidecar[n] = Waits(h)
      BY <2>2, <3>2
    <3> QED
      BY <3>1, <3>3 DEF Leaves, Handles, Examines, Sees
  <2> QED
    BY <2>1, <2>2
<1>3. Told(n, h)'
  <2> SUFFICES ASSUME sidecar'[n] = Waits(h), \A q \in Proc : ~ Upserts(th'[q], n)
               PROVE  Finds(cache', n, h)
    BY DEF Told, Finds, Upserts
  <2> QED
    BY <1>1
<1> QED
  BY <1>2, <1>3 DEF Kept, Apart

(* A thread moves and leaves the files and the cache alone. *)
LEMMA KeptQuietly ==
  ASSUME TypeInv, NEW p \in Proc, NEW r, Become(p, r), NEW n \in Name, NEW h \in Hash, Kept(n, h),
         UNCHANGED <<media, sidecar, cache>>, Leaves(r, n, h), Sees(r, sidecar[n], n, h),
         Upserts(th[p], n) => Upserts(r, n)
  PROVE  Kept(n, h)'
<1>1. \A m \in Name \ {n} : media'[m] # h
  BY DEF Kept
<1>2. Apart(cache', n, h)
  BY DEF Kept
<1>3. sidecar[n] = Waits(h) /\ ~ Upserts(r, n) =>
        Finds(cache', n, h) \/ \E q \in Proc \ {p} : Upserts(th[q], n)
  BY DEF Kept, Told
<1> QED
  BY <1>1, <1>2, <1>3, KeptMoves

(* Files come from nowhere but the ingest. *)
LEMMA StaysSole ==
  ASSUME NEW n \in Name, NEW h \in Hash, Sole(n, h)', late \subseteq late', twin \subseteq twin',
         media'[n] = media[n]
  PROVE  Sole(n, h)
BY DEF Sole

-----------------------------------------------------------------------------
(* A file that has a name keeps its content until it goes. *)
Drains == \A n \in Name : n < fresh => media'[n] \in {None, media[n]}

LEMMA StepsDrain == ASSUME TypeInv, NEW p \in Proc, Step(p) \/ Call(p) PROVE Drains
<1> USE DEF disk, history
<1>1. CASE UnlinkMedia(p) \/ ActSource(p)
  <2>1. \E n \in Name : media' \in {media, [media EXCEPT ![n] = None]}
    BY <1>1 DEF UnlinkMedia, CleanMedia, ActSource, TypeInv, ThreadsTyped, Ready, Thread
  <2> QED
    BY <2>1 DEF Drains, TypeInv, DiskTyped
<1>2. CASE IngestMoves(p)
  BY <1>2, NamesCounted DEF IngestMoves, Drains, TypeInv, DiskTyped
<1>3. CASE media' = media
  BY <1>3 DEF Drains
<1>4. CASE ~ (UnlinkMedia(p) \/ ActSource(p) \/ IngestMoves(p))
  <2>1. media' = media
    BY <1>4
       DEF Step, Call, Ingest, IngestStores, IngestSidecar, IngestUpsert, ListStart, ListExamine,
           ListExamined, ListPersist, ListReplace, UnlinkSidecar, MarkCleanup, Purge, Purged,
           PurgeOrphan, CleanEnds, Act, ActNote, ActStore, ActTarget
  <2> QED
    BY <2>1, <1>3
<1> QED
  BY <1>1, <1>2, <1>4

LEMMA HashesMove ==
  ASSUME TypeInv, SettledInv, HashesTrue, Drains, NEW p \in Proc, NEW r, Become(p, r),
         Knows(th[p])', SidecarTrue'
  PROVE  HashesTrue'
<1>1. \A q \in Proc \ {p} : th'[q] = th[q]
  BY DEF Become, TypeInv, ThreadsTyped
<1>2. ASSUME NEW q \in Proc \ {p} PROVE Knows(th[q])'
  <2>1. Knows(th[q]) /\ KnownTo(th[q]) /\ th'[q] = th[q] /\ th[q] \in Thread
    BY <1>1 DEF HashesTrue, SettledInv, ThreadsInv, TypeInv, ThreadsTyped
  <2>2. th[q].name # None => th[q].name \in Name /\ th[q].name < fresh
    BY <2>1 DEF KnownTo, Thread
  <2>3. \A n \in Name : th[q].got[n] # None => n < fresh
    BY <2>1 DEF KnownTo
  <2> QED
    BY <2>1, <2>2, <2>3 DEF Knows, Drains
<1> QED
  BY <1>2 DEF HashesTrue

LEMMA SameKnown ==
  ASSUME TypeInv, SettledInv, HashesTrue, Drains, NEW p \in Proc, th'[p].name \in {None, th[p].name},
         th'[p].hash = th[p].hash, th'[p].got = th[p].got, th'[p].op = th[p].op
  PROVE  Knows(th[p])'
<1>1. Knows(th[p]) /\ KnownTo(th[p]) /\ th[p] \in Thread
  BY DEF HashesTrue, SettledInv, ThreadsInv, TypeInv, ThreadsTyped
<1>2. th[p].name # None => th[p].name \in Name /\ th[p].name < fresh
  BY <1>1 DEF KnownTo, Thread
<1>3. \A n \in Name : th[p].got[n] # None => n < fresh
  BY <1>1 DEF KnownTo
<1> QED
  BY <1>1, <1>2, <1>3 DEF Knows, Drains

LEMMA FreshKnown ==
  ASSUME NEW p \in Proc, th'[p].got = NoEntry, th'[p].op # "clean" \/ th'[p].hash = None,
         th'[p].name # None => media'[th'[p].name] \in {None, th'[p].hash}
  PROVE  Knows(th[p])'
BY DEF Knows, NoEntry

LEMMA IdleTrue == ASSUME NEW p \in Proc, th'[p] = Idle PROVE Knows(th[p])'
BY FreshKnown DEF Idle

LEMMA SidecarKept == TypeInv /\ SettledInv /\ HashesTrue /\ Drains /\ UNCHANGED sidecar => SidecarTrue'
BY DEF HashesTrue, SidecarTrue, Drains, SettledInv, NamesInv, TypeInv, DiskTyped, Name

LEMMA SidecarWritten ==
  ASSUME TypeInv, SettledInv, HashesTrue, Drains, NEW n \in Name, NEW sc,
         sidecar' = [sidecar EXCEPT ![n] = sc],
         media'[n] # None => sc = None \/ sc.hash \in {None, media'[n]}
  PROVE  SidecarTrue'
BY DEF HashesTrue, SidecarTrue, Drains, SettledInv, NamesInv, TypeInv, DiskTyped, Name

LEMMA IngestTrue ==
  ASSUME TypeInv, SettledInv, HashesTrue, Drains, NEW p \in Proc,
         (\E c \in Hash : Ingest(p, c)) \/ IngestStores(p) \/ IngestMoves(p) \/ IngestSidecar(p) \/ IngestUpsert(p)
  PROVE  HashesTrue'
<1> USE DEF disk, history
<1>1. th[p] \in Thread /\ Ready(th[p]) /\ KnownTo(th[p]) /\ Knows(th[p]) /\ fresh \in Nat
  BY DEF TypeInv, DiskTyped, ThreadsTyped, SettledInv, ThreadsInv, HashesTrue
<1>2. ASSUME NEW c \in Hash, Ingest(p, c) PROVE HashesTrue'
  <2> DEFINE r == [Idle EXCEPT !.op = "ingest", !.pc = "similar", !.hash = c]
  <2>1. CASE Become(p, r)
    <3>1. th'[p] = r
      BY <2>1, Moved
    <3>2. Knows(th[p])'
      BY <3>1, FreshKnown DEF Idle
    <3> QED
      BY <1>2, <2>1, <3>2, SidecarKept, HashesMove DEF Ingest
  <2>2. CASE UNCHANGED th
    BY <1>2, <2>2 DEF Ingest, HashesTrue, SidecarTrue, Knows
  <2> QED
    BY <1>2, <2>1, <2>2 DEF Ingest
<1>3. CASE IngestStores(p)
  BY <1>3, Moved, IdleTrue, SidecarKept, HashesMove DEF IngestStores
<1>4. CASE IngestMoves(p)
  <2> DEFINE r == [th[p] EXCEPT !.pc = "sidecar", !.name = fresh]
  <2>1. fresh \in Name /\ Become(p, r) /\ th'[p] = r
    BY <1>1, <1>4, Moved DEF IngestMoves, TypeInv, DiskTyped, Name
  <2>2. r.name = fresh /\ r.hash = th[p].hash /\ r.got = th[p].got /\ r.op = th[p].op
    BY <1>1 DEF Thread
  <2>3. media'[fresh] = th[p].hash
    BY <1>4, <2>1 DEF IngestMoves, TypeInv, DiskTyped
  <2> HIDE DEF r
  <2>4. \A n \in Name : th[p].got[n] # None => n < fresh
    BY <1>1 DEF KnownTo
  <2>5. Knows(th[p])'
    BY <1>1, <2>1, <2>2, <2>3, <2>4 DEF Knows, Drains
  <2> QED
    BY <1>4, <2>1, <2>5, SidecarKept, HashesMove DEF IngestMoves
<1>5. CASE IngestSidecar(p)
  <2> DEFINE r == [th[p] EXCEPT !.pc = "upsert"]
             sc == [hash |-> th[p].hash, state |-> "pending"]
  <2>1. th[p].name \in Name /\ Become(p, r) /\ th'[p] = r /\ media'[th[p].name] \in {None, th[p].hash}
    BY <1>1, <1>5, Moved DEF IngestSidecar, Ready, Thread, Knows
  <2>2. r.name = th[p].name /\ r.hash = th[p].hash /\ r.got = th[p].got /\ r.op = th[p].op
    BY <1>1 DEF Thread
  <2>3. sidecar' = [sidecar EXCEPT ![th[p].name] = sc] /\ sc.hash = th[p].hash
    BY <1>5 DEF IngestSidecar
  <2> HIDE DEF r, sc
  <2> QED
    BY <2>1, <2>2, <2>3, SidecarWritten, SameKnown, HashesMove
<1>6. CASE IngestUpsert(p)
  BY <1>6, Moved, IdleTrue, SidecarKept, HashesMove DEF IngestUpsert
<1> QED
  BY <1>2, <1>3, <1>4, <1>5, <1>6

LEMMA CleanSidecarTrue ==
  ASSUME TypeInv, SettledInv, HashesTrue, Drains, NEW n \in Name, CleanSidecar(n)
  PROVE  SidecarTrue'
BY SidecarWritten, SidecarKept DEF CleanSidecar

LEMMA ListTrue ==
  ASSUME TypeInv, SettledInv, HashesTrue, Drains, NEW p \in Proc,
         \/ \E op \in {"list", "clean"} : ListStart(p, op)
         \/ \E n \in Name : ListExamine(p, n) \/ ListPersist(p, n) \/ Purge(p, n) \/ PurgeOrphan(p, n)
         \/ ListExamined(p) \/ ListReplace(p) \/ Purged(p) \/ CleanEnds(p)
  PROVE  HashesTrue'
<1> USE DEF disk, history
<1>1. th[p] \in Thread /\ Ready(th[p]) /\ KnownTo(th[p]) /\ Knows(th[p]) /\ fresh \in Nat
  BY DEF TypeInv, DiskTyped, ThreadsTyped, SettledInv, ThreadsInv, HashesTrue
<1>2. ASSUME NEW op \in {"list", "clean"}, ListStart(p, op) PROVE HashesTrue'
  <2> DEFINE r == [Idle EXCEPT !.op = op, !.pc = "examine", !.todo = {n \in Name : media[n] # None}]
  <2>1. Become(p, r) /\ th'[p] = r
    BY <1>2, Moved DEF ListStart
  <2>2. Knows(th[p])'
    BY <2>1, FreshKnown DEF Idle
  <2> QED
    BY <1>2, <2>1, <2>2, SidecarKept, HashesMove DEF ListStart
<1>3. ASSUME NEW n \in Name, ListExamine(p, n) PROVE HashesTrue'
  <2> DEFINE g == [entry |-> Examined(n), changed |-> Incomplete(n)]
             r == [th[p] EXCEPT !.todo = @ \ {n}, !.got[n] = g]
  <2>1. CASE media[n] = None
    BY <1>3, <2>1, Moved, IdleTrue, SidecarKept, HashesMove DEF ListExamine
  <2>2. CASE media[n] # None
    <3>1. Become(p, r) /\ th'[p] = r
      BY <1>3, <2>2, Moved DEF ListExamine
    <3>2. EntryOf(sidecar[n]) \in Entry
      BY EntryOfTyped DEF TypeInv, DiskTyped
    <3>3. g.entry.hash = media[n]
      BY <3>2 DEF Examined, Entry
    <3>4. r.got = [th[p].got EXCEPT ![n] = g] /\ r.name = th[p].name /\ r.hash = th[p].hash /\ r.op = th[p].op
      BY <1>1 DEF Thread
    <3>5. th[p].got \in [Name -> Got \cup {None}]
      BY <1>1 DEF Thread
    <3> HIDE DEF r, g
    <3>6. Knows(th[p])'
      BY <1>1, <1>3, <3>1, <3>3, <3>4, <3>5 DEF ListExamine, Knows
    <3> QED
      BY <1>3, <3>1, <3>6, SidecarKept, HashesMove DEF ListExamine
  <2> QED
    BY <2>1, <2>2
<1>4. ASSUME NEW n \in Name, ListPersist(p, n) PROVE HashesTrue'
  <2> DEFINE r == [th[p] EXCEPT !.todo = @ \ {n}]
  <2>1. Become(p, r) /\ th'[p] = r
    BY <1>4, Moved DEF ListPersist
  <2>2. th[p].got[n] # None /\ Found(p)[n] = th[p].got[n].entry
    BY <1>1, <1>4 DEF ListPersist, Ready, Found
  <2>3. Knows(th[p])'
    BY <1>1, <2>1, SameKnown DEF Thread
  <2>4. SidecarTrue'
    <3>1. media'[n] \in {None, Found(p)[n].hash}
      BY <1>1, <1>4, <2>2 DEF ListPersist, Knows
    <3>2. sidecar' = [sidecar EXCEPT ![n] = Found(p)[n]] \/ UNCHANGED sidecar
      BY <1>4 DEF ListPersist
    <3> QED
      BY <3>1, <3>2, SidecarWritten, SidecarKept
  <2> QED
    BY <2>1, <2>3, <2>4, HashesMove
<1>5. ASSUME NEW n \in Name, Purge(p, n) PROVE HashesTrue'
  <2> DEFINE r == [th[p] EXCEPT !.pc = "unlink", !.name = n, !.todo = @ \ {n}]
  <2>1. Become(p, r) /\ th'[p] = r
    BY <1>5, Moved DEF Purge
  <2>2. th[p].op = "clean" /\ r.op = "clean" /\ r.hash = None /\ r.got = th[p].got
    BY <1>1, <1>5 DEF Purge, Ready, Thread, Knows
  <2> HIDE DEF r
  <2>3. Knows(th[p])'
    BY <1>1, <1>5, <2>1, <2>2 DEF Purge, Knows
  <2> QED
    BY <1>5, <2>1, <2>3, SidecarKept, HashesMove DEF Purge
<1>6. ASSUME NEW n \in Name, PurgeOrphan(p, n) PROVE HashesTrue'
  <2> DEFINE r == [th[p] EXCEPT !.todo = @ \ {n}]
  <2>1. Become(p, r) /\ th'[p] = r
    BY <1>6, Moved DEF PurgeOrphan
  <2>2. Knows(th[p])'
    BY <1>1, <2>1, SameKnown DEF Thread
  <2>3. SidecarTrue'
    BY <1>6, CleanSidecarTrue, SidecarKept DEF PurgeOrphan
  <2> QED
    BY <2>1, <2>2, <2>3, HashesMove
<1>7. CASE ListExamined(p)
  <2> DEFINE r == [th[p] EXCEPT !.pc = "persist", !.todo = {n \in Name : th[p].got[n] # None /\ th[p].got[n].changed}]
  <2>1. Become(p, r) /\ th'[p] = r
    BY <1>7, Moved DEF ListExamined
  <2>2. Knows(th[p])'
    BY <1>1, <2>1, SameKnown DEF Thread
  <2> QED
    BY <1>7, <2>1, <2>2, SidecarKept, HashesMove DEF ListExamined
<1>8. CASE ListReplace(p)
  <2> DEFINE r == [th[p] EXCEPT !.pc = "purge", !.todo = Listed(Found(p), "cleanup")]
  <2>1. CASE Become(p, Idle)
    BY <1>8, <2>1, Moved, IdleTrue, SidecarKept, HashesMove DEF ListReplace
  <2>2. CASE Become(p, r)
    <3>1. th'[p] = r
      BY <2>2, Moved
    <3>2. Knows(th[p])'
      BY <1>1, <3>1, SameKnown DEF Thread
    <3> QED
      BY <1>8, <2>2, <3>2, SidecarKept, HashesMove DEF ListReplace
  <2> QED
    BY <1>8, <2>1, <2>2 DEF ListReplace
<1>9. CASE Purged(p)
  <2> DEFINE r == [th[p] EXCEPT !.pc = "orphans",
                     !.todo = {n \in Name : sidecar[n] # None} \ Listed(Found(p), "cleanup")]
  <2>1. Become(p, r) /\ th'[p] = r
    BY <1>9, Moved DEF Purged
  <2>2. Knows(th[p])'
    BY <1>1, <2>1, SameKnown DEF Thread
  <2> QED
    BY <1>9, <2>1, <2>2, SidecarKept, HashesMove DEF Purged
<1>10. CASE CleanEnds(p)
  BY <1>10, Moved, IdleTrue, SidecarKept, HashesMove DEF CleanEnds
<1> QED
  BY <1>2, <1>3, <1>4, <1>5, <1>6, <1>7, <1>8, <1>9, <1>10

LEMMA CleanTrue ==
  ASSUME TypeInv, SettledInv, HashesTrue, Drains, NEW p \in Proc, UnlinkMedia(p) \/ UnlinkSidecar(p) \/ MarkCleanup(p)
  PROVE  HashesTrue'
<1> USE DEF disk, history
<1>1. /\ th[p] \in Thread /\ Ready(th[p]) /\ Knows(th[p]) /\ th[p].name \in Name
      /\ th[p].op \in {"delete", "variant", "replace", "clean"}
  BY DEF TypeInv, DiskTyped, ThreadsTyped, HashesTrue, UnlinkMedia, UnlinkSidecar, MarkCleanup, Thread, Ready, Action
<1>2. CASE UnlinkMedia(p)
  <2> DEFINE r == [th[p] EXCEPT !.pc = "meta"]
             k == [r EXCEPT !.kept = TRUE]
  <2>1. PICK s \in {r, k} : Become(p, s)
    BY <1>2 DEF UnlinkMedia, CleanMedia
  <2>2. th'[p] = s
    BY <2>1, Moved
  <2>3. Knows(th[p])'
    BY <1>1, <2>2, SameKnown DEF Thread
  <2> QED
    BY <1>2, <2>1, <2>3, SidecarKept, HashesMove DEF UnlinkMedia
<1>3. CASE UnlinkSidecar(p)
  <2>1. Become(p, AfterClean(p)) /\ th'[p] = AfterClean(p)
    BY <1>3, Moved DEF UnlinkSidecar
  <2>2. Knows(th[p])'
    <3>1. CASE AfterClean(p) = Idle
      BY <2>1, <3>1, IdleTrue
    <3>2. CASE AfterClean(p) # Idle
      <4>1. /\ AfterClean(p).name \in {None, th[p].name} /\ AfterClean(p).hash = th[p].hash
            /\ AfterClean(p).got = th[p].got /\ AfterClean(p).op = th[p].op
        BY <1>1, <3>2 DEF AfterClean, Thread
      <4> QED
        BY <2>1, <4>1, SameKnown
    <3> QED
      BY <3>1, <3>2
  <2>3. SidecarTrue'
    BY <1>1, <1>3, CleanSidecarTrue DEF UnlinkSidecar
  <2> QED
    BY <2>1, <2>2, <2>3, HashesMove
<1>4. CASE MarkCleanup(p)
  <2> DEFINE r == IF th[p].op = "clean" THEN [th[p] EXCEPT !.pc = "purge", !.name = None, !.kept = FALSE] ELSE Idle
  <2>1. Become(p, r) /\ th'[p] = r
    BY <1>4, Moved DEF MarkCleanup
  <2>2. Knows(th[p])'
    BY <1>1, <2>1, IdleTrue, SameKnown DEF Thread
  <2>3. SidecarTrue'
    <3>1. CASE sidecar' = [sidecar EXCEPT ![th[p].name] = Marked(p)]
      <4>1. media'[th[p].name] # None => Marked(p).hash \in {None, media'[th[p].name]}
        <5>1. Marked(p).hash = IF th[p].op \in {"variant", "replace"} THEN th[p].hash
                               ELSE IF sidecar[th[p].name] = None THEN None ELSE sidecar[th[p].name].hash
          BY DEF Marked
        <5>2. \/ sidecar[th[p].name].hash \in {None, media[th[p].name]}
              \/ media[th[p].name] = None \/ sidecar[th[p].name] = None
          BY <1>1, <1>4 DEF MarkCleanup, HashesTrue, SidecarTrue
        <5>3. media' = media /\ (th[p].hash # None => media[th[p].name] \in {None, th[p].hash})
          BY <1>1, <1>4, NoneApart DEF MarkCleanup, Knows
        <5> QED
          BY <5>1, <5>2, <5>3
      <4> QED
        BY <1>1, <3>1, <4>1, SidecarWritten
    <3> QED
      BY <1>4, <3>1, SidecarKept DEF MarkCleanup
  <2> QED
    BY <2>1, <2>2, <2>3, HashesMove
<1> QED
  BY <1>2, <1>3, <1>4

LEMMA ActTrue ==
  ASSUME TypeInv, SettledInv, HashesTrue, Drains, NEW p \in Proc,
         \/ \E n \in Name, action \in Action, target \in Hash \cup {None} : Act(p, n, action, target)
         \/ ActNote(p) \/ ActStore(p) \/ ActSource(p) \/ ActTarget(p)
  PROVE  HashesTrue'
<1> USE DEF disk, history
<1>1. th[p] \in Thread /\ Ready(th[p]) /\ Knows(th[p])
  BY DEF TypeInv, DiskTyped, ThreadsTyped, HashesTrue
<1>2. ASSUME NEW n \in Name, NEW action \in Action, NEW target \in Hash \cup {None}, Act(p, n, action, target)
      PROVE  HashesTrue'
  <2> DEFINE state == IF sidecar[n] = None THEN "pending" ELSE sidecar[n].state
             r == [Idle EXCEPT !.op = action, !.pc = "note", !.name = n, !.hash = media[n],
                               !.state = state, !.target = target]
  <2>1. CASE UNCHANGED th
    BY <1>2, <2>1 DEF Act, HashesTrue, SidecarTrue, Knows
  <2>2. CASE Become(p, r)
    <3>1. th'[p] = r
      BY <2>2, Moved
    <3>2. r.got = NoEntry /\ r.op # "clean" /\ r.name = n /\ r.hash = media[n]
      BY DEF Idle, Action
    <3> HIDE DEF r
    <3>3. Knows(th[p])'
      BY <1>2, <3>1, <3>2, FreshKnown DEF Act
    <3> QED
      BY <1>2, <2>2, <3>3, SidecarKept, HashesMove DEF Act
  <2> QED
    BY <1>2, <2>1, <2>2 DEF Act
<1>3. CASE ActNote(p)
  <2> DEFINE r == [th[p] EXCEPT !.pc = IF th[p].op = "delete" THEN "unlink" ELSE "store"]
             sc == [hash |-> th[p].hash, state |-> th[p].state]
  <2>1. th[p].name \in Name /\ media'[th[p].name] \in {None, th[p].hash}
    BY <1>1, <1>3 DEF ActNote, Ready, Thread, Knows
  <2>2. SidecarTrue'
    <3>1. sidecar' = [sidecar EXCEPT ![th[p].name] = sc] /\ sc.hash = th[p].hash
      BY <1>3 DEF ActNote
    <3> HIDE DEF sc
    <3> QED
      BY <2>1, <3>1, SidecarWritten
  <2>3. CASE Become(p, Idle)
    BY <2>2, <2>3, Moved, IdleTrue, HashesMove
  <2>4. CASE Become(p, r)
    <3>1. th'[p] = r
      BY <2>4, Moved
    <3>2. r.name = th[p].name /\ r.hash = th[p].hash /\ r.got = th[p].got /\ r.op = th[p].op
      BY <1>1 DEF Thread
    <3> HIDE DEF r
    <3>3. Knows(th[p])'
      BY <3>1, <3>2, SameKnown
    <3> QED
      BY <2>2, <2>4, <3>3, HashesMove
  <2> QED
    BY <1>3, <2>3, <2>4 DEF ActNote
<1>4. CASE ActStore(p)
  <2> DEFINE r == [th[p] EXCEPT !.pc = "source"]
  <2>1. CASE Become(p, Idle)
    BY <1>4, <2>1, Moved, IdleTrue, SidecarKept, HashesMove DEF ActStore
  <2>2. CASE Become(p, r)
    <3>1. th'[p] = r
      BY <2>2, Moved
    <3>2. Knows(th[p])'
      BY <1>1, <3>1, SameKnown DEF Thread
    <3> QED
      BY <1>4, <2>2, <3>2, SidecarKept, HashesMove DEF ActStore
  <2> QED
    BY <1>4, <2>1, <2>2 DEF ActStore
<1>5. CASE ActSource(p)
  <2>1. PICK failed \in BOOLEAN : Become(p, [th[p] EXCEPT !.pc = "unlink", !.failed = failed])
    BY <1>5 DEF ActSource
  <2>2. th'[p] = [th[p] EXCEPT !.pc = "unlink", !.failed = failed]
    BY <2>1, Moved
  <2>3. Knows(th[p])'
    BY <1>1, <2>2, SameKnown DEF Thread
  <2> QED
    BY <1>5, <2>1, <2>3, SidecarKept, HashesMove DEF ActSource
<1>6. CASE ActTarget(p)
  BY <1>6, Moved, IdleTrue, SidecarKept, HashesMove DEF ActTarget
<1> QED
  BY <1>2, <1>3, <1>4, <1>5, <1>6

LEMMA HashesNext == TypeInv /\ SettledInv /\ HashesTrue /\ [Next]_vars => HashesTrue'
<1> SUFFICES ASSUME TypeInv, SettledInv, HashesTrue, [Next]_vars PROVE HashesTrue'
  OBVIOUS
<1>1. ASSUME NEW p \in Proc, Step(p) \/ Call(p) PROVE HashesTrue'
  BY <1>1, StepsDrain, IngestTrue, ListTrue, CleanTrue, ActTrue DEF Step, Call
<1>2. CASE Crash
  <2>1. \A p \in Proc : Knows(th[p])'
    BY <1>2, IdleTrue DEF Crash
  <2>2. SidecarTrue'
    BY <1>2 DEF Crash, disk, HashesTrue, SidecarTrue
  <2> QED
    BY <2>1, <2>2 DEF HashesTrue
<1>3. CASE UNCHANGED vars
  BY <1>3 DEF vars, disk, HashesTrue, SidecarTrue, Knows
<1> QED
  BY <1>1, <1>2, <1>3 DEF Next

-----------------------------------------------------------------------------
(* What a step leaves of one file that waits. *)
LEMMA IngestKeeps ==
  ASSUME TypeInv, SettledInv, KeptInv, NEW p \in Proc, NEW n \in Name, NEW h \in Hash, Sole(n, h)',
         (\E c \in Hash : Ingest(p, c)) \/ IngestStores(p) \/ IngestSidecar(p) \/ IngestUpsert(p)
  PROVE  Kept(n, h)'
<1> USE DEF disk, history
<1>1. th[p] \in Thread /\ Ready(th[p]) /\ Knows(th[p])
  BY DEF TypeInv, DiskTyped, ThreadsTyped, KeptInv, HashesTrue
<1>2. Sole(n, h) /\ Kept(n, h) /\ media' = media /\ h # None /\ media[n] = h
  BY NoneApart DEF Ingest, IngestStores, IngestSidecar, IngestUpsert, Sole, Touched, KeptInv
<1>3. /\ \A m \in Name \ {n} : media'[m] # h
      /\ Apart(cache, n, h) /\ Leaves(th[p], n, h)
      /\ sidecar[n] = Waits(h) /\ (\A q \in Proc : ~ Upserts(th[q], n)) => Finds(cache, n, h)
  BY <1>2 DEF Kept, Told
<1>4. ASSUME NEW c \in Hash, Ingest(p, c) PROVE Kept(n, h)'
  <2> DEFINE r == [Idle EXCEPT !.op = "ingest", !.pc = "similar", !.hash = c]
  <2>1. Apart(cache', n, h) /\ (sidecar[n] = Waits(h) /\ (\A q \in Proc : ~ Upserts(th[q], n)) => Finds(cache', n, h))
    <3>1. CASE ~ cache.dirty
      BY <1>3, <1>4, <3>1 DEF Ingest, Ensured
    <3>2. CASE cache.dirty
      <4>1. OnDisk \in Entries /\ cache' = CacheOf(OnDisk)
        BY <1>4, <3>2, OnDiskTyped DEF Ingest, Ensured, TypeInv
      <4>2. \A m \in Name \ {n} : ~ Has(OnDisk[m], h)
        BY <1>2, <1>3 DEF OnDisk, EntryOf, Has, KeptInv, HashesTrue, SidecarTrue
      <4>3. sidecar[n] = Waits(h) => OnDisk[n] = Waits(h)
        BY <1>2, WaitsIs DEF OnDisk, EntryOf, Waits
      <4> QED
        BY <4>1, <4>2, <4>3, CacheOfApart
    <3> QED
      BY <3>1, <3>2
  <2>2. CASE Become(p, r)
    <3>1. Leaves(r, n, h) /\ Sees(r, sidecar'[n], n, h) /\ ~ Upserts(r, n)
      BY NoneApart DEF Leaves, Handles, Idle, Examines, Sees, Upserts
    <3>2. th[p].op = "none" /\ ~ Upserts(th[p], n)
      BY <1>1, <1>4 DEF Ingest, Begin, Upserts, Ready
    <3> HIDE DEF r
    <3> QED
      BY <1>2, <1>3, <1>4, <2>1, <2>2, <3>1, <3>2, KeptMoves DEF Ingest
  <2>3. CASE UNCHANGED th
    BY <1>2, <1>3, <1>4, <2>1, <2>3 DEF Ingest, Kept, Told, Apart, Finds, Leaves, Handles, Examines, Sees, Upserts
  <2> QED
    BY <1>4, <2>2, <2>3 DEF Ingest
<1>5. CASE IngestStores(p)
  <2>1. ~ Upserts(th[p], n)
    BY <1>5 DEF IngestStores, Upserts
  <2> QED
    BY <1>2, <1>5, <2>1, IdleLeaves, KeptQuietly DEF IngestStores
<1>6. CASE IngestSidecar(p)
  <2> DEFINE r == [th[p] EXCEPT !.pc = "upsert"]
  <2>1. /\ Become(p, r) /\ th[p].name \in Name /\ cache' = cache
        /\ sidecar' = [sidecar EXCEPT ![th[p].name] = [hash |-> th[p].hash, state |-> "pending"]]
        /\ late' = Touched(p, th[p].name)
    BY <1>1, <1>6 DEF IngestSidecar, Ready, Thread
  <2>2. r.name = th[p].name /\ r.hash = th[p].hash /\ r.pc = "upsert"
    BY <1>1 DEF Thread
  <2> HIDE DEF r
  <2>3. Leaves(r, n, h) /\ Sees(r, sidecar'[n], n, h)
    BY <1>3, <2>2 DEF Leaves, Handles, Examines, Sees
  <2>4. CASE th[p].name = n
    <3>1. Listing \ {p} = {}
      BY <2>1, <2>4 DEF Sole, Touched
    <3>2. Upserts(r, n)
      BY <2>2, <2>4 DEF Upserts
    <3> QED
      BY <1>2, <1>3, <2>1, <2>3, <3>1, <3>2, KeptMoves
  <2>5. CASE th[p].name # n
    <3>1. sidecar'[n] = sidecar[n] /\ ~ Upserts(th[p], n)
      BY <2>1, <2>5 DEF TypeInv, DiskTyped, Upserts
    <3> QED
      BY <1>2, <1>3, <2>1, <2>3, <3>1, KeptMoves
  <2> QED
    BY <2>4, <2>5
<1>7. CASE IngestUpsert(p)
  <2> DEFINE sc == [hash |-> th[p].hash, state |-> "pending"]
  <2>1. /\ Become(p, Idle) /\ th[p].name \in Name /\ cache' = Upsert(cache, th[p].name, sc)
        /\ UNCHANGED sidecar /\ th[p].hash \in Hash /\ sc \in Sidecar
    BY <1>1, <1>7 DEF IngestUpsert, Ready, Thread, Sidecar, State
  <2>2. th[p].name # n => th[p].hash # h
    BY <1>3, <2>1 DEF Leaves, Handles
  <2>3. th[p].name = n => sc = Waits(h)
    BY <1>1, <1>2, <2>1, NoneApart DEF Knows, Waits
  <2>4. sc.hash = th[p].hash /\ CacheOK(cache)
    BY DEF TypeInv
  <2> HIDE DEF sc
  <2>5. /\ Apart(cache', n, h) /\ (th[p].name = n => Finds(cache', n, h))
        /\ (th[p].name # n /\ Finds(cache, n, h) => Finds(cache', n, h))
    BY <1>3, <2>1, <2>2, <2>3, <2>4, UpsertApart
  <2>6. th[p].name # n => ~ Upserts(th[p], n)
    BY DEF Upserts
  <2> QED
    BY <1>2, <1>3, <2>1, <2>5, <2>6, IdleLeaves, KeptMoves
<1> QED
  BY <1>4, <1>5, <1>6, <1>7

(* The file that comes in is alone with its content, or the content is named. *)
LEMMA MoveKeeps ==
  ASSUME TypeInv, SettledInv, KeptInv, NEW p \in Proc, NEW n \in Name, NEW h \in Hash, Sole(n, h)', IngestMoves(p)
  PROVE  Kept(n, h)'
<1> USE DEF disk, history
<1> DEFINE r == [th[p] EXCEPT !.pc = "sidecar", !.name = fresh]
<1>1. /\ th[p] \in Thread /\ Ready(th[p]) /\ th[p].hash \in Hash /\ h # None
      /\ fresh \in Name /\ Become(p, r) /\ UNCHANGED <<sidecar, cache>>
      /\ media' = [media EXCEPT ![fresh] = th[p].hash] /\ late' = Touched(p, fresh)
      /\ twin' = IF Remains(p, th[p].hash) THEN twin \cup {th[p].hash} ELSE twin
      /\ th[p].pc = "similar"
  BY NoneApart DEF IngestMoves, TypeInv, DiskTyped, ThreadsTyped, Thread, Ready, Name
<1>2. r.name = fresh /\ r.hash = th[p].hash /\ r.pc = "sidecar"
  BY <1>1 DEF Thread
<1> HIDE DEF r
<1>3. Sees(r, sidecar'[n], n, h) /\ ~ Upserts(r, n) /\ ~ Upserts(th[p], n)
  BY <1>1, <1>2 DEF Sees, Examines, Upserts
<1>4. CASE n = fresh
  <2>1. th[p].hash = h /\ ~ Remains(p, h) /\ Listing \ {p} = {}
    BY <1>1, <1>4 DEF Sole, Touched, TypeInv, DiskTyped
  <2>2. (\A m \in Name : media[m] # h) /\ Apart(cache, n, h)
    BY <2>1 DEF Remains, Apart, Has
  <2>3. sidecar[n] = None /\ sidecar[n] # Waits(h)
    BY <1>1, <1>4, WaitsIs DEF SettledInv, NamesInv, TypeInv, DiskTyped, Name
  <2>4. ASSUME NEW q \in Proc PROVE Leaves(th'[q], n, h) /\ Sees(th'[q], sidecar'[n], n, h)
    <3>1. CASE q = p
      <4>1. th'[q] = r
        BY <1>1, <3>1, Moved
      <4> QED
        BY <1>2, <1>3, <1>4, <4>1 DEF Leaves, Handles, Examines
    <3>2. CASE q # p
      <4>1. th'[q] = th[q] /\ th[q] \in Thread /\ Ready(th[q])
        BY <1>1, <3>2 DEF Become, TypeInv, ThreadsTyped
      <4>2. ~ Examines(th[q])
        BY <2>1, <3>2, <4>1 DEF Examines, Listing, Ready
      <4>3. \A m \in Name : ~ (th[q].name = m /\ th[q].hash = h)
        BY <2>1, <3>2, NoneApart DEF Remains
      <4> QED
        BY <4>1, <4>2, <4>3 DEF Leaves, Handles, Sees
    <3> QED
      BY <3>1, <3>2
  <2>5. \A m \in Name \ {n} : media'[m] # h
    BY <1>1, <1>4, <2>2 DEF TypeInv, DiskTyped
  <2> QED
    BY <1>1, <2>2, <2>3, <2>4, <2>5 DEF Kept, Told, Apart, Leaves, Handles, Examines, Sees
<1>5. CASE n # fresh
  <2>1. Sole(n, h) /\ Kept(n, h)
    <3>1. media[n] = h
      BY <1>1, <1>5 DEF Sole, TypeInv, DiskTyped
    <3> QED
      BY <1>1, <3>1 DEF Sole, Touched, KeptInv
  <2>2. th[p].hash # h
    BY <1>1, <2>1 DEF Sole, Remains
  <2>3. \A m \in Name \ {n} : media'[m] # h
    BY <1>1, <2>1, <2>2 DEF Kept, TypeInv, DiskTyped
  <2>4. Leaves(r, n, h)
    BY <1>2, <2>2 DEF Leaves, Handles, Examines
  <2>5. sidecar[n] = Waits(h) /\ ~ Upserts(r, n) =>
          Finds(cache', n, h) \/ \E q \in Proc \ {p} : Upserts(th[q], n)
    BY <1>1, <1>3, <2>1 DEF Kept, Told
  <2>6. Apart(cache', n, h)
    BY <1>1, <2>1 DEF Kept
  <2> QED
    BY <1>1, <1>3, <2>1, <2>3, <2>4, <2>5, <2>6, KeptMoves
<1> QED
  BY <1>4, <1>5

(* Deleting a sidecar makes the cache dirty. *)
LEMMA CleanSidecarKeeps ==
  ASSUME TypeInv, NEW p \in Proc, NEW r, Become(p, r), NEW n \in Name, NEW h \in Hash, Kept(n, h),
         media' = media, NEW m \in Name, CleanSidecar(m) \/ UNCHANGED <<sidecar, cache>>,
         Leaves(r, n, h), \A sc : Sees(th[p], sc, n, h) => Sees(r, sc, n, h), ~ Upserts(th[p], n)
  PROVE  Kept(n, h)'
<1>1. CASE UNCHANGED <<sidecar, cache>>
  BY <1>1, KeptQuietly DEF Kept
<1>2. CASE sidecar' = [sidecar EXCEPT ![m] = None] /\ cache' = Dirty(cache)
  <2>1. cache'.dirty /\ Apart(cache', n, h) /\ Finds(cache', n, h)
    BY <1>2 DEF Dirty, Apart, Finds, TypeInv, CacheOK, Cache
  <2>2. sidecar'[n] = sidecar[n] \/ sidecar'[n] = None
    BY <1>2 DEF TypeInv, DiskTyped
  <2>3. Sees(r, sidecar'[n], n, h)
    <3>1. Sees(th[p], sidecar'[n], n, h)
      BY <2>2, WaitsIs DEF Kept, Sees
    <3> QED
      BY <3>1
  <2>4. sidecar'[n] # Waits(h) \/ sidecar'[n] = sidecar[n]
    BY <2>2, WaitsIs
  <2> QED
    BY <2>1, <2>3, <2>4, KeptMoves DEF Kept
<1> QED
  BY <1>1, <1>2 DEF CleanSidecar

LEMMA ListKeeps ==
  ASSUME TypeInv, SettledInv, KeptInv, NEW p \in Proc, NEW n \in Name, NEW h \in Hash, Sole(n, h)',
         \/ \E op \in {"list", "clean"} : ListStart(p, op)
         \/ \E m \in Name : ListExamine(p, m) \/ ListPersist(p, m) \/ Purge(p, m) \/ PurgeOrphan(p, m)
         \/ ListExamined(p) \/ ListReplace(p) \/ Purged(p) \/ CleanEnds(p)
  PROVE  Kept(n, h)'
<1> USE DEF disk, history
<1>1. th[p] \in Thread /\ Ready(th[p]) /\ Knows(th[p])
  BY DEF TypeInv, DiskTyped, ThreadsTyped, KeptInv, HashesTrue
<1>2. Sole(n, h) /\ Kept(n, h) /\ media' = media /\ h # None /\ media[n] = h
  BY NoneApart
     DEF ListStart, ListExamine, ListPersist, Purge, PurgeOrphan, ListExamined, ListReplace, Purged, CleanEnds,
         Sole, Touched, KeptInv
<1>3. /\ \A m \in Name \ {n} : media[m] # h
      /\ Apart(cache, n, h) /\ Leaves(th[p], n, h) /\ Sees(th[p], sidecar[n], n, h)
      /\ sidecar[n] = Waits(h) /\ (\A q \in Proc : ~ Upserts(th[q], n)) => Finds(cache, n, h)
  BY <1>2 DEF Kept, Told
<1>4. th[p].op \in {"none", "list", "clean"} /\ ~ Upserts(th[p], n)
  BY <1>1
     DEF ListStart, Begin, ListExamine, ListPersist, Purge, PurgeOrphan, ListExamined, ListReplace, Purged, CleanEnds,
         Ready, Upserts
<1>5. ASSUME NEW op \in {"list", "clean"}, ListStart(p, op) PROVE Kept(n, h)'
  <2> DEFINE r == [Idle EXCEPT !.op = op, !.pc = "examine", !.todo = {m \in Name : media[m] # None}]
  <2>1. r.pc = "examine" /\ r.todo = {m \in Name : media[m] # None} /\ r.name = None /\ r.got = NoEntry
    BY DEF Idle
  <2>2. Become(p, r) /\ UNCHANGED <<sidecar, cache>>
    BY <1>5 DEF ListStart
  <2> HIDE DEF r
  <2>3. Leaves(r, n, h) /\ Sees(r, sidecar[n], n, h)
    BY <1>2, <2>1, NoneApart DEF Leaves, Handles, Sees, NoEntry
  <2> QED
    BY <1>2, <1>4, <2>2, <2>3, KeptQuietly
<1>6. ASSUME NEW m \in Name, ListExamine(p, m) PROVE Kept(n, h)'
  <2> DEFINE g == [entry |-> Examined(m), changed |-> Incomplete(m)]
             r == [th[p] EXCEPT !.todo = @ \ {m}, !.got[m] = g]
  <2>0. UNCHANGED <<sidecar, cache>>
    BY <1>6 DEF ListExamine
  <2>1. CASE media[m] = None
    BY <1>2, <1>4, <1>6, <2>0, <2>1, IdleLeaves, KeptQuietly DEF ListExamine
  <2>2. CASE media[m] # None
    <3>1. Become(p, r) /\ th[p].pc = "examine" /\ th[p].got \in [Name -> Got \cup {None}]
      BY <1>1, <1>6, <2>2 DEF ListExamine, Thread
    <3>2. EntryOf(sidecar[m]) \in Entry /\ g.entry = Examined(m) /\ g # None
      <4>1. EntryOf(sidecar[m]) \in Entry
        BY EntryOfTyped DEF TypeInv, DiskTyped
      <4>2. Examined(m) \in Entry
        BY <2>2, <4>1 DEF Examined, Entry, TypeInv, DiskTyped
      <4>3. g \in [entry : Entry, changed : BOOLEAN]
        BY <4>2 DEF Incomplete
      <4> QED
        BY <4>1, <4>3, ReviewOK DEF ReviewOK
    <3>3. Examined(m).hash = media[m] /\ (m = n /\ sidecar[n] = Waits(h) => Examined(m) = Waits(h))
      <4>1. Examined(m) = [hash |-> media[m], state |-> EntryOf(sidecar[m]).state]
        BY <3>2 DEF Examined, Entry
      <4>2. sidecar[m] = Waits(h) => EntryOf(sidecar[m]).state = "pending"
        BY WaitsIs DEF EntryOf
      <4> QED
        BY <1>2, <4>1, <4>2 DEF Waits
    <3>4. r.got = [th[p].got EXCEPT ![m] = g] /\ r.name = th[p].name /\ r.hash = th[p].hash /\ r.pc = th[p].pc
          /\ r.todo = th[p].todo \ {m}
      BY <1>1 DEF Thread
    <3> HIDE DEF r, g
    <3>5. Leaves(r, n, h)
      BY <1>3, <3>1, <3>2, <3>3, <3>4 DEF Leaves, Handles, Examines
    <3>6. Sees(r, sidecar[n], n, h)
      BY <1>2, <1>3, <3>1, <3>2, <3>3, <3>4 DEF Sees, Examines
    <3> QED
      BY <1>2, <1>4, <2>0, <3>1, <3>5, <3>6, KeptQuietly
  <2> QED
    BY <2>1, <2>2
<1>7. ASSUME NEW m \in Name, ListPersist(p, m) PROVE Kept(n, h)'
  <2> DEFINE r == [th[p] EXCEPT !.todo = @ \ {m}]
             e == Found(p)[m]
  <2>1. Become(p, r) /\ th[p].pc = "persist" /\ th[p].got[m] # None /\ th[p].got[m] \in Got /\ e = th[p].got[m].entry
    BY <1>1, <1>7 DEF ListPersist, Ready, Found, Thread
  <2>2. r.got = th[p].got /\ r.name = th[p].name /\ r.hash = th[p].hash /\ r.pc = "persist"
    BY <1>1, <2>1 DEF Thread
  <2>3. e \in Sidecar /\ e \in Entry
    BY <2>1 DEF Got, Entry, Sidecar, State
  <2> HIDE DEF r, e
  <2>4. Leaves(r, n, h) /\ ~ Upserts(r, n)
    BY <1>3, <2>1, <2>2 DEF Leaves, Handles, Examines, Upserts
  <2>5. Sees(r, sidecar[n], n, h)
    BY <1>3, <2>1, <2>2 DEF Sees, Examines
  <2>6. CASE UNCHANGED <<sidecar, cache>>
    BY <1>2, <1>4, <2>1, <2>4, <2>5, <2>6, KeptQuietly
  <2>7. CASE sidecar' = [sidecar EXCEPT ![m] = e] /\ cache' = Upsert(cache, m, e) /\ late' = Touched(p, m)
    <3>1. m # n => e.hash # h
      BY <1>3, <2>1 DEF Leaves, Handles, Examines
    <3>2. /\ Apart(cache', n, h) /\ (m # n /\ Finds(cache, n, h) => Finds(cache', n, h))
          /\ (m = n /\ e = Waits(h) => Finds(cache', n, h))
      BY <1>3, <2>3, <2>7, <3>1, UpsertApart DEF TypeInv
    <3>3. CASE m = n
      <4>1. sidecar'[n] = e /\ Listing \ {p} = {}
        BY <2>7, <3>3 DEF TypeInv, DiskTyped, Sole, Touched
      <4>2. Sees(r, sidecar'[n], n, h)
        BY <1>3, <2>1, <2>2, <3>3, <4>1 DEF Sees, Examines
      <4> QED
        BY <1>2, <1>3, <2>1, <2>4, <3>2, <3>3, <4>1, <4>2, KeptMoves
    <3>4. CASE m # n
      <4>1. sidecar'[n] = sidecar[n]
        BY <2>7, <3>4 DEF TypeInv, DiskTyped
      <4> QED
        BY <1>2, <1>3, <1>4, <2>1, <2>4, <2>5, <3>2, <3>4, <4>1, KeptMoves
    <3> QED
      BY <3>3, <3>4
  <2> QED
    BY <1>7, <2>6, <2>7 DEF ListPersist, e
<1>8. ASSUME NEW m \in Name, Purge(p, m) PROVE Kept(n, h)'
  <2> DEFINE r == [th[p] EXCEPT !.pc = "unlink", !.name = m, !.todo = @ \ {m}]
  <2>1. Become(p, r) /\ UNCHANGED <<sidecar, cache>> /\ th[p].hash = None
    BY <1>1, <1>8 DEF Purge, Ready, Knows
  <2>2. r.pc = "unlink" /\ r.hash = None
    BY <1>1, <2>1 DEF Thread
  <2> HIDE DEF r
  <2>3. Leaves(r, n, h) /\ Sees(r, sidecar[n], n, h)
    BY <1>2, <2>2 DEF Leaves, Handles, Examines, Sees
  <2> QED
    BY <1>2, <1>4, <2>1, <2>3, KeptQuietly
<1>9. ASSUME NEW m \in Name, PurgeOrphan(p, m) PROVE Kept(n, h)'
  <2> DEFINE r == [th[p] EXCEPT !.todo = @ \ {m}]
  <2>1. Become(p, r) /\ (CleanSidecar(m) \/ UNCHANGED <<sidecar, cache>>) /\ th[p].pc = "orphans"
    BY <1>9 DEF PurgeOrphan
  <2>2. r.pc = "orphans" /\ r.hash = th[p].hash /\ r.name = th[p].name
    BY <1>1, <2>1 DEF Thread
  <2> HIDE DEF r
  <2>3. Leaves(r, n, h) /\ \A sc : Sees(r, sc, n, h)
    BY <1>3, <2>2 DEF Leaves, Handles, Examines, Sees
  <2> QED
    BY <1>2, <1>4, <2>1, <2>3, CleanSidecarKeeps
<1>10. CASE ListExamined(p)
  <2> DEFINE r == [th[p] EXCEPT !.pc = "persist", !.todo = {m \in Name : th[p].got[m] # None /\ th[p].got[m].changed}]
  <2>1. Become(p, r) /\ UNCHANGED <<sidecar, cache>> /\ th[p].pc = "examine" /\ th[p].todo = {}
    BY <1>10 DEF ListExamined
  <2>2. r.pc = "persist" /\ r.hash = th[p].hash /\ r.name = th[p].name /\ r.got = th[p].got
    BY <1>1, <2>1 DEF Thread
  <2> HIDE DEF r
  <2>3. Leaves(r, n, h) /\ Sees(r, sidecar[n], n, h)
    BY <1>3, <2>1, <2>2 DEF Leaves, Handles, Examines, Sees
  <2> QED
    BY <1>2, <1>4, <2>1, <2>3, KeptQuietly
<1>11. CASE ListReplace(p)
  <2> DEFINE r == IF th[p].op = "list" THEN Idle ELSE [th[p] EXCEPT !.pc = "purge", !.todo = Listed(Found(p), "cleanup")]
  <2>1. Become(p, r) /\ UNCHANGED sidecar /\ cache' = CacheOf(Found(p)) /\ th[p].pc = "persist"
    BY <1>11 DEF ListReplace
  <2>2. r = Idle \/ (r.pc = "purge" /\ r.hash = th[p].hash /\ r.name = th[p].name)
    BY <1>1 DEF Thread
  <2> HIDE DEF r
  <2>3. Leaves(r, n, h) /\ Sees(r, sidecar[n], n, h)
    BY <1>3, <2>2, IdleLeaves DEF Leaves, Handles, Examines, Sees
  <2>4. \A m \in Name \ {n} : ~ Has(Found(p)[m], h)
    BY <1>3, <2>1 DEF Found, Has, Leaves, Handles, Examines
  <2>5. sidecar[n] = Waits(h) => Found(p)[n] = Waits(h)
    BY <1>3, <2>1 DEF Found, Sees, Examines
  <2>6. Apart(cache', n, h) /\ (sidecar[n] = Waits(h) => Finds(cache', n, h))
    BY <2>1, <2>4, <2>5, FoundTyped, CacheOfApart DEF TypeInv
  <2> QED
    BY <1>2, <1>3, <2>1, <2>3, <2>6, KeptMoves
<1>12. CASE Purged(p)
  <2> DEFINE r == [th[p] EXCEPT !.pc = "orphans",
                     !.todo = {m \in Name : sidecar[m] # None} \ Listed(Found(p), "cleanup")]
  <2>1. Become(p, r) /\ UNCHANGED <<sidecar, cache>>
    BY <1>12 DEF Purged
  <2>2. r.pc = "orphans" /\ r.hash = th[p].hash /\ r.name = th[p].name
    BY <1>1, <2>1 DEF Thread
  <2> HIDE DEF r
  <2>3. Leaves(r, n, h) /\ Sees(r, sidecar[n], n, h)
    BY <1>3, <2>2 DEF Leaves, Handles, Examines, Sees
  <2> QED
    BY <1>2, <1>4, <2>1, <2>3, KeptQuietly
<1>13. CASE CleanEnds(p)
  BY <1>2, <1>4, <1>13, IdleLeaves, KeptQuietly DEF CleanEnds
<1> QED
  BY <1>5, <1>6, <1>7, <1>8, <1>9, <1>10, <1>11, <1>12, <1>13

LEMMA CleanKeeps ==
  ASSUME TypeInv, SettledInv, KeptInv, NEW p \in Proc, NEW n \in Name, NEW h \in Hash, Sole(n, h)',
         UnlinkMedia(p) \/ UnlinkSidecar(p) \/ MarkCleanup(p)
  PROVE  Kept(n, h)'
<1> USE DEF disk, history
<1> DEFINE k == th[p].name
<1>1. /\ th[p] \in Thread /\ Ready(th[p]) /\ Knows(th[p]) /\ k \in Name
      /\ th[p].pc \in {"unlink", "meta", "mark"} /\ th[p].op \in {"delete", "variant", "replace", "clean"}
  BY DEF TypeInv, DiskTyped, ThreadsTyped, KeptInv, HashesTrue, UnlinkMedia, UnlinkSidecar, MarkCleanup,
         Thread, Ready, Action
<1>2. h # None /\ media[n] = h /\ (\A m \in Name : media'[m] \in {None, media[m]}) /\ Sole(n, h) /\ Kept(n, h)
  <2>1. h # None /\ media'[n] = h /\ late \subseteq late' /\ twin' = twin
    BY NoneApart DEF UnlinkMedia, CleanMedia, UnlinkSidecar, MarkCleanup, Sole, Touched
  <2>2. media' = media \/ media' = [media EXCEPT ![k] = None]
    BY DEF UnlinkMedia, CleanMedia, UnlinkSidecar, MarkCleanup
  <2>3. \A m \in Name : media'[m] \in {None, media[m]}
    BY <2>2 DEF TypeInv, DiskTyped
  <2>4. media[n] = h
    BY <2>1, <2>3
  <2> QED
    BY <2>1, <2>3, <2>4 DEF Sole, KeptInv
<1>3. /\ \A m \in Name \ {n} : media[m] # h /\ media'[m] # h
      /\ Apart(cache, n, h) /\ Leaves(th[p], n, h)
      /\ sidecar[n] = Waits(h) /\ (\A q \in Proc : ~ Upserts(th[q], n)) => Finds(cache, n, h)
      /\ ~ Upserts(th[p], n)
  BY <1>1, <1>2 DEF Kept, Told, Upserts
<1> HIDE DEF k
<1>4. CASE UnlinkMedia(p)
  <2> DEFINE r == [th[p] EXCEPT !.pc = "meta"]
             s == [r EXCEPT !.kept = TRUE]
  <2>1. PICK t \in {r, s} : Become(p, t)
    BY <1>4 DEF UnlinkMedia, CleanMedia
  <2>2. t.pc = "meta" /\ t.name = k /\ t.hash = th[p].hash
    BY <1>1 DEF Thread, k
  <2> HIDE DEF r, s
  <2>3. Leaves(t, n, h) /\ (\A sc : Sees(t, sc, n, h)) /\ ~ Upserts(t, n)
    BY <1>3, <2>2 DEF Leaves, Handles, Examines, Sees, Upserts, k
  <2>4. CASE UNCHANGED <<media, cache>>
    BY <1>2, <1>3, <1>4, <2>1, <2>3, <2>4, KeptQuietly DEF UnlinkMedia
  <2>5. CASE media' = [media EXCEPT ![k] = None] /\ cache' = Removed(cache, k)
    <3>1. k # n
      BY <1>1, <1>2, <2>5 DEF Sole, TypeInv, DiskTyped
    <3>2. Apart(cache', n, h) /\ (Finds(cache, n, h) => Finds(cache', n, h))
      BY <1>1, <1>3, <2>5, <3>1, RemovedApart DEF TypeInv
    <3>3. sidecar' = sidecar
      BY <1>4 DEF UnlinkMedia
    <3> QED
      BY <1>2, <1>3, <2>1, <2>3, <3>2, <3>3, KeptMoves
  <2> QED
    BY <1>4, <2>4, <2>5 DEF UnlinkMedia, CleanMedia, k
<1>5. CASE UnlinkSidecar(p)
  <2> DEFINE r == AfterClean(p)
  <2>1. Become(p, r) /\ media' = media /\ CleanSidecar(k)
    BY <1>5 DEF UnlinkSidecar, k
  <2>2. r = Idle \/ (r.pc \in {"mark", "target", "purge"} /\ r.name \in {None, k} /\ r.hash = th[p].hash)
    BY <1>1 DEF AfterClean, Thread, k
  <2> HIDE DEF r
  <2>3. Leaves(r, n, h) /\ \A sc : Sees(r, sc, n, h)
    BY <1>3, <2>2, IdleLeaves, NoneApart DEF Leaves, Handles, Examines, Sees, k
  <2> QED
    BY <1>1, <1>2, <1>3, <2>1, <2>3, CleanSidecarKeeps
<1>6. CASE MarkCleanup(p)
  <2> DEFINE r == IF th[p].op = "clean" THEN [th[p] EXCEPT !.pc = "purge", !.name = None, !.kept = FALSE] ELSE Idle
             sc == Marked(p)
  <2>1. Become(p, r) /\ media' = media
    BY <1>6 DEF MarkCleanup
  <2>2. r = Idle \/ (r.pc = "purge" /\ r.name = None)
    BY <1>1 DEF Thread
  <2> HIDE DEF r, sc
  <2>3. Leaves(r, n, h) /\ (\A x : Sees(r, x, n, h)) /\ ~ Upserts(r, n)
    BY <2>2, IdleLeaves, NoneApart DEF Leaves, Handles, Examines, Sees, Upserts
  <2>4. CASE UNCHANGED <<sidecar, cache>>
    BY <1>2, <1>3, <2>1, <2>3, <2>4, KeptQuietly
  <2>5. CASE /\ sidecar' = [sidecar EXCEPT ![k] = sc] /\ cache' = Upsert(cache, k, sc)
             /\ late' = Touched(p, k) /\ (media[k] # None \/ th[p].op \in {"variant", "replace"})
    <3>1. /\ sc.state = "cleanup"
          /\ sc.hash = IF th[p].op \in {"variant", "replace"} THEN th[p].hash
                       ELSE IF sidecar[k] = None THEN None ELSE sidecar[k].hash
      BY DEF Marked, sc, k
    <3>2. sc \in Sidecar
      <4>1. th[p].name \in Name /\ th[p].hash \in Hash \cup {None}
        BY <1>1 DEF Thread, k
      <4> QED
        BY <4>1 DEF Marked, sc, DiskTyped, Sidecar, State, TypeInv
    <3>3. k # n => sc.hash # h
      <4>1. k # n => th[p].hash # h
        BY <1>1, <1>3 DEF Leaves, Handles, k
      <4>2. k # n /\ sidecar[k] # None /\ media[k] # None => sidecar[k].hash # h
        BY <1>1, <1>2, <1>3 DEF KeptInv, HashesTrue, SidecarTrue
      <4> QED
        BY <1>2, <2>5, <3>1, <4>1, <4>2
    <3>4. sc # Waits(h)
      BY <3>1, WaitsIs
    <3>5. Apart(cache', n, h) /\ (k # n /\ Finds(cache, n, h) => Finds(cache', n, h))
      BY <1>1, <1>3, <2>5, <3>2, <3>3, UpsertApart DEF TypeInv
    <3>6. CASE k = n
      <4>1. sidecar'[n] # Waits(h)
        BY <2>5, <3>4, <3>6 DEF TypeInv, DiskTyped
      <4> QED
        BY <1>2, <1>3, <2>1, <2>3, <3>5, <4>1, KeptMoves
    <3>7. CASE k # n
      <4>1. sidecar'[n] = sidecar[n]
        BY <2>5, <3>7 DEF TypeInv, DiskTyped
      <4> QED
        BY <1>2, <1>3, <2>1, <2>3, <3>5, <3>7, <4>1, KeptMoves
    <3> QED
      BY <3>6, <3>7
  <2> QED
    BY <1>1, <1>6, <2>4, <2>5 DEF MarkCleanup, sc, k
<1> QED
  BY <1>4, <1>5, <1>6

LEMMA ActKeeps ==
  ASSUME TypeInv, SettledInv, KeptInv, NEW p \in Proc, NEW n \in Name, NEW h \in Hash, Sole(n, h)',
         \/ \E m \in Name, action \in Action, target \in Hash \cup {None} : Act(p, m, action, target)
         \/ ActNote(p) \/ ActStore(p) \/ ActSource(p) \/ ActTarget(p)
  PROVE  Kept(n, h)'
<1> USE DEF disk, history
<1>1. th[p] \in Thread /\ Ready(th[p]) /\ Knows(th[p])
  BY DEF TypeInv, DiskTyped, ThreadsTyped, KeptInv, HashesTrue
<1>2. h # None /\ media[n] = h /\ Sole(n, h) /\ Kept(n, h)
  <2>1. h # None /\ media'[n] = h /\ late \subseteq late' /\ twin' = twin
    BY NoneApart DEF Act, ActNote, ActStore, ActSource, ActTarget, Sole, Touched
  <2>2. media[n] = h
    BY <1>1, <2>1 DEF Act, ActNote, ActStore, ActSource, ActTarget, TypeInv, DiskTyped, Ready, Thread
  <2> QED
    BY <2>1, <2>2 DEF Sole, KeptInv
<1>3. /\ \A m \in Name \ {n} : media[m] # h
      /\ Apart(cache, n, h) /\ Leaves(th[p], n, h)
      /\ sidecar[n] = Waits(h) /\ (\A q \in Proc : ~ Upserts(th[q], n)) => Finds(cache, n, h)
  BY <1>2 DEF Kept, Told
<1>4. ~ Upserts(th[p], n)
  BY <1>1 DEF Act, Begin, ActNote, ActStore, ActSource, ActTarget, Upserts, Ready
<1>5. ASSUME NEW m \in Name, NEW action \in Action, NEW target \in Hash \cup {None}, Act(p, m, action, target)
      PROVE  Kept(n, h)'
  <2> DEFINE state == IF sidecar[m] = None THEN "pending" ELSE sidecar[m].state
             r == [Idle EXCEPT !.op = action, !.pc = "note", !.name = m, !.hash = media[m],
                               !.state = state, !.target = target]
  <2>0. UNCHANGED <<media, sidecar, cache>>
    BY <1>5 DEF Act
  <2>1. CASE UNCHANGED th
    BY <1>2, <2>0, <2>1 DEF Kept, Told, Apart, Finds, Leaves, Handles, Examines, Sees, Upserts
  <2>2. CASE Become(p, r)
    <3>1. r.pc = "note" /\ r.name = m /\ r.hash = media[m]
      BY DEF Idle
    <3> HIDE DEF r
    <3>2. Leaves(r, n, h) /\ Sees(r, sidecar[n], n, h)
      BY <1>3, <3>1 DEF Leaves, Handles, Examines, Sees
    <3> QED
      BY <1>2, <1>4, <2>0, <2>2, <3>2, KeptQuietly
  <2> QED
    BY <1>5, <2>1, <2>2 DEF Act
<1>6. CASE ActNote(p)
  <2> DEFINE k == th[p].name
             sc == [hash |-> th[p].hash, state |-> th[p].state]
             s == [th[p] EXCEPT !.pc = IF th[p].op = "delete" THEN "unlink" ELSE "store"]
  <2>1. /\ k \in Name /\ th[p].hash \in Hash /\ sc \in Sidecar /\ sc.hash = th[p].hash
        /\ media' = media /\ late' = Touched(p, k)
        /\ sidecar' = [sidecar EXCEPT ![k] = sc] /\ cache' = Upsert(cache, k, sc)
    BY <1>1, <1>6 DEF ActNote, Ready, Thread, Sidecar
  <2>2. PICK r \in {Idle, s} : Become(p, r)
    BY <1>6 DEF ActNote
  <2>3. r = Idle \/ (r.pc \in {"unlink", "store"} /\ r.name = k /\ r.hash = th[p].hash)
    BY <1>1 DEF Thread
  <2>4. k # n => th[p].hash # h
    BY <1>3, <2>1 DEF Leaves, Handles
  <2> HIDE DEF s, sc
  <2>5. Leaves(r, n, h) /\ (\A x : Sees(r, x, n, h)) /\ ~ Upserts(r, n)
    BY <1>3, <2>1, <2>3, IdleLeaves DEF Leaves, Handles, Examines, Sees, Upserts
  <2> HIDE DEF k
  <2>6. /\ Apart(cache', n, h) /\ (k # n /\ Finds(cache, n, h) => Finds(cache', n, h))
        /\ (k = n /\ sc = Waits(h) => Finds(cache', n, h))
    BY <1>3, <2>1, <2>4, UpsertApart DEF TypeInv
  <2>7. CASE k = n
    <3>1. sidecar'[n] = sc /\ Listing \ {p} = {}
      BY <2>1, <2>7 DEF TypeInv, DiskTyped, Sole, Touched
    <3> QED
      BY <1>2, <1>3, <2>1, <2>2, <2>5, <2>6, <2>7, <3>1, KeptMoves
  <2>8. CASE k # n
    <3>1. sidecar'[n] = sidecar[n]
      BY <2>1, <2>8 DEF TypeInv, DiskTyped
    <3> QED
      BY <1>2, <1>3, <1>4, <2>1, <2>2, <2>5, <2>6, <2>8, <3>1, KeptMoves
  <2> QED
    BY <2>7, <2>8
<1>7. CASE ActStore(p)
  <2> DEFINE s == [th[p] EXCEPT !.pc = "source"]
  <2>1. PICK r \in {Idle, s} : Become(p, r)
    BY <1>7 DEF ActStore
  <2>2. r = Idle \/ (r.pc = "source" /\ r.name = th[p].name /\ r.hash = th[p].hash)
    BY <1>1 DEF Thread
  <2> HIDE DEF s
  <2>3. Leaves(r, n, h) /\ Sees(r, sidecar[n], n, h)
    BY <1>3, <2>2, IdleLeaves DEF Leaves, Handles, Examines, Sees
  <2> QED
    BY <1>2, <1>4, <1>7, <2>1, <2>3, KeptQuietly DEF ActStore
<1>8. CASE ActSource(p)
  <2>1. PICK failed \in BOOLEAN : Become(p, [th[p] EXCEPT !.pc = "unlink", !.failed = failed])
    BY <1>8 DEF ActSource
  <2> DEFINE r == [th[p] EXCEPT !.pc = "unlink", !.failed = failed]
  <2>2. r.pc = "unlink" /\ r.name = th[p].name /\ r.hash = th[p].hash
    BY <1>1 DEF Thread
  <2>3. Become(p, r)
    BY <2>1
  <2> HIDE DEF r
  <2>4. Leaves(r, n, h) /\ Sees(r, sidecar[n], n, h) /\ ~ Upserts(r, n)
    BY <1>3, <2>2 DEF Leaves, Handles, Examines, Sees, Upserts
  <2>5. \A m \in Name \ {n} : media'[m] # h
    BY <1>1, <1>2, <1>3, <1>8 DEF ActSource, TypeInv, DiskTyped, Ready, Thread
  <2>6. UNCHANGED <<sidecar, cache>>
    BY <1>8 DEF ActSource
  <2> QED
    BY <1>2, <1>3, <1>4, <2>3, <2>4, <2>5, <2>6, KeptMoves
<1>9. CASE ActTarget(p)
  BY <1>2, <1>4, <1>9, IdleLeaves, KeptQuietly DEF ActTarget
<1> QED
  BY <1>5, <1>6, <1>7, <1>8, <1>9

LEMMA KeptNext == TypeInv /\ SettledInv /\ KeptInv /\ [Next]_vars => KeptInv'
<1> SUFFICES ASSUME TypeInv, SettledInv, KeptInv, [Next]_vars PROVE KeptInv'
  OBVIOUS
<1>1. HashesTrue'
  BY HashesNext DEF KeptInv
<1>2. ASSUME NEW n \in Name, NEW h \in Hash, Sole(n, h)' PROVE Kept(n, h)'
  <2>1. ASSUME NEW p \in Proc, Step(p) \/ Call(p) PROVE Kept(n, h)'
    BY <1>2, <2>1, IngestKeeps, MoveKeeps, ListKeeps, CleanKeeps, ActKeeps DEF Step, Call
  <2>2. CASE Crash
    <3>1. Kept(n, h) /\ media' = media /\ sidecar' = sidecar
      BY <1>2, <2>2 DEF Crash, disk, history, Sole, KeptInv
    <3>2. cache'.dirty /\ \A q \in Proc : th'[q] = Idle
      <4>1. CacheOf(NoEntry) = [dirty |-> FALSE, entry |-> NoEntry, counts |-> Counts(NoEntry),
                                index |-> CacheOf(NoEntry).index]
        BY DEF CacheOf
      <4> QED
        BY <2>2, <4>1 DEF Crash
    <3> QED
      BY <3>1, <3>2, IdleLeaves DEF Kept, Told, Apart, Finds, Leaves, Handles, Examines, Sees
  <2>3. CASE UNCHANGED vars
    <3>1. Kept(n, h)
      BY <1>2, <2>3 DEF vars, disk, history, Sole, KeptInv
    <3> QED
      BY <2>3, <3>1 DEF vars, disk, history, Kept, Told, Apart, Finds, Leaves, Handles, Examines, Sees, Upserts
  <2> QED
    BY <2>1, <2>2, <2>3 DEF Next
<1> QED
  BY <1>1, <1>2 DEF KeptInv

LEMMA KeptInit == Init => KeptInv
<1> SUFFICES ASSUME Init PROVE KeptInv
  OBVIOUS
<1>1. HashesTrue
  <2>1. SidecarTrue
    BY ReviewOK DEF ReviewOK, Init, SidecarTrue
  <2>2. \A q \in Proc : Knows(th[q])
    BY DEF Init, Knows, Idle, NoEntry
  <2> QED
    BY <2>1, <2>2 DEF HashesTrue
<1>2. ASSUME NEW n \in Name, NEW h \in Hash, Sole(n, h) PROVE Kept(n, h)
  <2>1. \A m \in Name \ {n} : media[m] # h
    BY <1>2 DEF Init, Sole
  <2>2. cache.dirty /\ \A q \in Proc : th[q] = Idle
    <3>1. CacheOf(NoEntry) = [dirty |-> FALSE, entry |-> NoEntry, counts |-> Counts(NoEntry),
                              index |-> CacheOf(NoEntry).index]
      BY DEF CacheOf
    <3> QED
      BY <3>1 DEF Init
  <2> QED
    BY <2>1, <2>2, IdleLeaves DEF Kept, Told, Apart, Finds
<1> QED
  BY <1>1, <1>2 DEF KeptInv

(* A file that waits is found by the ingest that asks for its content, after *)
(* any sequence of listings, cleanups, actions and crashes, but for the two  *)
(* named cases: changes behind a listing's back, and contents that came      *)
(* again while something of the first file was left.                         *)
THEOREM WaitingIsBlocked == Spec => []PendingBlocked
<1>1. TypeInv /\ KeptInv => PendingBlocked
  <2> SUFFICES ASSUME TypeInv, KeptInv, ~ cache.dirty, NEW n \in Name,
                      media[n] # None, sidecar[n] = [hash |-> media[n], state |-> "pending"],
                      n \notin late, media[n] \notin twin, ~ \E p \in Proc : th[p].name = n
               PROVE  cache.index[media[n]] = n
    BY DEF PendingBlocked
  <2>1. Kept(n, media[n]) /\ media[n] \in Hash
    BY DEF KeptInv, Sole, TypeInv, DiskTyped
  <2> QED
    BY <2>1 DEF Kept, Told, Upserts, Waits, Finds
<1>2. Spec => []KeptInv
  BY TypeHolds, SettledHolds, KeptInit, KeptNext, PTL DEF Spec
<1> QED
  BY <1>1, <1>2, TypeHolds, PTL
=============================================================================
