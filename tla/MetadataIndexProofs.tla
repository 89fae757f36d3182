------------------------ MODULE MetadataIndexProofs ------------------------
(***************************************************************************)
(* What holds of the metadata index in every reachable state.              *)
(*                                                                         *)
(* TypeInv    types, what each thread may be doing, who holds the write    *)
(*            lock, and what a thread relies on of the database.  Every    *)
(*            action of a thread is a Step: it changes that thread and, if *)
(*            it may write, the database.                                  *)
(* ReadyInv   which items a rebuild, or an open transaction, still owes a  *)
(*            row before the index may be called ready.                    *)
(* FacetInv   which counts of a transaction are right before it ends.      *)
(* CurrentInv how a row, or a row about to be written, compares with every *)
(*            note the item has or may get back; versions only grow.       *)
(*                                                                         *)
(* Each is proved action by action; the lemmas before them say what the    *)
(* operators on the database return.                                       *)
(***************************************************************************)
EXTENDS MetadataIndex, FiniteSetTheorems, TLAPS

Text == Topics \cup {Bad, Poison, Gone}
Note == [version : Version, text : Text]
Entry == [item : Item, version : Version, text : Text]
Thread(a) ==
    [op : {"none", "dirty", "full", "flush"} \cup Call,
     pc : {"idle", "start", "next", "read", "full", "load", "drop", "unlink", "rewrite", "restamp"},
     todo : SUBSET Item, item : Item \cup {None}, seen : Version, queued : Nat,
     rows : SUBSET Entry, keep : SUBSET (Item \cup Topic), arg : {a}]

(* Where a thread that works on something may be, and who works on it. *)
At(op, pc) ==
    \/ op = "none" /\ pc = "idle"
    \/ op = "dirty" /\ pc \in {"start", "next", "read"}
    \/ op = "full" /\ pc \in {"start", "full", "load"}
    \/ op \in {"flush", "insert", "patch", "detail"} /\ pc \in {"next", "read"}
    \/ op = "delete" /\ pc = "drop"
    \/ op = "insert" /\ pc = "unlink"
    \/ op = "rename" /\ pc \in {"rewrite", "restamp"}
Does(p, op) ==
    \/ op = "none"
    \/ op \in {"dirty", "full"} /\ p = Repair
    \/ op = "flush" /\ p = Watchdog
    \/ op \in Call /\ p \in Callers

Shape(p, r) ==
    /\ r \in Thread(r.arg) /\ At(r.op, r.pc) /\ Does(p, r.op)
    /\ IF r.pc \in {"read", "load", "drop", "unlink", "restamp"} THEN r.item \in Item ELSE r.item = None
    /\ r.op = "delete" => r.keep \in Topics /\ r.arg \in Note
    /\ r.pc = "restamp" => r.keep \in Topics
    /\ r.op \in {"insert", "flush"} => r.keep \subseteq Item

ThreadsOK == DOMAIN th = Proc /\ \A p \in Proc : Shape(p, th[p])

DiskOK ==
    /\ note \in [Item -> Note] /\ fresh \in [Item -> Version]
    /\ events \subseteq Item /\ pending \subseteq Item /\ known \subseteq Item
    /\ running \in BOOLEAN /\ timer \in BOOLEAN /\ flushing \in BOOLEAN

RowOK(D) ==
    /\ D \in Row /\ D.dirty \subseteq D.items /\ D.owed = Cardinality(D.dirty)
    /\ \A h \in Item \ D.items : D.status[h] = "none" /\ D.topics[h] = {}

StoreOK ==
    /\ RowOK(db) /\ owner \in Proc \cup {None} /\ (owner = None) = (tx = None)
    /\ owner # None => RowOK(tx) /\ db.items \subseteq tx.items

(* What a thread relies on of the database. *)
Working(p) ==
    /\ owner = p => th[p].pc \notin {"idle", "start", "drop", "unlink"}
    /\ th[p].pc = "read" => owner = p /\ th[p].item \in tx.items /\ th[p].item \in tx.dirty
    /\ th[p].op \in {"flush", "patch", "detail"} /\ th[p].pc = "next" =>
          owner = p \/ th[p].todo # {}
    /\ th[p].op = "insert" /\ th[p].pc # "unlink" => owner = p /\ th[p].keep \cap db.items = {}
    /\ th[p].pc = "restamp" => th[p].item \in View(p).items
    /\ th[p].op = "delete" => th[p].item \in db.items

HeldBy(r, h) ==
    \/ r.op = "patch" /\ (h = r.item \/ h \in r.todo)
    \/ r.op \in {"delete", "rename"} /\ h = r.item
Exclusive ==
    \A p, q \in Callers : \A h \in Item : HeldBy(th[p], h) /\ HeldBy(th[q], h) => p = q

WorkOK == (running <=> th[Repair].op # "none") /\ \A p \in Proc : Working(p)
TypeInv == ThreadsOK /\ DiskOK /\ StoreOK /\ WorkOK /\ Exclusive

-----------------------------------------------------------------------------
(* What a thread has not indexed yet. *)
Inserting(r, h) == r.op = "insert" /\ (h \in r.todo \/ h = r.item)
Rebuilds(r) == r.op = "full" /\ r.pc \in {"full", "load"}
Ahead(r, h) == h \in r.todo \/ HasRow(r.rows, h)

ReadyInv ==
    /\ ReadyComplete
    /\ Rebuilds(th[Repair]) =>
          /\ ~View(Repair).ready
          /\ \A h \in View(Repair).items : View(Repair).status[h] # "none" \/ Ahead(th[Repair], h)
    /\ owner # None /\ (owner = Repair => ~Rebuilds(th[Repair])) =>
          /\ tx.ready = db.ready
          /\ \A h \in tx.items : \/ tx.status[h] # "none" \/ Inserting(th[owner], h)
                                 \/ h \in db.items /\ db.status[h] = "none"

(* The counts are right but for the topics of S and X; a rename recounts what
   it has touched at its end. *)
Facets(D, S, X) == D.ready => \A t \in Topic \ S : D.facet[t] = Count(D, t) \/ t \in X
Touched(r) == IF r.op = "rename" THEN {r.arg[1], r.arg[2]} \cap Topic ELSE {}

FacetInv ==
    /\ Facets(db, drift, {})
    /\ owner # None => Facets(tx, drift, Touched(th[owner]))

(* The notes an item has or may get back: a delete that fails restores the one
   it has moved away. *)
FacesIn(N, T) ==
    [h \in Item |-> {N[h]} \cup
        IF N[h].text = Gone
          THEN {T[p].arg : p \in {q \in Callers : T[q].op = "delete" /\ T[q].item = h}}
          ELSE {}]
Faces == FacesIn(note, th)

(* The row of h, the entry e, is not at odds with the note n. *)
Taken(D, h, n) ==
    D.sig[h] = n.version =>
        /\ D.status[h] = "ok" /\ n.text # Gone => D.topics[h] = TopicsOf(n.text)
        /\ D.status[h] = "error" /\ n.text = Poison => h \in D.dirty
Same(e, n) == n.version # 0 /\ e.version = n.version => e.text = n.text

(* F: the faces, f: the next versions, B: the blurred items. *)
FacesOK(F, f) ==
    \A h \in Item : \A n \in F[h] :
        n \in Note /\ n.version < f[h] /\ (n.version = 0 <=> n.text = Gone)
RowsTaken(D, F, f, B) ==
    \A h \in Item : D.sig[h] < f[h] /\ (h \notin B => \A n \in F[h] : Taken(D, h, n))
ThreadRead(r, F, f, B) ==
    /\ r.item # None => r.seen < f[r.item]
    /\ \A e \in r.rows : e.version < f[e.item]
    /\ r.op = "full" =>
          \A e \in r.rows : e.text # Poison /\ (e.item \notin B => \A n \in F[e.item] : Same(e, n))
    /\ r.op = "rename" => \A e \in r.rows : e.text # Gone
    /\ r.op = "delete" =>
          r.arg \in Note /\ r.arg.version < f[r.item] /\ (r.arg.version = 0 <=> r.arg.text = Gone)
    /\ r.pc = "restamp" =>
          r.seen # 0 /\ \A n \in F[r.item] : (n.version = r.seen => n.text = r.keep)

CurrentInv ==
    /\ FacesOK(Faces, fresh)
    /\ RowsTaken(db, Faces, fresh, blurred)
    /\ owner # None => RowsTaken(tx, Faces, fresh, blurred)
    /\ \A p \in Proc : ThreadRead(th[p], Faces, fresh, blurred)

LEMMA Texts ==
    /\ Bad # Poison /\ Bad # Gone /\ Poison # Gone
    /\ \A T \in Topics : T \in Text /\ Parses(T) /\ TopicsOf(T) = T
    /\ \A x \in Text : TopicsOf(x) \in Topics /\ (Parses(x) => x \in Topics)
    /\ Gone \in Text /\ Poison \in Text /\ ~Parses(Gone)
<1>0. Cardinality({Bad, Poison, Gone}) = 3
  BY MetadataOK DEF MetadataOK
<1>1. Bad # Poison /\ Bad # Gone /\ Poison # Gone
  <2>1. ASSUME NEW x, NEW y, {Bad, Poison, Gone} = {x, y} PROVE FALSE
    <3>1. IsFiniteSet({}) /\ Cardinality({}) = 0
      BY FS_EmptySet
    <3>2. IsFiniteSet({x}) /\ Cardinality({x}) = 1
      BY <3>1, FS_AddElement, {x} = {} \cup {x}
    <3>3. Cardinality({x, y}) \in {1, 2}
      BY <3>2, FS_AddElement, {x, y} = {x} \cup {y}
    <3> QED
      BY <2>1, <3>3, <1>0
  <2>2. ASSUME Bad = Poison PROVE FALSE
    BY <2>1, <2>2, {Bad, Poison, Gone} = {Poison, Gone}
  <2>3. ASSUME Bad = Gone PROVE FALSE
    BY <2>1, <2>3, {Bad, Poison, Gone} = {Poison, Gone}
  <2>4. ASSUME Poison = Gone PROVE FALSE
    BY <2>1, <2>4, {Bad, Poison, Gone} = {Bad, Gone}
  <2> QED
    BY <2>2, <2>3, <2>4
<1>2. \A T \in Topics : Parses(T)
  BY MetadataOK DEF MetadataOK
<1> QED
  BY <1>1, <1>2 DEF Text, TopicsOf, Parses, Topics

LEMMA Procs ==
    /\ Repair \in Proc /\ Watchdog \in Proc /\ Callers \subseteq Proc /\ Repair # Watchdog
    /\ Repair \notin Callers /\ Watchdog \notin Callers /\ None \notin Proc /\ None \notin Item
  BY MetadataOK DEF MetadataOK, Proc, Repair, Watchdog

LEMMA Finite == IsFiniteSet(Item) /\ \A S \in SUBSET Item : IsFiniteSet(S) /\ Cardinality(S) \in Nat
  BY MetadataOK, FS_Subset, FS_CardinalityType DEF MetadataOK

(* Counting. *)
LEMMA CountIs ==
    ASSUME NEW D \in Row, NEW t \in Topic
    PROVE  Count(D, t) \in Nat
<1>1. {h \in D.items : t \in D.topics[h]} \in SUBSET Item
  BY DEF Row
<1> QED
  BY <1>1, Finite DEF Count

(* How each operation on the database changes a row of the index. *)
Alike(E, D) == E.items = D.items /\ E.topics = D.topics /\ E.sig = D.sig /\ E.status = D.status /\ E.ready = D.ready
Changed(E, D, h, T, v, s) ==
    /\ E.items = D.items /\ E.ready = D.ready
    /\ E.topics = [D.topics EXCEPT ![h] = T]
    /\ E.sig = [D.sig EXCEPT ![h] = v]
    /\ E.status = [D.status EXCEPT ![h] = s]

LEMMA EnqueuedIs ==
    ASSUME NEW D, RowOK(D), NEW h \in D.items
    PROVE  /\ RowOK(Enqueued(D, h)) /\ Alike(Enqueued(D, h), D)
           /\ Enqueued(D, h).facet = D.facet /\ Enqueued(D, h).dirty = D.dirty \cup {h}
<1> DEFINE E == Enqueued(D, h)
<1>1. D \in Row /\ D.dirty \in SUBSET Item /\ h \in Item /\ D.owed = Cardinality(D.dirty)
  BY DEF RowOK, Row
<1>2. IF h \in D.dirty THEN D.dirty \cup {h} = D.dirty ELSE Cardinality(D.dirty \cup {h}) = D.owed + 1
  BY <1>1, Finite, FS_AddElement
<1>3. E.dirty = D.dirty \cup {h} /\ E.owed = (IF h \in D.dirty THEN D.owed ELSE D.owed + 1)
      /\ Alike(E, D) /\ E.facet = D.facet
  BY <1>1 DEF Enqueued, Alike, Row
<1>4. E.owed = Cardinality(E.dirty) /\ E.dirty \in SUBSET Item /\ E.owed \in Nat
  BY <1>1, <1>2, <1>3, Finite
<1>5. E = [D EXCEPT !.dirty = E.dirty, !.owed = E.owed]
  BY <1>1 DEF Enqueued, Row
<1>6. E \in Row
  <2> HIDE DEF E
  <2> QED
    BY <1>1, <1>4, <1>5 DEF Row
<1> QED
  BY <1>1, <1>3, <1>4, <1>6 DEF RowOK, Alike

LEMMA ClearedIs ==
    ASSUME NEW D, RowOK(D), NEW h \in D.items
    PROVE  /\ RowOK(Cleared(D, h)) /\ Alike(Cleared(D, h), D)
           /\ Cleared(D, h).facet = D.facet /\ Cleared(D, h).dirty = D.dirty \ {h}
<1> DEFINE E == Cleared(D, h)
<1>1. D \in Row /\ D.dirty \in SUBSET Item /\ h \in Item /\ D.owed = Cardinality(D.dirty) /\ D.owed \in Nat
  BY DEF RowOK, Row
<1>2. IF h \in D.dirty THEN Cardinality(D.dirty \ {h}) = D.owed - 1 ELSE D.dirty \ {h} = D.dirty
  BY <1>1, Finite, FS_RemoveElement
<1>2a. D.dirty \ {h} \in SUBSET Item /\ Cardinality(D.dirty \ {h}) \in Nat
  BY <1>1, Finite
<1>3. E.dirty = D.dirty \ {h} /\ E.owed = (IF h \in D.dirty THEN D.owed - 1 ELSE D.owed)
      /\ Alike(E, D) /\ E.facet = D.facet
  BY <1>1 DEF Cleared, Alike, Row
<1>4. E.owed = Cardinality(E.dirty) /\ E.owed \in Nat
  BY <1>1, <1>2, <1>2a, <1>3
<1>5. E = [D EXCEPT !.dirty = E.dirty, !.owed = E.owed]
  BY <1>1 DEF Cleared, Row
<1>6. E \in Row
  <2> HIDE DEF E
  <2> QED
    BY <1>1, <1>4, <1>5, <1>3 DEF Row
<1> QED
  BY <1>1, <1>3, <1>4, <1>6 DEF RowOK, Alike

Put(D, h, T, v, s) == [D EXCEPT !.topics[h] = T, !.sig[h] = v, !.status[h] = s]
LEMMA PutIs ==
    ASSUME NEW D, RowOK(D), NEW h \in D.items, NEW T \in Topics, NEW v \in Version, NEW s \in {"ok", "error"}
    PROVE  /\ RowOK(Put(D, h, T, v, s)) /\ Changed(Put(D, h, T, v, s), D, h, T, v, s)
           /\ Put(D, h, T, v, s).facet = D.facet /\ Put(D, h, T, v, s).dirty = D.dirty
<1> DEFINE E == Put(D, h, T, v, s)
<1>1. D \in Row /\ h \in Item
  BY DEF RowOK, Row
<1>2. /\ E.topics = [D.topics EXCEPT ![h] = T] /\ E.sig = [D.sig EXCEPT ![h] = v]
      /\ E.status = [D.status EXCEPT ![h] = s]
      /\ E.items = D.items /\ E.ready = D.ready /\ E.facet = D.facet /\ E.dirty = D.dirty /\ E.owed = D.owed
  BY <1>1 DEF Row, Put
<1>3. E = [D EXCEPT !.topics = E.topics, !.sig = E.sig, !.status = E.status]
  BY <1>1 DEF Row, Put
<1>4. E.topics \in [Item -> Topics] /\ E.sig \in [Item -> Version] /\ E.status \in [Item -> {"none", "ok", "error"}]
  BY <1>1, <1>2 DEF Row
<1> HIDE DEF E
<1>5. E \in Row
  BY <1>1, <1>3, <1>4 DEF Row
<1>6. RowOK(E)
  BY <1>1, <1>2, <1>5 DEF RowOK, Row
<1> QED
  BY <1>2, <1>6 DEF Changed, E

(* Counts of topics that no change touches are as they were. *)
LEMMA CountSame ==
    ASSUME NEW D \in Row, NEW E \in Row, NEW t \in Topic,
           {h \in E.items : t \in E.topics[h]} = {h \in D.items : t \in D.topics[h]}
    PROVE  Count(E, t) = Count(D, t)
  BY DEF Count

LEMMA RecountRow ==
    ASSUME NEW D \in Row, NEW T
    PROVE  /\ Recount(D, T) \in Row /\ Alike(Recount(D, T), D) /\ Recount(D, T).dirty = D.dirty
           /\ Recount(D, T).owed = D.owed
           /\ \A t \in Topic : Recount(D, T).facet[t] = IF t \in T THEN Count(Recount(D, T), t) ELSE D.facet[t]
<1> DEFINE F == [t \in Topic |-> IF t \in T THEN Count(D, t) ELSE D.facet[t]]
           E == Recount(D, T)
<1>1. F \in [Topic -> Nat] /\ \A t \in Topic : F[t] = IF t \in T THEN Count(D, t) ELSE D.facet[t]
  BY CountIs DEF Row
<1>2. E = [D EXCEPT !.facet = F, !.counted = D.counted \/ T # {}]
  BY DEF Recount, Row
<1> HIDE DEF F, E
<1>3. E \in Row /\ E = [D EXCEPT !.facet = E.facet, !.counted = E.counted]
      /\ \A t \in Topic : E.facet[t] = IF t \in T THEN Count(D, t) ELSE D.facet[t]
  BY <1>1, <1>2 DEF Row
<1>4. Alike(E, D) /\ E.dirty = D.dirty /\ E.owed = D.owed
  BY <1>3 DEF Row, Alike
<1>5. \A t \in Topic : Count(E, t) = Count(D, t)
  BY <1>4 DEF Count, Alike
<1> QED
  BY <1>3, <1>4, <1>5 DEF E

LEMMA RecountOK ==
    ASSUME NEW D, RowOK(D), NEW T
    PROVE  /\ RowOK(Recount(D, T)) /\ Alike(Recount(D, T), D) /\ Recount(D, T).dirty = D.dirty
           /\ \A t \in Topic : Recount(D, T).facet[t] = IF t \in T THEN Count(Recount(D, T), t) ELSE D.facet[t]
<1>1. D \in Row
  BY DEF RowOK
<1> DEFINE E == Recount(D, T)
<1>2. /\ E \in Row /\ Alike(E, D) /\ E.dirty = D.dirty /\ E.owed = D.owed
      /\ \A t \in Topic : E.facet[t] = IF t \in T THEN Count(E, t) ELSE D.facet[t]
  BY <1>1, RecountRow
<1> HIDE DEF E
<1>3. RowOK(E)
  BY <1>2 DEF RowOK, Alike
<1> QED
  BY <1>2, <1>3 DEF E

(* After a reindexing the counts of every topic are as right as before. *)
LEMMA IndexedIs ==
    ASSUME NEW D, RowOK(D), NEW h \in D.items, NEW v \in Version, NEW text \in Text
    PROVE  LET E == Indexed(D, h, v, text) IN
           /\ RowOK(E)
           /\ Changed(E, D, h, TopicsOf(text), v, IF text = Bad THEN "error" ELSE "ok")
           /\ E.dirty = D.dirty \ {h}
           /\ \A t \in Topic : D.facet[t] = Count(D, t) => E.facet[t] = Count(E, t)
<1> DEFINE s == IF text = Bad THEN "error" ELSE "ok"
           A == Put(D, h, TopicsOf(text), v, s)
           B == Recount(A, D.topics[h] \cup TopicsOf(text))
           E == Cleared(B, h)
<1>1. TopicsOf(text) \in Topics /\ s \in {"ok", "error"} /\ D \in Row /\ h \in Item
  BY Texts DEF RowOK, Row
<1>2. RowOK(A) /\ Changed(A, D, h, TopicsOf(text), v, s) /\ A.facet = D.facet /\ A.dirty = D.dirty
  <2> HIDE DEF s
  <2> QED
    BY <1>1, PutIs
<1>3. /\ RowOK(B) /\ Alike(B, A) /\ B.dirty = A.dirty
      /\ \A t \in Topic : B.facet[t] = IF t \in D.topics[h] \cup TopicsOf(text) THEN Count(B, t) ELSE A.facet[t]
  <2> HIDE DEF A
  <2> QED
    BY <1>2, RecountOK
<1>4. RowOK(E) /\ Alike(E, B) /\ E.facet = B.facet /\ E.dirty = B.dirty \ {h}
  <2> h \in B.items
    BY <1>2, <1>3 DEF Changed, Alike
  <2> HIDE DEF B
  <2> QED
    BY <1>3, ClearedIs
<1>5. E = Indexed(D, h, v, text)
  BY DEF Indexed, Put
<1> HIDE DEF A, B, E
<1>6. Changed(E, D, h, TopicsOf(text), v, s)
  BY <1>2, <1>3, <1>4 DEF Changed, Alike
<1>7. ASSUME NEW t \in Topic, D.facet[t] = Count(D, t) PROVE E.facet[t] = Count(E, t)
  <2>1. Count(E, t) = Count(B, t)
    BY <1>4 DEF Alike, Count
  <2>2. CASE t \in D.topics[h] \cup TopicsOf(text)
    BY <2>1, <2>2, <1>3, <1>4
  <2>3. CASE t \notin D.topics[h] \cup TopicsOf(text)
    <3>1. \A g \in E.items : t \in E.topics[g] <=> t \in D.topics[g]
      BY <1>1, <1>6, <2>3 DEF Changed, Row
    <3>2. Count(E, t) = Count(D, t)
      <4>1. {g \in E.items : t \in E.topics[g]} = {g \in D.items : t \in D.topics[g]}
        BY <3>1, <1>6 DEF Changed
      <4>2. E \in Row
        BY <1>4 DEF RowOK
      <4> QED
        BY <4>1, <4>2, <1>1, CountSame, Zenon
    <3> QED
      BY <3>2, <2>3, <1>2, <1>3, <1>4, <1>7
  <2> QED
    BY <2>2, <2>3
<1>8. E.dirty = D.dirty \ {h}
  BY <1>2, <1>3, <1>4
<1> QED
  BY <1>4, <1>5, <1>6, <1>7, <1>8

LEMMA MarkedIs ==
    ASSUME NEW D, RowOK(D), NEW h \in D.items, NEW v \in Version
    PROVE  LET E == Marked(D, h, v) IN
           /\ RowOK(E) /\ Changed(E, D, h, D.topics[h], v, "error")
           /\ E.dirty = D.dirty /\ E.facet = D.facet
<1> DEFINE E == Marked(D, h, v)
<1>1. D \in Row /\ h \in Item
  BY DEF RowOK, Row
<1>2. /\ E.topics = D.topics /\ E.sig = [D.sig EXCEPT ![h] = v]
      /\ E.status = [D.status EXCEPT ![h] = "error"]
      /\ E.items = D.items /\ E.ready = D.ready /\ E.facet = D.facet /\ E.dirty = D.dirty /\ E.owed = D.owed
      /\ E = [D EXCEPT !.sig = E.sig, !.status = E.status]
  BY <1>1 DEF Row, Marked
<1>3. E.sig \in [Item -> Version] /\ E.status \in [Item -> {"none", "ok", "error"}]
  BY <1>1, <1>2 DEF Row
<1> HIDE DEF E
<1>4. E \in Row
  BY <1>1, <1>2, <1>3 DEF Row
<1>5. D.topics = [D.topics EXCEPT ![h] = D.topics[h]]
  BY <1>1 DEF Row
<1> QED
  BY <1>1, <1>2, <1>4, <1>5 DEF RowOK, Changed, E, Row

(* The other changes of the database. *)
Grown(D, h) == [D EXCEPT !.items = @ \cup {h}]
LEMMA GrownIs ==
    ASSUME NEW D, RowOK(D), NEW h \in Item \ D.items
    PROVE  LET E == Grown(D, h) IN
           /\ RowOK(E) /\ E.items = D.items \cup {h} /\ E.topics = D.topics /\ E.sig = D.sig
           /\ E.status = D.status /\ E.ready = D.ready /\ E.dirty = D.dirty
           /\ \A t \in Topic : D.facet[t] = Count(D, t) => E.facet[t] = Count(E, t)
<1> DEFINE E == Grown(D, h)
<1>1. D \in Row /\ D.topics[h] = {}
  BY DEF RowOK, Row
<1>2. /\ E.items = D.items \cup {h} /\ E.topics = D.topics /\ E.sig = D.sig /\ E.status = D.status
      /\ E.ready = D.ready /\ E.dirty = D.dirty /\ E.facet = D.facet /\ E.owed = D.owed
      /\ E = [D EXCEPT !.items = E.items]
  BY <1>1 DEF Row, Grown
<1> HIDE DEF E
<1>3. E \in Row
  BY <1>1, <1>2 DEF Row
<1>4. RowOK(E)
  BY <1>1, <1>2, <1>3 DEF RowOK
<1>5. ASSUME NEW t \in Topic PROVE Count(E, t) = Count(D, t)
  <2>1. {g \in E.items : t \in E.topics[g]} = {g \in D.items : t \in D.topics[g]}
    BY <1>1, <1>2
  <2> QED
    BY <2>1, <1>1, <1>3, CountSame
<1> QED
  BY <1>2, <1>4, <1>5 DEF E

LEMMA WithoutIs ==
    ASSUME NEW D \in Row, NEW h \in Item
    PROVE  LET E == Without(D, h) IN
           /\ E \in Row /\ E.items = D.items \ {h} /\ E.dirty = D.dirty \ {h}
           /\ E.topics = [D.topics EXCEPT ![h] = {}] /\ E.sig = [D.sig EXCEPT ![h] = 0]
           /\ E.status = [D.status EXCEPT ![h] = "none"] /\ E.ready = D.ready /\ E.facet = D.facet
<1> DEFINE E == Without(D, h)
<1>1. /\ E.items = D.items \ {h} /\ E.dirty = D.dirty \ {h}
      /\ E.topics = [D.topics EXCEPT ![h] = {}] /\ E.sig = [D.sig EXCEPT ![h] = 0]
      /\ E.status = [D.status EXCEPT ![h] = "none"] /\ E.ready = D.ready /\ E.facet = D.facet
      /\ E = [D EXCEPT !.items = E.items, !.dirty = E.dirty, !.topics = E.topics, !.sig = E.sig,
                       !.status = E.status]
  BY DEF Row, Without
<1>2. E.topics \in [Item -> Topics] /\ E.sig \in [Item -> Version] /\ E.status \in [Item -> {"none", "ok", "error"}]
  BY <1>1 DEF Row, Version, Topics
<1> HIDE DEF E
<1>3. E \in Row
  BY <1>1, <1>2 DEF Row
<1> QED
  BY <1>1, <1>3 DEF E

LEMMA RefreshedIs ==
    ASSUME NEW D \in Row, D.dirty \subseteq D.items,
           \A h \in Item \ D.items : D.status[h] = "none" /\ D.topics[h] = {}
    PROVE  RowOK(Refreshed(D)) /\ Alike(Refreshed(D), D) /\ Refreshed(D).dirty = D.dirty
           /\ Refreshed(D).facet = D.facet
<1> DEFINE E == Refreshed(D)
<1>1. Cardinality(D.dirty) \in Nat
  BY Finite DEF Row
<1>2. /\ Alike(E, D) /\ E.dirty = D.dirty /\ E.facet = D.facet /\ E.owed = Cardinality(D.dirty)
      /\ E = [D EXCEPT !.owed = E.owed]
  BY DEF Row, Refreshed, Alike
<1> HIDE DEF E
<1>3. E \in Row
  BY <1>1, <1>2 DEF Row
<1>4. RowOK(E)
  BY <1>2, <1>3 DEF RowOK, Alike
<1> QED
  BY <1>2, <1>4 DEF E

Shrunk(E, D, h) ==
    /\ E.items = D.items \ {h} /\ E.dirty = D.dirty \ {h}
    /\ E.topics = [D.topics EXCEPT ![h] = {}] /\ E.sig = [D.sig EXCEPT ![h] = 0]
    /\ E.status = [D.status EXCEPT ![h] = "none"] /\ E.ready = D.ready
LEMMA DroppedIs ==
    ASSUME NEW D, RowOK(D), NEW h \in Item, NEW T \in Topics
    PROVE  /\ RowOK(Dropped(D, h, T)) /\ Shrunk(Dropped(D, h, T), D, h)
           /\ \A t \in Topic : D.facet[t] = Count(D, t) /\ t \notin D.topics[h] \ T =>
                 Dropped(D, h, T).facet[t] = Count(Dropped(D, h, T), t)
<1> DEFINE A == Without(D, h)
           B == Recount(A, T)
           E == Refreshed(B)
<1>1. D \in Row
  BY DEF RowOK
<1>2. /\ A \in Row /\ A.items = D.items \ {h} /\ A.dirty = D.dirty \ {h}
      /\ A.topics = [D.topics EXCEPT ![h] = {}] /\ A.sig = [D.sig EXCEPT ![h] = 0]
      /\ A.status = [D.status EXCEPT ![h] = "none"] /\ A.ready = D.ready /\ A.facet = D.facet
  BY <1>1, WithoutIs
<1>3. /\ B \in Row /\ Alike(B, A) /\ B.dirty = A.dirty
      /\ \A t \in Topic : B.facet[t] = IF t \in T THEN Count(B, t) ELSE A.facet[t]
  <2> HIDE DEF A
  <2> QED
    BY <1>2, RecountRow
<1>4. RowOK(E) /\ Alike(E, B) /\ E.dirty = B.dirty /\ E.facet = B.facet
  <2>1. B.dirty \subseteq B.items
    BY <1>2, <1>3 DEF Alike, RowOK
  <2>2. \A g \in Item \ B.items : B.status[g] = "none" /\ B.topics[g] = {}
    BY <1>1, <1>2, <1>3 DEF Alike, RowOK, Row
  <2> HIDE DEF B
  <2> QED
    BY <1>3, <2>1, <2>2, RefreshedIs
<1>5. E = Dropped(D, h, T)
  BY DEF Dropped
<1> HIDE DEF A, B, E
<1>6. ASSUME NEW t \in Topic, D.facet[t] = Count(D, t), t \notin D.topics[h] \ T PROVE E.facet[t] = Count(E, t)
  <2>1. Count(E, t) = Count(B, t)
    BY <1>4 DEF Alike, Count
  <2>2. CASE t \in T
    BY <2>1, <2>2, <1>3, <1>4
  <2>3. CASE t \notin T
    <3>1. {g \in B.items : t \in B.topics[g]} = {g \in D.items : t \in D.topics[g]}
      BY <1>1, <1>2, <1>3, <1>6, <2>3 DEF Alike, Row
    <3>2. Count(B, t) = Count(D, t)
      BY <3>1, <1>1, <1>3, CountSame
    <3> QED
      BY <3>2, <2>1, <2>3, <1>2, <1>3, <1>4, <1>6
  <2> QED
    BY <2>2, <2>3
<1>7. Shrunk(E, D, h)
  BY <1>2, <1>3, <1>4 DEF Alike, Shrunk
<1> QED
  BY <1>4, <1>5, <1>6, <1>7

LEMMA StoredIs ==
    ASSUME NEW D, RowOK(D), NEW R \in SUBSET Entry, Fits(D, R)
    PROVE  LET E == Stored(D, R) IN
           /\ RowOK(E) /\ E.items = D.items /\ E.dirty = D.dirty /\ E.ready = D.ready
           /\ \A h \in Item : IF HasRow(R, h)
                 THEN \E r \in R : r.item = h /\ E.sig[h] = r.version /\ E.topics[h] = TopicsOf(r.text)
                                   /\ E.status[h] = IF r.text = Bad THEN "error" ELSE "ok"
                 ELSE E.sig[h] = D.sig[h] /\ E.topics[h] = D.topics[h] /\ E.status[h] = D.status[h]
<1> DEFINE E == Stored(D, R)
           T == [h \in Item |-> IF HasRow(R, h) THEN TopicsOf(RowOf(R, h).text) ELSE D.topics[h]]
           V == [h \in Item |-> IF HasRow(R, h) THEN RowOf(R, h).version ELSE D.sig[h]]
           S == [h \in Item |-> IF HasRow(R, h)
                                    THEN (IF RowOf(R, h).text = Bad THEN "error" ELSE "ok")
                                    ELSE D.status[h]]
<1>1. D \in Row
  BY DEF RowOK
<1>2. ASSUME NEW h \in Item, HasRow(R, h) PROVE RowOf(R, h) \in R /\ RowOf(R, h).item = h
  BY <1>2 DEF HasRow, RowOf
<1>3. E = [D EXCEPT !.topics = T, !.sig = V, !.status = S]
  BY <1>1 DEF Row, Stored
<1>4. \A r \in R : r \in Entry /\ TopicsOf(r.text) \in Topics
  BY Texts DEF Entry
<1>5. T \in [Item -> Topics] /\ \A h \in Item : T[h] = IF HasRow(R, h) THEN TopicsOf(RowOf(R, h).text) ELSE D.topics[h]
  BY <1>1, <1>2, <1>4 DEF Row
<1>6. V \in [Item -> Version] /\ \A h \in Item : V[h] = IF HasRow(R, h) THEN RowOf(R, h).version ELSE D.sig[h]
  BY <1>1, <1>2, <1>4 DEF Row, Entry
<1>7. /\ S \in [Item -> {"none", "ok", "error"}]
      /\ \A h \in Item : S[h] = IF HasRow(R, h) THEN (IF RowOf(R, h).text = Bad THEN "error" ELSE "ok") ELSE D.status[h]
  BY <1>1 DEF Row
<1> HIDE DEF T, V, S, E
<1>8. /\ E \in Row /\ E.topics = T /\ E.sig = V /\ E.status = S /\ E.items = D.items /\ E.dirty = D.dirty
      /\ E.ready = D.ready /\ E.owed = D.owed
  BY <1>1, <1>3, <1>5, <1>6, <1>7 DEF Row
<1>9. \A h \in Item : HasRow(R, h) => h \in D.items
  BY <1>2 DEF Fits
<1>10. RowOK(E)
  BY <1>5, <1>7, <1>8, <1>9 DEF RowOK
<1>11. ASSUME NEW h \in Item
       PROVE  IF HasRow(R, h)
                 THEN \E r \in R : r.item = h /\ E.sig[h] = r.version /\ E.topics[h] = TopicsOf(r.text)
                                   /\ E.status[h] = IF r.text = Bad THEN "error" ELSE "ok"
                 ELSE E.sig[h] = D.sig[h] /\ E.topics[h] = D.topics[h] /\ E.status[h] = D.status[h]
  BY <1>2, <1>5, <1>6, <1>7, <1>8
<1> QED
  BY <1>8, <1>10, <1>11 DEF E

LEMMA EmptiedIs ==
    ASSUME NEW D, RowOK(D)
    PROVE  LET E == Emptied(D) IN
           /\ RowOK(E) /\ E.items = D.items /\ E.dirty = {} /\ E.ready = FALSE
           /\ \A h \in Item : E.sig[h] = 0 /\ E.topics[h] = {} /\ E.status[h] = "none"
<1> DEFINE E == Emptied(D)
           T == [h \in Item |-> {}]
           V == [h \in Item |-> 0]
           S == [h \in Item |-> "none"]
           F == [t \in Topic |-> 0]
<1>1. D \in Row
  BY DEF RowOK
<1>2. E = [D EXCEPT !.ready = FALSE, !.counted = FALSE, !.dirty = {}, !.owed = 0, !.topics = T, !.sig = V,
                    !.status = S, !.facet = F]
  BY <1>1 DEF Row, Emptied
<1>3. /\ T \in [Item -> Topics] /\ V \in [Item -> Version] /\ S \in [Item -> {"none", "ok", "error"}]
      /\ F \in [Topic -> Nat] /\ \A h \in Item : T[h] = {} /\ V[h] = 0 /\ S[h] = "none"
  BY DEF Topics, Version
<1> HIDE DEF T, V, S, F, E
<1>4. /\ E \in Row /\ E.items = D.items /\ E.dirty = {} /\ E.ready = FALSE /\ E.topics = T /\ E.sig = V
      /\ E.status = S /\ E.owed = 0
  BY <1>1, <1>2, <1>3 DEF Row
<1>5. RowOK(E)
  BY <1>3, <1>4, FS_EmptySet DEF RowOK
<1> QED
  BY <1>3, <1>4, <1>5 DEF E

(* A rename ends; so does a full rebuild. *)
LEMMA SettledIs ==
    ASSUME NEW D, RowOK(D), NEW T
    PROVE  LET E == Refreshed(Recount(D, T)) IN
           /\ RowOK(E) /\ Alike(E, D) /\ E.dirty = D.dirty
           /\ \A t \in Topic : t \in T \/ D.facet[t] = Count(D, t) => E.facet[t] = Count(E, t)
<1> DEFINE B == Recount(D, T)
           E == Refreshed(B)
<1>1. /\ RowOK(B) /\ Alike(B, D) /\ B.dirty = D.dirty
      /\ \A t \in Topic : B.facet[t] = IF t \in T THEN Count(B, t) ELSE D.facet[t]
  BY RecountOK
<1>2. RowOK(E) /\ Alike(E, B) /\ E.dirty = B.dirty /\ E.facet = B.facet
  <2> HIDE DEF B
  <2>1. B \in Row /\ B.dirty \subseteq B.items /\ \A h \in Item \ B.items : B.status[h] = "none" /\ B.topics[h] = {}
    BY <1>1 DEF RowOK
  <2> QED
    BY <2>1, RefreshedIs
<1> HIDE DEF B, E
<1>3. \A t \in Topic : Count(E, t) = Count(D, t) /\ Count(B, t) = Count(D, t)
  BY <1>1, <1>2 DEF Alike, Count
<1> QED
  BY <1>1, <1>2, <1>3 DEF Alike, E, B

Complete(D) == [Refreshed(RecountAll(D)) EXCEPT !.ready = TRUE]
LEMMA CompleteIs ==
    ASSUME NEW D, RowOK(D)
    PROVE  LET E == Complete(D) IN
           /\ RowOK(E) /\ E.items = D.items /\ E.topics = D.topics /\ E.sig = D.sig /\ E.status = D.status
           /\ E.ready = TRUE /\ E.dirty = D.dirty
           /\ \A t \in Topic : E.facet[t] = Count(E, t)
<1> DEFINE A == Recount(D, Topic)
           B == RecountAll(D)
           C == Refreshed(B)
           E == Complete(D)
<1>1. /\ RowOK(A) /\ Alike(A, D) /\ A.dirty = D.dirty /\ \A t \in Topic : A.facet[t] = Count(A, t)
  BY RecountOK
<1>2. /\ B \in Row /\ B.items = A.items /\ B.topics = A.topics /\ B.sig = A.sig /\ B.status = A.status
      /\ B.ready = A.ready /\ B.dirty = A.dirty /\ B.facet = A.facet
  <2>1. B = [A EXCEPT !.counted = TRUE]
    BY DEF RecountAll
  <2> HIDE DEF A, B
  <2> QED
    BY <1>1, <2>1 DEF RowOK, Row
<1>3. RowOK(C) /\ Alike(C, B) /\ C.dirty = B.dirty /\ C.facet = B.facet
  <2> HIDE DEF A, B
  <2>1. B.dirty \subseteq B.items /\ \A h \in Item \ B.items : B.status[h] = "none" /\ B.topics[h] = {}
    BY <1>1, <1>2 DEF RowOK
  <2> QED
    BY <1>2, <2>1, RefreshedIs
<1>4. E = [C EXCEPT !.ready = TRUE]
  BY DEF Complete
<1> HIDE DEF A, B, C, E
<1>5. /\ E \in Row /\ E.items = C.items /\ E.topics = C.topics /\ E.sig = C.sig /\ E.status = C.status
      /\ E.ready = TRUE /\ E.dirty = C.dirty /\ E.facet = C.facet /\ E.owed = C.owed
  BY <1>3, <1>4 DEF RowOK, Row
<1>6. RowOK(E)
  BY <1>3, <1>5 DEF RowOK
<1>7. \A t \in Topic : Count(E, t) = Count(A, t)
  BY <1>2, <1>3, <1>5 DEF Alike, Count
<1> QED
  BY <1>1, <1>2, <1>3, <1>5, <1>6, <1>7 DEF Alike, E

-----------------------------------------------------------------------------
(***************************************************************************)
(* Types and locks.  A step is one of a thread: it changes what that       *)
(* thread does, and the database only if the thread may write.             *)
(***************************************************************************)
Others(p) == DOMAIN th' = Proc /\ \A q \in Proc : q # p => th'[q] = th[q]
StoreStep(p) ==
    /\ StoreOK'
    /\ owner \notin {None, p} => UNCHANGED <<db, tx, owner>>
    /\ owner \in {None, p} => owner' \in {None, p}
    /\ \A h \in Item : h \in db.items /\ h \notin db'.items =>
          p \in Callers /\ th[p].op = "delete" /\ th[p].item = h
Locks(p) ==
    \A h \in Item : HeldBy(th'[p], h) => HeldBy(th[p], h) \/ (p \in Callers /\ Unlocked(p, h))
Runs(p) == IF p = Repair THEN (running' <=> th'[p].op # "none") ELSE running' = running
Step(p) ==
    /\ Others(p) /\ StoreStep(p) /\ Shape(p, th'[p]) /\ Working(p)' /\ Locks(p)
    /\ DiskOK' /\ Runs(p)

LEMMA HoldsIs ==
    ASSUME ThreadsOK, NEW q \in Callers, NEW h \in Item
    PROVE  h \in Holds(q) <=> HeldBy(th[q], h)
<1>1. Shape(q, th[q])
  BY Procs DEF ThreadsOK
<1>2. CASE th[q].op = "patch"
  BY <1>2 DEF Holds, HeldBy
<1>3. CASE th[q].op \in {"delete", "rename"}
  BY <1>3 DEF Holds, HeldBy
<1>4. CASE th[q].op \notin {"patch", "delete", "rename"}
  BY <1>4 DEF Holds, HeldBy
<1> QED
  BY <1>2, <1>3, <1>4

LEMMA StepKeeps ==
    ASSUME TypeInv, NEW p \in Proc, Step(p)
    PROVE  TypeInv'
<1>1. DOMAIN th' = Proc /\ (\A q \in Proc : q # p => th'[q] = th[q]) /\ Shape(p, th'[p])
  BY DEF Step, Others
<1>2. ThreadsOK'
  BY <1>1 DEF TypeInv, ThreadsOK
<1>3. ASSUME NEW q \in Proc, q # p PROVE Working(q)'
  <2>1. th'[q] = th[q] /\ Working(q) /\ Shape(q, th[q]) /\ StoreOK /\ StoreOK' /\ StoreStep(p)
    BY <1>1, <1>3 DEF TypeInv, WorkOK, ThreadsOK, Step, StoreStep
  <2>2. CASE owner \notin {None, p}
    BY <2>1, <2>2 DEF StoreStep, Working, View
  <2>3. CASE owner \in {None, p}
    <3>1. owner # q /\ owner' # q
      BY <2>1, <2>3, <1>3, Procs DEF StoreStep
    <3>2. ASSUME NEW h \in Item, h \in db.items, HeldBy(th[q], h), q \in Callers PROVE h \in db'.items
      <4>1. CASE h \notin db'.items
        <5>1. p \in Callers /\ HeldBy(th[p], h)
          BY <2>1, <3>2, <4>1 DEF StoreStep, HeldBy
        <5> QED
          BY <5>1, <3>2, <1>3 DEF TypeInv, Exclusive
      <4> QED
        BY <4>1
    <3>3. th[q].pc \in {"restamp", "drop"} => q \in Callers /\ th[q].item \in Item /\ HeldBy(th[q], th[q].item)
      BY <2>1 DEF Shape, HeldBy, At, Does, Call
    <3>3a. th[q].op = "delete" => th[q].pc = "drop"
      BY <2>1 DEF Shape, At, Call
    <3>4. th[q].pc = "restamp" => th[q].item \in db'.items
      BY <2>1, <3>1, <3>2, <3>3 DEF Working, View
    <3>5. th[q].op = "delete" => th[q].item \in db'.items
      BY <2>1, <3>1, <3>2, <3>3, <3>3a DEF Working, View
    <3> QED
      BY <2>1, <3>1, <3>4, <3>5 DEF Working, View
  <2> QED
    BY <2>2, <2>3
<1>4. WorkOK'
  <2>1. running' <=> th'[Repair].op # "none"
    BY <1>1, Procs DEF Step, Runs, TypeInv, WorkOK
  <2> QED
    BY <2>1, <1>3 DEF Step, WorkOK
<1>5. ASSUME NEW q \in Callers, NEW h \in Item, q # p, p \in Callers, HeldBy(th'[p], h), HeldBy(th'[q], h)
      PROVE  FALSE
  <2>1. q \in Proc /\ th'[q] = th[q] /\ HeldBy(th[q], h)
    BY <1>1, <1>5, Procs
  <2>2. CASE HeldBy(th[p], h)
    BY <2>1, <2>2, <1>5 DEF TypeInv, Exclusive
  <2>3. CASE Unlocked(p, h)
    BY <2>1, <2>3, <1>5, HoldsIs DEF Unlocked, TypeInv
  <2> QED
    BY <2>2, <2>3, <1>5 DEF Step, Locks
<1>6. Exclusive'
  <2> SUFFICES ASSUME NEW q \in Callers, NEW r \in Callers, NEW h \in Item, HeldBy(th'[q], h), HeldBy(th'[r], h), q # r
               PROVE  FALSE
    BY DEF Exclusive
  <2>1. CASE q = p
    BY <2>1, <1>5
  <2>2. CASE r = p
    BY <2>2, <1>5
  <2>3. CASE q # p /\ r # p
    <3>1. th'[q] = th[q] /\ th'[r] = th[r]
      BY <2>3, <1>1, Procs
    <3> QED
      BY <3>1 DEF TypeInv, Exclusive
  <2> QED
    BY <2>1, <2>2, <2>3
<1> QED
  BY <1>2, <1>4, <1>6 DEF TypeInv, Step, StoreStep

(* What a thread may do with the database. *)
LEMMA ViewIs ==
    ASSUME StoreOK, NEW p \in Proc
    PROVE  RowOK(View(p)) /\ db.items \subseteq View(p).items /\ (owner # p => View(p) = db)
  BY Procs DEF StoreOK, View

LEMMA Untouched ==
    ASSUME StoreOK, NEW p \in Proc, UNCHANGED <<db, tx, owner>>
    PROVE  StoreStep(p)
  BY DEF StoreOK, StoreStep, RowOK

LEMMA Writing ==
    ASSUME StoreOK, NEW p \in Proc, NEW D, CanWrite(p), Writes(p, D), db' = db, RowOK(D), db.items \subseteq D.items
    PROVE  StoreStep(p)
<1>1. D # None
  BY NoneIsNoRow DEF RowOK
<1> QED
  BY <1>1, Procs DEF StoreOK, StoreStep, RowOK, Writes, CanWrite

LEMMA Committing ==
    ASSUME StoreOK, NEW p \in Proc, NEW D, CanWrite(p), Commit(D), RowOK(D),
           \A h \in Item : h \in db.items /\ h \notin D.items => p \in Callers /\ th[p].op = "delete" /\ th[p].item = h
    PROVE  StoreStep(p)
  BY Procs DEF StoreOK, StoreStep, RowOK, Commit, CanWrite

LEMMA RollingBack ==
    ASSUME StoreOK, NEW p \in Proc, Rollback(p)
    PROVE  StoreStep(p)
<1>1. CASE owner = p
  BY <1>1, Procs DEF StoreOK, StoreStep, RowOK, Rollback
<1>2. CASE owner # p
  BY <1>2, Untouched DEF Rollback
<1> QED
  BY <1>1, <1>2

LEMMA Becoming ==
    ASSUME ThreadsOK, NEW p \in Proc, NEW r, Become(p, r)
    PROVE  Others(p) /\ th'[p] = r
  BY DEF ThreadsOK, Become, Others

LEMMA IdleOK ==
    ASSUME NEW p \in Proc
    PROVE  Shape(p, Idle) /\ \A h : ~HeldBy(Idle, h)
  BY DEF Shape, Idle, Thread, At, Does, HeldBy, Version

(* A thread that has ended holds nothing. *)
LEMMA Ending ==
    ASSUME TypeInv, NEW p \in Proc, Become(p, Idle), StoreStep(p), owner' # p, DiskOK',
           IF p = Repair THEN ~running' ELSE running' = running
    PROVE  Step(p)
<1>1. Others(p) /\ th'[p] = Idle
  BY Becoming DEF TypeInv
<1>2. Working(p)'
  BY <1>1 DEF Working, Idle
<1>3. Locks(p)
  BY <1>1, IdleOK DEF Locks
<1>4. Runs(p)
  BY <1>1 DEF Runs, Idle
<1> QED
  BY <1>1, <1>2, <1>3, <1>4, IdleOK DEF Step

-----------------------------------------------------------------------------
(* Every action of a thread is such a step. *)
LEMMA WrittenIs ==
    ASSUME DiskOK, NEW h \in Item, NEW text \in Text, Written(h, text)
    PROVE  /\ note' \in [Item -> Note] /\ fresh' \in [Item -> Version] /\ events' \subseteq Item
           /\ note'[h] = [version |-> fresh[h], text |-> text] /\ fresh'[h] = fresh[h] + 1
           /\ \A g \in Item : g # h => note'[g] = note[g] /\ fresh'[g] = fresh[g]
  BY DEF DiskOK, Written, Note, Version

LEMMA RemovedIs ==
    ASSUME DiskOK, NEW h \in Item, Removed(h)
    PROVE  /\ note' \in [Item -> Note] /\ fresh' = fresh /\ events' \subseteq Item
           /\ note'[h] = [version |-> 0, text |-> Gone]
           /\ \A g \in Item : g # h => note'[g] = note[g]
  BY Texts DEF DiskOK, Removed, Note, Version

LEMMA EnqueueStep ==
    ASSUME TypeInv, NEW p \in Proc, NEW h \in Item, Enqueue(p, h)
    PROVE  Step(p) /\ RowOK(View(p)) /\ h \in View(p).items /\ RowOK(Enqueued(View(p), h))
<1> DEFINE D == View(p)
           E == Enqueued(D, h)
           r == [th[p] EXCEPT !.pc = "read", !.item = h, !.seen = note[h].version, !.todo = @ \ {h}]
<1>1. RowOK(D) /\ db.items \subseteq D.items /\ h \in D.items /\ CanWrite(p) /\ Writes(p, E) /\ db' = db
      /\ Become(p, r) /\ th[p].pc = "next" /\ h \in th[p].todo /\ Shape(p, th[p]) /\ Working(p)
  BY ViewIs DEF TypeInv, Enqueue, ThreadsOK, WorkOK
<1>2. RowOK(E) /\ Alike(E, D) /\ E.facet = D.facet /\ E.dirty = D.dirty \cup {h}
  BY <1>1, EnqueuedIs
<1>3. r.op = th[p].op /\ r.pc = "read" /\ r.item = h /\ r.keep = th[p].keep /\ r.arg = th[p].arg
      /\ r.todo = th[p].todo \ {h} /\ Shape(p, r)
  <2>1. note[h].version \in Version
    BY DEF TypeInv, DiskOK, Note
  <2> QED
    BY <1>1, <2>1 DEF Shape, Thread, At, Version, Call
<1>4. Others(p) /\ th'[p] = r
  BY <1>1, Becoming DEF TypeInv
<1> HIDE DEF r, D, E
<1>5. StoreStep(p)
  BY <1>1, <1>2, Writing DEF TypeInv, Alike
<1>6. Working(p)'
  <2>1. th'[p].pc = "read" /\ th'[p].op = th[p].op /\ th'[p].item = h /\ th'[p].keep = th[p].keep
    BY <1>3, <1>4
  <2>2. owner' = p /\ h \in tx'.items /\ h \in tx'.dirty
    BY <1>1, <1>2 DEF Writes, Alike
  <2>3. th[p].op # "delete"
    BY <1>1 DEF Shape, At, Call
  <2> QED
    BY <1>1, <2>1, <2>2, <2>3 DEF Working
<1>7. Locks(p)
  BY <1>1, <1>3, <1>4 DEF Locks, HeldBy, Shape, At, Call
<1>8. DiskOK'
  BY DEF TypeInv, DiskOK, Enqueue, disk, watch
<1>9. Runs(p)
  BY <1>1, <1>3, <1>4 DEF Enqueue, Runs, TypeInv, WorkOK
<1> QED
  BY <1>1, <1>2, <1>3, <1>4, <1>5, <1>6, <1>7, <1>8, <1>9 DEF Step, D, E

LEMMA ReadStep ==
    ASSUME TypeInv, NEW p \in Proc, Read(p)
    PROVE  /\ Step(p) /\ owner = p /\ owner' = p /\ db' = db /\ RowOK(tx)
           /\ th[p].item \in Item /\ th[p].item \in tx.items
<1> DEFINE h == th[p].item
           n == note[h]
           M == Marked(tx, h, n.version)
           X == Indexed(tx, h, th[p].seen, n.text)
           r == [th[p] EXCEPT !.pc = "next", !.item = None, !.seen = 0]
<1>1. /\ th[p].pc = "read" /\ Become(p, r) /\ Shape(p, th[p]) /\ Working(p) /\ StoreOK /\ DiskOK
      /\ UNCHANGED <<db, owner>> /\ tx' = IF n.text = Poison THEN M ELSE X
  BY DEF TypeInv, Read, ThreadsOK, WorkOK
<1>2. owner = p /\ h \in tx.items /\ RowOK(tx) /\ h \in Item /\ n \in Note /\ th[p].seen \in Version
      /\ db.items \subseteq tx.items
  BY <1>1, Procs DEF Working, StoreOK, DiskOK, Shape, Thread
<1>3. n.version \in Version /\ n.text \in Text
  BY <1>2 DEF Note
<1> HIDE DEF n
<1>4. RowOK(M) /\ M.items = tx.items
  BY <1>2, <1>3, MarkedIs DEF Changed
<1>5. RowOK(X) /\ X.items = tx.items
  <2> DEFINE s == IF n.text = Bad THEN "error" ELSE "ok"
  <2>1. RowOK(X) /\ Changed(X, tx, h, TopicsOf(n.text), th[p].seen, s)
    BY <1>2, <1>3, IndexedIs
  <2> HIDE DEF s, X
  <2> QED
    BY <2>1 DEF Changed
<1>6. RowOK(tx') /\ tx'.items = tx.items
  <2> HIDE DEF M, X
  <2> QED
    BY <1>1, <1>4, <1>5
<1>7. StoreStep(p)
  BY <1>1, <1>2, <1>6, Writing DEF Writes, CanWrite
<1>8. Others(p) /\ th'[p] = r
  BY <1>1, Becoming DEF TypeInv
<1>9. Shape(p, r) /\ r.op = th[p].op /\ r.pc = "next" /\ r.todo = th[p].todo /\ r.item = None /\ r.keep = th[p].keep
  BY <1>1, Procs DEF Shape, Thread, At, Version, Call
<1> HIDE DEF r
<1>10. Working(p)'
  BY <1>1, <1>2, <1>8, <1>9 DEF Working, Shape, At, Call
<1>11. Locks(p)
  BY <1>1, <1>8, <1>9, Procs DEF Locks, HeldBy, Shape, At, Call
<1>12. DiskOK'
  BY <1>1 DEF Read, DiskOK, disk, watch
<1>13. Runs(p)
  BY <1>1, <1>8, <1>9 DEF Read, Runs, TypeInv, WorkOK
<1> QED
  BY <1>1, <1>2, <1>7, <1>8, <1>9, <1>10, <1>11, <1>12, <1>13 DEF Step

(* The repair worker. *)
LEMMA RepairStays ==
    ASSUME TypeInv, NEW r, Become(Repair, r), UNCHANGED <<db, tx, owner>>, DiskOK',
           Shape(Repair, r), r.op # "none", running', r.pc # "read", r.pc # "start" \/ owner # Repair
    PROVE  Step(Repair)
<1>1. Others(Repair) /\ th'[Repair] = r
  BY Becoming, Procs DEF TypeInv
<1>2. StoreStep(Repair)
  BY Untouched, Procs DEF TypeInv
<1>3. r.pc \notin {"idle", "drop", "unlink", "restamp"} /\ r.op \notin {"flush", "patch", "detail", "insert", "delete", "rename"}
  BY Procs DEF Shape, At, Does, Call, Repair, Watchdog
<1>4. Locks(Repair)
  BY <1>1, <1>3 DEF Locks, HeldBy
<1>5. Runs(Repair)
  BY <1>1 DEF Runs, TypeInv, DiskOK
<1>6. Working(Repair)'
  BY <1>1, <1>3 DEF Working
<1> QED
  BY <1>1, <1>2, <1>4, <1>5, <1>6 DEF Step

LEMMA RepairIs ==
    ASSUME TypeInv
    PROVE  Repair \in Proc /\ Shape(Repair, th[Repair]) /\ Working(Repair) /\ StoreOK /\ DiskOK
           /\ (running <=> th[Repair].op # "none")
  BY Procs DEF TypeInv, ThreadsOK, WorkOK

LEMMA StartRepairStep ==
    ASSUME TypeInv, NEW full \in BOOLEAN, StartRepair(full)
    PROVE  Step(Repair)
<1> DEFINE r == [Idle EXCEPT !.op = IF full THEN "full" ELSE "dirty", !.pc = "start"]
<1>1. th[Repair].op = "none" /\ owner # Repair
  BY RepairIs DEF StartRepair, Working, Shape, At, Call
<1>2. Shape(Repair, r) /\ r.op # "none" /\ r.pc = "start"
  BY DEF Shape, Idle, Thread, At, Does, Call, Version
<1>3. DiskOK'
  BY DEF TypeInv, DiskOK, StartRepair, disk, watch
<1>4. Become(Repair, r) /\ running' /\ UNCHANGED <<db, tx, owner>>
  BY DEF StartRepair
<1> HIDE DEF r
<1> QED
  BY <1>1, <1>2, <1>3, <1>4, RepairStays

LEMMA PickBatchStep ==
    ASSUME TypeInv, PickBatch
    PROVE  Step(Repair)
<1>1. PICK H \in SUBSET db.dirty :
        Become(Repair, [th[Repair] EXCEPT !.pc = "next", !.todo = H, !.queued = Cardinality(H)])
  BY DEF PickBatch
<1> DEFINE r == [th[Repair] EXCEPT !.pc = "next", !.todo = H, !.queued = Cardinality(H)]
<1>2. H \in SUBSET Item /\ Cardinality(H) \in Nat
  BY RepairIs, Finite DEF StoreOK, RowOK, Row
<1>3. Shape(Repair, r) /\ r.op # "none" /\ r.pc = "next"
  BY <1>2, RepairIs DEF PickBatch, Shape, Thread, At, Call
<1>4. DiskOK'
  BY DEF TypeInv, DiskOK, PickBatch, disk, watch
<1>5. running' /\ UNCHANGED <<db, tx, owner>>
  BY RepairIs DEF PickBatch
<1> HIDE DEF r
<1> QED
  BY <1>1, <1>3, <1>4, <1>5, RepairStays DEF r

LEMMA EndBatchStep ==
    ASSUME TypeInv, EndBatch
    PROVE  Step(Repair)
<1>1. StoreStep(Repair) /\ owner' # Repair
  <2>1. CASE owner = Repair
    BY <2>1, RepairIs, Procs, Committing DEF EndBatch, StoreOK, CanWrite, Commit
  <2>2. CASE owner # Repair
    BY <2>2, RepairIs, Untouched DEF EndBatch
  <2> QED
    BY <2>1, <2>2
<1>2. DiskOK'
  BY DEF TypeInv, DiskOK, EndBatch, disk, watch, StopRepair
<1>3. CASE Become(Repair, Idle) /\ ~running'
  BY <1>1, <1>2, <1>3, RepairIs, Ending
<1>4. CASE Become(Repair, [Idle EXCEPT !.op = "dirty", !.pc = "start"]) /\ running' = running
  <2> DEFINE r == [Idle EXCEPT !.op = "dirty", !.pc = "start"]
  <2>1. Others(Repair) /\ th'[Repair] = r
    BY <1>4, RepairIs, Becoming DEF TypeInv
  <2>2. Shape(Repair, r) /\ Working(Repair)'
    BY <1>1, <2>1 DEF Shape, Idle, Thread, At, Does, Call, Version, Working
  <2>3. Locks(Repair)
    BY <2>1 DEF Locks, HeldBy, Idle
  <2>4. Runs(Repair)
    BY <1>4, <2>1, RepairIs DEF Runs, Idle, EndBatch, Reindexed
  <2> QED
    BY <1>1, <1>2, <2>1, <2>2, <2>3, <2>4 DEF Step
<1> QED
  BY <1>3, <1>4 DEF EndBatch, StopRepair

LEMMA RepairFailsStep ==
    ASSUME TypeInv, BatchFails \/ FullFails
    PROVE  Step(Repair) /\ Rollback(Repair) /\ Become(Repair, Idle)
<1>1. Rollback(Repair) /\ Become(Repair, Idle) /\ ~running'
  BY DEF BatchFails, FullFails, RepairFails, StopRepair
<1>2. DiskOK'
  BY DEF TypeInv, DiskOK, BatchFails, FullFails, RepairFails, disk, watch, StopRepair
<1>3. owner' # Repair
  BY <1>1, Procs DEF Rollback
<1> QED
  BY <1>1, <1>2, <1>3, RepairIs, RollingBack, Ending

LEMMA FullBeginStep ==
    ASSUME TypeInv, FullBegin
    PROVE  Step(Repair) /\ owner = None
<1> DEFINE r == [th[Repair] EXCEPT !.pc = "full", !.todo = db.items]
           E == Emptied(db)
<1>1. /\ CanWrite(Repair) /\ Writes(Repair, E) /\ db' = db /\ Become(Repair, r)
      /\ th[Repair].op = "full" /\ th[Repair].pc = "start" /\ running' = running /\ running
  BY RepairIs DEF FullBegin
<1>2. RowOK(E) /\ E.items = db.items
  BY RepairIs, EmptiedIs DEF StoreOK
<1>3. Shape(Repair, r) /\ r.op = "full" /\ r.pc = "full"
  <2>1. db.items \in SUBSET Item
    BY RepairIs DEF StoreOK, RowOK, Row
  <2> QED
    BY <1>1, <2>1, RepairIs DEF Shape, Thread, At, Call
<1>4. owner = None
  BY <1>1, RepairIs DEF Working, CanWrite
<1> HIDE DEF r, E
<1>5. Others(Repair) /\ th'[Repair] = r
  BY <1>1, RepairIs, Becoming DEF TypeInv
<1>6. StoreStep(Repair)
  BY <1>1, <1>2, RepairIs, Writing
<1>7. Working(Repair)' /\ Locks(Repair) /\ Runs(Repair)
  BY <1>1, <1>3, <1>5 DEF Working, Locks, HeldBy, Runs
<1>8. DiskOK'
  BY DEF TypeInv, DiskOK, FullBegin, disk, watch
<1> QED
  BY <1>3, <1>4, <1>5, <1>6, <1>7, <1>8 DEF Step

LEMMA FullSignStep ==
    ASSUME TypeInv, FullSign
    PROVE  Step(Repair)
<1>1. PICK h \in th[Repair].todo : /\ known' = known \cup {h}
        /\ Become(Repair, [th[Repair] EXCEPT !.pc = "load", !.item = h, !.seen = note[h].version])
  BY DEF FullSign
<1> DEFINE r == [th[Repair] EXCEPT !.pc = "load", !.item = h, !.seen = note[h].version]
<1>2. h \in Item /\ note[h].version \in Version
  BY RepairIs DEF DiskOK, Note, Shape, Thread
<1>3. Shape(Repair, r) /\ r.op = "full" /\ r.pc = "load"
  BY <1>2, RepairIs DEF FullSign, Full, Shape, Thread, At, Call
<1>4. DiskOK'
  BY <1>1, <1>2 DEF TypeInv, DiskOK, FullSign, disk, watch
<1>5. running' /\ UNCHANGED <<db, tx, owner>>
  BY RepairIs DEF FullSign, Full
<1> HIDE DEF r
<1> QED
  BY <1>1, <1>3, <1>4, <1>5, RepairStays DEF r

LEMMA FullLoadStep ==
    ASSUME TypeInv, FullLoad
    PROVE  Step(Repair)
<1> DEFINE h == th[Repair].item
           e == [item |-> h, version |-> th[Repair].seen, text |-> note[h].text]
           r == [th[Repair] EXCEPT !.pc = "full", !.item = None, !.seen = 0, !.todo = @ \ {h}, !.rows = @ \cup {e}]
<1>1. h \in Item /\ e \in Entry /\ th[Repair].op = "full"
  BY RepairIs DEF FullLoad, DiskOK, Note, Shape, Thread, Entry, At, Call
<1> HIDE DEF e
<1>2. Shape(Repair, r) /\ r.op = "full" /\ r.pc = "full"
  BY <1>1, RepairIs, Procs DEF FullLoad, Shape, Thread, At, Call, Version
<1>3. Become(Repair, r) /\ UNCHANGED <<db, tx, owner>> /\ running'
  BY <1>1, RepairIs DEF FullLoad, e
<1>4. DiskOK'
  BY DEF TypeInv, DiskOK, FullLoad, disk, watch
<1> HIDE DEF r
<1> QED
  BY <1>2, <1>3, <1>4, RepairStays

LEMMA FullFlushStep ==
    ASSUME TypeInv, FullFlush
    PROVE  Step(Repair) /\ RowOK(View(Repair)) /\ th[Repair].rows \in SUBSET Entry
<1> DEFINE D == View(Repair)
           E == Stored(D, th[Repair].rows)
           r == [th[Repair] EXCEPT !.rows = {}]
<1>1. RowOK(D) /\ db.items \subseteq D.items /\ th[Repair].rows \in SUBSET Entry /\ Fits(D, th[Repair].rows)
  BY RepairIs, ViewIs DEF FullFlush, Shape, Thread
<1>2. RowOK(E) /\ E.items = D.items
  BY <1>1, StoredIs
<1>3. Shape(Repair, r) /\ r.op = "full" /\ r.pc = "full"
  BY RepairIs DEF FullFlush, Full, Shape, Thread, At, Call
<1>4. Become(Repair, r) /\ running' /\ Commit(E) /\ CanWrite(Repair)
  BY RepairIs DEF FullFlush, Full
<1> HIDE DEF D, E, r
<1>5. StoreStep(Repair)
  BY <1>1, <1>2, <1>4, RepairIs, Committing
<1>6. Others(Repair) /\ th'[Repair] = r
  BY <1>4, RepairIs, Becoming DEF TypeInv
<1>7. Working(Repair)' /\ Locks(Repair) /\ Runs(Repair)
  BY <1>3, <1>4, <1>6 DEF Working, Locks, HeldBy, Runs, Commit
<1>8. DiskOK'
  BY DEF TypeInv, DiskOK, FullFlush, disk, watch
<1> QED
  BY <1>1, <1>3, <1>5, <1>6, <1>7, <1>8 DEF Step, D

LEMMA FullEndStep ==
    ASSUME TypeInv, FullEnd
    PROVE  /\ Step(Repair) /\ RowOK(View(Repair)) /\ th[Repair].rows \in SUBSET Entry
           /\ RowOK(Stored(View(Repair), th[Repair].rows))
           /\ Commit(Complete(Stored(View(Repair), th[Repair].rows)))
           /\ Become(Repair, Idle)
<1> DEFINE D == View(Repair)
           E == Stored(D, th[Repair].rows)
<1>1. RowOK(D) /\ db.items \subseteq D.items /\ th[Repair].rows \in SUBSET Entry /\ Fits(D, th[Repair].rows)
  BY RepairIs, ViewIs DEF FullEnd, Shape, Thread
<1>2. RowOK(E) /\ E.items = D.items
  BY <1>1, StoredIs
<1>3. Become(Repair, Idle) /\ ~running' /\ Commit(Complete(E)) /\ CanWrite(Repair)
  BY DEF FullEnd, Complete, StopRepair
<1> HIDE DEF E
<1>4. RowOK(Complete(E)) /\ Complete(E).items = E.items
  BY <1>2, CompleteIs
<1>5. StoreStep(Repair)
  BY <1>1, <1>2, <1>3, <1>4, RepairIs, Committing
<1>6. DiskOK'
  BY DEF TypeInv, DiskOK, FullEnd, disk, watch, StopRepair
<1>7. owner' # Repair
  BY <1>3, Procs DEF Commit
<1>8. Step(Repair)
  BY <1>3, <1>5, <1>6, <1>7, RepairIs, Ending
<1> QED
  BY <1>1, <1>2, <1>3, <1>8 DEF E

(* The watchdog. *)
LEMMA ProcIs ==
    ASSUME TypeInv, NEW p \in Proc
    PROVE  Shape(p, th[p]) /\ Working(p) /\ StoreOK /\ DiskOK /\ ThreadsOK
  BY DEF TypeInv, ThreadsOK, WorkOK

LEMMA StartFlushStep ==
    ASSUME TypeInv, StartFlush
    PROVE  (UNCHANGED <<th, db, tx, owner>> /\ TypeInv') \/ Step(Watchdog)
<1>1. DiskOK' /\ UNCHANGED <<db, tx, owner, running>>
  BY DEF TypeInv, DiskOK, StartFlush, disk, watch
<1>2. CASE pending = {}
  <2>1. UNCHANGED th
    BY <1>2 DEF StartFlush
  <2>2. ThreadsOK' /\ StoreOK' /\ Exclusive'
    BY <1>1, <2>1 DEF TypeInv, ThreadsOK, StoreOK, RowOK, Exclusive
  <2>3. WorkOK'
    BY <1>1, <2>1 DEF TypeInv, WorkOK, Working, View
  <2> QED
    BY <1>1, <2>1, <2>2, <2>3 DEF TypeInv
<1>3. CASE pending # {}
  <2> DEFINE r == [Idle EXCEPT !.op = "flush", !.pc = "next", !.todo = pending, !.keep = pending]
  <2>1. Become(Watchdog, r)
    BY <1>3 DEF StartFlush
  <2>2. pending \in SUBSET Item /\ pending \in SUBSET (Item \cup Topic)
    BY DEF TypeInv, DiskOK
  <2>3. Shape(Watchdog, r) /\ r.op = "flush" /\ r.pc = "next" /\ r.todo = pending
    BY <2>2 DEF Idle, Shape, Thread, At, Call, Does, Version
  <2> HIDE DEF r
  <2>4. Others(Watchdog) /\ th'[Watchdog] = r
    BY <2>1, Procs, Becoming DEF TypeInv
  <2>5. StoreStep(Watchdog)
    BY <1>1, Procs, Untouched DEF TypeInv
  <2>6. Working(Watchdog)' /\ Locks(Watchdog) /\ Runs(Watchdog)
    BY <1>1, <1>3, <2>3, <2>4, Procs DEF Working, Locks, HeldBy, Runs
  <2> QED
    BY <1>1, <2>3, <2>4, <2>5, <2>6 DEF Step
<1> QED
  BY <1>2, <1>3

LEMMA EndFlushStep ==
    ASSUME TypeInv, EndFlush
    PROVE  Step(Watchdog) /\ owner = Watchdog /\ RowOK(tx) /\ db.items \subseteq tx.items
<1>1. th[Watchdog].op = "flush" /\ th[Watchdog].pc = "next" /\ th[Watchdog].todo = {} /\ Commit(tx) /\ Become(Watchdog, Idle)
  BY DEF EndFlush, Reindexed
<1>2. owner = Watchdog /\ RowOK(tx) /\ db.items \subseteq tx.items
  BY <1>1, ProcIs, Procs DEF Working, StoreOK
<1>3. StoreStep(Watchdog)
  BY <1>1, <1>2, ProcIs, Procs, Committing DEF CanWrite
<1>4. DiskOK'
  BY DEF TypeInv, DiskOK, EndFlush, disk, watch
<1>5. owner' # Watchdog /\ running' = running
  BY <1>1, Procs DEF Commit, EndFlush
<1> QED
  BY <1>1, <1>2, <1>3, <1>4, <1>5, Procs, Ending

LEMMA FlushFailsStep ==
    ASSUME TypeInv, FlushFails
    PROVE  Step(Watchdog) /\ Rollback(Watchdog) /\ Become(Watchdog, Idle)
<1>1. Rollback(Watchdog) /\ Become(Watchdog, Idle)
  BY DEF FlushFails
<1>2. DiskOK'
  BY DEF TypeInv, DiskOK, FlushFails, disk, watch
<1>3. owner' # Watchdog /\ running' = running
  BY <1>1, Procs DEF Rollback, FlushFails
<1> QED
  BY <1>1, <1>2, <1>3, Procs, ProcIs, RollingBack, Ending

(* The calls. *)
LEMMA CallerIs ==
    ASSUME TypeInv, NEW p \in Callers
    PROVE  /\ p \in Proc /\ p # Repair /\ p # Watchdog /\ p # None
           /\ Shape(p, th[p]) /\ Working(p) /\ StoreOK /\ DiskOK /\ ThreadsOK
  BY ProcIs, Procs

LEMMA CallEnds ==
    ASSUME TypeInv, NEW p \in Callers, Become(p, Idle), StoreStep(p), owner' # p, DiskOK', running' = running
    PROVE  Step(p)
  BY CallerIs, Ending

LEMMA EndCallStep ==
    ASSUME TypeInv, NEW p \in Callers, EndCall(p)
    PROVE  Step(p) /\ owner = p /\ RowOK(tx) /\ db.items \subseteq tx.items
<1>1. th[p].op \in {"insert", "patch", "detail"} /\ th[p].pc = "next" /\ th[p].todo = {} /\ Commit(tx) /\ Become(p, Idle)
  BY DEF EndCall, Reindexed
<1>2. owner = p /\ RowOK(tx) /\ db.items \subseteq tx.items
  BY <1>1, CallerIs DEF Working, StoreOK
<1>3. StoreStep(p)
  BY <1>1, <1>2, CallerIs, Committing DEF CanWrite
<1>4. DiskOK' /\ running' = running /\ owner' # p
  BY <1>1, CallerIs DEF TypeInv, DiskOK, EndCall, disk, watch, Commit
<1> QED
  BY <1>1, <1>2, <1>3, <1>4, CallEnds

LEMMA CallFailsStep ==
    ASSUME TypeInv, NEW p \in Callers, CallFails(p)
    PROVE  Step(p) /\ Rollback(p) /\ Become(p, Idle)
<1>1. Rollback(p) /\ Become(p, Idle)
  BY DEF CallFails
<1>2. DiskOK' /\ running' = running /\ owner' # p
  BY <1>1, CallerIs DEF TypeInv, DiskOK, CallFails, disk, watch, Rollback
<1> QED
  BY <1>1, <1>2, CallerIs, RollingBack, CallEnds

LEMMA InsertFailsStep ==
    ASSUME TypeInv, NEW p \in Callers, InsertFails(p)
    PROVE  /\ Step(p) /\ Rollback(p) /\ UNCHANGED disk
           /\ th'[p].op = "insert" /\ th'[p].pc = "unlink" /\ th'[p].rows = {} /\ th'[p].seen = 0
<1>1. Rollback(p) /\ th[p].op = "insert" /\ th[p].pc = "next" /\ UNCHANGED <<disk, running, watch, known>>
  BY DEF InsertFails
<1>2. PICK h \in th[p].keep : Become(p, [Idle EXCEPT !.op = "insert", !.pc = "unlink", !.item = h])
  BY DEF InsertFails
<1> DEFINE r == [Idle EXCEPT !.op = "insert", !.pc = "unlink", !.item = h]
<1>3. h \in Item /\ p \in Proc /\ p # Repair
  BY <1>1, <1>2, CallerIs DEF Shape
<1>4. Shape(p, r) /\ (\A g : ~HeldBy(r, g)) /\ r.op = "insert" /\ r.pc = "unlink" /\ r.rows = {} /\ r.seen = 0
  BY <1>3 DEF Shape, Thread, Idle, At, Does, Call, HeldBy, Version
<1> HIDE DEF r
<1>5. Others(p) /\ th'[p] = r
  BY <1>2, CallerIs, Becoming DEF r
<1>6. StoreStep(p) /\ owner' # p
  BY <1>1, CallerIs, RollingBack DEF Rollback
<1>7. Working(p)'
  BY <1>4, <1>5, <1>6 DEF Working
<1>8. Locks(p) /\ Runs(p) /\ DiskOK'
  BY <1>1, <1>3, <1>4, <1>5, CallerIs DEF Locks, Runs, DiskOK, disk, watch
<1> QED
  BY <1>1, <1>4, <1>5, <1>6, <1>7, <1>8 DEF Step

LEMMA InsertUnlinkStep ==
    ASSUME TypeInv, NEW p \in Callers, InsertUnlink(p)
    PROVE  /\ Step(p) /\ Become(p, Idle) /\ owner # p /\ UNCHANGED <<db, tx, owner, drift>>
           /\ th[p].item \in Item /\ Removed(th[p].item) /\ th[p].op = "insert"
<1>1. /\ th[p].pc = "unlink" /\ Removed(th[p].item) /\ Become(p, Idle)
      /\ UNCHANGED <<db, tx, owner, running, watch, known, drift>>
  BY DEF InsertUnlink
<1>2. th[p].item \in Item /\ owner # p /\ th[p].op = "insert"
  BY <1>1, CallerIs DEF Shape, At, Working
<1>3. note' \in [Item -> Note] /\ fresh' = fresh /\ events' \subseteq Item
  BY <1>1, <1>2, CallerIs, RemovedIs
<1>4. DiskOK'
  BY <1>1, <1>3, CallerIs DEF DiskOK, watch
<1> QED
  BY <1>1, <1>2, <1>4, CallerIs, Untouched, CallEnds

LEMMA CallBegins ==
    ASSUME TypeInv, NEW p \in Callers, th[p].op = "none", NEW r, Become(p, r), UNCHANGED <<db, tx, owner>>,
           Shape(p, r), r.op \in {"patch", "detail", "delete", "rename"}, r.pc \in {"next", "drop", "rewrite"},
           r.op \in {"patch", "detail"} => r.todo # {}, r.op = "delete" => r.item \in db.items,
           \A h \in Item : HeldBy(r, h) => Unlocked(p, h),
           DiskOK', running' = running
    PROVE  Step(p)
<1>1. Others(p) /\ th'[p] = r
  BY CallerIs, Becoming
<1>2. StoreStep(p)
  BY CallerIs, Untouched
<1>3. owner # p
  BY CallerIs DEF Shape, At, Call, Working
<1>4. Working(p)'
  BY <1>1, <1>3 DEF Working
<1>5. Locks(p) /\ Runs(p)
  BY <1>1, CallerIs DEF Locks, Runs
<1> QED
  BY <1>1, <1>2, <1>4, <1>5 DEF Step

LEMMA InsertStep ==
    ASSUME TypeInv, NEW p \in Callers, NEW h \in Item, NEW text \in Topics, Insert(p, h, text)
    PROVE  /\ Step(p) /\ owner = None /\ th[p].op = "none" /\ h \notin db.items
           /\ Writes(p, Grown(db, h)) /\ db' = db
<1> DEFINE r == [Idle EXCEPT !.op = "insert", !.pc = "next", !.todo = {h}, !.keep = {h}]
           E == Grown(db, h)
<1>1. /\ owner = None /\ th[p].op = "none" /\ h \notin db.items /\ Writes(p, E) /\ db' = db
      /\ Become(p, r) /\ Written(h, text) /\ running' = running
  BY DEF Insert, Begin, Grown
<1>2. RowOK(E) /\ db.items \subseteq E.items
  BY <1>1, CallerIs, GrownIs DEF StoreOK
<1>3. Shape(p, r) /\ r.op = "insert" /\ r.pc = "next" /\ r.keep = {h}
  BY CallerIs DEF Idle, Shape, Thread, At, Call, Does, Version
<1> HIDE DEF r, E
<1>4. Others(p) /\ th'[p] = r
  BY <1>1, CallerIs, Becoming
<1>5. StoreStep(p)
  BY <1>1, <1>2, CallerIs, Writing DEF CanWrite
<1>6. Working(p)'
  BY <1>1, <1>3, <1>4 DEF Working, Writes
<1>7. Locks(p) /\ Runs(p)
  BY <1>1, <1>3, <1>4, CallerIs DEF Locks, HeldBy, Runs
<1>8. note' \in [Item -> Note] /\ fresh' \in [Item -> Version] /\ events' \subseteq Item
  BY <1>1, CallerIs, WrittenIs, Texts
<1>9. DiskOK'
  BY <1>8, CallerIs DEF DiskOK, Insert, watch
<1> QED
  BY <1>1, <1>3, <1>4, <1>5, <1>6, <1>7, <1>9 DEF Step, E

LEMMA PatchStep ==
    ASSUME TypeInv, NEW p \in Callers, NEW h \in Item, NEW text \in Topics, Patch(p, h, text)
    PROVE  Step(p) /\ th[p].op = "none"
<1> DEFINE r == [Idle EXCEPT !.op = "patch", !.pc = "next", !.todo = {h}]
<1>1. /\ th[p].op = "none" /\ UNCHANGED <<db, tx, owner>> /\ Become(p, r) /\ Written(h, text)
      /\ running' = running /\ Unlocked(p, h)
  BY DEF Patch, Begin
<1>2. Shape(p, r) /\ r.op = "patch" /\ r.pc = "next" /\ r.todo # {} /\ \A g \in Item : HeldBy(r, g) => g = h
  BY CallerIs, Procs DEF Idle, Shape, Thread, At, Call, Does, Version, HeldBy
<1>3. note' \in [Item -> Note] /\ fresh' \in [Item -> Version] /\ events' \subseteq Item
  BY <1>1, CallerIs, WrittenIs, Texts
<1>4. DiskOK'
  BY <1>3, CallerIs DEF DiskOK, Patch, watch
<1> HIDE DEF r
<1> QED
  BY <1>1, <1>2, <1>4, CallBegins

LEMMA DetailStep ==
    ASSUME TypeInv, NEW p \in Callers, NEW h \in Item, Detail(p, h)
    PROVE  Step(p) /\ th[p].op = "none"
<1> DEFINE r == [Idle EXCEPT !.op = "detail", !.pc = "next", !.todo = {h}]
<1>1. th[p].op = "none" /\ UNCHANGED <<db, tx, owner>> /\ Become(p, r) /\ running' = running
  BY DEF Detail, Begin
<1>2. Shape(p, r) /\ r.op = "detail" /\ r.pc = "next" /\ r.todo # {} /\ \A g \in Item : ~HeldBy(r, g)
  BY CallerIs DEF Idle, Shape, Thread, At, Call, Does, Version, HeldBy
<1>3. DiskOK'
  BY CallerIs DEF DiskOK, Detail, disk, watch
<1> HIDE DEF r
<1> QED
  BY <1>1, <1>2, <1>3, CallBegins

LEMMA DeleteStageStep ==
    ASSUME TypeInv, NEW p \in Callers, NEW h \in Item, DeleteStage(p, h)
    PROVE  Step(p) /\ th[p].op = "none"
<1> DEFINE r == [Idle EXCEPT !.op = "delete", !.pc = "drop", !.item = h, !.keep = db.topics[h], !.arg = note[h]]
<1>1. /\ th[p].op = "none" /\ UNCHANGED <<db, tx, owner>> /\ Become(p, r) /\ Removed(h)
      /\ running' = running /\ Unlocked(p, h) /\ h \in db.items
  BY DEF DeleteStage, Begin
<1>2. db.topics[h] \in Topics /\ db.topics[h] \in SUBSET (Item \cup Topic) /\ note[h] \in Note
  BY CallerIs DEF StoreOK, RowOK, Row, Topics, DiskOK
<1>3. Shape(p, r) /\ r.op = "delete" /\ r.pc = "drop" /\ r.item = h /\ \A g \in Item : HeldBy(r, g) => g = h
  BY <1>2, CallerIs DEF Idle, Shape, Thread, At, Call, Does, Version, HeldBy
<1>4. note' \in [Item -> Note] /\ fresh' = fresh /\ events' \subseteq Item
  BY <1>1, CallerIs, RemovedIs
<1>5. DiskOK'
  BY <1>4, CallerIs DEF DiskOK, DeleteStage, watch
<1> HIDE DEF r
<1> QED
  BY <1>1, <1>3, <1>5, CallBegins

LEMMA DropIs ==
    ASSUME TypeInv, NEW p \in Callers, th[p].pc = "drop"
    PROVE  /\ th[p].op = "delete" /\ th[p].item \in Item /\ th[p].item \in db.items /\ owner # p
           /\ th[p].keep \in Topics /\ th[p].arg \in Note
  BY CallerIs DEF Shape, At, Call, Working

LEMMA DeleteDropStep ==
    ASSUME TypeInv, NEW p \in Callers, DeleteDrop(p)
    PROVE  Step(p) /\ owner = None /\ Commit(Dropped(db, th[p].item, th[p].keep)) /\ Become(p, Idle)
<1> DEFINE h == th[p].item
           E == Dropped(db, h, th[p].keep)
<1>1. th[p].pc = "drop" /\ CanWrite(p) /\ Commit(E) /\ Become(p, Idle)
  BY DEF DeleteDrop
<1>2. h \in Item /\ th[p].op = "delete" /\ owner = None /\ th[p].keep \in Topics
  BY <1>1, DropIs DEF CanWrite
<1>3. RowOK(E) /\ E.items = db.items \ {h}
  <2>1. RowOK(db)
    BY CallerIs DEF StoreOK
  <2> DEFINE K == th[p].keep
  <2> HIDE DEF h, K
  <2>2. K \in Topics /\ h \in Item
    BY <1>2 DEF K
  <2>3. RowOK(Dropped(db, h, K)) /\ Shrunk(Dropped(db, h, K), db, h)
    BY <2>1, <2>2, DroppedIs
  <2> QED
    BY <2>3 DEF K, Shrunk
<1> HIDE DEF E
<1>4. StoreStep(p)
  BY <1>1, <1>2, <1>3, CallerIs, Committing
<1>5. DiskOK' /\ running' = running /\ owner' # p
  BY <1>1, CallerIs DEF TypeInv, DiskOK, DeleteDrop, disk, watch, Commit
<1> QED
  BY <1>1, <1>2, <1>4, <1>5, CallEnds DEF E

LEMMA DeleteFailsStep ==
    ASSUME TypeInv, NEW p \in Callers, DeleteFails(p)
    PROVE  Step(p) /\ Become(p, Idle) /\ UNCHANGED <<db, tx, owner>>
<1> DEFINE h == th[p].item
<1>1. th[p].pc = "drop" /\ Become(p, Idle) /\ UNCHANGED <<db, tx, owner>> /\ running' = running
  BY DEF DeleteFails
<1>2. h \in Item /\ owner # p /\ th[p].arg \in Note
  BY <1>1, DropIs
<1>3. note' \in [Item -> Note] /\ events' \subseteq Item
  BY <1>2, CallerIs DEF DeleteFails, DiskOK
<1>4. DiskOK'
  BY <1>3, CallerIs DEF DiskOK, DeleteFails, watch
<1> QED
  BY <1>1, <1>2, <1>4, CallerIs, Untouched, CallEnds

LEMMA RenameStarts ==
    ASSUME TypeInv, NEW p \in Callers, NEW t \in Topic, NEW u \in Topic \cup {None}, Rename(p, t, u)
    PROVE  Step(p) /\ th[p].op = "none"
<1> DEFINE r == [Idle EXCEPT !.op = "rename", !.pc = "rewrite", !.arg = <<t, u>>,
                              !.todo = {h \in db.items : t \in db.topics[h]}]
<1>1. th[p].op = "none" /\ UNCHANGED <<db, tx, owner>> /\ Become(p, r) /\ running' = running
  BY DEF Rename, Begin
<1>2. {h \in db.items : t \in db.topics[h]} \in SUBSET Item
  BY CallerIs DEF StoreOK, RowOK, Row
<1>3. Shape(p, r) /\ r.op = "rename" /\ r.pc = "rewrite" /\ \A g \in Item : ~HeldBy(r, g)
  BY <1>2, CallerIs, Procs DEF Idle, Shape, Thread, At, Call, Does, Version, HeldBy
<1>4. DiskOK'
  BY CallerIs DEF DiskOK, Rename, disk, watch
<1> HIDE DEF r
<1> QED
  BY <1>1, <1>3, <1>4, CallBegins

LEMMA RefsIn == \A p \in Callers : Refs(p) \in Topics /\ \A T \in Topics : Renamed(p, T) \in Topics
  BY DEF Refs, Renamed, Topics

LEMMA RenamingIs ==
    ASSUME TypeInv, NEW p \in Callers, th[p].pc \in {"rewrite", "restamp"}
    PROVE  th[p].op = "rename"
  BY CallerIs DEF Shape, At, Call

LEMMA RewriteStep ==
    ASSUME TypeInv, NEW p \in Callers, NEW h \in Item, Rewrite(p, h)
    PROVE  Step(p) /\ UNCHANGED <<db, tx, owner>>
<1>1. /\ th[p].pc = "rewrite" /\ h \in th[p].todo /\ Unlocked(p, h) /\ UNCHANGED <<db, tx, owner>>
      /\ running' = running
  BY DEF Rewrite
<1>1a. th[p].op = "rename" /\ th[p].item = None
  BY <1>1, RenamingIs, CallerIs DEF Shape
<1>2. StoreStep(p)
  BY <1>1, CallerIs, Untouched
<1> DEFINE text == note[h].text
           e == [item |-> h, version |-> 0, text |-> text]
           S == IF h \in View(p).items /\ text # Gone THEN {e} ELSE {}
           q == [th[p] EXCEPT !.todo = @ \ {h}, !.rows = @ \cup S]
           r == [q EXCEPT !.pc = "restamp", !.item = h, !.seen = fresh[h], !.keep = Renamed(p, text)]
<1>1b. S \subseteq Entry
  BY CallerIs DEF Entry, Version, DiskOK, Note
<1>3. ASSUME Become(p, q), UNCHANGED disk PROVE Step(p)
  <2>1. Others(p) /\ th'[p] = q
    BY <1>3, CallerIs, Becoming
  <2> HIDE DEF S
  <2>2. Shape(p, q) /\ q.op = "rename" /\ q.pc = "rewrite" /\ q.item = None
    <3>1. th[p] \in Thread(th[p].arg) /\ Does(p, th[p].op)
      BY CallerIs DEF Shape
    <3>2. q \in Thread(th[p].arg) /\ q.op = "rename" /\ q.pc = "rewrite" /\ q.item = None /\ q.arg = th[p].arg
      BY <1>1, <1>1a, <1>1b, <3>1 DEF Thread
    <3> HIDE DEF q
    <3> QED
      BY <1>1a, <3>1, <3>2 DEF Shape, At
  <2> HIDE DEF q
  <2>3. Working(p)' /\ Locks(p) /\ Runs(p)
    BY <1>1, <2>1, <2>2, CallerIs, Procs DEF Working, Locks, HeldBy, Runs
  <2>4. DiskOK'
    BY <1>3, CallerIs DEF DiskOK, Rewrite, disk, watch
  <2> QED
    BY <1>2, <2>1, <2>2, <2>3, <2>4 DEF Step
<1>4. ASSUME Parses(text), h \in View(p).items, Written(h, Renamed(p, text)), Become(p, r) PROVE Step(p)
  <2>1. text \in Topics /\ Renamed(p, text) \in Topics /\ Renamed(p, text) \in Text
    BY <1>4, CallerIs, Texts, RefsIn DEF DiskOK, Note
  <2>2. fresh[h] \in Version
    BY CallerIs DEF DiskOK
  <2>3. Others(p) /\ th'[p] = r
    BY <1>4, CallerIs, Becoming
  <2>4. Shape(p, r) /\ r.op = "rename" /\ r.pc = "restamp" /\ r.item = h
    <3>1. Renamed(p, text) \in SUBSET (Item \cup Topic)
      BY <2>1 DEF Topics
    <3> DEFINE T == Renamed(p, text)
    <3> HIDE DEF S, T
    <3>2. T \in SUBSET (Item \cup Topic) /\ T \in Topics
      BY <2>1, <3>1 DEF T
    <3>4. th[p] \in Thread(th[p].arg) /\ Does(p, th[p].op)
      BY CallerIs DEF Shape
    <3>3. q \in Thread(th[p].arg) /\ q.op = "rename" /\ r = [q EXCEPT !.pc = "restamp", !.item = h, !.seen = fresh[h], !.keep = T]
      BY <1>1a, <1>1b, <3>4 DEF Thread, T
    <3> HIDE DEF r, q
    <3>5. r \in Thread(th[p].arg) /\ r.op = "rename" /\ r.pc = "restamp" /\ r.item = h /\ r.keep = T
      BY <2>2, <3>2, <3>3, <3>4 DEF Thread
    <3>6. r.arg = th[p].arg
      BY <3>5 DEF Thread
    <3> QED
      BY <1>1a, <3>2, <3>4, <3>5, <3>6 DEF Shape, At
  <2> HIDE DEF r
  <2>5. Working(p)'
    BY <1>1, <1>4, <2>3, <2>4 DEF Working, View
  <2>6. Locks(p) /\ Runs(p)
    BY <1>1, <2>3, <2>4, CallerIs DEF Locks, HeldBy, Runs
  <2>7. note' \in [Item -> Note] /\ fresh' \in [Item -> Version] /\ events' \subseteq Item
    BY <1>4, <2>1, CallerIs, WrittenIs
  <2>8. DiskOK'
    BY <2>7, CallerIs DEF DiskOK, Rewrite, watch
  <2> QED
    BY <1>2, <2>3, <2>4, <2>5, <2>6, <2>8 DEF Step
<1>5. \/ Become(p, q) /\ UNCHANGED disk
      \/ Parses(text) /\ h \in View(p).items /\ Written(h, Renamed(p, text)) /\ Become(p, r)
  BY DEF Rewrite
<1> QED
  BY <1>1, <1>3, <1>4, <1>5

LEMMA RestampStep ==
    ASSUME TypeInv, NEW p \in Callers, Restamp(p)
    PROVE  /\ Step(p) /\ th[p].item \in Item /\ th[p].keep \in Topics /\ th[p].op = "rename"
           /\ \/ UNCHANGED <<db, tx, owner, history>>
              \/ /\ CanWrite(p) /\ db' = db /\ th[p].item \in View(p).items /\ RowOK(View(p))
                 /\ Writes(p, Put(View(p), th[p].item, th[p].keep, note[th[p].item].version, "ok"))
<1> DEFINE h == th[p].item
           E == Put(View(p), h, th[p].keep, note[h].version, "ok")
           r == [th[p] EXCEPT !.pc = "rewrite", !.item = None, !.seen = 0, !.keep = {}]
<1>1. th[p].pc = "restamp" /\ Become(p, r) /\ running' = running /\ db' = db
  BY DEF Restamp
<1>2. h \in Item /\ th[p].keep \in Topics /\ th[p].op = "rename" /\ h \in View(p).items /\ note[h].version \in Version
  BY <1>1, RenamingIs, CallerIs DEF Shape, Working, DiskOK, Note
<1>3. Others(p) /\ th'[p] = r
  BY <1>1, CallerIs, Becoming
<1>4. Shape(p, r) /\ r.op = "rename" /\ r.pc = "rewrite" /\ r.item = None
  BY <1>1, <1>2, CallerIs DEF Shape, Thread, At, Version
<1>5. RowOK(View(p)) /\ db.items \subseteq View(p).items
  BY CallerIs, ViewIs
<1>6. RowOK(E) /\ E.items = View(p).items
  <2> DEFINE D == View(p)
             T == th[p].keep
             v == note[h].version
             s == "ok"
  <2>1. RowOK(D) /\ h \in D.items /\ T \in Topics /\ v \in Version /\ s \in {"ok", "error"}
    BY <1>2, <1>5
  <2> HIDE DEF D, T, v, s, h
  <2>2. RowOK(Put(D, h, T, v, s)) /\ Changed(Put(D, h, T, v, s), D, h, T, v, s)
    BY <2>1, PutIs
  <2> QED
    BY <2>2 DEF Changed, D, T, v, s
<1> HIDE DEF r
<1>7. UNCHANGED <<db, tx, owner, history>> \/ (CanWrite(p) /\ Writes(p, E))
  BY <1>1 DEF Restamp, Put
<1> HIDE DEF E
<1>8. StoreStep(p)
  BY <1>1, <1>5, <1>6, <1>7, CallerIs, Untouched, Writing
<1>9. Working(p)' /\ Locks(p) /\ Runs(p)
  BY <1>1, <1>3, <1>4, CallerIs, Procs DEF Working, Locks, HeldBy, Runs
<1>10. DiskOK'
  BY CallerIs DEF DiskOK, Restamp, disk, watch
<1> QED
  BY <1>1, <1>2, <1>3, <1>4, <1>5, <1>7, <1>8, <1>9, <1>10 DEF Step, E

LEMMA RenameEndStep ==
    ASSUME TypeInv, NEW p \in Callers, RenameEnd(p)
    PROVE  /\ Step(p) /\ Become(p, Idle) /\ th[p].op = "rename"
           /\ \/ owner # p /\ UNCHANGED <<db, tx, owner>>
              \/ owner = p /\ RowOK(tx) /\ Commit(Refreshed(Recount(tx, Refs(p))))
<1> DEFINE E == Refreshed(Recount(tx, Refs(p)))
<1>1. /\ Become(p, Idle) /\ th[p].op = "rename"
      /\ (owner # p /\ UNCHANGED <<db, tx, owner>>) \/ (owner = p /\ Commit(E))
  BY RenamingIs DEF RenameEnd
<1>2. CASE UNCHANGED <<db, tx, owner>> /\ owner # p
  <2>1. StoreStep(p)
    BY <1>2, CallerIs, Untouched
  <2>2. DiskOK' /\ running' = running
    BY CallerIs DEF TypeInv, DiskOK, RenameEnd, disk, watch
  <2> QED
    BY <1>1, <1>2, <2>1, <2>2, CallEnds
<1>3. CASE owner = p /\ Commit(E)
  <2>1. RowOK(tx) /\ db.items \subseteq tx.items
    BY <1>3, CallerIs DEF StoreOK
  <2>2. RowOK(E) /\ E.items = tx.items
    BY <2>1, SettledIs DEF Alike
  <2> HIDE DEF E
  <2>3. StoreStep(p)
    BY <1>3, <2>1, <2>2, CallerIs, Committing DEF CanWrite
  <2>4. DiskOK' /\ running' = running /\ owner' # p
    BY <1>3, CallerIs DEF TypeInv, DiskOK, RenameEnd, disk, watch, Commit
  <2> QED
    BY <1>1, <1>3, <2>1, <2>3, <2>4, CallEnds DEF E
<1> QED
  BY <1>1, <1>2, <1>3

LEMMA RenameFailsStep ==
    ASSUME TypeInv, NEW p \in Callers, RenameFails(p)
    PROVE  Step(p) /\ Become(p, Idle) /\ Rollback(p)
<1> DEFINE R == {r \in th[p].rows : r.item \in db.items}
<1>1. Rollback(p) /\ Become(p, Idle) /\ running' = running
  BY DEF RenameFails
<1>2. \A r \in R : r.item \in Item /\ r.text \in Text
  BY CallerIs DEF Shape, Thread, Entry
<1>3. \A h \in Item : HasRow(R, h) => RowOf(R, h) \in R
  BY DEF HasRow, RowOf
<1>4. /\ note' = [h \in Item |-> IF HasRow(R, h) THEN [version |-> fresh[h], text |-> RowOf(R, h).text] ELSE note[h]]
      /\ fresh' = [h \in Item |-> IF HasRow(R, h) THEN fresh[h] + 1 ELSE fresh[h]]
      /\ events' = events \cup {r.item : r \in R}
  BY DEF RenameFails
<1> HIDE DEF R
<1>5. note' \in [Item -> Note]
  <2> SUFFICES ASSUME NEW h \in Item
               PROVE  (IF HasRow(R, h) THEN [version |-> fresh[h], text |-> RowOf(R, h).text] ELSE note[h]) \in Note
    BY <1>4
  <2>1. CASE HasRow(R, h)
    BY <1>2, <1>3, <2>1, CallerIs DEF DiskOK, Note
  <2>2. CASE ~HasRow(R, h)
    BY <2>2, CallerIs DEF DiskOK
  <2> QED
    BY <2>1, <2>2
<1>6. fresh' \in [Item -> Version] /\ events' \subseteq Item
  BY <1>2, <1>4, CallerIs DEF DiskOK, Version
<1>7. DiskOK' /\ owner' # p
  BY <1>1, <1>5, <1>6, CallerIs DEF DiskOK, RenameFails, watch, Rollback
<1> QED
  BY <1>1, <1>7, CallerIs, RollingBack, CallEnds

LEMMA CrashKeeps ==
    ASSUME TypeInv, Crash
    PROVE  TypeInv'
<1>1. th' = [p \in Proc |-> Idle] /\ db' = db /\ owner' = None /\ tx' = None /\ ~running'
  BY DEF Crash
<1>2. ThreadsOK' /\ WorkOK' /\ Exclusive'
  BY <1>1, IdleOK, Procs DEF ThreadsOK, WorkOK, Working, Exclusive, Idle
<1>3. StoreOK'
  BY <1>1 DEF TypeInv, StoreOK, RowOK
<1>4. DiskOK'
  BY DEF TypeInv, DiskOK, StoreOK, RowOK, Row, Crash
<1> QED
  BY <1>2, <1>3, <1>4 DEF TypeInv

LEMMA StillKeeps ==
    ASSUME TypeInv, UNCHANGED <<db, tx, owner, th, running>>, DiskOK'
    PROVE  TypeInv'
<1>1. ThreadsOK' /\ StoreOK' /\ Exclusive'
  BY DEF TypeInv, ThreadsOK, StoreOK, RowOK, Exclusive
<1>2. WorkOK'
  BY DEF TypeInv, WorkOK, Working, View
<1> QED
  BY <1>1, <1>2 DEF TypeInv

LEMMA EditIs ==
    ASSUME TypeInv, NEW h \in Item, NEW text \in Edits[h], Edit(h, text)
    PROVE  Written(h, text) /\ text \in Text /\ UNCHANGED <<db, tx, owner, th, running>> /\ DiskOK'
<1>1. Parses(text) => text \subseteq Topic
  BY MetadataOK DEF MetadataOK
<1>2. text \in Text
  BY <1>1 DEF Text, Parses, Topics
<1>3. Written(h, text) /\ UNCHANGED <<db, tx, owner, th, running, watch, known>>
  BY DEF Edit
<1>4. note' \in [Item -> Note] /\ fresh' \in [Item -> Version] /\ events' \subseteq Item
  BY <1>2, <1>3, WrittenIs DEF TypeInv
<1> QED
  BY <1>2, <1>3, <1>4 DEF TypeInv, DiskOK, watch

LEMMA DeliverIs ==
    ASSUME TypeInv, NEW h \in Item, Deliver(h)
    PROVE  UNCHANGED <<db, tx, owner, th, running, note, fresh, history>> /\ DiskOK'
<1>1. (timer \/ ~flushing) \in BOOLEAN
  OBVIOUS
<1> QED
  BY <1>1 DEF TypeInv, DiskOK, Deliver

(* The initial states. *)
LEMMA StartsIs ==
    ASSUME NEW s \in Starts, NEW h \in Item
    PROVE  s[h] \in Text /\ (s[h] # Gone => s[h] \in Topics)
<1>1. s[h] = Gone \/ (Parses(s[h]) /\ s[h] \subseteq Topic)
  BY MetadataOK DEF MetadataOK
<1> QED
  BY <1>1 DEF Text, Topics

LEMMA InitIs ==
    ASSUME Init
    PROVE  /\ DiskOK /\ RowOK(db) /\ th = [p \in Proc |-> Idle] /\ owner = None /\ tx = None /\ ~running
           /\ drift = {} /\ blurred = {} /\ db.ready = TRUE
           /\ \A t \in Topic : db.facet[t] = Count(db, t)
           /\ \A h \in db.items : db.status[h] # "none" /\ db.topics[h] = TopicsOf(note[h].text)
                                  /\ db.status[h] = "ok"
           /\ \A h \in Item : /\ note[h].version < fresh[h] /\ db.sig[h] < fresh[h]
                              /\ (note[h].version = 0) = (note[h].text = Gone)
<1>1. PICK text \in Starts :
        LET S == {h \in Item : text[h] # Gone}
            v == [h \in Item |-> IF h \in S THEN 1 ELSE 0] IN
          /\ note = [h \in Item |-> [version |-> v[h], text |-> text[h]]]
          /\ fresh = [h \in Item |-> v[h] + 1]
          /\ known = S
          /\ db = [items |-> S, topics |-> [h \in Item |-> TopicsOf(text[h])], sig |-> v,
                   status |-> [h \in Item |-> IF h \in S THEN "ok" ELSE "none"],
                   facet |-> [t \in Topic |-> Cardinality({h \in S : t \in text[h]})],
                   counted |-> TRUE, dirty |-> {}, owed |-> 0, ready |-> TRUE]
  BY DEF Init
<1> DEFINE S == {h \in Item : text[h] # Gone}
           v == [h \in Item |-> IF h \in S THEN 1 ELSE 0]
           T == [h \in Item |-> TopicsOf(text[h])]
           A == [h \in Item |-> IF h \in S THEN "ok" ELSE "none"]
           F == [t \in Topic |-> Cardinality({h \in S : t \in text[h]})]
<1>2. /\ note = [h \in Item |-> [version |-> v[h], text |-> text[h]]]
      /\ fresh = [h \in Item |-> v[h] + 1]
      /\ known = S
      /\ db = [items |-> S, topics |-> T, sig |-> v, status |-> A, facet |-> F,
               counted |-> TRUE, dirty |-> {}, owed |-> 0, ready |-> TRUE]
  BY <1>1
<1>3. v \in [Item -> {0, 1}] /\ (\A h \in Item : v[h] = 0 <=> text[h] = Gone)
  OBVIOUS
<1>4. T \in [Item -> Topics] /\ \A h \in Item : T[h] = TopicsOf(text[h]) /\ (h \in S => T[h] = text[h])
                             /\ (h \notin S => T[h] = {})
  BY StartsIs, Texts DEF TopicsOf
<1>5. A \in [Item -> {"none", "ok", "error"}] /\ \A h \in Item : A[h] = IF h \in S THEN "ok" ELSE "none"
  OBVIOUS
<1>6. F \in [Topic -> Nat] /\ \A t \in Topic : F[t] = Cardinality({h \in S : t \in text[h]})
  <2> SUFFICES ASSUME NEW t \in Topic PROVE Cardinality({h \in S : t \in text[h]}) \in Nat
    OBVIOUS
  <2>1. {h \in S : t \in text[h]} \in SUBSET Item
    OBVIOUS
  <2> QED
    BY <2>1, Finite
<1>7. S \in SUBSET Item /\ \A h \in Item : h \in S <=> text[h] # Gone
  OBVIOUS
<1> HIDE DEF S, v, T, A, F
<1>8. /\ db.items = S /\ db.topics = T /\ db.sig = v /\ db.status = A /\ db.facet = F /\ db.dirty = {}
      /\ db.owed = 0 /\ db.ready = TRUE
  BY <1>2
<1>9. db \in Row
  BY <1>2, <1>3, <1>4, <1>5, <1>6, <1>7 DEF Row, Version
<1>10. RowOK(db)
  BY <1>4, <1>5, <1>7, <1>8, <1>9, FS_EmptySet DEF RowOK
<1>11. ASSUME NEW h \in Item
       PROVE  /\ note[h] \in Note /\ fresh[h] \in Version /\ note[h].text = text[h]
              /\ note[h].version = v[h] /\ fresh[h] = v[h] + 1
  BY <1>2, <1>3, StartsIs DEF Note, Version
<1>12. DiskOK
  BY <1>2, <1>7, <1>11 DEF Init, DiskOK
<1>13. ASSUME NEW t \in Topic PROVE db.facet[t] = Count(db, t)
  <2>1. {h \in S : t \in text[h]} = {h \in db.items : t \in db.topics[h]}
    BY <1>4, <1>7, <1>8
  <2> QED
    BY <2>1, <1>6, <1>8 DEF Count
<1>14. ASSUME NEW h \in db.items
       PROVE  db.status[h] # "none" /\ db.topics[h] = TopicsOf(note[h].text) /\ db.status[h] = "ok"
  BY <1>4, <1>5, <1>7, <1>8, <1>11, <1>14
<1>15. ASSUME NEW h \in Item
       PROVE  /\ note[h].version < fresh[h] /\ db.sig[h] < fresh[h]
              /\ (note[h].version = 0) = (note[h].text = Gone)
  BY <1>3, <1>8, <1>11
<1> QED
  BY <1>8, <1>10, <1>12, <1>13, <1>14, <1>15 DEF Init

LEMMA TypeInit == Init => TypeInv
<1> SUFFICES ASSUME Init PROVE TypeInv
  OBVIOUS
<1>0. DOMAIN th = Proc /\ \A p \in Proc : th[p] = Idle
  BY InitIs
<1>1. ThreadsOK /\ Exclusive
  BY <1>0, IdleOK, Procs DEF ThreadsOK, Exclusive
<1>2. WorkOK
  BY InitIs, Procs DEF WorkOK, Working, Idle
<1>3. StoreOK
  BY InitIs DEF StoreOK
<1> QED
  BY <1>1, <1>2, <1>3, InitIs DEF TypeInv

LEMMA TypeNext == TypeInv /\ [Next]_vars => TypeInv'
<1> SUFFICES ASSUME TypeInv, [Next]_vars PROVE TypeInv'
  OBVIOUS
<1>1. CASE \E full \in BOOLEAN : StartRepair(full)
  BY <1>1, StartRepairStep, RepairIs, StepKeeps
<1>2. CASE RepairStep
  <2>1. CASE \E h \in Item : Enqueue(Repair, h)
    BY <2>1, EnqueueStep, RepairIs, StepKeeps
  <2>2. CASE Read(Repair)
    BY <2>2, ReadStep, RepairIs, StepKeeps
  <2>3. CASE PickBatch \/ EndBatch \/ BatchFails \/ FullFails
    BY <2>3, PickBatchStep, EndBatchStep, RepairFailsStep, RepairIs, StepKeeps
  <2>4. CASE FullBegin \/ FullSign \/ FullLoad
    BY <2>4, FullBeginStep, FullSignStep, FullLoadStep, RepairIs, StepKeeps
  <2>5. CASE FullFlush \/ FullEnd
    BY <2>5, FullFlushStep, FullEndStep, RepairIs, StepKeeps
  <2> QED
    BY <1>2, <2>1, <2>2, <2>3, <2>4, <2>5 DEF RepairStep
<1>3. CASE FlushStep \/ StartFlush
  <2>1. CASE \E h \in Item : Enqueue(Watchdog, h)
    BY <2>1, EnqueueStep, Procs, StepKeeps
  <2>2. CASE Read(Watchdog)
    BY <2>2, ReadStep, Procs, StepKeeps
  <2>3. CASE EndFlush \/ FlushFails
    BY <2>3, EndFlushStep, FlushFailsStep, Procs, StepKeeps
  <2>4. CASE StartFlush
    BY <2>4, StartFlushStep, Procs, StepKeeps
  <2> QED
    BY <1>3, <2>1, <2>2, <2>3, <2>4 DEF FlushStep
<1>4. CASE \E h \in Item : Deliver(h)
  BY <1>4, DeliverIs, StillKeeps
<1>5. ASSUME NEW p \in Callers, CallStep(p) PROVE TypeInv'
  <2>0. p \in Proc
    BY Procs
  <2>1. CASE \E h \in Item : Enqueue(p, h)
    BY <2>0, <2>1, EnqueueStep, StepKeeps
  <2>2. CASE Read(p)
    BY <2>0, <2>2, ReadStep, StepKeeps
  <2>3. CASE EndCall(p) \/ CallFails(p) \/ InsertFails(p) \/ InsertUnlink(p)
    BY <2>0, <2>3, EndCallStep, CallFailsStep, InsertFailsStep, InsertUnlinkStep, StepKeeps
  <2>4. CASE DeleteDrop(p) \/ DeleteFails(p)
    BY <2>0, <2>4, DeleteDropStep, DeleteFailsStep, StepKeeps
  <2>5. CASE RenameStep(p)
    BY <2>0, <2>5, RewriteStep, RestampStep, RenameEndStep, RenameFailsStep, StepKeeps DEF RenameStep
  <2> QED
    BY <1>5, <2>1, <2>2, <2>3, <2>4, <2>5 DEF CallStep
<1>6. ASSUME NEW p \in Callers, NewCall(p) PROVE TypeInv'
  <2>0. p \in Proc
    BY Procs
  <2>1. CASE \E h \in Item : Detail(p, h) \/ DeleteStage(p, h)
    BY <2>0, <2>1, DetailStep, DeleteStageStep, StepKeeps
  <2>2. CASE \E h \in Item, text \in Topics : Insert(p, h, text) \/ Patch(p, h, text)
    BY <2>0, <2>2, InsertStep, PatchStep, StepKeeps
  <2>3. CASE \E t \in Topic, u \in Topic \cup {None} : Rename(p, t, u)
    BY <2>0, <2>3, RenameStarts, StepKeeps
  <2> QED
    BY <1>6, <2>1, <2>2, <2>3 DEF NewCall
<1>7. CASE \E h \in Item : \E text \in Edits[h] : Edit(h, text)
  BY <1>7, EditIs, StillKeeps
<1>8. CASE Crash
  BY <1>8, CrashKeeps
<1>9. CASE UNCHANGED vars
  <2>1. DiskOK' /\ UNCHANGED <<db, tx, owner, th, running>>
    BY <1>9 DEF vars, disk, watch, TypeInv, DiskOK
  <2> QED
    BY <2>1, StillKeeps
<1> QED
  BY <1>1, <1>2, <1>3, <1>4, <1>5, <1>6, <1>7, <1>8, <1>9 DEF Next

(* The index, the queue of dirty items and the threads at work on them are   *)
(* well typed in every reachable state: rows belong to items, and the counter *)
(* that enqueue_metadata_dirty and clear_metadata_dirty adjust is the length  *)
(* of the queue, whatever transactions, failures and crashes come between.    *)
THEOREM IndexTypeCorrect == Spec => []MetaTypeOK
<1>1. TypeInv => MetaTypeOK
  <2> SUFFICES ASSUME TypeInv PROVE MetaTypeOK
    OBVIOUS
  <2>1. db \in Row /\ (tx = None \/ tx \in Row) /\ owner \in Proc \cup {None} /\ (owner = None) = (tx = None)
    BY DEF TypeInv, StoreOK, RowOK
  <2>2. \A h \in Item : note[h].version \in Version /\ (Parses(note[h].text) => note[h].text \subseteq Topic)
    BY Texts DEF TypeInv, DiskOK, Note, Topics
  <2> QED
    BY <2>1, <2>2 DEF MetaTypeOK, TypeInv, StoreOK, RowOK, DiskOK
<1> QED
  BY <1>1, TypeInit, TypeNext, PTL DEF Spec

-----------------------------------------------------------------------------
(***************************************************************************)
(* An index that is ready is complete.                                     *)
(***************************************************************************)
(* What a thread that may write finds, but for a full rebuild. *)
Whole(r, D) ==
    /\ D.ready = db.ready
    /\ \A h \in D.items : D.status[h] # "none" \/ Inserting(r, h) \/ (h \in db.items /\ db.status[h] = "none")

LEMMA ViewWhole ==
    ASSUME TypeInv, ReadyInv, NEW p \in Proc, CanWrite(p), p = Repair => ~Rebuilds(th[p])
    PROVE  Whole(th[p], View(p))
<1>1. CASE owner = p
  BY <1>1, Procs DEF ReadyInv, Whole, View
<1>2. CASE owner # p
  BY <1>2 DEF Whole, View, CanWrite
<1> QED
  BY <1>1, <1>2

LEMMA ReadyStays ==
    ASSUME TypeInv, ReadyInv, NEW p \in Proc, Others(p), UNCHANGED <<db, tx, owner>>,
           p = Repair => IF Rebuilds(th'[p]) THEN Rebuilds(th[p]) /\ \A h \in Item : Ahead(th[p], h) => Ahead(th'[p], h)
                         ELSE owner # p,
           owner = p => p = Repair \/ th[p].op # "insert"
    PROVE  ReadyInv'
<1>1. ReadyComplete'
  BY DEF ReadyInv, ReadyComplete
<1>2. ASSUME Rebuilds(th'[Repair])
      PROVE  /\ ~View(Repair)'.ready
             /\ \A h \in View(Repair)'.items : View(Repair)'.status[h] # "none" \/ Ahead(th'[Repair], h)
  <2>1. Rebuilds(th[Repair]) /\ \A h \in Item : Ahead(th[Repair], h) => Ahead(th'[Repair], h)
    BY <1>2, Procs DEF Others
  <2>2. View(Repair)' = View(Repair)
    BY DEF View
  <2>3. View(Repair).items \subseteq Item
    BY RepairIs, ViewIs DEF RowOK, Row
  <2> QED
    BY <2>1, <2>2, <2>3 DEF ReadyInv
<1>3. ASSUME owner # None, owner = Repair => ~Rebuilds(th'[Repair])
      PROVE  /\ tx.ready = db.ready
             /\ \A h \in tx.items : \/ tx.status[h] # "none" \/ Inserting(th'[owner], h)
                                    \/ h \in db.items /\ db.status[h] = "none"
  <2>1. owner \in Proc /\ Repair \in Proc
    BY <1>3, RepairIs DEF StoreOK
  <2>2. owner = Repair => ~Rebuilds(th[Repair])
    BY <1>3, <2>1 DEF Others
  <2>3. \A h \in Item : Inserting(th[owner], h) => Inserting(th'[owner], h)
    BY <1>3, <2>1, RepairIs DEF Others, Inserting, Shape, Does, Call
  <2>4. tx.items \subseteq Item
    BY <1>3, RepairIs DEF StoreOK, RowOK, Row
  <2> QED
    BY <1>3, <2>2, <2>3, <2>4 DEF ReadyInv
<1> QED
  BY <1>1, <1>2, <1>3 DEF ReadyInv

LEMMA ReadyWrites ==
    ASSUME TypeInv, ReadyInv, NEW p \in Proc, Others(p), NEW E, CanWrite(p), Writes(p, E), db' = db,
           p = Repair => ~Rebuilds(th'[p]), Whole(th'[p], E)
    PROVE  ReadyInv'
<1>1. ReadyComplete'
  BY DEF ReadyInv, ReadyComplete
<1>2. ASSUME Rebuilds(th'[Repair])
      PROVE  /\ ~View(Repair)'.ready
             /\ \A h \in View(Repair)'.items : View(Repair)'.status[h] # "none" \/ Ahead(th'[Repair], h)
  <2>1. p # Repair /\ th'[Repair] = th[Repair]
    BY <1>2, Procs DEF Others
  <2>2. View(Repair)' = db /\ View(Repair) = db
    BY <2>1, Procs DEF View, Writes, CanWrite
  <2> QED
    BY <1>2, <2>1, <2>2 DEF ReadyInv
<1>3. owner' = p /\ tx' = E /\ Whole(th'[p], E)
  BY DEF Writes
<1> QED
  BY <1>1, <1>2, <1>3 DEF ReadyInv, Whole

LEMMA ReadyCommits ==
    ASSUME TypeInv, ReadyInv, NEW p \in Proc, Others(p), NEW E, CanWrite(p), Commit(E), NEW r,
           p = Repair => ~Rebuilds(th'[p]),
           \A h : ~Inserting(r, h), Whole(r, E)
    PROVE  ReadyInv'
<1>1. db' = E /\ owner' = None /\ E.ready = db.ready
      /\ \A h \in E.items : E.status[h] # "none" \/ (h \in db.items /\ db.status[h] = "none")
  BY DEF Commit, Whole
<1>2. ReadyComplete'
  BY <1>1 DEF ReadyInv, ReadyComplete
<1>3. ASSUME Rebuilds(th'[Repair])
      PROVE  /\ ~View(Repair)'.ready
             /\ \A h \in View(Repair)'.items : View(Repair)'.status[h] # "none" \/ Ahead(th'[Repair], h)
  <2>1. p # Repair /\ th'[Repair] = th[Repair]
    BY <1>3, Procs DEF Others
  <2>2. View(Repair)' = E /\ View(Repair) = db
    BY <1>1, <2>1, Procs DEF View, CanWrite
  <2>3. ~db.ready /\ \A h \in db.items : db.status[h] # "none" \/ Ahead(th[Repair], h)
    BY <1>3, <2>1, <2>2 DEF ReadyInv
  <2> QED
    BY <1>1, <2>1, <2>2, <2>3
<1> QED
  BY <1>1, <1>2, <1>3 DEF ReadyInv

LEMMA ReadyRollsBack ==
    ASSUME TypeInv, ReadyInv, NEW p \in Proc, Others(p), Rollback(p), ~Rebuilds(th'[p])
    PROVE  ReadyInv'
<1>1. CASE owner = p
  <2>1. owner' = None /\ db' = db
    BY <1>1 DEF Rollback
  <2>2. ReadyComplete'
    BY <2>1 DEF ReadyInv, ReadyComplete
  <2>3. ASSUME Rebuilds(th'[Repair])
        PROVE  /\ ~View(Repair)'.ready
               /\ \A h \in View(Repair)'.items : View(Repair)'.status[h] # "none" \/ Ahead(th'[Repair], h)
    <3>1. p # Repair /\ th'[Repair] = th[Repair]
      BY <2>3, Procs DEF Others, Rebuilds, Idle
    <3>2. View(Repair)' = db /\ View(Repair) = db
      BY <1>1, <2>1, <3>1, Procs DEF View
    <3> QED
      BY <2>3, <3>1, <3>2 DEF ReadyInv
  <2> QED
    BY <2>1, <2>2, <2>3 DEF ReadyInv
<1>2. CASE owner # p
  <2>1. UNCHANGED <<db, tx, owner>> /\ ~Rebuilds(th'[p])
    BY <1>2 DEF Rollback, Rebuilds, Idle
  <2> QED
    BY <1>2, <2>1, ReadyStays
<1> QED
  BY <1>1, <1>2

LEMMA BecomesIdle ==
    ASSUME TypeInv, NEW p \in Proc, Become(p, Idle)
    PROVE  Others(p) /\ th'[p] = Idle /\ ~Rebuilds(th'[p]) /\ \A h : ~Inserting(Idle, h)
  BY ProcIs, Becoming DEF Rebuilds, Idle, Inserting

(* A transaction whose thread has nothing left to do may be committed. *)
LEMMA DoneWhole ==
    ASSUME TypeInv, ReadyInv, NEW p \in Proc, owner = p, p = Repair => ~Rebuilds(th[p]),
           th[p].op = "insert" => th[p].todo = {} /\ th[p].pc = "next"
    PROVE  Whole(Idle, tx)
<1>1. Whole(th[p], tx)
  BY ViewWhole DEF CanWrite, View
<1>2. \A h \in tx.items : ~Inserting(th[p], h)
  <2>1. tx.items \subseteq Item
    BY ProcIs, Procs DEF StoreOK, RowOK, Row
  <2> QED
    BY <2>1, ProcIs, Procs DEF Shape, Inserting
<1> QED
  BY <1>1, <1>2 DEF Whole

LEMMA ReadyEnqueue ==
    ASSUME TypeInv, ReadyInv, NEW p \in Proc, NEW h \in Item, Enqueue(p, h)
    PROVE  ReadyInv'
<1> DEFINE E == Enqueued(View(p), h)
           r == [th[p] EXCEPT !.pc = "read", !.item = h, !.seen = note[h].version, !.todo = @ \ {h}]
<1>1. RowOK(View(p)) /\ h \in View(p).items /\ CanWrite(p) /\ Writes(p, E) /\ db' = db /\ Become(p, r)
      /\ th[p].pc = "next" /\ Shape(p, th[p])
  BY EnqueueStep, ProcIs DEF Enqueue
<1>2. Alike(E, View(p))
  BY <1>1, EnqueuedIs
<1>3. Others(p) /\ th'[p] = r
  BY <1>1, ProcIs, Becoming
<1>4. ~Rebuilds(th[p]) /\ ~Rebuilds(r)
  BY <1>1 DEF Rebuilds, Shape, At, Call, Thread
<1>5. \A g \in Item : Inserting(th[p], g) => Inserting(r, g)
  BY <1>1, Procs DEF Shape, Thread, Inserting
<1>6. Whole(r, E)
  <2>1. Whole(th[p], View(p)) /\ View(p).items \subseteq Item
    BY <1>1, <1>4, ViewWhole DEF RowOK, Row
  <2> HIDE DEF r, E
  <2> QED
    BY <1>2, <1>5, <2>1 DEF Whole, Alike
<1> HIDE DEF r, E
<1> QED
  BY <1>1, <1>3, <1>4, <1>6, ReadyWrites

(* A row that is put into the index, by a reading or a rename. *)
LEMMA PutWhole ==
    ASSUME NEW r, NEW q, NEW D, NEW E, NEW h \in Item, NEW T, NEW v, NEW s, RowOK(D), s # "none",
           Whole(r, D), Changed(E, D, h, T, v, s),
           \A g \in Item : g # h => (Inserting(r, g) => Inserting(q, g))
    PROVE  Whole(q, E)
<1>1. E.items = D.items /\ E.ready = D.ready /\ E.status[h] = s /\ \A g \in Item : g # h => E.status[g] = D.status[g]
  BY DEF Changed, RowOK, Row
<1>2. D.items \subseteq Item
  BY DEF RowOK, Row
<1> QED
  BY <1>1, <1>2 DEF Whole

LEMMA ReadPuts ==
    ASSUME TypeInv, NEW p \in Proc, Read(p)
    PROVE  \E T, v : \E s \in {"ok", "error"} : Changed(tx', tx, th[p].item, T, v, s)
<1> DEFINE h == th[p].item
           n == note[h]
           M == Marked(tx, h, n.version)
           X == Indexed(tx, h, th[p].seen, n.text)
<1>1. RowOK(tx) /\ h \in tx.items /\ n.version \in Version /\ n.text \in Text /\ th[p].seen \in Version
  BY ReadStep, ProcIs DEF DiskOK, Note, Shape, Thread
<1>2. tx' = IF n.text = Poison THEN M ELSE X
  BY DEF Read
<1> HIDE DEF n, h
<1>3. Changed(M, tx, h, tx.topics[h], n.version, "error")
  BY <1>1, MarkedIs
<1> DEFINE s == IF n.text = Bad THEN "error" ELSE "ok"
<1>4. Changed(X, tx, h, TopicsOf(n.text), th[p].seen, s) /\ s \in {"ok", "error"}
  BY <1>1, IndexedIs
<1> HIDE DEF s, M, X
<1> QED
  BY <1>2, <1>3, <1>4 DEF h

LEMMA ReadyRead ==
    ASSUME TypeInv, ReadyInv, NEW p \in Proc, Read(p)
    PROVE  ReadyInv'
<1> DEFINE h == th[p].item
           r == [th[p] EXCEPT !.pc = "next", !.item = None, !.seen = 0]
<1>1. /\ owner = p /\ owner' = p /\ db' = db /\ RowOK(tx) /\ h \in Item /\ Become(p, r) /\ th[p].pc = "read"
      /\ Shape(p, th[p])
  BY ReadStep, ProcIs DEF Read
<1>2. PICK T, v : \E s \in {"ok", "error"} : Changed(tx', tx, h, T, v, s)
  BY ReadPuts
<1>3. PICK s \in {"ok", "error"} : Changed(tx', tx, h, T, v, s)
  BY <1>2
<1>4. Others(p) /\ th'[p] = r
  BY <1>1, ProcIs, Becoming
<1>5. ~Rebuilds(th[p]) /\ ~Rebuilds(r) /\ \A g \in Item : g # h => (Inserting(th[p], g) => Inserting(r, g))
  BY <1>1 DEF Rebuilds, Shape, At, Call, Thread, Inserting
<1>6. Whole(th[p], tx)
  BY <1>1, <1>5, ViewWhole DEF CanWrite, View
<1>7. Whole(r, tx')
  <2> HIDE DEF r
  <2> QED
    BY <1>1, <1>3, <1>5, <1>6, PutWhole
<1> HIDE DEF r
<1> QED
  BY <1>1, <1>4, <1>5, <1>7, ReadyWrites DEF Writes, CanWrite

LEMMA ReadyRepair ==
    ASSUME TypeInv, ReadyInv, PickBatch \/ EndBatch \/ BatchFails \/ FullFails \/ FullSign \/ FullLoad
    PROVE  ReadyInv'
<1>1. CASE PickBatch
  <2>1. PICK H \in SUBSET db.dirty :
        Become(Repair, [th[Repair] EXCEPT !.pc = "next", !.todo = H, !.queued = Cardinality(H)])
    BY <1>1 DEF PickBatch
  <2>2. Others(Repair) /\ th'[Repair].pc = "next"
    <3> DEFINE r == [th[Repair] EXCEPT !.pc = "next", !.todo = H, !.queued = Cardinality(H)]
    <3>1. r.pc = "next"
      BY RepairIs DEF Shape, Thread
    <3> HIDE DEF r
    <3> QED
      BY <2>1, <3>1, RepairIs, ProcIs, Becoming DEF r
  <2>3. owner # Repair /\ UNCHANGED <<db, tx, owner>> /\ ~Rebuilds(th'[Repair])
    BY <1>1, <2>2, RepairIs DEF PickBatch, Working, Rebuilds
  <2> QED
    BY <2>2, <2>3, RepairIs, ReadyStays
<1>2. CASE EndBatch
  <2>1. Others(Repair) /\ ~Rebuilds(th'[Repair]) /\ ~Rebuilds(th[Repair]) /\ th[Repair].op = "dirty"
    <3>1. Others(Repair) /\ th[Repair].op = "dirty"
      BY <1>2, EndBatchStep DEF Step, EndBatch, Reindexed
    <3> DEFINE r == [Idle EXCEPT !.op = "dirty", !.pc = "start"]
    <3>2. Become(Repair, Idle) \/ Become(Repair, r)
      BY <1>2 DEF EndBatch, StopRepair
    <3>3. th'[Repair] = Idle \/ th'[Repair] = r
      BY <3>2, RepairIs, ProcIs, Becoming
    <3>4. ~Rebuilds(Idle) /\ ~Rebuilds(r) /\ ~Rebuilds(th[Repair])
      BY <3>1 DEF Rebuilds, Idle
    <3> HIDE DEF r
    <3> QED
      BY <3>1, <3>3, <3>4
  <2>2. CASE owner # Repair
    BY <1>2, <2>1, <2>2, RepairIs, ReadyStays DEF EndBatch
  <2>3. CASE owner = Repair
    <3>1. Whole(Idle, tx) /\ CanWrite(Repair)
      BY <2>1, <2>3, RepairIs, DoneWhole DEF CanWrite
    <3>2. Commit(tx)
      BY <1>2, <2>3 DEF EndBatch
    <3>3. \A h : ~Inserting(Idle, h)
      BY DEF Inserting, Idle
    <3> QED
      BY <2>1, <3>1, <3>2, <3>3, RepairIs, ReadyCommits
  <2> QED
    BY <2>2, <2>3
<1>3. CASE BatchFails \/ FullFails
  BY <1>3, RepairFailsStep, RepairIs, BecomesIdle, ReadyRollsBack
<1>4. CASE FullSign
  <2>1. PICK h \in th[Repair].todo :
          Become(Repair, [th[Repair] EXCEPT !.pc = "load", !.item = h, !.seen = note[h].version])
    BY <1>4 DEF FullSign
  <2>2. /\ Others(Repair) /\ th'[Repair].pc = "load" /\ th'[Repair].op = "full"
        /\ th'[Repair].todo = th[Repair].todo /\ th'[Repair].rows = th[Repair].rows
    <3> DEFINE r == [th[Repair] EXCEPT !.pc = "load", !.item = h, !.seen = note[h].version]
    <3>1. r.pc = "load" /\ r.op = "full" /\ r.todo = th[Repair].todo /\ r.rows = th[Repair].rows
      BY <1>4, RepairIs DEF Shape, Thread, FullSign, Full
    <3> HIDE DEF r
    <3> QED
      BY <2>1, <3>1, RepairIs, ProcIs, Becoming DEF r
  <2>3. Rebuilds(th[Repair]) /\ Rebuilds(th'[Repair]) /\ UNCHANGED <<db, tx, owner>>
    BY <1>4, <2>2 DEF Rebuilds, FullSign, Full
  <2> QED
    BY <2>2, <2>3, RepairIs, ReadyStays DEF Ahead
<1>5. CASE FullLoad
  <2> DEFINE h == th[Repair].item
             e == [item |-> h, version |-> th[Repair].seen, text |-> note[h].text]
  <2>1. Become(Repair, [th[Repair] EXCEPT !.pc = "full", !.item = None, !.seen = 0, !.todo = @ \ {h}, !.rows = @ \cup {e}])
    BY <1>5 DEF FullLoad
  <2>2. e.item = h
    OBVIOUS
  <2> HIDE DEF e
  <2>3. /\ Others(Repair) /\ th'[Repair].pc = "full" /\ th'[Repair].op = "full" /\ th[Repair].op = "full"
        /\ th'[Repair].todo = th[Repair].todo \ {h} /\ th'[Repair].rows = th[Repair].rows \cup {e}
    <3> DEFINE r == [th[Repair] EXCEPT !.pc = "full", !.item = None, !.seen = 0, !.todo = @ \ {h}, !.rows = @ \cup {e}]
    <3>1. th[Repair].op = "full"
      BY <1>5, RepairIs DEF FullLoad, Shape, At, Call
    <3>2. r.pc = "full" /\ r.op = "full" /\ r.todo = th[Repair].todo \ {h} /\ r.rows = th[Repair].rows \cup {e}
      BY <3>1, RepairIs DEF Shape, Thread
    <3> HIDE DEF r
    <3> QED
      BY <2>1, <3>1, <3>2, RepairIs, ProcIs, Becoming DEF r
  <2>4. Rebuilds(th[Repair]) /\ Rebuilds(th'[Repair]) /\ UNCHANGED <<db, tx, owner>>
    BY <1>5, <2>3 DEF Rebuilds, FullLoad
  <2>5. \A g \in Item : Ahead(th[Repair], g) => Ahead(th'[Repair], g)
    BY <2>2, <2>3 DEF Ahead, HasRow
  <2> QED
    BY <2>3, <2>4, <2>5, RepairIs, ReadyStays
<1> QED
  BY <1>1, <1>2, <1>3, <1>4, <1>5

LEMMA ReadyFull ==
    ASSUME TypeInv, ReadyInv, FullBegin \/ FullFlush \/ FullEnd
    PROVE  ReadyInv'
<1> DEFINE D == View(Repair)
           R == th[Repair].rows
           E == Stored(D, R)
<1>1. CASE FullBegin
  <2> DEFINE r == [th[Repair] EXCEPT !.pc = "full", !.todo = db.items]
             B == Emptied(db)
  <2>1. Writes(Repair, B) /\ db' = db /\ Become(Repair, r)
    BY <1>1 DEF FullBegin
  <2>2. r.op = "full" /\ r.pc = "full" /\ r.todo = db.items
    BY <1>1, RepairIs DEF FullBegin, Shape, Thread
  <2>3. B.items = db.items /\ B.ready = FALSE
    BY RepairIs, EmptiedIs DEF StoreOK
  <2> HIDE DEF r, B
  <2>4. th'[Repair] = r /\ owner' = Repair /\ tx' = B
    BY <2>1, RepairIs, ProcIs, Becoming DEF Writes
  <2>5. ReadyComplete'
    BY <2>1 DEF ReadyInv, ReadyComplete
  <2>6. View(Repair)' = B
    BY <2>4 DEF View
  <2> QED
    BY <2>2, <2>3, <2>4, <2>5, <2>6 DEF ReadyInv, Rebuilds, Ahead
<1>2. CASE FullFlush
  <2> DEFINE r == [th[Repair] EXCEPT !.rows = {}]
  <2>1. Commit(E) /\ Become(Repair, r) /\ Fits(D, R) /\ Rebuilds(th[Repair])
    BY <1>2 DEF FullFlush, Full, Rebuilds
  <2>2. r.todo = th[Repair].todo /\ r.rows = {}
    BY RepairIs DEF Shape, Thread
  <2>3. RowOK(D) /\ R \in SUBSET Entry
    BY <1>2, FullFlushStep
  <2>4. E.items = D.items /\ E.ready = D.ready /\ \A h \in Item : ~HasRow(R, h) => E.status[h] = D.status[h]
    BY <2>1, <2>3, StoredIs
  <2>5. \A h \in Item : HasRow(R, h) => E.status[h] # "none"
    <3>1. ASSUME NEW h \in Item, HasRow(R, h) PROVE E.status[h] # "none"
      <4>1. \E q \in R : E.status[h] = IF q.text = Bad THEN "error" ELSE "ok"
        BY <2>1, <2>3, <3>1, StoredIs
      <4> QED
        BY <4>1
    <3> QED
      BY <3>1
  <2>6. ~D.ready /\ \A h \in D.items : D.status[h] # "none" \/ Ahead(th[Repair], h)
    BY <2>1 DEF ReadyInv
  <2>7. D.items \subseteq Item
    BY <2>3 DEF RowOK, Row
  <2> HIDE DEF r, E, D, R
  <2>8. th'[Repair] = r /\ owner' = None /\ db' = E
    BY <2>1, RepairIs, ProcIs, Becoming DEF Commit
  <2>9. View(Repair)' = E
    BY <2>8, Procs DEF View
  <2>10. \A h \in E.items : E.status[h] # "none" \/ Ahead(r, h)
    BY <2>2, <2>4, <2>5, <2>6, <2>7 DEF Ahead, R
  <2>11. ReadyComplete'
    BY <2>4, <2>6, <2>8 DEF ReadyComplete
  <2> QED
    BY <2>4, <2>6, <2>8, <2>9, <2>10, <2>11 DEF ReadyInv
<1>3. CASE FullEnd
  <2>1. Commit(Complete(E)) /\ Become(Repair, Idle) /\ RowOK(E) /\ RowOK(D) /\ R \in SUBSET Entry
    BY <1>3, FullEndStep
  <2>1a. Fits(D, R) /\ Rebuilds(th[Repair]) /\ th[Repair].todo = {}
    BY <1>3 DEF FullEnd, Full, Rebuilds
  <2>2. E.items = D.items /\ \A h \in Item : ~HasRow(R, h) => E.status[h] = D.status[h]
    BY <2>1, <2>1a, StoredIs
  <2>3. ASSUME NEW h \in Item, HasRow(R, h) PROVE E.status[h] # "none"
    <3>1. \E q \in R : E.status[h] = IF q.text = Bad THEN "error" ELSE "ok"
      BY <2>1, <2>1a, <2>3, StoredIs
    <3> QED
      BY <3>1
  <2>4. \A h \in D.items : D.status[h] # "none" \/ HasRow(R, h)
    BY <2>1a DEF ReadyInv, Ahead
  <2>5. D.items \subseteq Item
    BY <2>1 DEF RowOK, Row
  <2> HIDE DEF E, D, R
  <2>6. \A h \in E.items : E.status[h] # "none"
    BY <2>2, <2>3, <2>4, <2>5
  <2>7. Complete(E).items = E.items /\ Complete(E).status = E.status
    BY <2>1, CompleteIs
  <2>8. db' = Complete(E) /\ owner' = None /\ ~Rebuilds(th'[Repair])
    BY <2>1, RepairIs, BecomesIdle DEF Commit
  <2>9. ReadyComplete'
    BY <2>6, <2>7, <2>8 DEF ReadyComplete
  <2> QED
    BY <2>8, <2>9 DEF ReadyInv
<1> QED
  BY <1>1, <1>2, <1>3

LEMMA ReadyFlush ==
    ASSUME TypeInv, ReadyInv, StartFlush \/ EndFlush \/ FlushFails
    PROVE  ReadyInv'
<1>1. CASE StartFlush
  <2>1. UNCHANGED <<db, tx, owner>>
    BY <1>1 DEF StartFlush
  <2>2. CASE UNCHANGED th
    BY <2>1, <2>2 DEF ReadyInv, ReadyComplete, View
  <2>3. CASE Step(Watchdog)
    <3>1. th[Watchdog].op # "insert"
      BY <1>1 DEF StartFlush
    <3> QED
      BY <2>1, <2>3, <3>1, Procs, ReadyStays DEF Step
  <2> QED
    BY <1>1, <2>2, <2>3, StartFlushStep
<1>2. CASE EndFlush
  <2>1. owner = Watchdog /\ Commit(tx) /\ Become(Watchdog, Idle) /\ th[Watchdog].op = "flush"
    BY <1>2, EndFlushStep DEF EndFlush, Reindexed
  <2>2. Whole(Idle, tx)
    BY <2>1, Procs, DoneWhole
  <2> QED
    BY <2>1, <2>2, Procs, BecomesIdle, ReadyCommits DEF CanWrite
<1>3. CASE FlushFails
  BY <1>3, FlushFailsStep, Procs, BecomesIdle, ReadyRollsBack
<1> QED
  BY <1>1, <1>2, <1>3

LEMMA ReadyCall ==
    ASSUME TypeInv, ReadyInv, NEW p \in Callers, EndCall(p) \/ CallFails(p) \/ InsertFails(p) \/ InsertUnlink(p)
    PROVE  ReadyInv'
<1>1. CASE EndCall(p)
  <2>1. owner = p /\ Commit(tx) /\ Become(p, Idle) /\ th[p].todo = {} /\ th[p].pc = "next"
    BY <1>1, EndCallStep DEF EndCall, Reindexed
  <2>2. Whole(Idle, tx)
    BY <2>1, CallerIs, DoneWhole
  <2> QED
    BY <2>1, <2>2, CallerIs, BecomesIdle, ReadyCommits DEF CanWrite
<1>2. CASE CallFails(p)
  BY <1>2, CallFailsStep, CallerIs, BecomesIdle, ReadyRollsBack
<1>3. CASE InsertFails(p)
  BY <1>3, InsertFailsStep, CallerIs, ReadyRollsBack DEF Step, Rebuilds
<1>4. CASE InsertUnlink(p)
  BY <1>4, InsertUnlinkStep, CallerIs, ReadyStays DEF Step
<1> QED
  BY <1>1, <1>2, <1>3, <1>4

LEMMA ReadyNew ==
    ASSUME TypeInv, ReadyInv, NEW p \in Callers, NewCall(p)
    PROVE  ReadyInv'
<1>1. ASSUME Step(p), th[p].op = "none", UNCHANGED <<db, tx, owner>> PROVE ReadyInv'
  BY <1>1, CallerIs, ReadyStays DEF Step
<1>2. CASE \E h \in Item : Detail(p, h) \/ DeleteStage(p, h)
  <2>1. UNCHANGED <<db, tx, owner>>
    BY <1>2 DEF Detail, DeleteStage
  <2> QED
    BY <1>1, <1>2, <2>1, DetailStep, DeleteStageStep
<1>3. CASE \E t \in Topic, u \in Topic \cup {None} : Rename(p, t, u)
  <2>1. UNCHANGED <<db, tx, owner>>
    BY <1>3 DEF Rename
  <2> QED
    BY <1>1, <1>3, <2>1, RenameStarts
<1>4. CASE \E h \in Item, text \in Topics : Patch(p, h, text)
  <2>1. UNCHANGED <<db, tx, owner>>
    BY <1>4 DEF Patch
  <2> QED
    BY <1>1, <1>4, <2>1, PatchStep
<1>5. ASSUME NEW h \in Item, NEW text \in Topics, Insert(p, h, text) PROVE ReadyInv'
  <2> DEFINE r == [Idle EXCEPT !.op = "insert", !.pc = "next", !.todo = {h}, !.keep = {h}]
             E == Grown(db, h)
  <2>1. Writes(p, E) /\ db' = db /\ owner = None /\ Become(p, r)
    BY <1>5, InsertStep DEF Insert
  <2>2. RowOK(db) /\ h \in Item \ db.items
    BY <1>5, CallerIs, InsertStep DEF StoreOK
  <2>3. E.items = db.items \cup {h} /\ E.status = db.status /\ E.ready = db.ready
    BY <2>2, GrownIs
  <2>4. Inserting(r, h)
    BY DEF Inserting, Idle
  <2> HIDE DEF E, r
  <2>5. Others(p) /\ th'[p] = r
    BY <2>1, CallerIs, Becoming
  <2>6. Whole(r, E)
    BY <2>3, <2>4 DEF Whole
  <2> QED
    BY <2>1, <2>5, <2>6, CallerIs, ReadyWrites DEF CanWrite
<1> QED
  BY <1>2, <1>3, <1>4, <1>5 DEF NewCall

LEMMA ReadyDelete ==
    ASSUME TypeInv, ReadyInv, NEW p \in Callers, DeleteDrop(p) \/ DeleteFails(p)
    PROVE  ReadyInv'
<1>1. CASE DeleteDrop(p)
  <2> DEFINE h == th[p].item
             E == Dropped(db, h, th[p].keep)
  <2>1. owner = None /\ Commit(E) /\ Become(p, Idle) /\ h \in Item /\ th[p].keep \in Topics
    BY <1>1, DeleteDropStep, DropIs DEF DeleteDrop
  <2>2. RowOK(db)
    BY CallerIs DEF StoreOK
  <2>3. Shrunk(E, db, h)
    <3> DEFINE K == th[p].keep
    <3> HIDE DEF h, K
    <3>1. K \in Topics /\ h \in Item
      BY <2>1 DEF K
    <3>2. Shrunk(Dropped(db, h, K), db, h)
      BY <2>2, <3>1, DroppedIs
    <3> QED
      BY <3>2 DEF K
  <2> HIDE DEF E
  <2>4. Whole(Idle, E)
    BY <2>1, <2>2, <2>3 DEF Shrunk, Whole, RowOK, Row
  <2> QED
    BY <2>1, <2>4, CallerIs, BecomesIdle, ReadyCommits DEF CanWrite
<1>2. CASE DeleteFails(p)
  <2>1. UNCHANGED <<db, tx, owner>> /\ Become(p, Idle) /\ th[p].pc = "drop"
    BY <1>2 DEF DeleteFails
  <2>2. owner # p
    BY <2>1, DropIs
  <2> QED
    BY <2>1, <2>2, CallerIs, BecomesIdle, ReadyStays
<1> QED
  BY <1>1, <1>2

LEMMA ReadyRename ==
    ASSUME TypeInv, ReadyInv, NEW p \in Callers, RenameStep(p)
    PROVE  ReadyInv'
<1>1. CASE \E h \in Item : Rewrite(p, h)
  <2>1. th[p].op = "rename"
    BY <1>1, RenamingIs DEF Rewrite
  <2> QED
    BY <1>1, <2>1, RewriteStep, CallerIs, ReadyStays DEF Step
<1>2. CASE Restamp(p)
  <2> DEFINE h == th[p].item
             E == Put(View(p), h, th[p].keep, note[h].version, "ok")
  <2>1. Step(p) /\ th[p].op = "rename"
    BY <1>2, RestampStep
  <2>2. CASE UNCHANGED <<db, tx, owner>>
    BY <2>1, <2>2, CallerIs, ReadyStays DEF Step
  <2>3. CASE CanWrite(p) /\ db' = db /\ h \in View(p).items /\ RowOK(View(p)) /\ Writes(p, E)
    <3>1. h \in Item /\ th[p].keep \in Topics /\ note[h].version \in Version
      BY <1>2, RestampStep, CallerIs DEF DiskOK, Note
    <3> DEFINE D == View(p)
               T == th[p].keep
               v == note[h].version
               s == "ok"
    <3>2. RowOK(D) /\ h \in D.items /\ T \in Topics /\ v \in Version /\ s \in {"ok", "error"}
      BY <2>3, <3>1
    <3>3. Whole(th[p], D)
      BY <2>3, CallerIs, ViewWhole
    <3>4. \A q, g : ~Inserting(th[p], g)
      BY <2>1 DEF Inserting
    <3> HIDE DEF D, T, v, s, h
    <3>5. Changed(Put(D, h, T, v, s), D, h, T, v, s)
      BY <3>2, PutIs
    <3>6. Whole(th'[p], Put(D, h, T, v, s))
      BY <3>1, <3>2, <3>3, <3>4, <3>5, PutWhole
    <3>7. Put(D, h, T, v, s) = E
      BY DEF D, T, v, s
    <3> HIDE DEF E
    <3> QED
      BY <2>1, <2>3, <3>6, <3>7, CallerIs, ReadyWrites DEF Step
  <2> QED
    BY <1>2, <2>2, <2>3, RestampStep
<1>3. CASE RenameEnd(p)
  <2>1. Become(p, Idle) /\ th[p].op = "rename"
    BY <1>3, RenameEndStep
  <2>2. CASE UNCHANGED <<db, tx, owner>> /\ owner # p
    BY <2>1, <2>2, CallerIs, BecomesIdle, ReadyStays
  <2>3. CASE owner = p /\ RowOK(tx) /\ Commit(Refreshed(Recount(tx, Refs(p))))
    <3> DEFINE E == Refreshed(Recount(tx, Refs(p)))
    <3>1. Alike(E, tx)
      BY <2>3, SettledIs
    <3>2. Whole(Idle, tx)
      BY <2>1, <2>3, CallerIs, DoneWhole
    <3> HIDE DEF E
    <3>3. Whole(Idle, E)
      BY <3>1, <3>2 DEF Alike, Whole
    <3> QED
      BY <2>1, <2>3, <3>3, CallerIs, BecomesIdle, ReadyCommits DEF CanWrite, E
  <2> QED
    BY <1>3, <2>2, <2>3, RenameEndStep
<1>4. CASE RenameFails(p)
  BY <1>4, RenameFailsStep, CallerIs, BecomesIdle, ReadyRollsBack
<1> QED
  BY <1>1, <1>2, <1>3, <1>4 DEF RenameStep

LEMMA ReadyNext == TypeInv /\ ReadyInv /\ [Next]_vars => ReadyInv'
<1> SUFFICES ASSUME TypeInv, ReadyInv, [Next]_vars PROVE ReadyInv'
  OBVIOUS
<1>0. ASSUME UNCHANGED <<db, tx, owner, th>> PROVE ReadyInv'
  BY <1>0 DEF ReadyInv, ReadyComplete, View
<1>1. ASSUME NEW full \in BOOLEAN, StartRepair(full) PROVE ReadyInv'
  <2> DEFINE r == [Idle EXCEPT !.op = IF full THEN "full" ELSE "dirty", !.pc = "start"]
  <2>1. UNCHANGED <<db, tx, owner>> /\ Become(Repair, r) /\ owner # Repair
    BY <1>1, RepairIs DEF StartRepair, Shape, At, Call, Working
  <2>2. ~Rebuilds(r)
    BY DEF Rebuilds, Idle
  <2> HIDE DEF r
  <2>3. Others(Repair) /\ th'[Repair] = r
    BY <2>1, RepairIs, ProcIs, Becoming
  <2> QED
    BY <2>1, <2>2, <2>3, RepairIs, ReadyStays
<1>2. CASE RepairStep
  <2>1. CASE \E h \in Item : Enqueue(Repair, h)
    BY <2>1, RepairIs, ReadyEnqueue
  <2> QED
    BY <1>2, <2>1, RepairIs, ReadyRead, ReadyRepair, ReadyFull DEF RepairStep
<1>3. CASE FlushStep \/ StartFlush
  <2>1. CASE \E h \in Item : Enqueue(Watchdog, h)
    BY <2>1, Procs, ReadyEnqueue
  <2> QED
    BY <1>3, <2>1, Procs, ReadyRead, ReadyFlush DEF FlushStep
<1>4. ASSUME NEW p \in Callers, CallStep(p) PROVE ReadyInv'
  <2>1. CASE \E h \in Item : Enqueue(p, h)
    BY <2>1, CallerIs, ReadyEnqueue
  <2>2. CASE Read(p)
    BY <2>2, CallerIs, ReadyRead
  <2> QED
    BY <1>4, <2>1, <2>2, ReadyCall, ReadyDelete, ReadyRename DEF CallStep
<1>5. ASSUME NEW p \in Callers, NewCall(p) PROVE ReadyInv'
  BY <1>5, ReadyNew
<1>6. CASE \E h \in Item : Deliver(h)
  BY <1>6, <1>0 DEF Deliver
<1>7. CASE \E h \in Item : \E text \in Edits[h] : Edit(h, text)
  BY <1>7, <1>0 DEF Edit
<1>8. CASE Crash
  <2>1. th' = [p \in Proc |-> Idle] /\ db' = db /\ owner' = None
    BY <1>8 DEF Crash
  <2>2. ~Rebuilds(th'[Repair])
    BY <2>1, Procs DEF Rebuilds, Idle
  <2> QED
    BY <2>1, <2>2 DEF ReadyInv, ReadyComplete
<1>9. CASE UNCHANGED vars
  BY <1>9, <1>0 DEF vars
<1> QED
  BY <1>1, <1>2, <1>3, <1>4, <1>5, <1>6, <1>7, <1>8, <1>9 DEF Next

(* An index that calls itself ready has a row for every item in every         *)
(* reachable state: rebuild_all_metadata takes the mark away first and gives  *)
(* it back when the items it has not read are those others have written.      *)
THEOREM ReadyIsComplete == Spec => []ReadyComplete
<1>1. Init => ReadyInv
  BY InitIs, Procs DEF ReadyInv, ReadyComplete, Rebuilds, Idle
<1>2. ReadyInv => ReadyComplete
  BY DEF ReadyInv
<1> QED
  BY <1>1, <1>2, TypeInit, TypeNext, ReadyNext, PTL DEF Spec

-----------------------------------------------------------------------------
(***************************************************************************)
(* The counts of the topics are right.                                     *)
(***************************************************************************)
LEMMA FacetsWeaken ==
    ASSUME NEW D, NEW S, NEW X, Facets(D, S, X), NEW S2, NEW X2, S \subseteq S2, X \subseteq X2
    PROVE  Facets(D, S2, X2)
  BY DEF Facets

LEMMA ViewFacets ==
    ASSUME FacetInv, NEW p \in Proc, CanWrite(p)
    PROVE  Facets(View(p), drift, Touched(th[p]))
<1>1. CASE owner = p
  BY <1>1, Procs DEF FacetInv, View
<1>2. CASE owner # p
  BY <1>2 DEF FacetInv, View, Facets
<1> QED
  BY <1>1, <1>2

LEMMA FacetStays ==
    ASSUME TypeInv, FacetInv, NEW p \in Proc, Others(p), UNCHANGED <<db, tx, owner>>, drift \subseteq drift',
           owner = p => Touched(th[p]) \subseteq Touched(th'[p])
    PROVE  FacetInv'
<1>1. Facets(db, drift', {})
  BY FacetsWeaken DEF FacetInv
<1>2. ASSUME owner # None PROVE Facets(tx, drift', Touched(th'[owner]))
  <2>1. owner \in Proc
    BY <1>2, ProcIs DEF StoreOK
  <2>2. Touched(th[owner]) \subseteq Touched(th'[owner])
    BY <2>1 DEF Others
  <2> QED
    BY <1>2, <2>2, FacetsWeaken DEF FacetInv
<1> QED
  BY <1>1, <1>2 DEF FacetInv, Facets, Count

LEMMA FacetWrites ==
    ASSUME TypeInv, FacetInv, NEW p \in Proc, NEW E, Writes(p, E), db' = db, drift \subseteq drift',
           Facets(E, drift', Touched(th'[p]))
    PROVE  FacetInv'
<1>1. Facets(db, drift', {})
  BY FacetsWeaken DEF FacetInv
<1> QED
  BY <1>1 DEF FacetInv, Facets, Count, Writes

LEMMA FacetCommits ==
    ASSUME NEW E, Commit(E), Facets(E, drift', {})
    PROVE  FacetInv'
  BY DEF FacetInv, Facets, Count, Commit

LEMMA FacetRollsBack ==
    ASSUME TypeInv, FacetInv, NEW p \in Proc, Others(p), Rollback(p), drift' = drift
    PROVE  FacetInv'
<1>1. CASE owner = p
  BY <1>1 DEF FacetInv, Facets, Count, Rollback
<1>2. CASE owner # p
  BY <1>2, FacetStays DEF Rollback
<1> QED
  BY <1>1, <1>2

LEMMA AlikeFacets ==
    ASSUME NEW D, NEW E, Alike(E, D), E.facet = D.facet, NEW S, NEW X, Facets(D, S, X)
    PROVE  Facets(E, S, X)
  BY DEF Alike, Facets, Count

LEMMA FacetEnqueue ==
    ASSUME TypeInv, FacetInv, NEW p \in Proc, NEW h \in Item, Enqueue(p, h)
    PROVE  FacetInv'
<1> DEFINE E == Enqueued(View(p), h)
           r == [th[p] EXCEPT !.pc = "read", !.item = h, !.seen = note[h].version, !.todo = @ \ {h}]
<1>1. RowOK(View(p)) /\ h \in View(p).items /\ CanWrite(p) /\ Writes(p, E) /\ db' = db /\ Become(p, r)
      /\ drift' = drift
  BY EnqueueStep DEF Enqueue, history
<1>2. Alike(E, View(p)) /\ E.facet = View(p).facet
  BY <1>1, EnqueuedIs
<1>3. Touched(r) = Touched(th[p])
  BY ProcIs DEF Shape, Thread, Touched
<1> HIDE DEF r, E
<1>4. th'[p] = r
  BY <1>1, ProcIs, Becoming
<1>5. Facets(E, drift, Touched(th'[p]))
  BY <1>1, <1>2, <1>3, <1>4, ViewFacets, AlikeFacets
<1> QED
  BY <1>1, <1>5, FacetWrites

LEMMA FacetRead ==
    ASSUME TypeInv, FacetInv, NEW p \in Proc, Read(p)
    PROVE  FacetInv'
<1> DEFINE h == th[p].item
           n == note[h]
           M == Marked(tx, h, n.version)
           X == Indexed(tx, h, th[p].seen, n.text)
           r == [th[p] EXCEPT !.pc = "next", !.item = None, !.seen = 0]
<1>1. RowOK(tx) /\ h \in tx.items /\ n.version \in Version /\ n.text \in Text /\ th[p].seen \in Version
      /\ owner = p /\ owner' = p /\ db' = db /\ drift' = drift /\ Become(p, r)
  BY ReadStep, ProcIs DEF DiskOK, Note, Shape, Thread, Read
<1>2. tx' = IF n.text = Poison THEN M ELSE X
  BY DEF Read
<1>3. Touched(r) = Touched(th[p])
  BY ProcIs DEF Shape, Thread, Touched
<1>4. Facets(tx, drift, Touched(th[p]))
  BY <1>1, ViewFacets DEF CanWrite, View
<1> HIDE DEF n, h
<1>5. Facets(M, drift, Touched(th[p]))
  <2>1. Changed(M, tx, h, tx.topics[h], n.version, "error") /\ M.facet = tx.facet
    BY <1>1, MarkedIs
  <2>2. M.topics = tx.topics /\ M.items = tx.items /\ M.ready = tx.ready
    BY <1>1, <2>1 DEF Changed, RowOK, Row
  <2> HIDE DEF M
  <2> QED
    BY <1>4, <2>1, <2>2 DEF Facets, Count
<1>6. Facets(X, drift, Touched(th[p]))
  <2> DEFINE s == IF n.text = Bad THEN "error" ELSE "ok"
  <2>1. \A t \in Topic : tx.facet[t] = Count(tx, t) => X.facet[t] = Count(X, t)
    BY <1>1, IndexedIs
  <2>2. Changed(X, tx, h, TopicsOf(n.text), th[p].seen, s)
    BY <1>1, IndexedIs
  <2> HIDE DEF X, s
  <2>3. X.ready = tx.ready
    BY <2>2 DEF Changed
  <2> QED
    BY <1>4, <2>1, <2>3 DEF Facets
<1> HIDE DEF M, X, r
<1>7. th'[p] = r
  BY <1>1, ProcIs, Becoming
<1>8. Facets(tx', drift', Touched(th'[p]))
  BY <1>1, <1>2, <1>3, <1>5, <1>6, <1>7
<1> QED
  BY <1>1, <1>8, FacetWrites DEF Writes

LEMMA FacetCommitsTx ==
    ASSUME TypeInv, FacetInv, NEW p \in Proc, owner = p, th[p].op # "rename", Commit(tx), drift' = drift
    PROVE  FacetInv'
<1>1. Facets(tx, drift, Touched(th[p]))
  BY ViewFacets DEF CanWrite, View
<1>2. Facets(tx, drift', {})
  BY <1>1 DEF Touched, Facets
<1> QED
  BY <1>2, FacetCommits

LEMMA FacetRepair ==
    ASSUME TypeInv, FacetInv, PickBatch \/ EndBatch \/ BatchFails \/ FullFails \/ FullSign \/ FullLoad
    PROVE  FacetInv'
<1>1. drift' = drift /\ th[Repair].op # "rename"
  BY RepairIs, Procs DEF PickBatch, EndBatch, BatchFails, FullFails, RepairFails, FullSign, FullLoad, history,
     Shape, Does, Call
<1>2. CASE BatchFails \/ FullFails
  BY <1>1, <1>2, RepairFailsStep, RepairIs, BecomesIdle, FacetRollsBack
<1>3. CASE EndBatch /\ owner = Repair
  BY <1>1, <1>3, RepairIs, FacetCommitsTx DEF EndBatch
<1>4. CASE PickBatch \/ FullSign \/ FullLoad \/ (EndBatch /\ owner # Repair)
  <2>1. UNCHANGED <<db, tx, owner>>
    BY <1>4 DEF PickBatch, EndBatch, FullSign, FullLoad
  <2>2. Others(Repair)
    BY <1>4, PickBatchStep, EndBatchStep, FullSignStep, FullLoadStep DEF Step
  <2>3. Touched(th[Repair]) \subseteq Touched(th'[Repair])
    BY <1>1 DEF Touched
  <2> QED
    BY <1>1, <2>1, <2>2, <2>3, RepairIs, FacetStays
<1> QED
  BY <1>2, <1>3, <1>4

LEMMA FacetFull ==
    ASSUME TypeInv, ReadyInv, FacetInv, FullBegin \/ FullFlush \/ FullEnd
    PROVE  FacetInv'
<1>1. drift' = drift
  BY DEF FullBegin, FullFlush, FullEnd, history
<1>2. CASE FullBegin
  <2> DEFINE B == Emptied(db)
  <2>1. Writes(Repair, B) /\ db' = db
    BY <1>2 DEF FullBegin
  <2>2. B.ready = FALSE
    BY RepairIs, EmptiedIs DEF StoreOK
  <2> HIDE DEF B
  <2>3. Facets(B, drift', Touched(th'[Repair]))
    BY <2>2 DEF Facets
  <2> QED
    BY <1>1, <2>1, <2>3, RepairIs, FacetWrites
<1>3. CASE FullFlush
  <2> DEFINE D == View(Repair)
             R == th[Repair].rows
             E == Stored(D, R)
  <2>1. Commit(E) /\ Fits(D, R) /\ Rebuilds(th[Repair])
    BY <1>3 DEF FullFlush, Full, Rebuilds
  <2>2. RowOK(D) /\ R \in SUBSET Entry /\ ~D.ready
    BY <1>3, <2>1, FullFlushStep DEF ReadyInv
  <2>3. E.ready = D.ready
    BY <2>1, <2>2, StoredIs
  <2> HIDE DEF E, D
  <2>4. Facets(E, drift', {})
    BY <2>2, <2>3 DEF Facets
  <2> QED
    BY <2>1, <2>4, FacetCommits
<1>4. CASE FullEnd
  <2> DEFINE S == Stored(View(Repair), th[Repair].rows)
             E == Complete(S)
  <2>1. Commit(E) /\ RowOK(S)
    BY <1>4, FullEndStep
  <2> HIDE DEF S
  <2>2. \A t \in Topic : E.facet[t] = Count(E, t)
    BY <2>1, CompleteIs
  <2> HIDE DEF E
  <2>3. Facets(E, drift', {})
    BY <2>2 DEF Facets
  <2> QED
    BY <2>1, <2>3, FacetCommits
<1> QED
  BY <1>2, <1>3, <1>4

LEMMA FacetFlush ==
    ASSUME TypeInv, FacetInv, StartFlush \/ EndFlush \/ FlushFails
    PROVE  FacetInv'
<1>1. drift' = drift
  BY DEF StartFlush, EndFlush, FlushFails, history
<1>2. CASE StartFlush
  <2>1. UNCHANGED <<db, tx, owner>> /\ th[Watchdog].op = "none"
    BY <1>2 DEF StartFlush
  <2>2. CASE UNCHANGED th
    BY <1>1, <2>1, <2>2 DEF FacetInv, Facets, Count
  <2>3. CASE Step(Watchdog)
    BY <1>1, <2>1, <2>3, Procs, FacetStays DEF Step, Touched
  <2> QED
    BY <1>2, <2>2, <2>3, StartFlushStep
<1>3. CASE EndFlush
  <2>1. owner = Watchdog /\ Commit(tx) /\ th[Watchdog].op # "rename"
    BY <1>3, EndFlushStep DEF EndFlush, Reindexed
  <2> QED
    BY <1>1, <2>1, Procs, FacetCommitsTx
<1>4. CASE FlushFails
  BY <1>1, <1>4, FlushFailsStep, Procs, BecomesIdle, FacetRollsBack
<1> QED
  BY <1>2, <1>3, <1>4

LEMMA FacetCall ==
    ASSUME TypeInv, FacetInv, NEW p \in Callers, EndCall(p) \/ CallFails(p) \/ InsertFails(p) \/ InsertUnlink(p)
    PROVE  FacetInv'
<1>1. drift' = drift
  BY DEF EndCall, CallFails, InsertFails, InsertUnlink, history
<1>2. CASE EndCall(p)
  <2>1. owner = p /\ Commit(tx) /\ th[p].op # "rename"
    BY <1>2, EndCallStep DEF EndCall, Reindexed
  <2> QED
    BY <1>1, <2>1, CallerIs, FacetCommitsTx
<1>3. CASE CallFails(p) \/ InsertFails(p)
  BY <1>1, <1>3, CallFailsStep, InsertFailsStep, CallerIs, FacetRollsBack DEF Step
<1>4. CASE InsertUnlink(p)
  BY <1>1, <1>4, InsertUnlinkStep, CallerIs, FacetStays DEF Step
<1> QED
  BY <1>2, <1>3, <1>4

LEMMA FacetNew ==
    ASSUME TypeInv, FacetInv, NEW p \in Callers, NewCall(p)
    PROVE  FacetInv'
<1>1. ASSUME Step(p), th[p].op = "none", UNCHANGED <<db, tx, owner>>, drift' = drift PROVE FacetInv'
  BY <1>1, CallerIs, FacetStays DEF Step, Touched
<1>2. CASE \E h \in Item : Detail(p, h) \/ DeleteStage(p, h)
  <2>1. UNCHANGED <<db, tx, owner>> /\ drift' = drift
    BY <1>2 DEF Detail, DeleteStage, history
  <2> QED
    BY <1>1, <1>2, <2>1, DetailStep, DeleteStageStep
<1>3. CASE \E t \in Topic, u \in Topic \cup {None} : Rename(p, t, u)
  <2>1. UNCHANGED <<db, tx, owner>> /\ drift' = drift
    BY <1>3 DEF Rename, history
  <2> QED
    BY <1>1, <1>3, <2>1, RenameStarts
<1>4. CASE \E h \in Item, text \in Topics : Patch(p, h, text)
  <2>1. UNCHANGED <<db, tx, owner>> /\ drift' = drift
    BY <1>4 DEF Patch, history
  <2> QED
    BY <1>1, <1>4, <2>1, PatchStep
<1>5. ASSUME NEW h \in Item, NEW text \in Topics, Insert(p, h, text) PROVE FacetInv'
  <2> DEFINE E == Grown(db, h)
  <2>1. Writes(p, E) /\ db' = db /\ drift' = drift /\ RowOK(db) /\ h \in Item \ db.items
    BY <1>5, InsertStep, CallerIs DEF Insert, history, StoreOK
  <2>2. E.ready = db.ready /\ \A t \in Topic : db.facet[t] = Count(db, t) => E.facet[t] = Count(E, t)
    BY <2>1, GrownIs
  <2> HIDE DEF E
  <2>3. Facets(E, drift', Touched(th'[p]))
    BY <2>1, <2>2 DEF Facets, FacetInv
  <2> QED
    BY <2>1, <2>3, CallerIs, FacetWrites
<1> QED
  BY <1>2, <1>3, <1>4, <1>5 DEF NewCall

LEMMA FacetDelete ==
    ASSUME TypeInv, FacetInv, NEW p \in Callers, DeleteDrop(p) \/ DeleteFails(p)
    PROVE  FacetInv'
<1>1. CASE DeleteDrop(p)
  <2> DEFINE h == th[p].item
             K == th[p].keep
             E == Dropped(db, h, K)
  <2>1. Commit(E) /\ h \in Item /\ K \in Topics /\ drift' = drift \cup (db.topics[h] \ K) /\ RowOK(db)
    BY <1>1, DeleteDropStep, DropIs, CallerIs DEF DeleteDrop, StoreOK
  <2> HIDE DEF h, K
  <2>2. /\ Shrunk(E, db, h)
        /\ \A t \in Topic : db.facet[t] = Count(db, t) /\ t \notin db.topics[h] \ K => E.facet[t] = Count(E, t)
    BY <2>1, DroppedIs
  <2> HIDE DEF E
  <2>3. Facets(E, drift', {})
    BY <2>1, <2>2 DEF Shrunk, Facets, FacetInv
  <2> QED
    BY <2>1, <2>3, FacetCommits
<1>2. CASE DeleteFails(p)
  <2>1. UNCHANGED <<db, tx, owner>> /\ Become(p, Idle) /\ th[p].pc = "drop" /\ drift' = drift
    BY <1>2 DEF DeleteFails, history
  <2>2. owner # p
    BY <2>1, DropIs
  <2> QED
    BY <2>1, <2>2, CallerIs, BecomesIdle, FacetStays
<1> QED
  BY <1>1, <1>2

(* What a renamed item's row changes besides the two topics is remembered. *)
LEMMA PutFacets ==
    ASSUME NEW D, RowOK(D), NEW h \in D.items, NEW T \in Topics, NEW v \in Version, NEW s \in {"ok", "error"},
           NEW S, NEW X, Facets(D, S, X)
    PROVE  Facets(Put(D, h, T, v, s), S \cup (((D.topics[h] \cup T) \ (D.topics[h] \cap T)) \ X), X)
<1> DEFINE E == Put(D, h, T, v, s)
<1>1. RowOK(E) /\ Changed(E, D, h, T, v, s) /\ E.facet = D.facet
  BY PutIs
<1>2. D \in Row /\ E \in Row /\ h \in Item
  BY <1>1 DEF RowOK, Row
<1> HIDE DEF E
<1>3. ASSUME NEW t \in Topic, t \in D.topics[h] <=> t \in T PROVE Count(E, t) = Count(D, t)
  <2>1. {g \in E.items : t \in E.topics[g]} = {g \in D.items : t \in D.topics[g]}
    BY <1>1, <1>2, <1>3 DEF Changed, Row
  <2> QED
    BY <2>1, <1>2, CountSame
<1> QED
  BY <1>1, <1>3 DEF Facets, Changed, E

LEMMA FacetRename ==
    ASSUME TypeInv, FacetInv, NEW p \in Callers, RenameStep(p)
    PROVE  FacetInv'
<1>1. ASSUME NEW h \in Item, Rewrite(p, h) PROVE FacetInv'
  <2>1. Others(p) /\ UNCHANGED <<db, tx, owner>> /\ drift' = drift /\ th[p].op = "rename"
    BY <1>1, RewriteStep, RenamingIs DEF Step, Rewrite, history
  <2> DEFINE text == note[h].text
             S == IF h \in View(p).items /\ text # Gone
                    THEN {[item |-> h, version |-> 0, text |-> text]} ELSE {}
             q == [th[p] EXCEPT !.todo = @ \ {h}, !.rows = @ \cup S]
             r == [q EXCEPT !.pc = "restamp", !.item = h, !.seen = fresh[h], !.keep = Renamed(p, text)]
  <2>2. Touched(r) = Touched(th[p]) /\ Touched(q) = Touched(th[p])
    BY CallerIs DEF Shape, Thread, Touched
  <2>3. Become(p, r) \/ Become(p, q)
    BY <1>1 DEF Rewrite
  <2> HIDE DEF r, q
  <2>4. Touched(th'[p]) = Touched(th[p])
    BY <2>2, <2>3, CallerIs, Becoming
  <2> QED
    BY <2>1, <2>4, CallerIs, FacetStays
<1>2. CASE Restamp(p)
  <2> DEFINE h == th[p].item
             D == View(p)
             T == th[p].keep
             v == note[h].version
             s == "ok"
             E == Put(D, h, T, v, s)
             r == [th[p] EXCEPT !.pc = "rewrite", !.item = None, !.seen = 0, !.keep = {}]
  <2>1. Others(p) /\ th[p].op = "rename" /\ Become(p, r)
    BY <1>2, RestampStep DEF Step, Restamp
  <2>2. Touched(r) = Touched(th[p]) /\ Refs(p) = Touched(th[p])
    BY <2>1, CallerIs DEF Shape, Thread, Touched, Refs
  <2>3. Touched(th'[p]) = Touched(th[p])
    <3> HIDE DEF r
    <3> QED
      BY <2>1, <2>2, CallerIs, Becoming
  <2>4. CASE UNCHANGED <<db, tx, owner, history>>
    BY <2>1, <2>3, <2>4, CallerIs, FacetStays DEF history
  <2>5. CASE /\ CanWrite(p) /\ db' = db /\ h \in D.items /\ RowOK(D)
             /\ Writes(p, E)
    <3>1. drift' = drift \cup (((D.topics[h] \cup T) \ (D.topics[h] \cap T)) \ Refs(p))
      BY <1>2, <2>5 DEF Restamp
    <3>2. T \in Topics /\ v \in Version /\ s \in {"ok", "error"}
      BY <1>2, RestampStep, CallerIs DEF DiskOK, Note
    <3>3. Facets(D, drift, Touched(th[p]))
      BY <2>5, CallerIs, ViewFacets
    <3> HIDE DEF D, T, v, s, h
    <3>4. Facets(E, drift', Touched(th[p]))
      BY <2>2, <2>5, <3>1, <3>2, <3>3, PutFacets
    <3> HIDE DEF E
    <3> QED
      BY <2>3, <2>5, <3>1, <3>4, CallerIs, FacetWrites
  <2> QED
    BY <1>2, <2>4, <2>5, RestampStep
<1>3. CASE RenameEnd(p)
  <2>1. Become(p, Idle) /\ th[p].op = "rename" /\ drift' = drift
    BY <1>3, RenameEndStep DEF RenameEnd, history
  <2>2. CASE owner # p /\ UNCHANGED <<db, tx, owner>>
    BY <2>1, <2>2, CallerIs, BecomesIdle, FacetStays
  <2>3. CASE owner = p /\ RowOK(tx) /\ Commit(Refreshed(Recount(tx, Refs(p))))
    <3> DEFINE R == Refs(p)
               E == Refreshed(Recount(tx, R))
    <3>1. Alike(E, tx) /\ \A t \in Topic : t \in R \/ tx.facet[t] = Count(tx, t) => E.facet[t] = Count(E, t)
      BY <2>3, SettledIs
    <3>2. Facets(tx, drift, R)
      BY <2>1, <2>3, CallerIs, ViewFacets DEF CanWrite, View, Touched, Refs
    <3>3. Commit(E)
      BY <2>3
    <3> HIDE DEF E, R
    <3>4. Facets(E, drift', {})
      BY <2>1, <3>1, <3>2 DEF Facets, Alike
    <3> QED
      BY <3>3, <3>4, FacetCommits
  <2> QED
    BY <1>3, <2>2, <2>3, RenameEndStep
<1>4. CASE RenameFails(p)
  <2>1. drift' = drift
    BY <1>4 DEF RenameFails, history
  <2> QED
    BY <1>4, <2>1, RenameFailsStep, CallerIs, BecomesIdle, FacetRollsBack
<1> QED
  BY <1>1, <1>2, <1>3, <1>4 DEF RenameStep

LEMMA FacetNext == TypeInv /\ ReadyInv /\ FacetInv /\ [Next]_vars => FacetInv'
<1> SUFFICES ASSUME TypeInv, ReadyInv, FacetInv, [Next]_vars PROVE FacetInv'
  OBVIOUS
<1>0. ASSUME UNCHANGED <<db, tx, owner, th, drift>> PROVE FacetInv'
  BY <1>0 DEF FacetInv, Facets, Count
<1>1. ASSUME NEW full \in BOOLEAN, StartRepair(full) PROVE FacetInv'
  <2>1. UNCHANGED <<db, tx, owner, drift>> /\ th[Repair].op = "none"
    BY <1>1, RepairIs DEF StartRepair, history
  <2> QED
    BY <1>1, <2>1, StartRepairStep, RepairIs, FacetStays DEF Step, Touched
<1>2. CASE RepairStep
  <2>1. CASE \E h \in Item : Enqueue(Repair, h)
    BY <2>1, RepairIs, FacetEnqueue
  <2> QED
    BY <1>2, <2>1, RepairIs, FacetRead, FacetRepair, FacetFull DEF RepairStep
<1>3. CASE FlushStep \/ StartFlush
  <2>1. CASE \E h \in Item : Enqueue(Watchdog, h)
    BY <2>1, Procs, FacetEnqueue
  <2> QED
    BY <1>3, <2>1, Procs, FacetRead, FacetFlush DEF FlushStep
<1>4. ASSUME NEW p \in Callers, CallStep(p) PROVE FacetInv'
  <2>1. CASE \E h \in Item : Enqueue(p, h)
    BY <2>1, CallerIs, FacetEnqueue
  <2>2. CASE Read(p)
    BY <2>2, CallerIs, FacetRead
  <2> QED
    BY <1>4, <2>1, <2>2, FacetCall, FacetDelete, FacetRename DEF CallStep
<1>5. ASSUME NEW p \in Callers, NewCall(p) PROVE FacetInv'
  BY <1>5, FacetNew
<1>6. CASE \E h \in Item : Deliver(h)
  BY <1>6, <1>0 DEF Deliver, history
<1>7. CASE \E h \in Item : \E text \in Edits[h] : Edit(h, text)
  BY <1>7, <1>0 DEF Edit, history
<1>8. CASE Crash
  BY <1>8 DEF Crash, history, FacetInv, Facets, Count
<1>9. CASE UNCHANGED vars
  BY <1>9, <1>0 DEF vars, history
<1> QED
  BY <1>1, <1>2, <1>3, <1>4, <1>5, <1>6, <1>7, <1>8, <1>9 DEF Next

(* The facet counts the page shows are those of the index, in every reachable *)
(* state of an index that is ready: each transaction recounts the topics it   *)
(* has changed, but for the two named ways of going by an outdated reading.   *)
THEOREM CountsAreExact == Spec => []FacetsExact
<1>1. Init => FacetInv
  BY InitIs DEF FacetInv, Facets
<1>2. Init => ReadyInv
  BY InitIs, Procs DEF ReadyInv, ReadyComplete, Rebuilds, Idle
<1>3. FacetInv => FacetsExact
  BY DEF FacetInv, Facets, FacetsExact
<1> QED
  BY <1>1, <1>2, <1>3, TypeInit, TypeNext, ReadyNext, FacetNext, PTL DEF Spec

-----------------------------------------------------------------------------
(***************************************************************************)
(* A row that looks current was read.                                      *)
(***************************************************************************)
(* A step gives an item no other notes than it had, none, or a new version. *)
Moves(F, f, G, g) ==
    \A h \in Item :
        /\ f[h] <= g[h]
        /\ \A n \in G[h] :
              \/ n \in F[h]
              \/ n = [version |-> 0, text |-> Gone]
              \/ n \in Note /\ n.version = f[h] /\ n.text # Gone /\ g[h] = f[h] + 1
Nexts == [Item -> Version]

LEMMA MoveFaces ==
    ASSUME NEW F, NEW f \in Nexts, NEW G, NEW g \in Nexts, Moves(F, f, G, g), FacesOK(F, f),
           \A h \in Item : 0 < f[h]
    PROVE  FacesOK(G, g)
<1> SUFFICES ASSUME NEW h \in Item, NEW n \in G[h]
             PROVE  n \in Note /\ n.version < g[h] /\ (n.version = 0 <=> n.text = Gone)
  BY DEF FacesOK
<1>1. f[h] \in Nat /\ g[h] \in Nat /\ 0 < f[h] /\ f[h] <= g[h]
  BY DEF Nexts, Version, Moves
<1>2. CASE n \in F[h]
  BY <1>1, <1>2 DEF FacesOK, Note, Version
<1>3. CASE n = [version |-> 0, text |-> Gone]
  BY <1>1, <1>3, Texts DEF Note, Version
<1>4. CASE n \in Note /\ n.version = f[h] /\ n.text # Gone /\ g[h] = f[h] + 1
  BY <1>1, <1>4
<1> QED
  BY <1>2, <1>3, <1>4 DEF Moves

LEMMA MoveRows ==
    ASSUME NEW F, NEW f \in Nexts, NEW G, NEW g \in Nexts, Moves(F, f, G, g), NEW B, NEW C, B \subseteq C,
           NEW D, RowOK(D), RowsTaken(D, F, f, B)
    PROVE  RowsTaken(D, G, g, C)
<1> SUFFICES ASSUME NEW h \in Item
             PROVE  D.sig[h] < g[h] /\ (h \notin C => \A n \in G[h] : Taken(D, h, n))
  BY DEF RowsTaken
<1>1. f[h] \in Nat /\ g[h] \in Nat /\ f[h] <= g[h] /\ D.sig[h] \in Nat /\ D.sig[h] < f[h]
  BY DEF Nexts, Version, Moves, RowOK, Row, RowsTaken
<1>2. ASSUME h \notin C, NEW n \in G[h] PROVE Taken(D, h, n)
  <2>1. CASE n \in F[h]
    BY <1>2, <2>1 DEF RowsTaken
  <2>2. CASE n = [version |-> 0, text |-> Gone]
    BY <2>2, Texts DEF Taken
  <2>3. CASE n.version = f[h]
    BY <1>1, <2>3 DEF Taken
  <2> QED
    BY <2>1, <2>2, <2>3 DEF Moves
<1> QED
  BY <1>1, <1>2

LEMMA MoveThread ==
    ASSUME NEW F, NEW f \in Nexts, NEW G, NEW g \in Nexts, Moves(F, f, G, g), NEW B, NEW C, B \subseteq C,
           NEW p, NEW r, Shape(p, r), ThreadRead(r, F, f, B)
    PROVE  ThreadRead(r, G, g, C)
<1>1. \A h \in Item : f[h] \in Nat /\ g[h] \in Nat /\ f[h] <= g[h]
  BY DEF Nexts, Version, Moves
<1>2. r.rows \subseteq Entry /\ r.seen \in Nat /\ (r.item # None => r.item \in Item)
  BY DEF Shape, Thread, Version
<1>3. r.item # None => r.seen < g[r.item]
  BY <1>1, <1>2 DEF ThreadRead
<1>4. \A e \in r.rows : e.item \in Item /\ e.version \in Nat /\ e.version < f[e.item] /\ e.version < g[e.item]
  BY <1>1, <1>2 DEF ThreadRead, Entry, Version
<1>5. ASSUME r.op = "full", NEW e \in r.rows, e.item \notin C, NEW n \in G[e.item] PROVE Same(e, n)
  <2>1. CASE n \in F[e.item]
    BY <1>5, <2>1 DEF ThreadRead
  <2>2. CASE n = [version |-> 0, text |-> Gone]
    BY <2>2 DEF Same
  <2>3. CASE n.version = f[e.item]
    BY <1>4, <2>3 DEF Same
  <2> QED
    BY <1>4, <1>5, <2>1, <2>2, <2>3 DEF Moves
<1>6. ASSUME r.pc = "restamp", NEW n \in G[r.item], n.version = r.seen PROVE n.text = r.keep
  <2>1. r.item \in Item /\ r.item # None /\ r.seen # 0
    BY <1>6, Procs DEF Shape, ThreadRead
  <2>2. CASE n \in F[r.item]
    BY <1>6, <2>2 DEF ThreadRead
  <2>3. CASE n = [version |-> 0, text |-> Gone]
    BY <1>6, <2>1, <2>3
  <2>4. CASE n.version = f[r.item]
    BY <1>1, <1>2, <1>6, <2>1, <2>4 DEF ThreadRead
  <2> QED
    BY <2>1, <2>2, <2>3, <2>4 DEF Moves
<1>7. r.op = "delete" => r.arg \in Note /\ r.arg.version < g[r.item] /\ (r.arg.version = 0 <=> r.arg.text = Gone)
  <2>1. r.op = "delete" => r.item \in Item
    BY DEF Shape, At
  <2> QED
    BY <1>1, <2>1 DEF ThreadRead, Note, Version
<1> QED
  BY <1>3, <1>4, <1>5, <1>6, <1>7 DEF ThreadRead

(* What the moves of a step come from. *)
LEMMA FaceIs ==
    ASSUME CurrentInv, NEW h \in Item
    PROVE  /\ note[h] \in Faces[h] /\ note[h] \in Note /\ note[h].version < fresh[h]
           /\ (note[h].version = 0 <=> note[h].text = Gone)
           /\ \A q \in Callers : th[q].op = "delete" /\ th[q].item = h /\ note[h].text = Gone => th[q].arg \in Faces[h]
<1>1. note[h] \in Faces[h]
  BY DEF Faces, FacesIn
<1>2. note[h] \in Note /\ note[h].version < fresh[h] /\ (note[h].version = 0 <=> note[h].text = Gone)
  BY <1>1 DEF CurrentInv, FacesOK
<1>3. \A q \in Callers : th[q].op = "delete" /\ th[q].item = h /\ note[h].text = Gone => th[q].arg \in Faces[h]
  BY DEF Faces, FacesIn
<1> QED
  BY <1>1, <1>2, <1>3

LEMMA FaceMoves ==
    ASSUME TypeInv, CurrentInv, \A q \in Callers : th'[q].op = "delete" => th'[q] = th[q],
           \A h \in Item : \/ note'[h] = note[h] /\ fresh'[h] = fresh[h]
                           \/ /\ note'[h] \in Note /\ note'[h].version = fresh[h] /\ note'[h].text # Gone
                              /\ fresh'[h] = fresh[h] + 1
    PROVE  Moves(Faces, fresh, Faces', fresh')
<1>1. ASSUME NEW h \in Item
      PROVE  /\ fresh[h] <= fresh'[h]
             /\ \A n \in Faces'[h] :
                  \/ n \in Faces[h]
                  \/ n = [version |-> 0, text |-> Gone]
                  \/ n \in Note /\ n.version = fresh[h] /\ n.text # Gone /\ fresh'[h] = fresh[h] + 1
  <2>1. fresh[h] \in Nat
    BY DEF TypeInv, DiskOK, Version
  <2>2. CASE note'[h] = note[h] /\ fresh'[h] = fresh[h]
    <3>1. ASSUME NEW n \in Faces'[h] PROVE n \in Faces[h]
      BY <2>2, <3>1 DEF Faces, FacesIn
    <3> QED
      BY <2>1, <2>2, <3>1
  <2>3. CASE /\ note'[h] \in Note /\ note'[h].version = fresh[h] /\ note'[h].text # Gone
             /\ fresh'[h] = fresh[h] + 1
    <3>1. ASSUME NEW n \in Faces'[h] PROVE n = note'[h]
      BY <2>3, <3>1 DEF Faces, FacesIn
    <3> QED
      BY <2>1, <2>3, <3>1
  <2> QED
    BY <1>1, <2>2, <2>3
<1> QED
  BY <1>1 DEF Moves

(* A delete goes on with another item, or has this one's note. *)
Spares(h) ==
    \A q \in Callers : th'[q].op = "delete" =>
        \/ th'[q] = th[q] /\ th[q].item # h
        \/ th'[q].item = h /\ th'[q].arg = note[h]
LEMMA RemoveMoves ==
    ASSUME TypeInv, CurrentInv, NEW h \in Item, Removed(h), Spares(h)
    PROVE  Moves(Faces, fresh, Faces', fresh')
<1>1. fresh' = fresh /\ note'[h] = [version |-> 0, text |-> Gone] /\ \A g \in Item : g # h => note'[g] = note[g]
  BY RemovedIs DEF TypeInv
<1>2. ASSUME NEW g \in Item, NEW n \in Faces'[g] PROVE n \in Faces[g] \/ n = [version |-> 0, text |-> Gone]
  <2>1. CASE n = note'[g]
    BY <1>1, <2>1, <1>2, FaceIs
  <2>2. CASE n # note'[g]
    <3>0. \A q \in Callers : th'[q].op = "delete" =>
             \/ th'[q] = th[q] /\ th[q].item # h
             \/ th'[q].item = h /\ th'[q].arg = note[h]
      BY DEF Spares
    <3>1. PICK q \in Callers : th'[q].op = "delete" /\ th'[q].item = g /\ n = th'[q].arg /\ note'[g].text = Gone
      BY <1>2, <2>2 DEF Faces, FacesIn
    <3>2. CASE g = h
      BY <3>0, <3>1, <3>2, FaceIs
    <3>3. CASE g # h
      BY <1>1, <3>0, <3>1, <3>3, FaceIs
    <3> QED
      BY <3>2, <3>3
  <2> QED
    BY <2>1, <2>2
<1>3. \A g \in Item : fresh[g] \in Nat
  BY DEF TypeInv, DiskOK, Version
<1> QED
  BY <1>1, <1>2, <1>3 DEF Moves

(* A step of one thread keeps the invariant: what it writes follows from the   *)
(* notes as they were, and what it has read is not at odds with those there    *)
(* are.                                                                        *)
LEMMA CurStep ==
    ASSUME TypeInv, TypeInv', CurrentInv, NEW p \in Proc, Others(p),
           Moves(Faces, fresh, Faces', fresh'), blurred \subseteq blurred',
           ThreadRead(th'[p], Faces', fresh', blurred'),
           db' = db \/ (owner # None /\ db' = tx) \/ RowsTaken(db', Faces, fresh, blurred'),
           owner' = None \/ (owner # None /\ tx' = tx) \/ RowsTaken(tx', Faces, fresh, blurred')
    PROVE  CurrentInv'
<1> DEFINE F == Faces
           G == Faces'
           f == fresh
           g == fresh'
           B == blurred
           C == blurred'
<1>1. f \in Nexts /\ g \in Nexts /\ Moves(F, f, G, g) /\ B \subseteq C /\ C \subseteq C
  BY DEF TypeInv, DiskOK, Nexts
<1>2. FacesOK(F, f) /\ \A h \in Item : 0 < f[h]
  <2>1. ASSUME NEW h \in Item PROVE 0 < f[h]
    BY <2>1, FaceIs DEF TypeInv, DiskOK, Note, Version
  <2> QED
    BY <2>1 DEF CurrentInv
<1>3. RowsTaken(db, F, f, B) /\ (owner # None => RowsTaken(tx, F, f, B))
  BY DEF CurrentInv
<1>4. RowOK(db) /\ (owner # None => RowOK(tx)) /\ RowOK(db') /\ (owner' # None => RowOK(tx'))
  BY DEF TypeInv, StoreOK
<1>5. \A q \in Proc : Shape(q, th[q]) /\ ThreadRead(th[q], F, f, B)
  BY DEF TypeInv, ThreadsOK, CurrentInv
<1> HIDE DEF F, G, f, g, B, C
<1>6. FacesOK(G, g)
  BY <1>1, <1>2, MoveFaces
<1>7. RowsTaken(db', G, g, C)
  <2>1. ASSUME db' = db PROVE RowsTaken(db', G, g, C)
    <3>1. RowOK(db') /\ RowsTaken(db', F, f, B)
      BY <1>3, <1>4, <2>1
    <3> QED
      BY <1>1, <3>1, MoveRows
  <2>2. ASSUME owner # None, db' = tx PROVE RowsTaken(db', G, g, C)
    <3>1. RowOK(db') /\ RowsTaken(db', F, f, B)
      BY <1>3, <1>4, <2>2
    <3> QED
      BY <1>1, <3>1, MoveRows
  <2>3. ASSUME RowsTaken(db', F, f, C) PROVE RowsTaken(db', G, g, C)
    BY <1>1, <1>4, <2>3, MoveRows
  <2> QED
    BY <2>1, <2>2, <2>3 DEF F, f, C
<1>8. ASSUME owner' # None PROVE RowsTaken(tx', G, g, C)
  <2>2. ASSUME owner # None, tx' = tx PROVE RowsTaken(tx', G, g, C)
    <3>1. RowOK(tx') /\ RowsTaken(tx', F, f, B)
      BY <1>3, <1>4, <1>8, <2>2
    <3> QED
      BY <1>1, <3>1, MoveRows
  <2>3. ASSUME RowsTaken(tx', F, f, C) PROVE RowsTaken(tx', G, g, C)
    BY <1>1, <1>4, <1>8, <2>3, MoveRows
  <2> QED
    BY <1>8, <2>2, <2>3 DEF F, f, C
<1>9. ASSUME NEW q \in Proc PROVE ThreadRead(th'[q], G, g, C)
  <2>1. CASE q = p
    BY <2>1 DEF G, g, C
  <2>2. CASE q # p
    <3> DEFINE r == th[q]
    <3>1. th'[q] = r /\ Shape(q, r) /\ ThreadRead(r, F, f, B)
      BY <1>5, <1>9, <2>2 DEF Others
    <3> HIDE DEF r
    <3>2. ThreadRead(r, G, g, C)
      BY <1>1, <3>1, MoveThread
    <3> QED
      BY <3>1, <3>2
  <2> QED
    BY <2>1, <2>2
<1> QED
  BY <1>6, <1>7, <1>8, <1>9 DEF CurrentInv, G, g, C

LEMMA CurQuiet ==
    ASSUME TypeInv, CurrentInv, NEW p \in Proc, Step(p), UNCHANGED <<note, fresh>>, th'[p].op # "delete",
           blurred \subseteq blurred', ThreadRead(th'[p], Faces, fresh, blurred'),
           db' = db \/ (owner # None /\ db' = tx) \/ RowsTaken(db', Faces, fresh, blurred'),
           owner' = None \/ (owner # None /\ tx' = tx) \/ RowsTaken(tx', Faces, fresh, blurred')
    PROVE  CurrentInv'
<1>1. Others(p) /\ Shape(p, th'[p]) /\ TypeInv'
  BY StepKeeps DEF Step
<1>2. \A q \in Callers : th'[q].op = "delete" => th'[q] = th[q]
  BY <1>1, Procs DEF Others
<1>3. Moves(Faces, fresh, Faces', fresh')
  BY <1>2, FaceMoves
<1>4. ThreadRead(th'[p], Faces', fresh', blurred')
  <2> DEFINE F == Faces
             G == Faces'
             f == fresh
             g == fresh'
             C == blurred'
             r == th'[p]
  <2>1. f \in Nexts /\ g \in Nexts /\ Moves(F, f, G, g) /\ C \subseteq C /\ Shape(p, r) /\ ThreadRead(r, F, f, C)
    BY <1>1, <1>3 DEF TypeInv, DiskOK, Nexts
  <2> HIDE DEF F, G, f, g, C, r
  <2>2. ThreadRead(r, G, g, C)
    BY <2>1, MoveThread
  <2> QED
    BY <2>2 DEF G, g, C, r
<1> QED
  BY <1>1, <1>3, <1>4, CurStep

(* A thread that reads nothing, and one that has read what it had. *)
LEMMA ReadsNothing ==
    ASSUME NEW r, r.item = None, r.rows = {}, r.pc # "restamp", r.op # "delete"
    PROVE  \A F, f, B : ThreadRead(r, F, f, B)
  BY DEF ThreadRead

LEMMA IdleReads == \A F, f, B : ThreadRead(Idle, F, f, B)
  BY DEF ThreadRead, Idle

LEMMA ReadsSame ==
    ASSUME NEW r, NEW q, NEW F, NEW f, NEW B, NEW C, B \subseteq C, ThreadRead(r, F, f, B),
           q.op = r.op, q.op # "delete", q.rows = r.rows, q.pc # "restamp", q.item # None => q.seen < f[q.item]
    PROVE  ThreadRead(q, F, f, C)
  BY DEF ThreadRead

LEMMA ViewTaken ==
    ASSUME TypeInv, CurrentInv, NEW p \in Proc
    PROVE  /\ RowsTaken(View(p), Faces, fresh, blurred) /\ ThreadRead(th[p], Faces, fresh, blurred)
           /\ FacesOK(Faces, fresh)
  BY Procs DEF CurrentInv, View

LEMMA AlikeTaken ==
    ASSUME NEW D, NEW E, E.topics = D.topics, E.sig = D.sig, E.status = D.status, D.dirty \subseteq E.dirty,
           NEW F, NEW f, NEW B, RowsTaken(D, F, f, B)
    PROVE  RowsTaken(E, F, f, B)
  BY DEF RowsTaken, Taken

(* A row of the topics T, version v and status s is right for the notes N. *)
Follows(E, h, T, v, s, N) ==
    \A n \in N : n.version = v =>
        /\ s = "ok" /\ n.text # Gone => T = TopicsOf(n.text)
        /\ s = "error" /\ n.text = Poison => h \in E.dirty
LEMMA ChangedTaken ==
    ASSUME NEW D, RowOK(D), NEW E, NEW h \in Item, NEW T, NEW v, NEW s, Changed(E, D, h, T, v, s),
           D.dirty \ {h} \subseteq E.dirty,
           NEW F, NEW f, NEW B, NEW C, B \subseteq C, RowsTaken(D, F, f, B),
           v < f[h], h \notin C => Follows(E, h, T, v, s, F[h])
    PROVE  RowsTaken(E, F, f, C)
<1> SUFFICES ASSUME NEW g \in Item
             PROVE  E.sig[g] < f[g] /\ (g \notin C => \A n \in F[g] : Taken(E, g, n))
  BY DEF RowsTaken
<1>1. E.sig[h] = v /\ E.topics[h] = T /\ E.status[h] = s
  BY DEF Changed, RowOK, Row
<1>2. g # h => E.sig[g] = D.sig[g] /\ E.topics[g] = D.topics[g] /\ E.status[g] = D.status[g]
  BY DEF Changed, RowOK, Row
<1>3. CASE g = h
  BY <1>1, <1>3 DEF Taken, Follows
<1>4. CASE g # h
  BY <1>2, <1>4 DEF RowsTaken, Taken
<1> QED
  BY <1>3, <1>4

LEMMA CurEnqueue ==
    ASSUME TypeInv, CurrentInv, NEW p \in Proc, NEW h \in Item, Enqueue(p, h)
    PROVE  CurrentInv'
<1> DEFINE D == View(p)
           E == Enqueued(D, h)
           r == [th[p] EXCEPT !.pc = "read", !.item = h, !.seen = note[h].version, !.todo = @ \ {h}]
<1>1. /\ RowOK(D) /\ h \in D.items /\ Writes(p, E) /\ db' = db /\ Become(p, r) /\ th[p].pc = "next"
      /\ Shape(p, th[p]) /\ Step(p) /\ UNCHANGED <<note, fresh, blurred>>
  BY EnqueueStep, ProcIs DEF Enqueue, disk, history
<1>2. Alike(E, D) /\ E.dirty = D.dirty \cup {h}
  BY <1>1, EnqueuedIs
<1>3. r.op = th[p].op /\ r.pc = "read" /\ r.item = h /\ r.seen = note[h].version /\ r.rows = th[p].rows
      /\ r.op # "delete"
  BY <1>1 DEF Shape, Thread, At, Call
<1>4. th'[p] = r
  BY <1>1, ProcIs, Becoming
<1>5. RowsTaken(D, Faces, fresh, blurred) /\ ThreadRead(th[p], Faces, fresh, blurred)
  BY ViewTaken
<1> HIDE DEF r, E, D
<1>6. RowsTaken(E, Faces, fresh, blurred)
  BY <1>2, <1>5, AlikeTaken DEF Alike
<1>7. ThreadRead(r, Faces, fresh, blurred)
  BY <1>3, <1>5, ReadsSame, FaceIs
<1> QED
  BY <1>1, <1>3, <1>4, <1>6, <1>7, CurQuiet DEF Writes

LEMMA CurRead ==
    ASSUME TypeInv, CurrentInv, NEW p \in Proc, Read(p)
    PROVE  CurrentInv'
<1> DEFINE h == th[p].item
           n == note[h]
           v == th[p].seen
           M == Marked(tx, h, n.version)
           X == Indexed(tx, h, v, n.text)
           r == [th[p] EXCEPT !.pc = "next", !.item = None, !.seen = 0]
           C == blurred \cup Missed(h, v)
<1>1. /\ Step(p) /\ owner = p /\ owner' = p /\ db' = db /\ RowOK(tx) /\ h \in Item /\ h \in tx.items
      /\ h \in tx.dirty /\ Become(p, r) /\ th[p].pc = "read" /\ Shape(p, th[p]) /\ blurred' = C
      /\ UNCHANGED <<note, fresh>> /\ tx' = IF n.text = Poison THEN M ELSE X
  BY ReadStep, ProcIs DEF Read, disk, Working
<1>2. n \in Note /\ n.version \in Version /\ n.text \in Text /\ v \in Version /\ h # None
  BY <1>1, ProcIs, Procs DEF DiskOK, Note, Shape, Thread
<1>3. n \in Faces[h] /\ n.version < fresh[h] /\ FacesOK(Faces, fresh)
  BY <1>1, FaceIs, ViewTaken
<1>4. RowsTaken(tx, Faces, fresh, blurred) /\ ThreadRead(th[p], Faces, fresh, blurred) /\ v < fresh[h]
  BY <1>1, <1>2, Procs DEF CurrentInv, ThreadRead
<1>5. n.text # Gone => \A m \in Faces[h] : m = n
  BY <1>1 DEF Faces, FacesIn
<1>6. h \notin C => n.text # Gone \/ v = 0
  BY DEF Missed
<1>7. \A m \in Faces[h] : m.version = 0 => m.text = Gone
  BY <1>1 DEF CurrentInv, FacesOK
<1> HIDE DEF h, n, v, C
<1>8. ASSUME n.text = Poison PROVE RowsTaken(tx', Faces, fresh, C)
  <2>1. Changed(M, tx, h, tx.topics[h], n.version, "error") /\ M.dirty = tx.dirty /\ tx' = M
    BY <1>1, <1>2, <1>8, MarkedIs
  <2> HIDE DEF M
  <2>2. Follows(M, h, tx.topics[h], n.version, "error", Faces[h])
    BY <1>1, <2>1 DEF Follows
  <2>3. blurred \subseteq C
    BY DEF C
  <2> DEFINE D == tx
             T == tx.topics[h]
             F == Faces
             f == fresh
             B == blurred
             s == "error"
             w == n.version
  <2>4. /\ RowOK(D) /\ h \in Item /\ Changed(M, D, h, T, w, s) /\ D.dirty \ {h} \subseteq M.dirty
        /\ B \subseteq C /\ RowsTaken(D, F, f, B) /\ w < f[h] /\ Follows(M, h, T, w, s, F[h])
    BY <1>1, <1>3, <1>4, <2>1, <2>2, <2>3
  <2> HIDE DEF D, T, F, f, B, s, w
  <2>5. RowsTaken(M, F, f, C)
    BY <2>4, ChangedTaken
  <2> QED
    BY <2>1, <2>5 DEF F, f
<1>9. ASSUME n.text # Poison PROVE RowsTaken(tx', Faces, fresh, C)
  <2> DEFINE s == IF n.text = Bad THEN "error" ELSE "ok"
             T == TopicsOf(n.text)
  <2>1. Changed(X, tx, h, T, v, s) /\ X.dirty = tx.dirty \ {h} /\ tx' = X
    BY <1>1, <1>2, <1>9, IndexedIs
  <2> HIDE DEF X
  <2>2. ASSUME h \notin C, NEW m \in Faces[h], m.version = v
        PROVE  /\ s = "ok" /\ m.text # Gone => T = TopicsOf(m.text)
               /\ s = "error" /\ m.text = Poison => h \in X.dirty
    <3>1. CASE v = 0
      BY <1>7, <2>2, <3>1, Texts
    <3>2. CASE n.text # Gone
      BY <1>5, <1>9, <2>2, <3>2
    <3> QED
      BY <1>6, <2>2, <3>1, <3>2
  <2>3. blurred \subseteq C
    BY DEF C
  <2> DEFINE D == tx
             F == Faces
             f == fresh
             B == blurred
  <2>4. /\ RowOK(D) /\ h \in Item /\ Changed(X, D, h, T, v, s) /\ D.dirty \ {h} \subseteq X.dirty
        /\ B \subseteq C /\ RowsTaken(D, F, f, B) /\ v < f[h] /\ (h \notin C => Follows(X, h, T, v, s, F[h]))
    BY <1>1, <1>4, <2>1, <2>2, <2>3 DEF Follows
  <2> HIDE DEF D, T, F, f, B, s
  <2>5. RowsTaken(X, F, f, C)
    BY <2>4, ChangedTaken
  <2> QED
    BY <2>1, <2>5 DEF F, f
<1>10. r.op = th[p].op /\ r.pc = "next" /\ r.item = None /\ r.rows = th[p].rows /\ r.op # "delete"
  BY <1>1 DEF Shape, Thread, At, Call
<1>11. th'[p] = r
  BY <1>1, ProcIs, Becoming
<1>12. blurred \subseteq C
  BY DEF C
<1> HIDE DEF r, M, X
<1>13. ThreadRead(r, Faces, fresh, C)
  BY <1>4, <1>10, <1>12, ReadsSame
<1> QED
  BY <1>1, <1>8, <1>9, <1>10, <1>11, <1>12, <1>13, CurQuiet

(* A transaction that ends, one way or the other. *)
LEMMA CurEnds ==
    ASSUME TypeInv, CurrentInv, NEW p \in Proc, Step(p), Become(p, Idle), UNCHANGED <<note, fresh, blurred>>,
           Rollback(p) \/ (owner = p /\ Commit(tx)) \/ UNCHANGED <<db, tx, owner>>
    PROVE  CurrentInv'
<1>1. th'[p] = Idle /\ Idle.op # "delete"
  BY BecomesIdle DEF Idle
<1>2. ThreadRead(Idle, Faces, fresh, blurred)
  BY IdleReads
<1>3. owner = p => owner # None
  BY Procs
<1>4. /\ db' = db \/ (owner # None /\ db' = tx)
      /\ owner' = None \/ (owner # None /\ tx' = tx)
  BY <1>3 DEF Rollback, Commit
<1> QED
  BY <1>1, <1>2, <1>4, CurQuiet

LEMMA CurRepair ==
    ASSUME TypeInv, CurrentInv, PickBatch \/ EndBatch \/ BatchFails \/ FullFails \/ FullSign \/ FullLoad
    PROVE  CurrentInv'
<1>0. ThreadRead(th[Repair], Faces, fresh, blurred) /\ FacesOK(Faces, fresh)
  BY RepairIs, ViewTaken
<1>1. CASE PickBatch
  <2>1. PICK H \in SUBSET db.dirty :
        Become(Repair, [th[Repair] EXCEPT !.pc = "next", !.todo = H, !.queued = Cardinality(H)])
    BY <1>1 DEF PickBatch
  <2> DEFINE r == [th[Repair] EXCEPT !.pc = "next", !.todo = H, !.queued = Cardinality(H)]
  <2>2. r.pc = "next" /\ r.op = th[Repair].op /\ r.op # "delete" /\ r.rows = th[Repair].rows /\ r.item = None
    BY <1>1, RepairIs DEF Shape, Thread, PickBatch
  <2>3. Become(Repair, r)
    BY <2>1
  <2> HIDE DEF r
  <2>4. th'[Repair] = r
    BY <2>3, RepairIs, ProcIs, Becoming
  <2>5. ThreadRead(r, Faces, fresh, blurred)
    BY <1>0, <2>2, ReadsSame
  <2>6. UNCHANGED <<note, fresh, db, tx, owner, blurred>>
    BY <1>1 DEF PickBatch, disk, history
  <2>7. owner' = None \/ (owner # None /\ tx' = tx)
    BY <2>6
  <2> QED
    BY <1>1, <2>2, <2>4, <2>5, <2>6, <2>7, RepairIs, PickBatchStep, CurQuiet
<1>2. CASE EndBatch
  <2>1. UNCHANGED <<note, fresh, blurred>> /\ ((owner = Repair /\ Commit(tx)) \/ UNCHANGED <<db, tx, owner>>)
    BY <1>2 DEF EndBatch, disk, history
  <2> DEFINE r == [Idle EXCEPT !.op = "dirty", !.pc = "start"]
  <2>2. Become(Repair, Idle) \/ Become(Repair, r)
    BY <1>2 DEF EndBatch, StopRepair
  <2>3. th'[Repair] = Idle \/ th'[Repair] = r
    BY <2>2, RepairIs, ProcIs, Becoming
  <2>4. ThreadRead(r, Faces, fresh, blurred) /\ ThreadRead(Idle, Faces, fresh, blurred) /\ r.op # "delete"
        /\ Idle.op # "delete"
    BY DEF Idle, ThreadRead
  <2> HIDE DEF r
  <2>5. /\ db' = db \/ (owner # None /\ db' = tx)
        /\ owner' = None \/ (owner # None /\ tx' = tx)
    BY <2>1, Procs DEF Commit
  <2>6. th'[Repair].op # "delete" /\ ThreadRead(th'[Repair], Faces, fresh, blurred')
    BY <2>1, <2>3, <2>4
  <2> QED
    BY <1>2, <2>1, <2>5, <2>6, RepairIs, EndBatchStep, CurQuiet
<1>3. CASE BatchFails \/ FullFails
  <2>1. UNCHANGED <<note, fresh, blurred>>
    BY <1>3 DEF BatchFails, FullFails, RepairFails, disk, history
  <2> QED
    BY <1>3, <2>1, RepairFailsStep, RepairIs, CurEnds
<1>4. CASE FullSign
  <2>1. PICK h \in th[Repair].todo :
          Become(Repair, [th[Repair] EXCEPT !.pc = "load", !.item = h, !.seen = note[h].version])
    BY <1>4 DEF FullSign
  <2> DEFINE r == [th[Repair] EXCEPT !.pc = "load", !.item = h, !.seen = note[h].version]
  <2>2. /\ r.pc = "load" /\ r.op = th[Repair].op /\ r.op # "delete" /\ r.rows = th[Repair].rows /\ r.item = h
        /\ r.seen = note[h].version /\ h \in Item
    BY <1>4, RepairIs DEF Shape, Thread, FullSign, Full
  <2>3. Become(Repair, r)
    BY <2>1
  <2> HIDE DEF r
  <2>4. th'[Repair] = r
    BY <2>3, RepairIs, ProcIs, Becoming
  <2>5. ThreadRead(r, Faces, fresh, blurred)
    BY <1>0, <2>2, ReadsSame, FaceIs
  <2>6. UNCHANGED <<note, fresh, db, tx, owner, blurred>>
    BY <1>4 DEF FullSign, disk, history
  <2>7. owner' = None \/ (owner # None /\ tx' = tx)
    BY <2>6
  <2> QED
    BY <1>4, <2>2, <2>4, <2>5, <2>6, <2>7, RepairIs, FullSignStep, CurQuiet
<1>5. CASE FullLoad
  <2> DEFINE h == th[Repair].item
             v == th[Repair].seen
             n == note[h]
             e == [item |-> h, version |-> v, text |-> n.text]
             r == [th[Repair] EXCEPT !.pc = "full", !.item = None, !.seen = 0, !.todo = @ \ {h}, !.rows = @ \cup {e}]
             C == blurred \cup Missed(h, v)
  <2>1. /\ Become(Repair, r) /\ blurred' = C /\ n.text # Poison /\ th[Repair].pc = "load" /\ h \in Item
        /\ UNCHANGED <<note, fresh, db, tx, owner>>
    BY <1>5, RepairIs DEF FullLoad, disk, Shape
  <2>2. e.item = h /\ e.version = v /\ e.text = n.text
    OBVIOUS
  <2>3. th[Repair].op = "full"
    BY <2>1, RepairIs DEF Shape, At, Call
  <2>4. h # None /\ v < fresh[h]
    BY <1>0, <2>1, Procs DEF ThreadRead
  <2>5. n.text # Gone => \A m \in Faces[h] : m = n
    BY <2>1 DEF Faces, FacesIn
  <2>6. h \notin C => n.text # Gone \/ v = 0
    BY DEF Missed
  <2>7. blurred \subseteq C
    OBVIOUS
  <2> HIDE DEF e
  <2>8. /\ r.pc = "full" /\ r.op = "full" /\ r.rows = th[Repair].rows \cup {e} /\ r.item = None
    BY <2>3, RepairIs DEF Shape, Thread
  <2> HIDE DEF h, v, n, r, C
  <2>9. h \notin C => \A m \in Faces[h] : Same(e, m)
    BY <2>2, <2>5, <2>6 DEF Same
  <2>10. ThreadRead(r, Faces, fresh, C)
    BY <1>0, <2>1, <2>2, <2>3, <2>4, <2>7, <2>8, <2>9 DEF ThreadRead
  <2>11. th'[Repair] = r
    BY <2>1, RepairIs, ProcIs, Becoming
  <2>12. owner' = None \/ (owner # None /\ tx' = tx)
    BY <2>1
  <2> QED
    BY <1>5, <2>1, <2>7, <2>8, <2>10, <2>11, <2>12, RepairIs, FullLoadStep, CurQuiet
<1> QED
  BY <1>1, <1>2, <1>3, <1>4, <1>5

(* The rows that a full rebuild stores. *)
LEMMA StoredTaken ==
    ASSUME NEW D, RowOK(D), NEW R \in SUBSET Entry, Fits(D, R), NEW F, NEW f, NEW B, RowsTaken(D, F, f, B),
           FacesOK(F, f), \A e \in R : e.version < f[e.item],
           \A e \in R : e.text # Poison /\ (e.item \notin B => \A n \in F[e.item] : Same(e, n))
    PROVE  RowsTaken(Stored(D, R), F, f, B)
<1> DEFINE E == Stored(D, R)
<1>1. /\ E.dirty = D.dirty
      /\ \A h \in Item : IF HasRow(R, h)
            THEN \E r \in R : r.item = h /\ E.sig[h] = r.version /\ E.topics[h] = TopicsOf(r.text)
                              /\ E.status[h] = IF r.text = Bad THEN "error" ELSE "ok"
            ELSE E.sig[h] = D.sig[h] /\ E.topics[h] = D.topics[h] /\ E.status[h] = D.status[h]
  BY StoredIs
<1> HIDE DEF E
<1> SUFFICES ASSUME NEW h \in Item
             PROVE  E.sig[h] < f[h] /\ (h \notin B => \A n \in F[h] : Taken(E, h, n))
  BY DEF RowsTaken, E
<1>2. CASE ~HasRow(R, h)
  BY <1>1, <1>2 DEF RowsTaken, Taken
<1>3. CASE HasRow(R, h)
  <2>1. PICK r \in R : r.item = h /\ E.sig[h] = r.version /\ E.topics[h] = TopicsOf(r.text)
                       /\ E.status[h] = IF r.text = Bad THEN "error" ELSE "ok"
    BY <1>1, <1>3
  <2>2. ASSUME h \notin B, NEW n \in F[h] PROVE Taken(E, h, n)
    <3>1. Same(r, n) /\ (n.version = 0 <=> n.text = Gone) /\ r.text # Poison
      BY <2>1, <2>2 DEF FacesOK
    <3> QED
      BY <2>1, <3>1, Texts DEF Same, Taken
  <2> QED
    BY <2>1, <2>2
<1> QED
  BY <1>2, <1>3

LEMMA CurFull ==
    ASSUME TypeInv, CurrentInv, FullBegin \/ FullFlush \/ FullEnd
    PROVE  CurrentInv'
<1> DEFINE D == View(Repair)
           R == th[Repair].rows
           E == Stored(D, R)
<1>0. /\ ThreadRead(th[Repair], Faces, fresh, blurred) /\ FacesOK(Faces, fresh)
      /\ RowsTaken(D, Faces, fresh, blurred)
  BY RepairIs, ViewTaken
<1>1. CASE FullBegin
  <2> DEFINE r == [th[Repair] EXCEPT !.pc = "full", !.todo = db.items]
             B == Emptied(db)
  <2>1. Writes(Repair, B) /\ db' = db /\ Become(Repair, r) /\ UNCHANGED <<note, fresh, blurred>>
    BY <1>1 DEF FullBegin, disk, history
  <2>2. r.op = th[Repair].op /\ r.op # "delete" /\ r.pc = "full" /\ r.rows = th[Repair].rows /\ r.item = None
    BY <1>1, RepairIs DEF FullBegin, Shape, Thread
  <2>3. \A h \in Item : B.sig[h] = 0 /\ B.status[h] = "none"
    BY RepairIs, EmptiedIs DEF StoreOK
  <2> HIDE DEF r, B
  <2>4. th'[Repair] = r /\ owner' = Repair /\ tx' = B
    BY <2>1, RepairIs, ProcIs, Becoming DEF Writes
  <2>5. \A h \in Item : 0 < fresh[h]
    <3>1. ASSUME NEW h \in Item PROVE 0 < fresh[h]
      BY <3>1, FaceIs DEF TypeInv, DiskOK, Note, Version
    <3> QED
      BY <3>1
  <2>6. RowsTaken(B, Faces, fresh, blurred)
    BY <2>3, <2>5 DEF RowsTaken, Taken
  <2>7. ThreadRead(r, Faces, fresh, blurred)
    BY <1>0, <2>2, ReadsSame
  <2> QED
    BY <1>1, <2>1, <2>2, <2>4, <2>6, <2>7, RepairIs, FullBeginStep, CurQuiet
<1>2. ASSUME FullFlush \/ FullEnd PROVE RowsTaken(E, Faces, fresh, blurred)
  <2>1. RowOK(D) /\ R \in SUBSET Entry /\ Fits(D, R) /\ th[Repair].op = "full"
    BY <1>2, FullFlushStep, FullEndStep DEF FullFlush, FullEnd, Full
  <2>2. /\ \A e \in R : e.version < fresh[e.item]
        /\ \A e \in R : e.text # Poison /\ (e.item \notin blurred => \A n \in Faces[e.item] : Same(e, n))
    BY <1>0, <2>1 DEF ThreadRead
  <2> DEFINE F == Faces
             f == fresh
             B == blurred
  <2> HIDE DEF D, R, F, f, B
  <2>3. RowsTaken(Stored(D, R), F, f, B)
    BY <1>0, <2>1, <2>2, StoredTaken DEF F, f, B
  <2> QED
    BY <2>3 DEF F, f, B
<1>3. CASE FullFlush
  <2> DEFINE r == [th[Repair] EXCEPT !.rows = {}]
  <2>1. Commit(E) /\ Become(Repair, r) /\ th[Repair].pc = "full" /\ UNCHANGED <<note, fresh, blurred>>
    BY <1>3 DEF FullFlush, Full, disk, history
  <2>2. r.pc = "full" /\ r.op # "delete" /\ r.rows = {} /\ r.item = None
    BY <1>3, <2>1, RepairIs DEF FullFlush, Full, Shape, Thread
  <2>3. ThreadRead(r, Faces, fresh, blurred)
    BY <2>2, ReadsNothing
  <2> HIDE DEF r, E
  <2>4. th'[Repair] = r
    BY <2>1, RepairIs, ProcIs, Becoming
  <2> QED
    BY <1>2, <1>3, <2>1, <2>2, <2>3, <2>4, RepairIs, FullFlushStep, CurQuiet DEF Commit
<1>4. CASE FullEnd
  <2>1. Commit(Complete(E)) /\ Become(Repair, Idle) /\ RowOK(E) /\ UNCHANGED <<note, fresh, blurred>>
    BY <1>4, FullEndStep DEF FullEnd, disk, history
  <2> HIDE DEF E
  <2> DEFINE G == Complete(E)
  <2>2. G.topics = E.topics /\ G.sig = E.sig /\ G.status = E.status /\ G.dirty = E.dirty
    BY <2>1, CompleteIs
  <2> HIDE DEF G
  <2>3. RowsTaken(G, Faces, fresh, blurred)
    BY <1>2, <1>4, <2>2, AlikeTaken
  <2>4. th'[Repair] = Idle /\ Idle.op # "delete" /\ ThreadRead(Idle, Faces, fresh, blurred)
    BY <2>1, RepairIs, BecomesIdle, IdleReads DEF Idle
  <2> QED
    BY <1>4, <2>1, <2>3, <2>4, RepairIs, FullEndStep, CurQuiet DEF Commit, G
<1> QED
  BY <1>1, <1>3, <1>4

LEMMA CurFlush ==
    ASSUME TypeInv, CurrentInv, StartFlush \/ EndFlush \/ FlushFails
    PROVE  CurrentInv'
<1>1. CASE StartFlush
  <2>1. UNCHANGED <<db, tx, owner, note, fresh, blurred>>
    BY <1>1 DEF StartFlush, disk, history
  <2>2. CASE UNCHANGED th
    BY <2>1, <2>2 DEF CurrentInv, Faces
  <2>3. CASE ~UNCHANGED th
    <3> DEFINE r == [Idle EXCEPT !.op = "flush", !.pc = "next", !.todo = pending, !.keep = pending]
    <3>1. Become(Watchdog, r) /\ Step(Watchdog)
      BY <1>1, <2>3, StartFlushStep DEF StartFlush
    <3>2. r.item = None /\ r.rows = {} /\ r.pc = "next" /\ r.op # "delete"
      BY DEF Idle
    <3> HIDE DEF r
    <3>3. th'[Watchdog] = r /\ ThreadRead(r, Faces, fresh, blurred)
      BY <3>1, <3>2, Procs, ProcIs, Becoming, ReadsNothing
    <3>4. owner' = None \/ (owner # None /\ tx' = tx)
      BY <2>1
    <3> QED
      BY <2>1, <3>1, <3>2, <3>3, <3>4, Procs, CurQuiet
  <2> QED
    BY <2>2, <2>3
<1>2. CASE EndFlush
  <2>1. Become(Watchdog, Idle) /\ Commit(tx) /\ UNCHANGED <<note, fresh, blurred>>
    BY <1>2 DEF EndFlush, disk, history
  <2> QED
    BY <1>2, <2>1, EndFlushStep, Procs, CurEnds
<1>3. CASE FlushFails
  <2>1. UNCHANGED <<note, fresh, blurred>>
    BY <1>3 DEF FlushFails, disk, history
  <2> QED
    BY <1>3, <2>1, FlushFailsStep, Procs, CurEnds
<1> QED
  BY <1>1, <1>2, <1>3

(* An ingest that failed takes the note of an item that may be another's now: a *)
(* delete that has staged it may then put back a note the index knows less of.  *)
LEMMA UnlinkRobs ==
    ASSUME TypeInv, TypeInv', CurrentInv, NEW h \in Item, Removed(h), h \in blurred', blurred \subseteq blurred',
           NEW p \in Callers, Others(p), th'[p] = Idle, UNCHANGED <<db, tx, owner>>
    PROVE  CurrentInv'
<1> DEFINE F == Faces
           f == fresh
           g == fresh'
           B == blurred
           C == blurred'
           N == [version |-> 0, text |-> Gone]
           G == Faces'
           H == [x \in Item |-> IF x = h THEN {N} ELSE F[x]]
<1>1. g = f /\ note'[h] = N /\ \A x \in Item : x # h => note'[x] = note[x]
  BY CallerIs, RemovedIs
<1>2. \A q \in Callers : th'[q].op = "delete" => th'[q] = th[q]
  BY Procs DEF Others, Idle
<1>3. \A x \in Item : x # h => G[x] \subseteq F[x]
  BY <1>1, <1>2 DEF Faces, FacesIn
<1>4. \A n \in G[h] : n = N \/ \E q \in Callers : th[q].op = "delete" /\ th[q].item = h /\ n = th[q].arg
  BY <1>1, <1>2 DEF Faces, FacesIn
<1>5. \A q \in Proc : Shape(q, th[q]) /\ ThreadRead(th[q], F, f, B) /\ (th'[q] = th[q] \/ th'[q] = Idle)
  BY Procs DEF TypeInv, ThreadsOK, CurrentInv, Others
<1>6. f \in Nexts /\ g \in Nexts /\ (\A x \in Item : 0 < f[x] /\ f[x] \in Nat)
  <2>1. ASSUME NEW x \in Item PROVE 0 < f[x]
    BY <2>1, FaceIs DEF TypeInv, DiskOK, Note, Version
  <2> QED
    BY <2>1 DEF TypeInv, DiskOK, Nexts, Version
<1>7. \A q \in Callers : th[q].op = "delete" /\ th[q].item = h =>
          th[q].arg \in Note /\ th[q].arg.version < f[h] /\ (th[q].arg.version = 0 <=> th[q].arg.text = Gone)
  BY <1>5, Procs DEF ThreadRead
<1>8. FacesOK(F, f) /\ RowsTaken(db, F, f, B) /\ (owner # None => RowsTaken(tx, F, f, B))
      /\ RowOK(db) /\ (owner # None => RowOK(tx)) /\ B \subseteq C /\ h \in C
  BY DEF CurrentInv, TypeInv, StoreOK
<1>9. ASSUME NEW q \in Proc, th[q].pc = "restamp", th'[q] = th[q] PROVE G[th[q].item] \subseteq H[th[q].item]
  <2>1. q \in Callers /\ th[q].op = "rename" /\ th[q].item \in Item
    BY <1>5, <1>9 DEF Shape, At, Does
  <2>2. CASE th[q].item # h
    BY <1>3, <2>1, <2>2
  <2>3. CASE th[q].item = h
    <3>1. \A c \in Callers : ~(th[c].op = "delete" /\ th[c].item = h)
      BY <2>1, <2>3 DEF TypeInv, Exclusive, HeldBy
    <3> QED
      BY <1>4, <2>3, <3>1
  <2> QED
    BY <2>2, <2>3
<1>10. Moves(F, f, H, f)
  BY <1>6 DEF Moves
<1> HIDE DEF F, f, g, B, C, G, H
<1>11. FacesOK(G, f)
  <2> SUFFICES ASSUME NEW x \in Item, NEW n \in G[x]
               PROVE  n \in Note /\ n.version < f[x] /\ (n.version = 0 <=> n.text = Gone)
    BY DEF FacesOK
  <2>1. CASE x # h
    BY <1>3, <1>8, <2>1 DEF FacesOK
  <2>2. CASE x = h
    BY <1>4, <1>6, <1>7, <2>2, Texts DEF Note, Version
  <2> QED
    BY <2>1, <2>2
<1>12. ASSUME NEW D, RowsTaken(D, F, f, B) PROVE RowsTaken(D, G, f, C)
  BY <1>3, <1>8, <1>12 DEF RowsTaken
<1>13. ASSUME NEW q \in Proc PROVE ThreadRead(th'[q], G, f, C)
  <2>1. CASE th'[q] = Idle
    BY <2>1, IdleReads
  <2>2. CASE th'[q] = th[q]
    <3> DEFINE r == th[q]
    <3>1. Shape(q, r) /\ ThreadRead(r, F, f, B) /\ (r.pc = "restamp" => G[r.item] \subseteq H[r.item])
      BY <1>5, <1>9, <2>2
    <3> HIDE DEF r
    <3>2. ThreadRead(r, H, f, C)
      BY <1>6, <1>8, <1>10, <3>1, MoveThread
    <3>3. \A e \in r.rows : e.item \in Item /\ (e.item \notin C => G[e.item] \subseteq F[e.item])
      BY <1>3, <1>8, <3>1 DEF Shape, Thread, Entry
    <3>4. r.op = "full" => \A e \in r.rows : e.item \notin C => \A n \in G[e.item] : Same(e, n)
      BY <1>8, <3>1, <3>3 DEF ThreadRead
    <3>5. ThreadRead(r, G, f, C)
      BY <3>1, <3>2, <3>4 DEF ThreadRead
    <3> QED
      BY <2>2, <3>5 DEF r
  <2> QED
    BY <1>5, <2>1, <2>2
<1>14. g = f
  BY <1>1 DEF g, f
<1>15. RowsTaken(db, G, g, C) /\ (owner # None => RowsTaken(tx, G, g, C))
  BY <1>8, <1>12, <1>14
<1> QED
  BY <1>11, <1>13, <1>14, <1>15 DEF CurrentInv, G, g, C

LEMMA CurUnlink ==
    ASSUME TypeInv, CurrentInv, NEW p \in Callers, InsertUnlink(p)
    PROVE  CurrentInv'
<1> DEFINE h == th[p].item
<1>1. /\ Step(p) /\ Become(p, Idle) /\ Removed(h) /\ h \in Item /\ UNCHANGED <<db, tx, owner>>
      /\ blurred' = blurred \cup ({h} \cap db.items)
  BY InsertUnlinkStep DEF InsertUnlink
<1>2. th'[p] = Idle /\ Idle.op # "delete" /\ Others(p) /\ TypeInv'
  BY <1>1, CallerIs, BecomesIdle, StepKeeps DEF Idle
<1> HIDE DEF h
<1>3. CASE h \in db.items
  BY <1>1, <1>2, <1>3, UnlinkRobs
<1>4. CASE h \notin db.items
  <2>1. ASSUME NEW q \in Callers, th'[q].op = "delete" PROVE th'[q] = th[q] /\ th[q].item # h
    <3>1. th'[q] = th[q]
      BY <1>2, <2>1, Procs DEF Others
    <3>2. th[q].item \in db.items
      BY <2>1, <3>1, CallerIs DEF Working
    <3> QED
      BY <1>4, <3>1, <3>2
  <2>2. Moves(Faces, fresh, Faces', fresh')
    <3>1. Spares(h)
      BY <2>1 DEF Spares
    <3> QED
      BY <1>1, <3>1, RemoveMoves
  <2>3. ThreadRead(th'[p], Faces', fresh', blurred')
    BY <1>2, IdleReads
  <2>4. db' = db /\ (owner' = None \/ (owner # None /\ tx' = tx)) /\ blurred \subseteq blurred'
    BY <1>1, CallerIs DEF StoreOK
  <2> QED
    BY <1>1, <1>2, <2>2, <2>3, <2>4, CallerIs, CurStep
<1> QED
  BY <1>3, <1>4

LEMMA CurCall ==
    ASSUME TypeInv, CurrentInv, NEW p \in Callers, EndCall(p) \/ CallFails(p) \/ InsertFails(p)
    PROVE  CurrentInv'
<1>1. CASE EndCall(p)
  <2>1. Become(p, Idle) /\ Commit(tx) /\ UNCHANGED <<note, fresh, blurred>>
    BY <1>1 DEF EndCall, disk, history
  <2> QED
    BY <1>1, <2>1, EndCallStep, CallerIs, CurEnds
<1>2. CASE CallFails(p)
  <2>1. UNCHANGED <<note, fresh, blurred>>
    BY <1>2 DEF CallFails, disk, history
  <2> QED
    BY <1>2, <2>1, CallFailsStep, CallerIs, CurEnds
<1>3. CASE InsertFails(p)
  <2>1. Step(p) /\ Rollback(p) /\ UNCHANGED <<note, fresh, blurred>>
    BY <1>3, InsertFailsStep DEF InsertFails, history, disk
  <2>2. th'[p].op = "insert" /\ th'[p].pc = "unlink" /\ th'[p].rows = {} /\ th'[p].seen = 0
    BY <1>3, InsertFailsStep
  <2>3. \A x \in Item : 0 < fresh[x]
    BY FaceIs DEF TypeInv, DiskOK, Note, Version
  <2>4. th'[p].item \in Item
    BY <2>1, <2>2 DEF Step, Shape
  <2>5. ThreadRead(th'[p], Faces, fresh, blurred')
    BY <2>2, <2>3, <2>4 DEF ThreadRead
  <2>6. db' = db /\ (owner' = None \/ (owner # None /\ tx' = tx))
    BY <2>1, CallerIs DEF Rollback, StoreOK
  <2> QED
    BY <2>1, <2>2, <2>5, <2>6, CallerIs, CurQuiet
<1> QED
  BY <1>1, <1>2, <1>3

(* A call that writes a note, or none. *)
LEMMA CurBegins ==
    ASSUME TypeInv, CurrentInv, NEW p \in Callers, Step(p), NEW r, Become(p, r), r.op # "delete",
           r.item = None, r.rows = {}, r.pc # "restamp", blurred' = blurred, db' = db,
           owner' = None \/ (owner # None /\ tx' = tx) \/ RowsTaken(tx', Faces, fresh, blurred),
           UNCHANGED <<note, fresh>> \/ \E h \in Item : \E text \in Text \ {Gone} : Written(h, text)
    PROVE  CurrentInv'
<1>1. Others(p) /\ th'[p] = r /\ TypeInv'
  BY CallerIs, Becoming, StepKeeps
<1>2. \A q \in Callers : th'[q].op = "delete" => th'[q] = th[q]
  BY <1>1, Procs DEF Others
<1>3. \A h \in Item : \/ note'[h] = note[h] /\ fresh'[h] = fresh[h]
                      \/ /\ note'[h] \in Note /\ note'[h].version = fresh[h] /\ note'[h].text # Gone
                         /\ fresh'[h] = fresh[h] + 1
  <2>1. ASSUME NEW h \in Item, NEW text \in Text \ {Gone}, Written(h, text)
        PROVE  /\ note'[h] \in Note /\ note'[h].version = fresh[h] /\ note'[h].text # Gone
               /\ fresh'[h] = fresh[h] + 1
               /\ \A g \in Item : g # h => note'[g] = note[g] /\ fresh'[g] = fresh[g]
    <3>1. /\ note' \in [Item -> Note] /\ note'[h] = [version |-> fresh[h], text |-> text]
          /\ fresh'[h] = fresh[h] + 1 /\ \A g \in Item : g # h => note'[g] = note[g] /\ fresh'[g] = fresh[g]
      BY <2>1, WrittenIs, CallerIs
    <3> QED
      BY <3>1
  <2> QED
    BY <2>1
<1>4. Moves(Faces, fresh, Faces', fresh')
  BY <1>2, <1>3, FaceMoves
<1>5. ThreadRead(th'[p], Faces', fresh', blurred')
  BY <1>1, ReadsNothing
<1> QED
  BY <1>1, <1>4, <1>5, CallerIs, CurStep

LEMMA CurNew ==
    ASSUME TypeInv, CurrentInv, NEW p \in Callers, NewCall(p)
    PROVE  CurrentInv'
<1>0. \A T \in Topics : T \in Text \ {Gone}
  BY Texts
<1>1. ASSUME NEW h \in Item, Detail(p, h) PROVE CurrentInv'
  <2> DEFINE r == [Idle EXCEPT !.op = "detail", !.pc = "next", !.todo = {h}]
  <2>1. Become(p, r) /\ UNCHANGED <<note, fresh, db, tx, owner, blurred>> /\ Step(p)
    BY <1>1, DetailStep DEF Detail, disk, history
  <2>2. r.op # "delete" /\ r.item = None /\ r.rows = {} /\ r.pc # "restamp"
    BY DEF Idle
  <2>3. owner' = None \/ (owner # None /\ tx' = tx)
    BY <2>1
  <2> HIDE DEF r
  <2> QED
    BY <2>1, <2>2, <2>3, CurBegins
<1>2. ASSUME NEW t \in Topic, NEW u \in Topic \cup {None}, Rename(p, t, u) PROVE CurrentInv'
  <2> DEFINE r == [Idle EXCEPT !.op = "rename", !.pc = "rewrite", !.arg = <<t, u>>,
                              !.todo = {h \in db.items : t \in db.topics[h]}]
  <2>1. Become(p, r) /\ UNCHANGED <<note, fresh, db, tx, owner, blurred>> /\ Step(p)
    BY <1>2, RenameStarts DEF Rename, disk, history
  <2>2. r.op # "delete" /\ r.item = None /\ r.rows = {} /\ r.pc # "restamp"
    BY DEF Idle
  <2>3. owner' = None \/ (owner # None /\ tx' = tx)
    BY <2>1
  <2> HIDE DEF r
  <2> QED
    BY <2>1, <2>2, <2>3, CurBegins
<1>3. ASSUME NEW h \in Item, NEW text \in Topics, Patch(p, h, text) PROVE CurrentInv'
  <2> DEFINE r == [Idle EXCEPT !.op = "patch", !.pc = "next", !.todo = {h}]
  <2>1. Become(p, r) /\ UNCHANGED <<db, tx, owner, blurred>> /\ Step(p) /\ Written(h, text)
    BY <1>3, PatchStep DEF Patch, history
  <2>2. r.op # "delete" /\ r.item = None /\ r.rows = {} /\ r.pc # "restamp"
    BY DEF Idle
  <2>3. owner' = None \/ (owner # None /\ tx' = tx)
    BY <2>1
  <2> HIDE DEF r
  <2> QED
    BY <1>0, <2>1, <2>2, <2>3, CurBegins
<1>4. ASSUME NEW h \in Item, NEW text \in Topics, Insert(p, h, text) PROVE CurrentInv'
  <2> DEFINE r == [Idle EXCEPT !.op = "insert", !.pc = "next", !.todo = {h}, !.keep = {h}]
             E == Grown(db, h)
  <2>1. /\ Become(p, r) /\ Step(p) /\ Written(h, text) /\ Writes(p, E) /\ db' = db /\ blurred' = blurred
        /\ h \in Item \ db.items
    BY <1>4, InsertStep DEF Insert, history
  <2>2. r.op # "delete" /\ r.item = None /\ r.rows = {} /\ r.pc # "restamp"
    BY DEF Idle
  <2>3. E.topics = db.topics /\ E.sig = db.sig /\ E.status = db.status /\ E.dirty = db.dirty
    BY <2>1, CallerIs, GrownIs DEF StoreOK
  <2> HIDE DEF r, E
  <2>4. RowsTaken(E, Faces, fresh, blurred)
    BY <2>3, AlikeTaken DEF CurrentInv
  <2> QED
    BY <1>0, <2>1, <2>2, <2>4, CurBegins DEF Writes
<1>5. ASSUME NEW h \in Item, DeleteStage(p, h) PROVE CurrentInv'
  <2> DEFINE r == [Idle EXCEPT !.op = "delete", !.pc = "drop", !.item = h, !.keep = db.topics[h], !.arg = note[h]]
  <2>1. Become(p, r) /\ UNCHANGED <<db, tx, owner, blurred>> /\ Step(p) /\ Removed(h) /\ Unlocked(p, h)
    BY <1>5, DeleteStageStep DEF DeleteStage, history
  <2>2. r.op = "delete" /\ r.item = h /\ r.arg = note[h] /\ r.rows = {} /\ r.pc = "drop" /\ r.seen = 0
    BY DEF Idle
  <2> HIDE DEF r
  <2>3. th'[p] = r /\ Others(p) /\ TypeInv'
    BY <2>1, CallerIs, Becoming, StepKeeps
  <2>4. ASSUME NEW q \in Callers, th'[q].op = "delete", q # p PROVE th'[q] = th[q] /\ th[q].item # h
    <3>1. th'[q] = th[q]
      BY <2>3, <2>4, Procs DEF Others
    <3>2. ~HeldBy(th[q], h)
      BY <2>1, <2>4, HoldsIs DEF Unlocked, TypeInv
    <3> QED
      BY <2>4, <3>1, <3>2 DEF HeldBy
  <2>5. Moves(Faces, fresh, Faces', fresh')
    <3>1. Spares(h)
      BY <2>2, <2>3, <2>4 DEF Spares
    <3> QED
      BY <2>1, <3>1, RemoveMoves
  <2>6. 0 < fresh'[h]
    BY <2>1, FaceIs DEF Removed, TypeInv, DiskOK, Note, Version
  <2>7. ThreadRead(th'[p], Faces', fresh', blurred')
    <3>1. note[h] \in Note /\ note[h].version < fresh'[h] /\ (note[h].version = 0 <=> note[h].text = Gone)
      BY <2>1, FaceIs DEF Removed
    <3> QED
      BY <2>2, <2>3, <2>6, <3>1 DEF ThreadRead
  <2>8. owner' = None \/ (owner # None /\ tx' = tx)
    BY <2>1
  <2> QED
    BY <2>1, <2>3, <2>5, <2>7, <2>8, CallerIs, CurStep
<1> QED
  BY <1>1, <1>2, <1>3, <1>4, <1>5 DEF NewCall

LEMMA CurDelete ==
    ASSUME TypeInv, CurrentInv, NEW p \in Callers, DeleteDrop(p) \/ DeleteFails(p)
    PROVE  CurrentInv'
<1> DEFINE h == th[p].item
<1>0. th[p].pc = "drop" /\ Become(p, Idle) /\ blurred' = blurred /\ fresh' = fresh
  BY DEF DeleteDrop, DeleteFails, disk, history
<1>0a. th'[p] = Idle /\ Idle.op # "delete" /\ \A F, f, B : ThreadRead(Idle, F, f, B)
  BY <1>0, CallerIs, BecomesIdle, IdleReads DEF Idle
<1>0b. h \in Item /\ th[p].op = "delete" /\ th[p].keep \in Topics
  BY <1>0, DropIs
<1>1. CASE DeleteDrop(p)
  <2> DEFINE E == Dropped(db, h, th[p].keep)
  <2>1. Commit(E) /\ Step(p) /\ note' = note
    BY <1>1, DeleteDropStep DEF DeleteDrop, disk
  <2>2. Shrunk(E, db, h)
    <3> DEFINE K == th[p].keep
    <3> HIDE DEF h, K
    <3>1. K \in Topics /\ h \in Item /\ RowOK(db)
      BY <1>0b, CallerIs DEF K, StoreOK
    <3>2. Shrunk(Dropped(db, h, K), db, h)
      BY <3>1, DroppedIs
    <3> QED
      BY <3>2 DEF K
  <2>3. 0 < fresh[h]
    BY <1>0b, FaceIs DEF TypeInv, DiskOK, Note, Version
  <2> HIDE DEF E
  <2>4. RowsTaken(E, Faces, fresh, blurred)
    <3> SUFFICES ASSUME NEW g \in Item
                 PROVE  E.sig[g] < fresh[g] /\ (g \notin blurred => \A n \in Faces[g] : Taken(E, g, n))
      BY DEF RowsTaken
    <3>1. db \in Row /\ RowsTaken(db, Faces, fresh, blurred)
      BY CallerIs DEF StoreOK, RowOK, CurrentInv
    <3>2. CASE g = h
      <4>1. E.sig[g] = 0 /\ E.status[g] = "none"
        BY <1>0b, <2>2, <3>1, <3>2 DEF Shrunk, Row
      <4> QED
        BY <2>3, <3>2, <4>1 DEF Taken
    <3>3. CASE g # h
      <4>1. E.sig[g] = db.sig[g] /\ E.status[g] = db.status[g] /\ E.topics[g] = db.topics[g]
            /\ (g \in db.dirty => g \in E.dirty)
        BY <2>2, <3>1, <3>3 DEF Shrunk, Row
      <4> QED
        BY <3>1, <4>1 DEF RowsTaken, Taken
    <3> QED
      BY <3>2, <3>3
  <2> QED
    BY <1>0, <1>0a, <2>1, <2>4, CallerIs, CurQuiet DEF Commit
<1>2. CASE DeleteFails(p)
  <2>1. Step(p) /\ UNCHANGED <<db, tx, owner>>
    BY <1>2, DeleteFailsStep
  <2>2. Others(p) /\ TypeInv'
    BY <2>1, CallerIs, StepKeeps DEF Step
  <2>3. \A q \in Callers : th'[q].op = "delete" => th'[q] = th[q]
    BY <1>0a, <2>2, Procs DEF Others
  <2>4. \A g \in Item : fresh[g] \in Nat
    BY DEF TypeInv, DiskOK, Version
  <2>5. IF note[h].text = Gone THEN note' = [note EXCEPT ![h] = th[p].arg] ELSE note' = note
    BY <1>2 DEF DeleteFails
  <2>6. ASSUME NEW g \in Item, NEW n \in Faces'[g] PROVE n \in Faces[g]
    <3>1. note'[g] = note[g] \/ (g = h /\ note[g].text = Gone /\ note'[g] = th[p].arg)
      BY <1>0b, <2>5, <2>6 DEF TypeInv, DiskOK
    <3>2. note'[g] \in Faces[g]
      BY <1>0b, <3>1, FaceIs
    <3>3. CASE note'[g] = note[g]
      BY <2>3, <2>6, <3>3 DEF Faces, FacesIn
    <3>4. CASE note[g].text = Gone
      <4>1. n = note'[g] \/ \E q \in Callers : th'[q].op = "delete" /\ th'[q].item = g /\ n = th'[q].arg
        BY <2>6 DEF Faces, FacesIn
      <4> QED
        BY <2>3, <3>2, <3>4, <4>1, FaceIs
    <3> QED
      BY <3>1, <3>3, <3>4
  <2>7. Moves(Faces, fresh, Faces', fresh')
    BY <1>0, <2>4, <2>6 DEF Moves
  <2>8. ThreadRead(th'[p], Faces', fresh', blurred')
    BY <1>0a
  <2>9. owner' = None \/ (owner # None /\ tx' = tx)
    BY <2>1
  <2> QED
    BY <1>0, <2>1, <2>2, <2>7, <2>8, <2>9, CallerIs, CurStep
<1> QED
  BY <1>1, <1>2

LEMMA CurRewrite ==
    ASSUME TypeInv, CurrentInv, NEW p \in Callers, NEW h \in Item, Rewrite(p, h)
    PROVE  CurrentInv'
<1> DEFINE text == note[h].text
           T == Renamed(p, text)
           e == [item |-> h, version |-> 0, text |-> text]
           S == IF h \in View(p).items /\ text # Gone THEN {e} ELSE {}
           q == [th[p] EXCEPT !.todo = @ \ {h}, !.rows = @ \cup S]
           r == [q EXCEPT !.pc = "restamp", !.item = h, !.seen = fresh[h], !.keep = T]
<1>1. /\ th[p].pc = "rewrite" /\ th[p].op = "rename" /\ blurred' = blurred /\ Step(p)
      /\ UNCHANGED <<db, tx, owner>> /\ th[p].item = None
  BY RewriteStep, RenamingIs, CallerIs DEF Rewrite, history, Shape
<1>2. owner' = None \/ (owner # None /\ tx' = tx)
  BY <1>1
<1>3. ThreadRead(th[p], Faces, fresh, blurred) /\ fresh[h] \in Nat /\ 0 < fresh[h]
  BY CallerIs, ViewTaken, FaceIs DEF DiskOK, Note, Version
<1>3a. \A x \in th[p].rows \cup S : x.item \in Item /\ x.version \in Nat /\ x.version < fresh[x.item] /\ x.text # Gone
  <2>1. \A x \in S : x.item = h /\ x.version = 0 /\ x.text # Gone
    OBVIOUS
  <2>2. \A x \in th[p].rows : x.item \in Item /\ x.version \in Nat /\ x.version < fresh[x.item] /\ x.text # Gone
    BY <1>1, <1>3, CallerIs DEF ThreadRead, Shape, Thread, Entry, Version
  <2> QED
    BY <1>3, <2>1, <2>2
<1>4. ASSUME Become(p, q), UNCHANGED disk PROVE CurrentInv'
  <2> HIDE DEF S
  <2>1. q.op = "rename" /\ q.pc = "rewrite" /\ q.item = None /\ q.rows = th[p].rows \cup S
    BY <1>1, CallerIs DEF Shape, Thread
  <2> HIDE DEF q
  <2>2. th'[p] = q
    BY <1>4, CallerIs, Becoming
  <2>3. ThreadRead(q, Faces, fresh, blurred)
    BY <1>3a, <2>1 DEF ThreadRead
  <2> QED
    BY <1>1, <1>2, <1>4, <2>1, <2>2, <2>3, CallerIs, CurQuiet DEF disk
<1>5. ASSUME Parses(text), Written(h, T), Become(p, r) PROVE CurrentInv'
  <2>1. T \in Text /\ T # Gone
    <3>1. text \in Topics
      BY <1>5, CallerIs, Texts DEF DiskOK, Note
    <3>2. T \in Topics
      BY <3>1, RefsIn
    <3> HIDE DEF T
    <3> QED
      BY <3>2, Texts
  <2> HIDE DEF S, T
  <2>3. /\ r.pc = "restamp" /\ r.op = "rename" /\ r.item = h /\ r.seen = fresh[h] /\ r.keep = T
        /\ r.rows = th[p].rows \cup S
    BY <1>1, CallerIs DEF Shape, Thread
  <2> HIDE DEF r, q
  <2>4. th'[p] = r /\ Others(p) /\ TypeInv'
    BY <1>1, <1>5, CallerIs, Becoming, StepKeeps
  <2>5. /\ note' \in [Item -> Note] /\ note'[h] = [version |-> fresh[h], text |-> T] /\ fresh'[h] = fresh[h] + 1
        /\ \A g \in Item : g # h => note'[g] = note[g] /\ fresh'[g] = fresh[g]
    BY <1>5, <2>1, CallerIs, WrittenIs
  <2>6. Moves(Faces, fresh, Faces', fresh')
    <3>1. \A c \in Callers : th'[c].op = "delete" => th'[c] = th[c]
      BY <2>3, <2>4, Procs DEF Others
    <3>2. \A g \in Item : \/ note'[g] = note[g] /\ fresh'[g] = fresh[g]
                          \/ /\ note'[g] \in Note /\ note'[g].version = fresh[g] /\ note'[g].text # Gone
                             /\ fresh'[g] = fresh[g] + 1
      BY <2>1, <2>5
    <3> QED
      BY <3>1, <3>2, FaceMoves
  <2>7. \A n \in Faces'[h] : n = note'[h]
    BY <2>1, <2>5 DEF Faces, FacesIn
  <2>8. \A x \in r.rows : x.version < fresh'[x.item] /\ x.text # Gone
    <3>1. \A y \in Item : fresh[y] \in Nat /\ (fresh'[y] = fresh[y] \/ fresh'[y] = fresh[y] + 1)
      BY <2>5, CallerIs DEF DiskOK, Version
    <3> QED
      BY <1>3a, <2>3, <3>1
  <2>9. ThreadRead(r, Faces', fresh', blurred')
    BY <1>3, <2>3, <2>5, <2>7, <2>8 DEF ThreadRead
  <2> QED
    BY <1>1, <1>2, <2>4, <2>6, <2>9, CallerIs, CurStep
<1>6. \/ Become(p, q) /\ UNCHANGED disk
      \/ Parses(text) /\ Written(h, T) /\ Become(p, r)
  BY DEF Rewrite
<1> QED
  BY <1>4, <1>5, <1>6

LEMMA CurRestamp ==
    ASSUME TypeInv, CurrentInv, NEW p \in Callers, Restamp(p)
    PROVE  CurrentInv'
<1> DEFINE h == th[p].item
           T == th[p].keep
           v == note[h].version
           s == "ok"
           D == View(p)
           E == Put(D, h, T, v, s)
           r == [th[p] EXCEPT !.pc = "rewrite", !.item = None, !.seen = 0, !.keep = {}]
<1>1. /\ th[p].pc = "restamp" /\ Become(p, r) /\ UNCHANGED <<note, fresh, db>> /\ Step(p) /\ h \in Item
      /\ T \in Topics /\ th[p].op = "rename"
  BY RestampStep DEF Restamp, disk
<1>2. r.pc = "rewrite" /\ r.op = "rename" /\ r.item = None /\ r.rows = th[p].rows
  BY <1>1, CallerIs DEF Shape, Thread
<1>3. /\ RowsTaken(D, Faces, fresh, blurred) /\ ThreadRead(th[p], Faces, fresh, blurred)
      /\ FacesOK(Faces, fresh) /\ v < fresh[h] /\ note[h] \in Faces[h] /\ v \in Version
  BY <1>1, CallerIs, ViewTaken, FaceIs DEF DiskOK, Note
<1>4. UNCHANGED <<tx, owner, blurred>>
      \/ (CanWrite(p) /\ Writes(p, E) /\ RowOK(D) /\ h \in D.items
          /\ blurred' = IF v = th[p].seen THEN blurred ELSE blurred \cup {h})
  BY <1>1, RestampStep DEF Restamp, history, Put
<1> HIDE DEF r
<1>5. th'[p] = r
  BY <1>1, CallerIs, Becoming
<1>6. blurred \subseteq blurred'
  BY <1>4
<1>7. ThreadRead(r, Faces, fresh, blurred')
  BY <1>1, <1>2, <1>3, <1>6, ReadsSame
<1>8. CASE UNCHANGED <<tx, owner, blurred>>
  <2>1. owner' = None \/ (owner # None /\ tx' = tx)
    BY <1>8, CallerIs DEF StoreOK
  <2> QED
    BY <1>1, <1>2, <1>5, <1>6, <1>7, <2>1, CallerIs, CurQuiet
<1>9. CASE /\ CanWrite(p) /\ Writes(p, E) /\ RowOK(D) /\ h \in D.items
           /\ blurred' = IF v = th[p].seen THEN blurred ELSE blurred \cup {h}
  <2>1. \A n \in Faces[h] : n.version = th[p].seen => n.text = T
    BY <1>1, <1>3 DEF ThreadRead
  <2> DEFINE F == Faces
             f == fresh
             B == blurred
             C == blurred'
  <2>2. h \notin C => Follows(E, h, T, v, s, F[h])
    BY <1>1, <1>9, <2>1, Texts DEF Follows
  <2>3. RowOK(D) /\ h \in D.items /\ h \in Item /\ T \in Topics /\ v \in Version /\ s \in {"ok", "error"}
        /\ B \subseteq C /\ RowsTaken(D, F, f, B) /\ v < f[h]
    BY <1>1, <1>3, <1>6, <1>9
  <2> HIDE DEF h, T, v, s, D, F, f, B, C
  <2>4. Changed(E, D, h, T, v, s) /\ E.dirty = D.dirty
    BY <2>3, PutIs
  <2> HIDE DEF E
  <2>5. D.dirty \ {h} \subseteq E.dirty
    BY <2>4
  <2>6. RowsTaken(E, F, f, C)
    BY <2>2, <2>3, <2>4, <2>5, ChangedTaken
  <2>7. owner' = p /\ tx' = E
    BY <1>9 DEF Writes
  <2> QED
    BY <1>1, <1>2, <1>5, <1>6, <1>7, <2>6, <2>7, CallerIs, CurQuiet DEF F, f, C
<1> QED
  BY <1>4, <1>8, <1>9

LEMMA CurRename ==
    ASSUME TypeInv, CurrentInv, NEW p \in Callers, RenameStep(p)
    PROVE  CurrentInv'
<1>1. CASE \E h \in Item : Rewrite(p, h)
  BY <1>1, CurRewrite
<1>2. CASE Restamp(p)
  BY <1>2, CurRestamp
<1>3. CASE RenameEnd(p)
  <2>1. Step(p) /\ Become(p, Idle) /\ UNCHANGED <<note, fresh, blurred>>
    BY <1>3, RenameEndStep DEF RenameEnd, disk, history
  <2>2. CASE UNCHANGED <<db, tx, owner>>
    BY <2>1, <2>2, CallerIs, CurEnds
  <2>3. CASE owner = p /\ RowOK(tx) /\ Commit(Refreshed(Recount(tx, Refs(p))))
    <3> DEFINE E == Refreshed(Recount(tx, Refs(p)))
    <3>1. Alike(E, tx) /\ E.dirty = tx.dirty
      BY <2>3, SettledIs
    <3>2. Commit(E) /\ RowsTaken(tx, Faces, fresh, blurred)
      BY <2>3, CallerIs DEF CurrentInv
    <3> HIDE DEF E
    <3>3. RowsTaken(E, Faces, fresh, blurred)
      BY <3>1, <3>2, AlikeTaken DEF Alike
    <3>4. th'[p] = Idle /\ Idle.op # "delete" /\ ThreadRead(Idle, Faces, fresh, blurred)
      BY <2>1, CallerIs, BecomesIdle, IdleReads DEF Idle
    <3> QED
      BY <2>1, <3>2, <3>3, <3>4, CallerIs, CurQuiet DEF Commit
  <2> QED
    BY <1>3, <2>2, <2>3, RenameEndStep
<1>4. CASE RenameFails(p)
  <2> DEFINE R == {r \in th[p].rows : r.item \in db.items}
  <2>1. Step(p) /\ Become(p, Idle) /\ Rollback(p) /\ blurred' = blurred /\ th[p].op = "rename"
    BY <1>4, RenameFailsStep, RenamingIs DEF RenameFails, history
  <2>2. th'[p] = Idle /\ Idle.op # "delete" /\ Others(p) /\ TypeInv' /\ \A F, f, B : ThreadRead(Idle, F, f, B)
    BY <2>1, CallerIs, BecomesIdle, StepKeeps, IdleReads DEF Idle
  <2>3. /\ note' = [h \in Item |-> IF HasRow(R, h) THEN [version |-> fresh[h], text |-> RowOf(R, h).text] ELSE note[h]]
        /\ fresh' = [h \in Item |-> IF HasRow(R, h) THEN fresh[h] + 1 ELSE fresh[h]]
    BY <1>4 DEF RenameFails
  <2>4. \A r \in R : r.text # Gone
    <3>1. ThreadRead(th[p], Faces, fresh, blurred)
      BY CallerIs, ViewTaken
    <3> QED
      BY <2>1, <3>1 DEF ThreadRead, Parses
  <2>5. \A h \in Item : HasRow(R, h) => RowOf(R, h) \in R
    BY DEF HasRow, RowOf
  <2>6. note' \in [Item -> Note]
    BY <2>2 DEF TypeInv, DiskOK
  <2> HIDE DEF R
  <2>7. \A h \in Item : \/ note'[h] = note[h] /\ fresh'[h] = fresh[h]
                        \/ /\ note'[h] \in Note /\ note'[h].version = fresh[h] /\ note'[h].text # Gone
                           /\ fresh'[h] = fresh[h] + 1
    <3> SUFFICES ASSUME NEW h \in Item
                 PROVE  \/ note'[h] = note[h] /\ fresh'[h] = fresh[h]
                        \/ /\ note'[h] \in Note /\ note'[h].version = fresh[h] /\ note'[h].text # Gone
                           /\ fresh'[h] = fresh[h] + 1
      OBVIOUS
    <3>1. CASE HasRow(R, h)
      <4>1. note'[h] = [version |-> fresh[h], text |-> RowOf(R, h).text] /\ fresh'[h] = fresh[h] + 1
        BY <2>3, <3>1
      <4> QED
        BY <2>4, <2>5, <2>6, <3>1, <4>1
    <3>2. CASE ~HasRow(R, h)
      BY <2>3, <3>2
    <3> QED
      BY <3>1, <3>2
  <2>8. \A q \in Callers : th'[q].op = "delete" => th'[q] = th[q]
    BY <2>2, Procs DEF Others
  <2>9. Moves(Faces, fresh, Faces', fresh')
    BY <2>7, <2>8, FaceMoves
  <2>10. ThreadRead(th'[p], Faces', fresh', blurred') /\ db' = db
         /\ (owner' = None \/ (owner # None /\ tx' = tx))
    BY <2>1, <2>2 DEF Rollback
  <2> QED
    BY <2>1, <2>2, <2>9, <2>10, CallerIs, CurStep
<1> QED
  BY <1>1, <1>2, <1>3, <1>4 DEF RenameStep

(* What no thread does: an edit, and a crash. *)
LEMMA CurOutside ==
    ASSUME TypeInv, TypeInv', CurrentInv, UNCHANGED <<db, blurred>>,
           UNCHANGED <<tx, owner, th>> \/ (owner' = None /\ th' = [p \in Proc |-> Idle]),
           UNCHANGED <<note, fresh>> \/ \E h \in Item : \E text \in Text \ {Gone} : Written(h, text)
    PROVE  CurrentInv'
<1>1. \A h \in Item : \/ note'[h] = note[h] /\ fresh'[h] = fresh[h]
                      \/ /\ note'[h] \in Note /\ note'[h].version = fresh[h] /\ note'[h].text # Gone
                         /\ fresh'[h] = fresh[h] + 1
  <2>1. ASSUME NEW h \in Item, NEW text \in Text \ {Gone}, Written(h, text)
        PROVE  /\ note'[h] \in Note /\ note'[h].version = fresh[h] /\ note'[h].text # Gone
               /\ fresh'[h] = fresh[h] + 1
               /\ \A g \in Item : g # h => note'[g] = note[g] /\ fresh'[g] = fresh[g]
    <3>1. /\ note' \in [Item -> Note] /\ note'[h] = [version |-> fresh[h], text |-> text]
          /\ fresh'[h] = fresh[h] + 1 /\ \A g \in Item : g # h => note'[g] = note[g] /\ fresh'[g] = fresh[g]
      BY <2>1, WrittenIs DEF TypeInv
    <3> QED
      BY <3>1
  <2> QED
    BY <2>1
<1>2. \A q \in Proc : th'[q] = th[q] \/ th'[q] = Idle
  OBVIOUS
<1>3. \A q \in Callers : th'[q].op = "delete" => th'[q] = th[q]
  BY <1>2, Procs DEF Idle
<1>4. Moves(Faces, fresh, Faces', fresh')
  BY <1>1, <1>3, FaceMoves
<1>5. CASE UNCHANGED <<tx, owner, th>>
  <2>1. Others(Repair) /\ ThreadRead(th[Repair], Faces, fresh, blurred) /\ Shape(Repair, th[Repair])
    BY <1>5, RepairIs, ViewTaken DEF Others, TypeInv, ThreadsOK
  <2>2. ThreadRead(th'[Repair], Faces', fresh', blurred')
    <3> DEFINE F == Faces
               G == Faces'
               f == fresh
               g == fresh'
               B == blurred
               C == blurred'
               r == th[Repair]
    <3>1. f \in Nexts /\ g \in Nexts /\ Moves(F, f, G, g) /\ B \subseteq C /\ Shape(Repair, r) /\ ThreadRead(r, F, f, B)
          /\ th'[Repair] = r
      BY <1>4, <1>5, <2>1 DEF TypeInv, DiskOK, Nexts
    <3> HIDE DEF F, G, f, g, B, C, r
    <3>2. ThreadRead(r, G, g, C)
      BY <3>1, MoveThread
    <3> QED
      BY <3>1, <3>2 DEF G, g, C
  <2>3. owner' = None \/ (owner # None /\ tx' = tx)
    BY <1>5
  <2> QED
    BY <1>4, <2>1, <2>2, <2>3, RepairIs, CurStep
<1>6. CASE owner' = None /\ th' = [p \in Proc |-> Idle]
  <2> DEFINE F == Faces
             G == Faces'
             f == fresh
             g == fresh'
             B == blurred
             C == blurred'
             D == db
  <2>1. f \in Nexts /\ g \in Nexts /\ Moves(F, f, G, g) /\ B \subseteq C /\ RowOK(D) /\ RowsTaken(D, F, f, B)
        /\ FacesOK(F, f) /\ db' = D
    BY <1>4 DEF TypeInv, DiskOK, StoreOK, Nexts, CurrentInv
  <2>2. \A h \in Item : 0 < f[h]
    <3>1. ASSUME NEW h \in Item PROVE 0 < f[h]
      BY <3>1, FaceIs DEF TypeInv, DiskOK, Note, Version
    <3> QED
      BY <3>1
  <2>3. \A q \in Proc : ThreadRead(th'[q], G, g, C)
    BY <1>6, IdleReads
  <2> HIDE DEF F, G, f, g, B, C, D
  <2>4. RowsTaken(D, G, g, C)
    BY <2>1, MoveRows
  <2>5. FacesOK(G, g)
    BY <2>1, <2>2, MoveFaces
  <2> QED
    BY <1>6, <2>1, <2>3, <2>4, <2>5 DEF CurrentInv, G, g, C
<1> QED
  BY <1>5, <1>6

LEMMA CurNext == TypeInv /\ CurrentInv /\ [Next]_vars => CurrentInv'
<1> SUFFICES ASSUME TypeInv, CurrentInv, [Next]_vars PROVE CurrentInv'
  OBVIOUS
<1>0. TypeInv'
  BY TypeNext
<1>1. ASSUME NEW full \in BOOLEAN, StartRepair(full) PROVE CurrentInv'
  <2> DEFINE r == [Idle EXCEPT !.op = IF full THEN "full" ELSE "dirty", !.pc = "start"]
  <2>1. UNCHANGED <<note, fresh, db, tx, owner, blurred>> /\ Become(Repair, r) /\ Step(Repair)
    BY <1>1, StartRepairStep DEF StartRepair, disk, history
  <2>2. r.item = None /\ r.rows = {} /\ r.pc = "start" /\ r.op # "delete"
    BY DEF Idle
  <2> HIDE DEF r
  <2>3. th'[Repair] = r /\ ThreadRead(r, Faces, fresh, blurred)
    BY <2>1, <2>2, RepairIs, ProcIs, Becoming, ReadsNothing
  <2>4. owner' = None \/ (owner # None /\ tx' = tx)
    BY <2>1
  <2> QED
    BY <2>1, <2>2, <2>3, <2>4, RepairIs, CurQuiet
<1>2. CASE RepairStep
  <2>1. CASE \E h \in Item : Enqueue(Repair, h)
    BY <2>1, RepairIs, CurEnqueue
  <2> QED
    BY <1>2, <2>1, RepairIs, CurRead, CurRepair, CurFull DEF RepairStep
<1>3. CASE FlushStep \/ StartFlush
  <2>1. CASE \E h \in Item : Enqueue(Watchdog, h)
    BY <2>1, Procs, CurEnqueue
  <2> QED
    BY <1>3, <2>1, Procs, CurRead, CurFlush DEF FlushStep
<1>4. ASSUME NEW p \in Callers, CallStep(p) PROVE CurrentInv'
  <2>1. CASE \E h \in Item : Enqueue(p, h)
    BY <2>1, CallerIs, CurEnqueue
  <2>2. CASE Read(p)
    BY <2>2, CallerIs, CurRead
  <2> QED
    BY <1>4, <2>1, <2>2, CurCall, CurUnlink, CurDelete, CurRename DEF CallStep
<1>5. ASSUME NEW p \in Callers, NewCall(p) PROVE CurrentInv'
  BY <1>5, CurNew
<1>6. CASE \E h \in Item : Deliver(h)
  <2>1. UNCHANGED <<db, tx, owner, th, note, fresh, blurred>>
    BY <1>6, DeliverIs DEF history
  <2> QED
    BY <1>0, <2>1, CurOutside
<1>7. ASSUME NEW h \in Item, NEW text \in Edits[h], Edit(h, text) PROVE CurrentInv'
  <2>1. Written(h, text) /\ text \in Text /\ UNCHANGED <<db, tx, owner, th, blurred>>
    BY <1>7, EditIs DEF Edit, history
  <2>2. text # Gone
    BY MetadataOK DEF MetadataOK
  <2> QED
    BY <1>0, <2>1, <2>2, CurOutside
<1>8. CASE Crash
  <2>1. UNCHANGED <<db, blurred, note, fresh>> /\ owner' = None /\ th' = [p \in Proc |-> Idle]
    BY <1>8 DEF Crash, history
  <2> QED
    BY <1>0, <2>1, CurOutside
<1>9. CASE UNCHANGED vars
  <2>1. UNCHANGED <<db, tx, owner, th, note, fresh, blurred>>
    BY <1>9 DEF vars, history, disk
  <2> QED
    BY <1>0, <2>1, CurOutside
<1> QED
  BY <1>1, <1>2, <1>3, <1>4, <1>5, <1>6, <1>7, <1>8, <1>9 DEF Next

LEMMA CurInit == Init => CurrentInv
<1> SUFFICES ASSUME Init PROVE CurrentInv
  OBVIOUS
<1>1. /\ DiskOK /\ RowOK(db) /\ owner = None /\ \A p \in Proc : th[p] = Idle
  BY InitIs
<1>2. \A h \in Item : Faces[h] = {note[h]}
  BY <1>1, Procs DEF Faces, FacesIn, Idle
<1>3. \A h \in Item : /\ note[h] \in Note /\ note[h].version < fresh[h] /\ db.sig[h] < fresh[h]
                      /\ (note[h].version = 0 <=> note[h].text = Gone)
  BY <1>1, InitIs DEF DiskOK
<1>4. FacesOK(Faces, fresh)
  BY <1>2, <1>3 DEF FacesOK
<1>5. \A h \in Item : Taken(db, h, note[h])
  <2>1. \A h \in db.items : Taken(db, h, note[h])
    BY InitIs DEF Taken
  <2>2. \A h \in Item \ db.items : Taken(db, h, note[h])
    BY <1>1 DEF RowOK, Taken
  <2> QED
    BY <2>1, <2>2
<1>6. RowsTaken(db, Faces, fresh, blurred)
  BY <1>2, <1>3, <1>5 DEF RowsTaken
<1> QED
  BY <1>1, <1>4, <1>6, IdleReads DEF CurrentInv

(* A row at the version of the note was taken from that note, in every        *)
(* reachable state and unless two named calls stamped a version nobody had    *)
(* read: an edit between the reading of the version and of the text leaves    *)
(* the row behind, never at odds, and a note that raised stays queued.        *)
THEOREM CurrentIsRead == Spec => []CurrentMeansRead
<1>1. TypeInv /\ CurrentInv => CurrentMeansRead
  <2> SUFFICES ASSUME TypeInv, CurrentInv, NEW h \in db.items \ blurred, db.sig[h] = note[h].version
               PROVE  /\ db.status[h] = "ok" /\ note[h].text # Gone => db.topics[h] = TopicsOf(note[h].text)
                      /\ db.status[h] = "error" /\ note[h].text = Poison => h \in db.dirty
    BY DEF CurrentMeansRead
  <2>1. h \in Item /\ note[h] \in Faces[h]
    BY FaceIs DEF TypeInv, StoreOK, RowOK, Row
  <2>2. Taken(db, h, note[h])
    BY <2>1 DEF CurrentInv, RowsTaken
  <2> QED
    BY <2>2 DEF Taken
<1> QED
  BY <1>1, CurInit, CurNext, TypeInit, TypeNext, PTL DEF Spec
=============================================================================
