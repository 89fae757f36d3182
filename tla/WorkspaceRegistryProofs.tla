----------------------- MODULE WorkspaceRegistryProofs -----------------------
(***************************************************************************)
(* Why the registry always names a registered workspace, why only a        *)
(* completed delete takes a workspace's files, and why the requests work   *)
(* in the active workspace.  What a call has read stays true of its own    *)
(* copy (Sound), and the lock is held by the one call between its entry    *)
(* and its end (HolderUnder); at each place such a call may stand, the     *)
(* context is the active workspace's, or what it will be put back to is    *)
(* (ContextInv).                                                           *)
(***************************************************************************)
EXTENDS WorkspaceRegistry, TLAPS

Under(c) == c.op \in Locked /\ c.at # "lock"
Read(c) == c.at \in {"act", "etag", "replace", "rollback", "move", "undo", "purge"}
Good(r) == r \in Registry /\ {Default, r.active} \subseteq Registered(r)

(* Where a call of each kind may stand. *)
Course(c) ==
    /\ c.op \in {"load", "relocate vault"} => c.at \in {"lock", "act", "etag", "replace", "rollback"}
    /\ c.op = "vault" => c.at \in {"lock", "act", "etag", "rollback"}
    /\ c.op = "create" => c.at \in {"check", "mark", "etag", "replace"}
    /\ c.op = "relocate" => c.at \in {"check", "etag", "replace"}
    /\ c.op = "delete" => c.at \in {"check", "move", "etag", "replace", "undo", "purge"}

(* What a call has established of the registry it has read. *)
Sound(c) ==
    /\ c \in Call /\ Course(c)
    /\ Read(c) =>
          /\ Good(c.base)
          /\ c.op = "load" => c.base.entry[c.id] = c.place
          /\ c.op = "delete" => c.id \notin {Default, c.base.active}
    /\ c.op = "vault" => c.from # None /\ (Read(c) => c.place = c.from)
    /\ c.bin # {} => c.op = "delete" /\ c.at # "check"
    /\ c.at = "move" => c.mode # "unregister"

CallsSound ==
    /\ th \in [Proc -> Call \cup {None}]
    /\ \A p \in Proc : th[p] # None => Sound(th[p])

HolderUnder ==
    /\ holder \in Proc \cup {None}
    /\ \A p \in Proc : holder = p <=> th[p] # None /\ Under(th[p])

PlacesOK ==
    /\ Good(registry)
    /\ tree \in [Place -> SUBSET Part] /\ left \in [Place -> SUBSET Part]
    /\ {ctx, env} \subseteq Place \cup {None}

TypeInv == CallsSound /\ HolderUnder /\ PlacesOK

(* Who works in the active workspace, and what a call that holds the lock
   will leave behind. *)
Follows(c, e, r) == c # None /\ e = None => c = ActivePlace(r)
Clean == ~lost /\ ~stale /\ ~apart

ContextOf(c) ==
    /\ env = c.env
    /\ c.op # "vault" /\ c.at \in {"etag", "replace"} => ctx = c.place
    /\ Clean =>
          /\ c.op = "vault" \/ c.at = "act" => Follows(ctx, env, registry)
          /\ c.op # "vault" => Follows(c.from, c.env, registry)

ContextInv ==
    /\ holder = None /\ Clean => Follows(ctx, env, registry)
    /\ \A p \in Proc : holder = p => ContextOf(th[p])
-----------------------------------------------------------------------------
(* The parts of the invariant are what the type invariant says. *)
LEMMA TypeInvImplies == TypeInv => WorkspacesTypeOK
<1> SUFFICES ASSUME TypeInv PROVE WorkspacesTypeOK
  OBVIOUS
<1>1. \A p \in Proc : th[p] # None => th[p] \in Call
  BY DEF TypeInv, CallsSound, Sound
<1>2. {p \in Proc : th[p] # None /\ th[p].op \in Locked /\ th[p].at # "lock"}
         = IF holder = None THEN {} ELSE {holder}
  <2>1. None \notin Proc
    BY WorkspaceOK DEF WorkspaceOK
  <2>2. \A p \in Proc : holder = p <=> th[p] # None /\ th[p].op \in Locked /\ th[p].at # "lock"
    BY DEF TypeInv, HolderUnder, Under
  <2> QED
    BY <2>1, <2>2 DEF TypeInv, HolderUnder
<1> QED
  BY <1>1, <1>2 DEF TypeInv, PlacesOK, Good, WorkspacesTypeOK

(* At the start nothing is called and the default workspace is active. *)
LEMMA TypeInit == Init => TypeInv
<1> SUFFICES ASSUME Init PROVE TypeInv
  OBVIOUS
<1>1. /\ Default \in Ws /\ Home \in Place /\ None \notin Ws \cup Place \cup Proc
      /\ Env \subseteq Place \cup {None}
  BY WorkspaceOK DEF WorkspaceOK
<1>2. Good(registry)
  BY <1>1 DEF Init, Good, Registry, Registered
<1>3. tree \in [Place -> SUBSET Part] /\ left \in [Place -> SUBSET Part]
  BY DEF Init, Part
<1>4. th \in [Proc -> Call \cup {None}] /\ \A p \in Proc : th[p] = None
  BY DEF Init
<1> QED
  BY <1>1, <1>2, <1>3, <1>4 DEF Init, TypeInv, CallsSound, HolderUnder, PlacesOK

(* What a call is about to write is a registry with an active workspace and
   the default one; it has the entries the call has read, but for its own. *)
LEMMA CandidateOK ==
  ASSUME NEW c, Sound(c), c.at \in {"etag", "replace"}, NEW r \in Candidates(c)
  PROVE  /\ Good(r)
         /\ \A w \in Ws : \/ r.entry[w] \in {c.base.entry[w], None}
                          \/ c.op \in {"create", "relocate"} /\ r.entry[w] = c.place
         /\ c.op \in Locked => ActivePlace(r) = c.place
<1>1. /\ c \in Call /\ c.op \in Op /\ c.id \in Ws /\ c.place \in Place /\ c.activate \in BOOLEAN
      /\ Default \in Ws /\ None \notin Place
  BY WorkspaceOK DEF Sound, Call, WorkspaceOK
<1>2. /\ c.base \in Registry /\ c.base.entry \in [Ws -> Place \cup {None}] /\ c.base.active \in Ws
      /\ c.base.entry[Default] # None /\ c.base.entry[c.base.active] # None
  BY DEF Sound, Read, Good, Registry, Registered
<1>3. CASE c.op = "load"
  <2>1. r = [c.base EXCEPT !.active = c.id] /\ c.base.entry[c.id] = c.place
    BY <1>3 DEF Candidates, Sound, Read
  <2>2. /\ r \in Registry /\ r.entry = c.base.entry /\ r.active = c.id
    BY <1>1, <1>2, <2>1 DEF Registry
  <2> QED
    BY <1>1, <1>2, <1>3, <2>1, <2>2 DEF Good, Registered, ActivePlace
<1>4. CASE c.op = "relocate vault"
  <2>1. PICK w \in Matching(c) : r = [c.base EXCEPT !.active = w]
    BY <1>4 DEF Candidates
  <2>2. w \in Ws /\ c.base.entry[w] = c.place /\ c.base.entry[w] # None
    BY <2>1 DEF Matching, Registered
  <2>3. /\ r \in Registry /\ r.entry = c.base.entry /\ r.active = w
    BY <1>1, <1>2, <2>1, <2>2 DEF Registry
  <2> QED
    BY <1>1, <1>2, <1>4, <2>2, <2>3 DEF Good, Registered, ActivePlace
<1>5. CASE c.op = "relocate"
  <2>1. r = [c.base EXCEPT !.entry[c.id] = c.place]
    BY <1>5 DEF Candidates
  <2>2. /\ r \in Registry /\ r.entry = [c.base.entry EXCEPT ![c.id] = c.place]
        /\ r.active = c.base.active
    BY <1>1, <1>2, <2>1 DEF Registry
  <2> QED
    BY <1>1, <1>2, <1>5, <2>2 DEF Good, Registered, Locked
<1>6. CASE c.op = "create"
  <2>1. r = [entry |-> [c.base.entry EXCEPT ![c.id] = c.place],
             active |-> IF c.activate THEN c.id ELSE c.base.active]
    BY <1>6 DEF Candidates
  <2>2. /\ r \in Registry /\ r.entry = [c.base.entry EXCEPT ![c.id] = c.place]
        /\ r.active \in {c.id, c.base.active}
    BY <1>1, <1>2, <2>1 DEF Registry
  <2> QED
    BY <1>1, <1>2, <1>6, <2>2 DEF Good, Registered, Locked
<1>7. CASE c.op = "delete"
  <2>1. r = [c.base EXCEPT !.entry[c.id] = None] /\ c.id \notin {Default, c.base.active}
    BY <1>7 DEF Candidates, Sound, Read
  <2>2. /\ r \in Registry /\ r.entry = [c.base.entry EXCEPT ![c.id] = None]
        /\ r.active = c.base.active
    BY <1>1, <1>2, <2>1 DEF Registry
  <2> QED
    BY <1>1, <1>2, <1>7, <2>1, <2>2 DEF Good, Registered, Locked
<1>8. CASE c.op = "vault"
  BY <1>8 DEF Candidates
<1> QED
  BY <1>1, <1>3, <1>4, <1>5, <1>6, <1>7, <1>8 DEF Op, Locked

-----------------------------------------------------------------------------
(* One call moves on, and takes or gives up the lock if it has to. *)
LEMMA Moved ==
  ASSUME TypeInv, NEW p \in Proc, NEW c \in Call \cup {None},
         th' = [th EXCEPT ![p] = c],
         c # None => Sound(c),
         \/ holder' = holder /\ (holder = p <=> c # None /\ Under(c))
         \/ holder = None /\ holder' = p /\ c # None /\ Under(c)
         \/ holder = p /\ holder' = None /\ (c = None \/ ~Under(c))
  PROVE  CallsSound' /\ HolderUnder'
<1>1. None \notin Proc
  BY WorkspaceOK DEF WorkspaceOK
<1>2. th' \in [Proc -> Call \cup {None}] /\ th'[p] = c
  BY DEF TypeInv, CallsSound
<1>3. \A q \in Proc : q # p => th'[q] = th[q]
  BY DEF TypeInv, CallsSound
<1>4. CallsSound'
  BY <1>2, <1>3 DEF TypeInv, CallsSound
<1>5. HolderUnder'
  <2>1. holder' \in Proc \cup {None}
    BY DEF TypeInv, HolderUnder
  <2>2. ASSUME NEW q \in Proc PROVE holder' = q <=> th'[q] # None /\ Under(th'[q])
    BY <1>1, <1>2, <1>3 DEF TypeInv, HolderUnder
  <2> QED
    BY <2>1, <2>2 DEF HolderUnder
<1> QED
  BY <1>4, <1>5

(* A call that has come, seen as a record. *)
LEMMA InCall ==
  ASSUME TypeInv, NEW p \in Proc, th[p] # None
  PROVE  /\ th[p] \in Call /\ Sound(th[p]) /\ ((holder = p) <=> Under(th[p]))
         /\ \A a \in Stand : LET c == [th[p] EXCEPT !.at = a] IN
              /\ c \in Call /\ c # None /\ c.at = a /\ c.op = th[p].op /\ c.id = th[p].id
              /\ c.place = th[p].place /\ c.base = th[p].base /\ c.bin = th[p].bin
              /\ c.from = th[p].from /\ c.env = th[p].env /\ c.mode = th[p].mode
<1>1. th[p] \in Call /\ Sound(th[p])
  BY DEF TypeInv, CallsSound, Sound
<1> QED
  BY <1>1, CallOK DEF TypeInv, HolderUnder, Call

(* A step that only moves the call on, on the same side of the lock. *)
LEMMA Stepped ==
  ASSUME TypeInv, NEW p \in Proc, NEW a \in Stand, th[p] # None,
         th' = [th EXCEPT ![p].at = a], holder' = holder,
         Course([th[p] EXCEPT !.at = a]),
         th[p].op \in Locked => (a # "lock" <=> th[p].at # "lock"),
         Read(th[p]), a \notin {"check", "move"}
  PROVE  CallsSound' /\ HolderUnder'
<1> DEFINE c == [th[p] EXCEPT !.at = a]
<1>1. /\ Sound(th[p]) /\ ((holder = p) <=> Under(th[p]))
      /\ c \in Call /\ c # None /\ c.at = a /\ c.op = th[p].op /\ c.id = th[p].id
      /\ c.place = th[p].place /\ c.base = th[p].base /\ c.bin = th[p].bin
      /\ c.from = th[p].from
  BY InCall
<1>2. th' = [th EXCEPT ![p] = c] /\ Course(c)
  BY DEF TypeInv, CallsSound
<1> HIDE DEF c
<1>3. Sound(c)
  BY <1>1, <1>2 DEF Sound
<1>4. Under(c) <=> Under(th[p])
  BY <1>1 DEF Under
<1> QED
  BY <1>1, <1>2, <1>3, <1>4, Moved

(* A call ends outside the lock, or giving it up. *)
LEMMA Ended ==
  ASSUME TypeInv, NEW p \in Proc, th[p] # None, th' = [th EXCEPT ![p] = None],
         holder' = (IF Under(th[p]) THEN None ELSE holder)
  PROVE  CallsSound' /\ HolderUnder'
<1>1. (holder = p) <=> Under(th[p])
  BY InCall
<1> QED
  BY <1>1, Moved

(* Every step keeps what the calls have established and the lock with the
   call that is under it. *)
LEMMA CallsNext == TypeInv /\ [Next]_vars => CallsSound' /\ HolderUnder'
<1> SUFFICES ASSUME TypeInv, [Next]_vars PROVE CallsSound' /\ HolderUnder'
  OBVIOUS
<1>0. /\ th \in [Proc -> Call \cup {None}] /\ None \notin Call /\ Good(registry)
      /\ {ctx, env} \subseteq Place \cup {None} /\ tree \in [Place -> SUBSET Part]
      /\ Default \in Ws /\ Home \in Place /\ None \notin Ws \cup Place \cup Proc /\ Ops \subseteq Op
  BY CallOK, WorkspaceOK DEF TypeInv, CallsSound, PlacesOK, WorkspaceOK
<1>a. ASSUME NEW p \in Proc, Arrive(p) PROVE CallsSound' /\ HolderUnder'
  <2>1. PICK op \in Ops, id \in Ws, place \in Place, mode \in Mode, activate \in BOOLEAN :
          /\ op \in {"vault", "relocate vault"} => ctx # None
          /\ th' = [th EXCEPT ![p] =
                [op |-> op, at |-> IF op \in Locked THEN "lock" ELSE "check",
                 id |-> IF op \in {"vault", "relocate vault"} THEN Default ELSE id,
                 place |-> IF op \in {"create", "relocate"} THEN place ELSE Home,
                 mode |-> IF op = "delete" THEN mode ELSE "all",
                 activate |-> op = "create" /\ activate,
                 fresh |-> FALSE, bin |-> {}, env |-> None,
                 from |-> IF op = "vault" THEN ctx ELSE None, base |-> None, etag |-> None]]
    BY <1>a DEF Arrive
  <2> DEFINE c == [op |-> op, at |-> IF op \in Locked THEN "lock" ELSE "check",
                   id |-> IF op \in {"vault", "relocate vault"} THEN Default ELSE id,
                   place |-> IF op \in {"create", "relocate"} THEN place ELSE Home,
                   mode |-> IF op = "delete" THEN mode ELSE "all",
                   activate |-> op = "create" /\ activate,
                   fresh |-> FALSE, bin |-> {}, env |-> None,
                   from |-> IF op = "vault" THEN ctx ELSE None, base |-> None, etag |-> None]
  <2>2. c \in Call
    <3>1. op \in Op
      BY <1>0
    <3> QED
      BY <1>0, <3>1 DEF Call, Stand, Mode
  <2>3. /\ c.op = op /\ c.at = (IF op \in Locked THEN "lock" ELSE "check") /\ c.bin = {}
        /\ c.from = (IF op = "vault" THEN ctx ELSE None)
    OBVIOUS
  <2>4. th' = [th EXCEPT ![p] = c]
    BY <2>1
  <2> HIDE DEF c
  <2>5. Sound(c)
    BY <1>0, <2>1, <2>2, <2>3 DEF Sound, Read, Course, Op, Locked
  <2>6. ~Under(c) /\ holder' = holder /\ holder # p
    BY <1>a, <2>3 DEF Arrive, Under, run, TypeInv, HolderUnder
  <2> QED
    BY <2>2, <2>4, <2>5, <2>6, Moved
<1>b. ASSUME NEW p \in Proc, Enter(p) PROVE CallsSound' /\ HolderUnder'
  <2>1. /\ th[p] # None /\ th[p].op \in Locked /\ th[p].at = "lock" /\ holder = None
        /\ ~Under(th[p]) /\ Sound(th[p]) /\ th[p] \in Call
    BY <1>b, InCall DEF Enter, LockedAt, Under
  <2> DEFINE place == CASE th[p].op = "load" -> registry.entry[th[p].id]
                        [] th[p].op = "vault" -> th[p].from
                        [] th[p].op = "relocate vault" -> ctx
  <2>2. CASE End(p) /\ holder' = holder
    BY <2>1, <2>2, Ended DEF End
  <2>3. CASE /\ place # None /\ holder' = p
             /\ th' = [th EXCEPT ![p].at = "act", ![p].base = registry, ![p].env = env,
                                 ![p].from = IF th[p].op = "vault" THEN @ ELSE ctx,
                                 ![p].place = place]
    <3>1. place \in Place
      BY <1>0, <2>1, <2>3 DEF Good, Registry, Call, Locked, Sound
    <3>2. th[p].op = "load" => place = registry.entry[th[p].id]
      OBVIOUS
    <3>3. th[p].op = "vault" => place = th[p].from
      OBVIOUS
    <3> HIDE DEF place
    <3> DEFINE c == [th[p] EXCEPT !.at = "act", !.base = registry, !.env = env,
                                  !.from = IF th[p].op = "vault" THEN @ ELSE ctx,
                                  !.place = place]
    <3>4. c \in Call
      BY <1>0, <2>1, <3>1 DEF Call, Stand, Good
    <3>5. /\ c.op = th[p].op /\ c.at = "act" /\ c.base = registry /\ c.place = place
          /\ c.bin = th[p].bin /\ c.id = th[p].id
          /\ c.from = (IF th[p].op = "vault" THEN th[p].from ELSE ctx)
      BY <2>1 DEF Call
    <3>6. th' = [th EXCEPT ![p] = c]
      BY <1>0, <2>3
    <3> HIDE DEF c
    <3>7. Sound(c) /\ Under(c)
      BY <1>0, <2>1, <3>2, <3>3, <3>4, <3>5 DEF Sound, Read, Course, Locked, Under
    <3> QED
      BY <1>0, <2>1, <2>3, <3>4, <3>6, <3>7, Moved
  <2> QED
    <3>1. (End(p) /\ holder' = holder)
          \/ (/\ place # None /\ holder' = p
              /\ th' = [th EXCEPT ![p].at = "act", ![p].base = registry, ![p].env = env,
                                  ![p].from = IF th[p].op = "vault" THEN @ ELSE ctx,
                                  ![p].place = place])
      BY <1>b DEF Enter
    <3> QED
      BY <2>2, <2>3, <3>1
<1>c. ASSUME NEW p \in Proc, Blocked(p) PROVE CallsSound' /\ HolderUnder'
  BY <1>c, Ended DEF Blocked, LockedAt, Under, End, run
<1>d. ASSUME NEW p \in Proc, BuildFails(p) \/ VaultDone(p) \/ Rollback(p)
      PROVE CallsSound' /\ HolderUnder'
  <2>1. th[p] # None /\ Under(th[p])
    BY <1>d DEF BuildFails, VaultDone, Rollback, At, LockedAt, Under, Locked
  <2>2. th' = [th EXCEPT ![p] = None] /\ holder' = None
    BY <1>d DEF BuildFails, VaultDone, Rollback, End
  <2> QED
    BY <2>1, <2>2, Ended
<1>e. ASSUME NEW p \in Proc, Activate(p) PROVE CallsSound' /\ HolderUnder'
  <2>1. /\ th[p] # None /\ th[p].op \in Locked /\ th[p].at = "act" /\ holder' = holder
    BY <1>e DEF Activate, LockedAt
  <2>2. PICK a \in {"etag", "rollback"} : th' = [th EXCEPT ![p].at = a]
    BY <1>e DEF Activate, Go
  <2>3. /\ [th[p] EXCEPT !.at = a].op = th[p].op /\ [th[p] EXCEPT !.at = a].at = a
        /\ a \in Stand
    BY <2>1, InCall DEF Stand
  <2>4. Course([th[p] EXCEPT !.at = a]) /\ Read(th[p])
    BY <2>1, <2>3 DEF Course, Locked, Read
  <2> QED
    BY <2>1, <2>2, <2>3, <2>4, Stepped
<1>f. ASSUME NEW p \in Proc, VaultFails(p) PROVE CallsSound' /\ HolderUnder'
  <2>1. /\ th[p] # None /\ th[p].op \in {"vault", "relocate vault"} /\ th[p].at \in {"act", "etag"}
        /\ holder' = holder /\ th' = [th EXCEPT ![p].at = "rollback"] /\ "rollback" \in Stand
    BY <1>f DEF VaultFails, Go, run, Stand
  <2>2. [th[p] EXCEPT !.at = "rollback"].op = th[p].op /\ [th[p] EXCEPT !.at = "rollback"].at = "rollback"
    BY <2>1, InCall
  <2>3. Course([th[p] EXCEPT !.at = "rollback"]) /\ Read(th[p])
    BY <2>1, <2>2 DEF Course, Read
  <2> QED
    BY <2>1, <2>2, <2>3, Stepped
<1>g. ASSUME NEW p \in Proc, ReadEtag(p) PROVE CallsSound' /\ HolderUnder'
  <2>1. /\ th[p] # None /\ th[p].at = "etag" /\ Candidates(th[p]) # {} /\ holder' = holder
        /\ th[p] \in Call /\ Sound(th[p])
        /\ th' = [th EXCEPT ![p].at = "replace", ![p].etag = registry]
    BY <1>g, InCall DEF ReadEtag, Saving, run
  <2> DEFINE c == [th[p] EXCEPT !.at = "replace", !.etag = registry]
  <2>2. c \in Call
    BY <1>0, <2>1 DEF Call, Stand, Good
  <2>3. /\ c.op = th[p].op /\ c.at = "replace" /\ c.base = th[p].base /\ c.place = th[p].place
        /\ c.bin = th[p].bin /\ c.id = th[p].id /\ c.from = th[p].from
    BY <2>1 DEF Call
  <2>4. th' = [th EXCEPT ![p] = c]
    BY <1>0, <2>1
  <2> HIDE DEF c
  <2>5. th[p].op # "vault"
    BY <2>1 DEF Candidates
  <2>6. Sound(c) /\ (Under(c) <=> Under(th[p]))
    BY <2>1, <2>2, <2>3, <2>5 DEF Sound, Read, Course, Under
  <2>7. (holder = p) <=> Under(th[p])
    BY <2>1, InCall
  <2> QED
    BY <1>0, <2>1, <2>2, <2>4, <2>6, <2>7, Moved
<1>h. ASSUME NEW p \in Proc, Unmatched(p) PROVE CallsSound' /\ HolderUnder'
  BY <1>h, Ended DEF Unmatched, At, Under, Locked, End
<1>i. ASSUME NEW p \in Proc, Replace(p) PROVE CallsSound' /\ HolderUnder'
  <2>1. th[p] # None /\ th[p].at = "replace" /\ Sound(th[p])
        /\ holder' = (IF th[p].op \in Locked THEN None ELSE holder)
    BY <1>i, InCall DEF Replace
  <2>2. CASE th[p].op = "delete"
    <3>1. th' = [th EXCEPT ![p].at = "purge"] /\ holder' = holder /\ "purge" \in Stand
      BY <1>i, <2>1, <2>2 DEF Replace, Go, Locked, Stand
    <3>2. [th[p] EXCEPT !.at = "purge"].op = th[p].op /\ [th[p] EXCEPT !.at = "purge"].at = "purge"
      BY <2>1, <3>1, InCall
    <3>3. Course([th[p] EXCEPT !.at = "purge"]) /\ Read(th[p])
      BY <2>1, <2>2, <3>2 DEF Course, Read
    <3> QED
      BY <2>1, <2>2, <3>1, <3>2, <3>3, Stepped DEF Locked
  <2>3. CASE th[p].op # "delete"
    BY <1>i, <2>1, <2>3, Ended DEF Replace, End, Under
  <2> QED
    BY <2>2, <2>3
<1>j. ASSUME NEW p \in Proc, WriteFails(p) PROVE CallsSound' /\ HolderUnder'
  <2>1. th[p] # None /\ th[p].at = "replace" /\ Sound(th[p]) /\ holder' = holder
        /\ {"rollback", "undo"} \subseteq Stand /\ Read(th[p])
    BY <1>j, InCall DEF WriteFails, run, Stand, Read
  <2>2. CASE th[p].op \in Locked
    <3>1. th' = [th EXCEPT ![p].at = "rollback"] /\ th[p].op # "vault"
      BY <1>j, <2>1, <2>2 DEF WriteFails, Go, Sound, Course, Locked
    <3>2. [th[p] EXCEPT !.at = "rollback"].op = th[p].op /\ [th[p] EXCEPT !.at = "rollback"].at = "rollback"
      BY <2>1, InCall
    <3>3. Course([th[p] EXCEPT !.at = "rollback"])
      BY <2>2, <3>2 DEF Course, Locked
    <3> QED
      BY <2>1, <3>1, <3>2, <3>3, Stepped
  <2>3. CASE th[p].op = "delete"
    <3>1. th' = [th EXCEPT ![p].at = "undo"]
      BY <1>j, <2>1, <2>3 DEF WriteFails, Go, Locked
    <3>2. [th[p] EXCEPT !.at = "undo"].op = th[p].op /\ [th[p] EXCEPT !.at = "undo"].at = "undo"
      BY <2>1, InCall
    <3>3. Course([th[p] EXCEPT !.at = "undo"])
      BY <2>3, <3>2 DEF Course
    <3> QED
      BY <2>1, <2>3, <3>1, <3>2, <3>3, Stepped DEF Locked
  <2>4. CASE th[p].op \notin Locked \cup {"delete"}
    BY <1>j, <2>1, <2>4, Ended DEF WriteFails, End, Under
  <2> QED
    BY <2>2, <2>3, <2>4
<1>k. ASSUME NEW p \in Proc, DeleteConflicts(p) \/ Undo(p) \/ Purge(p)
      PROVE CallsSound' /\ HolderUnder'
  <2>1. th[p] # None /\ th[p].op = "delete" /\ holder' = holder
    BY <1>k DEF DeleteConflicts, Undo, Purge, At, run
  <2>2. th' = [th EXCEPT ![p] = None]
    BY <1>k DEF DeleteConflicts, Undo, Purge, End
  <2> QED
    BY <2>1, <2>2, Ended DEF Under, Locked
<1>l. ASSUME NEW p \in Proc, SetUp(p) PROVE CallsSound' /\ HolderUnder'
  <2>1. th[p] # None /\ th[p].op = "create" /\ th[p].at = "check" /\ Sound(th[p]) /\ th[p] \in Call
        /\ holder' = holder
        /\ th' = [th EXCEPT ![p].at = "mark", ![p].fresh = (tree[th[p].place] = {})]
    BY <1>l, InCall DEF SetUp, At, run
  <2> DEFINE c == [th[p] EXCEPT !.at = "mark", !.fresh = (tree[th[p].place] = {})]
  <2>2. c \in Call /\ c.op = "create" /\ c.at = "mark" /\ c.bin = th[p].bin
    BY <2>1 DEF Call, Stand
  <2>3. th' = [th EXCEPT ![p] = c]
    BY <1>0, <2>1
  <2> HIDE DEF c
  <2>4. Sound(c) /\ ~Under(c) /\ holder # p
    BY <2>1, <2>2, InCall DEF Sound, Read, Course, Under, Locked
  <2> QED
    BY <2>1, <2>2, <2>3, <2>4, Moved
<1>m. ASSUME NEW p \in Proc, Mark(p) \/ Relocate(p) PROVE CallsSound' /\ HolderUnder'
  <2>1. th[p] # None /\ th[p].op \in {"create", "relocate"} /\ Sound(th[p]) /\ th[p] \in Call
        /\ holder' = holder /\ ~Under(th[p])
    BY <1>m, InCall DEF Mark, Relocate, At, run, Under, Locked
  <2>2. CASE End(p)
    BY <2>1, <2>2, Ended DEF End
  <2>3. CASE th' = [th EXCEPT ![p].at = "etag", ![p].base = registry]
    <3> DEFINE c == [th[p] EXCEPT !.at = "etag", !.base = registry]
    <3>1. c \in Call /\ c.op = th[p].op /\ c.at = "etag" /\ c.bin = th[p].bin /\ c.base = registry
      BY <1>0, <2>1 DEF Call, Stand, Good
    <3>2. th' = [th EXCEPT ![p] = c]
      BY <1>0, <2>3
    <3> HIDE DEF c
    <3>3. Sound(c) /\ ~Under(c) /\ holder # p
      BY <1>0, <2>1, <3>1, InCall DEF Sound, Read, Course, Under, Locked
    <3> QED
      BY <2>1, <3>1, <3>2, <3>3, Moved
  <2> QED
    BY <1>m, <2>2, <2>3 DEF Mark, Relocate
<1>n. ASSUME NEW p \in Proc, CheckDelete(p) PROVE CallsSound' /\ HolderUnder'
  <2>1. th[p] # None /\ th[p].op = "delete" /\ th[p].at = "check" /\ Sound(th[p]) /\ th[p] \in Call
        /\ holder' = holder
    BY <1>n, InCall DEF CheckDelete, At, run
  <2>2. CASE End(p)
    BY <2>1, <2>2, Ended DEF End, Under, Locked
  <2>3. CASE /\ Removable(th[p].id)
             /\ th' = [th EXCEPT ![p].at = IF th[p].mode = "unregister" THEN "etag" ELSE "move",
                                 ![p].base = registry, ![p].place = registry.entry[th[p].id]]
    <3>1. registry.entry[th[p].id] \in Place /\ th[p].id \notin {Default, registry.active}
      BY <1>0, <2>3 DEF Removable, Deletable, Registered, Good, Registry
    <3> DEFINE c == [th[p] EXCEPT !.at = IF th[p].mode = "unregister" THEN "etag" ELSE "move",
                                  !.base = registry, !.place = registry.entry[th[p].id]]
    <3>2. c \in Call
      BY <1>0, <2>1, <3>1 DEF Call, Stand, Good
    <3>3. /\ c.op = "delete" /\ c.at = (IF th[p].mode = "unregister" THEN "etag" ELSE "move")
          /\ c.base = registry /\ c.id = th[p].id /\ c.mode = th[p].mode
      BY <2>1 DEF Call
    <3>4. th' = [th EXCEPT ![p] = c]
      BY <1>0, <2>3
    <3> HIDE DEF c
    <3>5. Sound(c) /\ ~Under(c) /\ holder # p
      BY <1>0, <2>1, <3>1, <3>2, <3>3, InCall DEF Sound, Read, Course, Under, Locked
    <3> QED
      BY <2>1, <3>2, <3>4, <3>5, Moved
  <2> QED
    BY <1>n, <2>2, <2>3 DEF CheckDelete
<1>o. ASSUME NEW p \in Proc, Stage(p) PROVE CallsSound' /\ HolderUnder'
  <2>1. th[p] # None /\ th[p].op = "delete" /\ th[p].at = "move" /\ Sound(th[p]) /\ th[p] \in Call
        /\ holder' = holder
    BY <1>o, InCall DEF Stage, At, run
  <2>2. PICK parts \in Plan(th[p]) : th' = [th EXCEPT ![p].bin = @ \cup parts]
    BY <1>o DEF Stage
  <2>3. parts \subseteq Part
    <3>1. th[p].mode \in {"all", "generated"} /\ tree[th[p].place] \subseteq Part
      BY <1>0, <2>1 DEF Sound, Call, Mode
    <3> QED
      BY <2>2, <3>1 DEF Plan
  <2> DEFINE c == [th[p] EXCEPT !.bin = @ \cup parts]
  <2>4. c \in Call
    BY <2>1, <2>3 DEF Call
  <2>5. /\ c.op = "delete" /\ c.at = "move" /\ c.base = th[p].base /\ c.id = th[p].id
        /\ c.mode = th[p].mode /\ c.from = th[p].from /\ c.place = th[p].place
    BY <2>1 DEF Call
  <2>6. th' = [th EXCEPT ![p] = c]
    BY <1>0, <2>2
  <2> HIDE DEF c
  <2>7. Sound(c) /\ ~Under(c) /\ holder # p
    BY <2>1, <2>4, <2>5, InCall DEF Sound, Read, Course, Under, Locked
  <2> QED
    BY <2>1, <2>4, <2>6, <2>7, Moved
<1>q. ASSUME NEW p \in Proc, NEW a \in {"etag", "undo"}, At(p, "delete", "move"),
             Go(p, a), holder' = holder
      PROVE CallsSound' /\ HolderUnder'
  <2>1. [th[p] EXCEPT !.at = a].op = "delete" /\ [th[p] EXCEPT !.at = a].at = a /\ a \in Stand
    BY <1>q, InCall DEF At, Stand
  <2>2. Course([th[p] EXCEPT !.at = a]) /\ Read(th[p])
    BY <1>q, <2>1 DEF Course, Read, At
  <2> QED
    BY <1>q, <2>1, <2>2, Stepped DEF At, Go, Locked
<1>r. ASSUME Crash PROVE CallsSound' /\ HolderUnder'
  BY <1>0, <1>r DEF Crash, CallsSound, HolderUnder
<1>s. ASSUME th' = th, holder' = holder PROVE CallsSound' /\ HolderUnder'
  BY <1>s DEF TypeInv, CallsSound, HolderUnder
<1> QED
  <2>1. \A p \in Proc : Staged(p) => Go(p, "etag") /\ At(p, "delete", "move") /\ holder' = holder
    BY DEF Staged, run
  <2>2. \A p \in Proc : StageFails(p) => Go(p, "undo") /\ At(p, "delete", "move") /\ holder' = holder
    BY DEF StageFails, run
  <2>3. Override \/ UNCHANGED vars => th' = th /\ holder' = holder
    BY DEF Override, vars, run
  <2> QED
    BY <1>a, <1>b, <1>c, <1>d, <1>e, <1>f, <1>g, <1>h, <1>i, <1>j, <1>k, <1>l, <1>m, <1>n, <1>o,
       <1>q, <1>r, <1>s, <2>1, <2>2, <2>3 DEF Next

(* The steps that only look, or only move the call on. *)
LEMMA OnlyMoves ==
  ASSUME NEW p \in Proc,
         \/ Arrive(p) \/ Enter(p) \/ Blocked(p) \/ BuildFails(p) \/ VaultDone(p) \/ VaultFails(p)
         \/ ReadEtag(p) \/ WriteFails(p) \/ Relocate(p) \/ CheckDelete(p) \/ Staged(p) \/ StageFails(p)
  PROVE  UNCHANGED <<registry, disk, ctx, env, history>> /\ \E c : th' = [th EXCEPT ![p] = c]
<1>1. CASE Arrive(p)
  <2>1. UNCHANGED <<registry, disk, ctx, env, history>>
    BY <1>1 DEF Arrive, run
  <2>2. PICK op \in Ops, id \in Ws, place \in Place, mode \in Mode, activate \in BOOLEAN :
          /\ op \in {"vault", "relocate vault"} => ctx # None
          /\ th' = [th EXCEPT ![p] =
                [op |-> op, at |-> IF op \in Locked THEN "lock" ELSE "check",
                 id |-> IF op \in {"vault", "relocate vault"} THEN Default ELSE id,
                 place |-> IF op \in {"create", "relocate"} THEN place ELSE Home,
                 mode |-> IF op = "delete" THEN mode ELSE "all",
                 activate |-> op = "create" /\ activate,
                 fresh |-> FALSE, bin |-> {}, env |-> None,
                 from |-> IF op = "vault" THEN ctx ELSE None, base |-> None, etag |-> None]]
    BY <1>1 DEF Arrive
  <2> DEFINE c == [op |-> op, at |-> IF op \in Locked THEN "lock" ELSE "check",
                   id |-> IF op \in {"vault", "relocate vault"} THEN Default ELSE id,
                   place |-> IF op \in {"create", "relocate"} THEN place ELSE Home,
                   mode |-> IF op = "delete" THEN mode ELSE "all",
                   activate |-> op = "create" /\ activate,
                   fresh |-> FALSE, bin |-> {}, env |-> None,
                   from |-> IF op = "vault" THEN ctx ELSE None, base |-> None, etag |-> None]
  <2>3. th' = [th EXCEPT ![p] = c]
    BY <2>2
  <2> HIDE DEF c
  <2> QED
    BY <2>1, <2>3
<1>2. CASE Enter(p)
  BY <1>2 DEF Enter, End
<1>3. CASE Blocked(p) \/ BuildFails(p) \/ VaultDone(p)
  BY <1>3 DEF Blocked, BuildFails, VaultDone, End, run
<1>4. CASE VaultFails(p) \/ Staged(p) \/ StageFails(p)
  BY <1>4 DEF VaultFails, Staged, StageFails, Go, run
<1>5. CASE ReadEtag(p)
  BY <1>5 DEF ReadEtag, run
<1>6. CASE WriteFails(p)
  BY <1>6 DEF WriteFails, Go, End, run
<1>7. CASE Relocate(p) \/ CheckDelete(p)
  BY <1>7 DEF Relocate, CheckDelete, End, run
<1> QED
  BY <1>1, <1>2, <1>3, <1>4, <1>5, <1>6, <1>7

(* The registry, the files and the context stay what they are typed as, and
   the registry keeps its active and its default workspace. *)
LEMMA PlacesNext == TypeInv /\ [Next]_vars => PlacesOK'
<1> SUFFICES ASSUME TypeInv, [Next]_vars PROVE PlacesOK'
  OBVIOUS
<1>0. /\ Good(registry) /\ tree \in [Place -> SUBSET Part] /\ left \in [Place -> SUBSET Part]
      /\ {ctx, env} \subseteq Place \cup {None}
  BY DEF TypeInv, PlacesOK
<1>1. \A p \in Proc : th[p] # None =>
         /\ Sound(th[p]) /\ th[p].place \in Place /\ th[p].bin \subseteq Part
         /\ {th[p].from, th[p].env} \subseteq Place \cup {None}
  <2> SUFFICES ASSUME NEW p \in Proc, th[p] # None
               PROVE  /\ Sound(th[p]) /\ th[p].place \in Place /\ th[p].bin \subseteq Part
                      /\ {th[p].from, th[p].env} \subseteq Place \cup {None}
    OBVIOUS
  <2>1. th[p] \in Call /\ Sound(th[p])
    BY InCall
  <2> QED
    BY <2>1 DEF Call
<1>2. ASSUME UNCHANGED <<registry, disk, ctx, env>> PROVE PlacesOK'
  BY <1>0, <1>2 DEF PlacesOK, disk
<1>3. ASSUME NEW p \in Proc, Activate(p) \/ Unmatched(p) PROVE PlacesOK'
  <2>1. {ctx, env}' \subseteq Place \cup {None} /\ UNCHANGED <<registry, disk>>
    BY <1>0, <1>1, <1>3 DEF Activate, Unmatched, LockedAt, At
  <2> QED
    BY <1>0, <2>1 DEF PlacesOK, disk
<1>4. ASSUME NEW p \in Proc, Rollback(p) PROVE PlacesOK'
  <2>1. /\ th[p] # None /\ th[p].at = "rollback" /\ registry' \in {th[p].base, registry}
        /\ env' = th[p].env /\ ctx' = th[p].from /\ left' = left
        /\ \/ tree' = tree
           \/ tree' = [tree EXCEPT ![th[p].place] = @ \cup {"config"}]
    BY <1>4 DEF Rollback, LockedAt, ContextBack
  <2>2. Good(registry')
    BY <1>0, <1>1, <2>1 DEF Sound, Read
  <2>3. tree' \in [Place -> SUBSET Part]
    BY <1>0, <2>1 DEF PlacesOK, Part
  <2> QED
    BY <1>0, <1>1, <2>1, <2>2, <2>3 DEF PlacesOK, disk
<1>5. ASSUME NEW p \in Proc, Replace(p) PROVE PlacesOK'
  <2>1. /\ th[p] # None /\ th[p].at = "replace" /\ registry' \in Candidates(th[p])
        /\ env' \in {env, None} /\ ctx' = ctx /\ disk' = disk
    BY <1>5 DEF Replace
  <2>2. Good(registry')
    BY <1>1, <2>1, CandidateOK
  <2> QED
    BY <1>0, <2>1, <2>2 DEF PlacesOK, disk
<1>6. ASSUME NEW p \in Proc,
             DeleteConflicts(p) \/ SetUp(p) \/ Mark(p) \/ Stage(p) \/ Undo(p) \/ Purge(p)
      PROVE  PlacesOK'
  <2>1. UNCHANGED <<registry, ctx, env>>
    BY <1>6 DEF DeleteConflicts, SetUp, Mark, Stage, Undo, Purge, run
  <2>2. tree' \in [Place -> SUBSET Part]
    BY <1>0, <1>1, <1>6 DEF DeleteConflicts, SetUp, Mark, Stage, Undo, Purge, At, Part
  <2>3. left' \in [Place -> SUBSET Part]
    BY <1>0, <1>1, <1>6 DEF DeleteConflicts, SetUp, Mark, Stage, Undo, Purge, At, Discard
  <2> QED
    BY <1>0, <2>1, <2>2, <2>3 DEF PlacesOK
<1>7. ASSUME Override PROVE PlacesOK'
  BY <1>0, <1>7 DEF Override, PlacesOK, disk
<1>8. ASSUME Crash PROVE PlacesOK'
  <2>1. {ctx, env}' \subseteq Place \cup {None} /\ UNCHANGED <<registry, tree>>
    BY <1>0, <1>8, WorkspaceOK DEF Crash, WorkspaceOK
  <2>2. left' \in [Place -> SUBSET Part]
    BY <1>0, <1>1, <1>8 DEF Crash
  <2> QED
    BY <1>0, <2>1, <2>2 DEF PlacesOK
<1>9. UNCHANGED vars => UNCHANGED <<registry, disk, ctx, env>>
  BY DEF vars, run
<1> QED
  BY <1>2, <1>3, <1>4, <1>5, <1>6, <1>7, <1>8, <1>9, OnlyMoves DEF Next

LEMMA TypeNext == TypeInv /\ [Next]_vars => TypeInv'
BY CallsNext, PlacesNext DEF TypeInv

LEMMA TypeAlways == Spec => []TypeInv
<1>1. TypeInv /\ [Next]_vars => TypeInv'
  BY TypeNext
<1> QED
  BY TypeInit, <1>1, PTL DEF Spec

(* However the calls that write the registry without the lock overwrite each
   other, and whatever a rollback puts back, the registry names a registered
   workspace as the active one and keeps the default one; and at most the
   holder of the transition lock is past its entry. *)
THEOREM WorkspacesTypeCorrect == Spec => []WorkspacesTypeOK
<1>1. TypeInv => WorkspacesTypeOK
  BY TypeInvImplies
<1> QED
  BY TypeAlways, <1>1, PTL

-----------------------------------------------------------------------------
(* What a delete holds of a place, and whether the config still stands. *)
Holds(c, pl) == IF c # None /\ c.place = pl THEN c.bin ELSE {}
Kept(pl) == "config" \in tree[pl] \cup InBins(pl) \cup left[pl]

LEMMA BinsHold ==
  ASSUME NEW pl
  PROVE  "config" \in InBins(pl) <=> \E q \in Proc : "config" \in Holds(th[q], pl)
BY DEF InBins, Holds

(* A config that one call drops from its bin stands in the place, or is left. *)
LEMMA KeptBy ==
  ASSUME TypeInv, NEW p \in Proc, NEW c \in Call \cup {None}, th' = [th EXCEPT ![p] = c],
         NEW pl \in Place, Kept(pl),
         "config" \in tree[pl] \cup left[pl] \cup Holds(th[p], pl)
            => "config" \in tree'[pl] \cup left'[pl] \cup Holds(c, pl)
  PROVE  Kept(pl)'
<1>1. th'[p] = c /\ \A q \in Proc : q # p => th'[q] = th[q]
  BY DEF TypeInv, CallsSound
<1>2. "config" \in InBins(pl)' <=> \E q \in Proc : "config" \in Holds(th'[q], pl)
  BY DEF InBins, Holds
<1>3. CASE "config" \in tree[pl] \cup left[pl] \cup Holds(th[p], pl)
  BY <1>1, <1>2, <1>3 DEF Kept
<1>4. CASE \E q \in Proc : q # p /\ "config" \in Holds(th[q], pl)
  BY <1>1, <1>2, <1>4 DEF Kept
<1> QED
  BY <1>3, <1>4, BinsHold DEF Kept

(* A call that holds nothing may do anything to itself. *)
LEMMA KeptByOthers ==
  ASSUME TypeInv, NEW p \in Proc, NEW c \in Call \cup {None}, th' = [th EXCEPT ![p] = c],
         th[p] = None \/ th[p].bin = {}, left' = left,
         NEW pl \in Place, Kept(pl), tree[pl] \subseteq tree'[pl]
  PROVE  Kept(pl)'
BY KeptBy DEF Holds

(* A call that moves on keeps what it holds. *)
LEMMA KeptOnTheWay ==
  ASSUME TypeInv, NEW p \in Proc, NEW a \in Stand, th[p] # None,
         th' = [th EXCEPT ![p].at = a], disk' = disk, NEW pl \in Place, Kept(pl)
  PROVE  Kept(pl)'
<1> DEFINE c == [th[p] EXCEPT !.at = a]
<1>1. c \in Call /\ c # None /\ c.place = th[p].place /\ c.bin = th[p].bin
  BY InCall
<1>2. th' = [th EXCEPT ![p] = c]
  BY DEF TypeInv, CallsSound
<1> HIDE DEF c
<1> QED
  BY <1>1, <1>2, KeptBy DEF Holds, disk

(* A config that stands still does after any step, unless a delete of its
   place has been written and purges it. *)
LEMMA KeptNext ==
  ASSUME TypeInv, TypeInv', [Next]_vars, NEW pl \in Place, Kept(pl)
  PROVE  Kept(pl)' \/ \E p \in Proc : Purge(p) /\ th[p].place = pl
<1>0. /\ th \in [Proc -> Call \cup {None}] /\ th' \in [Proc -> Call \cup {None}] /\ None \notin Call
      /\ tree \in [Place -> SUBSET Part] /\ left \in [Place -> SUBSET Part]
  BY CallOK DEF TypeInv, CallsSound, PlacesOK
<1>1. \A p \in Proc : th[p] # None /\ th[p].op # "delete" => th[p].bin = {}
  BY DEF TypeInv, CallsSound, Sound
<1>2. \A p \in Proc : th[p] # None /\ th[p].at = "check" => th[p].bin = {}
  BY DEF TypeInv, CallsSound, Sound
<1>a. ASSUME NEW p \in Proc, th[p] = None \/ th[p].bin = {}, left' = left,
             tree[pl] \subseteq tree'[pl], \E c : th' = [th EXCEPT ![p] = c]
      PROVE  Kept(pl)'
  <2>1. th' = [th EXCEPT ![p] = th'[p]] /\ th'[p] \in Call \cup {None}
    BY <1>0, <1>a
  <2> QED
    BY <1>a, <2>1, KeptByOthers
<1>b. ASSUME NEW p \in Proc,
             \/ Arrive(p) \/ Enter(p) \/ Blocked(p) \/ BuildFails(p) \/ VaultDone(p) \/ VaultFails(p)
             \/ Activate(p) \/ Rollback(p) \/ Unmatched(p)
      PROVE  Kept(pl)'
  <2>1. th[p] = None \/ th[p].op \in Locked
    <3>1. CASE Arrive(p) \/ Enter(p) \/ Blocked(p) \/ Activate(p) \/ Rollback(p)
      BY <3>1 DEF Arrive, Enter, Blocked, Activate, Rollback, LockedAt
    <3>2. CASE BuildFails(p) \/ VaultDone(p) \/ VaultFails(p) \/ Unmatched(p)
      BY <3>2 DEF BuildFails, VaultDone, VaultFails, Unmatched, At, Locked
    <3> QED
      BY <1>b, <3>1, <3>2
  <2>2. left' = left /\ tree[pl] \subseteq tree'[pl] /\ \E c : th' = [th EXCEPT ![p] = c]
    <3>1. CASE Activate(p) \/ Unmatched(p)
      BY <3>1 DEF Activate, Unmatched, Go, End, disk
    <3>2. CASE Rollback(p)
      <4>1. left' = left /\ th' = [th EXCEPT ![p] = None]
            /\ (tree' = tree \/ tree' = [tree EXCEPT ![th[p].place] = @ \cup {"config"}])
        BY <3>2 DEF Rollback, End
      <4>2. tree \in [Place -> SUBSET Part]
        BY DEF TypeInv, PlacesOK
      <4> QED
        BY <4>1, <4>2
    <3> QED
      BY <1>b, <3>1, <3>2, OnlyMoves DEF disk
  <2> QED
    BY <1>1, <1>a, <2>1, <2>2 DEF Locked
<1>c. ASSUME NEW p \in Proc, SetUp(p) \/ Mark(p) \/ Relocate(p) \/ CheckDelete(p)
      PROVE  Kept(pl)'
  <2>1. th[p] # None /\ th[p].bin = {}
    BY <1>1, <1>2, <1>c DEF SetUp, Mark, Relocate, CheckDelete, At
  <2>2. left' = left /\ tree[pl] \subseteq tree'[pl]
    BY <1>0, <1>c DEF disk, SetUp, Mark, Relocate, CheckDelete
  <2>3. \E c : th' = [th EXCEPT ![p] = c]
    BY <1>c DEF SetUp, Mark, Relocate, CheckDelete, End
  <2> QED
    BY <1>a, <2>1, <2>2, <2>3
<1>d. ASSUME NEW p \in Proc, Staged(p) \/ StageFails(p) PROVE Kept(pl)'
  <2>1. PICK a \in {"etag", "undo"} : th' = [th EXCEPT ![p].at = a]
    BY <1>d DEF Staged, StageFails, Go
  <2>2. a \in Stand /\ th[p] # None /\ disk' = disk
    BY <1>d DEF Staged, StageFails, At, Stand
  <2> QED
    BY <2>1, <2>2, KeptOnTheWay
<1>e. ASSUME NEW p \in Proc, Replace(p) \/ WriteFails(p) PROVE Kept(pl)'
  <2>1. th[p] # None /\ disk' = disk /\ {"purge", "undo"} \subseteq Stand
    BY <1>e DEF Replace, WriteFails, Stand
  <2>2. CASE th[p].op = "delete"
    <3>1. PICK a \in {"purge", "undo"} : th' = [th EXCEPT ![p].at = a]
      BY <1>e, <2>2 DEF Replace, WriteFails, Go, Locked
    <3> QED
      BY <2>1, <3>1, KeptOnTheWay
  <2>3. CASE th[p].op # "delete"
    <3>1. \E c : th' = [th EXCEPT ![p] = c]
      BY <1>e, <2>3 DEF Replace, WriteFails, Go, End
    <3> QED
      BY <1>1, <1>a, <2>1, <2>3, <3>1 DEF disk
  <2> QED
    BY <2>2, <2>3
<1>f. ASSUME NEW p \in Proc, ReadEtag(p) PROVE Kept(pl)'
  <2>1. th[p] # None /\ th[p] \in Call /\ disk' = disk
        /\ th' = [th EXCEPT ![p].at = "replace", ![p].etag = registry]
    BY <1>f, InCall DEF ReadEtag
  <2> DEFINE c == [th[p] EXCEPT !.at = "replace", !.etag = registry]
  <2>2. th' = [th EXCEPT ![p] = c] /\ c.place = th[p].place /\ c.bin = th[p].bin
    BY <1>0, <2>1 DEF Call
  <2>3. c = th'[p] /\ c \in Call \cup {None} /\ c # None
    <3>1. c \in [op : Op, at : {"replace"}, id : Ws, place : Place, mode : Mode,
                 fresh : BOOLEAN, activate : BOOLEAN, bin : SUBSET Part,
                 from : Place \cup {None}, env : Place \cup {None},
                 base : Registry \cup {None}, etag : {registry}]
      BY <2>1 DEF Call
    <3>2. registry \in Registry
      BY DEF TypeInv, PlacesOK, Good
    <3> QED
      BY <1>0, <2>2, <3>1, <3>2 DEF Call, Stand
  <2> HIDE DEF c
  <2> QED
    BY <2>1, <2>2, <2>3, KeptBy DEF Holds, disk
<1>g. ASSUME NEW p \in Proc, DeleteConflicts(p) \/ Undo(p) PROVE Kept(pl)'
  <2>1. th[p] # None /\ th[p] \in Call /\ th' = [th EXCEPT ![p] = None]
    BY <1>g, InCall DEF DeleteConflicts, Undo, At, End
  <2>2. /\ tree[pl] \subseteq tree'[pl] /\ left[pl] \subseteq left'[pl]
        /\ th[p].place = pl => th[p].bin \subseteq tree'[pl] \cup left'[pl]
    <3>1. CASE DeleteConflicts(p)
      BY <1>0, <3>1 DEF DeleteConflicts
    <3>2. CASE Undo(p)
      <4>1. PICK back \in SUBSET th[p].bin :
               /\ tree' = [tree EXCEPT ![th[p].place] = @ \cup back]
               /\ left' = [left EXCEPT ![th[p].place] = @ \cup Discard(th[p], back)]
        BY <3>2 DEF Undo
      <4> QED
        BY <1>0, <4>1 DEF Discard
    <3> QED
      BY <1>g, <3>1, <3>2
  <2> QED
    BY <2>1, <2>2, KeptBy DEF Holds
<1>h. ASSUME NEW p \in Proc, Stage(p) PROVE Kept(pl)'
  <2>1. th[p] # None /\ th[p] \in Call
    BY <1>h, InCall DEF Stage, At
  <2>2. PICK parts \in Plan(th[p]) :
           /\ tree' = [tree EXCEPT ![th[p].place] = @ \ parts]
           /\ th' = [th EXCEPT ![p].bin = @ \cup parts]
    BY <1>h DEF Stage
  <2> DEFINE c == [th[p] EXCEPT !.bin = @ \cup parts]
  <2>3. c = th'[p] /\ th' = [th EXCEPT ![p] = c] /\ c \in Call \cup {None}
    BY <1>0, <2>2
  <2>4. c.place = th[p].place /\ c.bin = th[p].bin \cup parts
    BY <2>1 DEF Call
  <2>5. c # None
    <3>1. c \in [op : Op, at : Stand, id : Ws, place : Place, mode : Mode,
                 fresh : BOOLEAN, activate : BOOLEAN, bin : {th[p].bin \cup parts},
                 from : Place \cup {None}, env : Place \cup {None},
                 base : Registry \cup {None}, etag : Registry \cup {None}]
      BY <2>1 DEF Call
    <3>2. parts \subseteq Part
      <4>1. th[p].mode \in {"all", "generated"} /\ tree[th[p].place] \subseteq Part
        BY <1>0, <1>h, <2>1, InCall DEF Sound, Call, Mode, Stage, At
      <4> QED
        BY <2>2, <4>1 DEF Plan
    <3> QED
      BY <1>0, <2>1, <3>1, <3>2 DEF Call
  <2> HIDE DEF c
  <2>6. "config" \in tree[pl] => "config" \in tree'[pl] \/ (th[p].place = pl /\ "config" \in parts)
    BY <1>0, <2>2
  <2>7. left' = left
    BY <1>h DEF Stage
  <2> QED
    BY <2>1, <2>3, <2>4, <2>5, <2>6, <2>7, KeptBy DEF Holds
<1>i. ASSUME NEW p \in Proc, Purge(p), th[p].place # pl PROVE Kept(pl)'
  <2>1. th[p] # None /\ th[p].place \in Place /\ th' = [th EXCEPT ![p] = None] /\ tree' = tree
    BY <1>i, InCall DEF Purge, At, End, Call
  <2>2. left'[pl] = left[pl]
    BY <1>0, <1>i DEF Purge
  <2> QED
    BY <1>i, <2>1, <2>2, KeptBy DEF Holds
<1>j. ASSUME Crash PROVE Kept(pl)'
  <2>1. left'[pl] = left[pl] \cup InBins(pl) /\ tree' = tree
    BY <1>j DEF Crash, InBins
  <2> QED
    BY <2>1 DEF Kept
<1>k. ASSUME disk' = disk, th' = th PROVE Kept(pl)'
  BY <1>k DEF disk, Kept, InBins
<1>l. Override \/ UNCHANGED vars => disk' = disk /\ th' = th
  BY DEF Override, vars
<1> QED
  BY <1>b, <1>c, <1>d, <1>e, <1>f, <1>g, <1>h, <1>i, <1>j, <1>k, <1>l DEF Next

(* A workspace is registered where it was, or where a create or a relocation
   has just seen its config. *)
LEMMA EntriesNext ==
  ASSUME TypeInv, [Next]_vars, ~lost', NEW w \in Registered(registry')
  PROVE  /\ ~lost /\ torn \subseteq torn'
         /\ \/ w \in Registered(registry) /\ registry'.entry[w] = registry.entry[w]
            \/ /\ registry'.entry[w] \in torn' \/ "config" \in tree[registry'.entry[w]]
               /\ disk' = disk
<1>1. ASSUME registry' = registry, lost' = lost, torn' = torn
      PROVE  /\ ~lost /\ torn \subseteq torn'
             /\ w \in Registered(registry) /\ registry'.entry[w] = registry.entry[w]
  BY <1>1 DEF Registered
<1>2. ASSUME NEW p \in Proc, Purge(p)
      PROVE  /\ ~lost /\ torn \subseteq torn'
             /\ w \in Registered(registry) /\ registry'.entry[w] = registry.entry[w]
  BY <1>2 DEF Purge, Registered
<1>3. ASSUME NEW p \in Proc, Rollback(p)
      PROVE  /\ ~lost /\ torn \subseteq torn'
             /\ w \in Registered(registry) /\ registry'.entry[w] = registry.entry[w]
  <2>1. /\ torn' = torn
        /\ \/ registry' = th[p].base /\ lost' = (lost \/ registry # th[p].base)
           \/ registry' = registry /\ lost' = lost
    BY <1>3 DEF Rollback
  <2>2. ~lost /\ registry' = registry
    <3>1. CASE registry' = th[p].base /\ lost' = (lost \/ registry # th[p].base)
      BY <3>1
    <3>2. CASE registry' = registry /\ lost' = lost
      BY <3>2
    <3> QED
      BY <2>1, <3>1, <3>2
  <2> QED
    BY <2>1, <2>2 DEF Registered
<1>4. ASSUME NEW p \in Proc, Replace(p)
      PROVE  /\ ~lost /\ torn \subseteq torn'
             /\ \/ w \in Registered(registry) /\ registry'.entry[w] = registry.entry[w]
                \/ /\ registry'.entry[w] \in torn' \/ "config" \in tree[registry'.entry[w]]
                   /\ disk' = disk
  <2>1. /\ th[p] # None /\ th[p].at = "replace" /\ registry' \in Candidates(th[p])
        /\ lost' = (lost \/ registry # th[p].base) /\ disk' = disk
        /\ torn' = IF th[p].op \in {"create", "relocate"} /\ "config" \notin tree[th[p].place]
                   THEN torn \cup {th[p].place} ELSE torn
    BY <1>4 DEF Replace
  <2>2. ~lost /\ registry = th[p].base /\ torn \subseteq torn'
    BY <2>1
  <2>3. \/ registry'.entry[w] \in {registry.entry[w], None}
        \/ th[p].op \in {"create", "relocate"} /\ registry'.entry[w] = th[p].place
    BY <2>1, <2>2, InCall, CandidateOK DEF Registered
  <2> QED
    BY <2>1, <2>2, <2>3 DEF Registered
<1> QED
  <2>1. ASSUME NEW p \in Proc,
               \/ Activate(p) \/ Unmatched(p) \/ DeleteConflicts(p) \/ SetUp(p) \/ Mark(p)
               \/ Stage(p) \/ Undo(p)
        PROVE  registry' = registry /\ lost' = lost /\ torn' = torn
    BY <2>1 DEF history, Activate, Unmatched, DeleteConflicts, SetUp, Mark, Stage, Undo
  <2>2. UNCHANGED <<registry, history>> => registry' = registry /\ lost' = lost /\ torn' = torn
    BY DEF history
  <2>3. Override \/ Crash \/ UNCHANGED vars => registry' = registry /\ lost' = lost /\ torn' = torn
    BY DEF Override, Crash, vars, history
  <2> QED
    BY <1>1, <1>2, <1>3, <1>4, <2>1, <2>2, <2>3, OnlyMoves DEF Next

LEMMA FilesNext == TypeInv /\ TypeInv' /\ FilesKept /\ [Next]_vars => FilesKept'
<1> SUFFICES ASSUME TypeInv, TypeInv', FilesKept, [Next]_vars, ~lost',
                    NEW w \in Registered(registry'), NEW pl, pl = registry'.entry[w]
             PROVE  Kept(pl)' \/ pl \in torn'
  BY DEF FilesKept, Kept
<1>1. pl \in Place
  BY DEF TypeInv, PlacesOK, Good, Registry, Registered
<1>2. ~lost /\ torn \subseteq torn'
  BY EntriesNext
<1>3. CASE w \in Registered(registry) /\ pl = registry.entry[w]
  <2>1. Kept(pl) \/ pl \in torn
    BY <1>2, <1>3 DEF FilesKept, Kept
  <2>2. ASSUME NEW p \in Proc, Purge(p), th[p].place = pl PROVE pl \in torn'
    BY <1>3, <2>2 DEF Purge, Registered
  <2> QED
    BY <1>1, <1>2, <2>1, <2>2, KeptNext
<1>4. CASE (pl \in torn' \/ "config" \in tree[pl]) /\ disk' = disk
  BY <1>4 DEF Kept, disk
<1> QED
  BY <1>3, <1>4, EntriesNext

(* A delete that is refused, fails, cannot be undone or dies destroys
   nothing: the config of a listed workspace is in its place, in what the
   delete has staged or in what it left for the user; unless two entries
   named one place, or one was written for files already taken. *)
THEOREM DeleteKeepsFiles == Spec => []FilesKept
<1>1. Init => FilesKept
  <2> SUFFICES ASSUME Init, NEW w \in Registered(registry) PROVE "config" \in tree[registry.entry[w]]
    BY DEF FilesKept
  <2>1. w = Default /\ registry.entry[w] = Home /\ Home \in Place
    BY WorkspaceOK DEF Init, Registered, WorkspaceOK
  <2> QED
    BY <2>1 DEF Init
<1>2. TypeInv /\ TypeInv' /\ FilesKept /\ [Next]_vars => FilesKept'
  BY FilesNext
<1> QED
  BY <1>1, <1>2, TypeAlways, PTL DEF Spec

-----------------------------------------------------------------------------
(* A call outside the lock leaves the context to the others, if the active
   workspace keeps its place or the change of it is recorded. *)
LEMMA ContextOfOthers ==
  ASSUME TypeInv, ContextInv, NEW p \in Proc, holder # p, \E c : th' = [th EXCEPT ![p] = c],
         holder' = holder, ctx' = ctx, env' = env,
         Clean' => Clean /\ ActivePlace(registry') = ActivePlace(registry)
  PROVE  ContextInv'
<1>1. \A q \in Proc : q # p => th'[q] = th[q]
  BY DEF TypeInv, CallsSound
<1>2. holder' = None /\ Clean' => Follows(ctx', env', registry')
  BY DEF ContextInv, Follows
<1>3. ASSUME NEW q \in Proc, holder' = q PROVE ContextOf(th[q])'
  <2>1. ContextOf(th[q]) /\ th'[q] = th[q]
    BY <1>1, <1>3 DEF ContextInv
  <2> QED
    BY <2>1 DEF ContextOf, Follows
<1> QED
  BY <1>2, <1>3 DEF ContextInv

(* The call that has or takes the lock accounts for the context. *)
LEMMA ContextOfHolder ==
  ASSUME NEW p \in Proc, holder' = p, ContextOf(th[p])'
  PROVE  ContextInv'
<1>1. None \notin Proc
  BY WorkspaceOK DEF WorkspaceOK
<1> QED
  BY <1>1 DEF ContextInv

(* The call that gives up the lock leaves the context as it should be. *)
LEMMA ContextLeft ==
  ASSUME holder' = None, Clean' => Follows(ctx', env', registry')
  PROVE  ContextInv'
<1>1. None \notin Proc
  BY WorkspaceOK DEF WorkspaceOK
<1> QED
  BY <1>1 DEF ContextInv

LEMMA ContextInit == Init => ContextInv
<1> SUFFICES ASSUME Init PROVE ContextInv
  OBVIOUS
<1>1. Home # None /\ None \notin Proc
  BY WorkspaceOK DEF WorkspaceOK
<1> QED
  BY <1>1 DEF Init, ContextInv, Follows

(* Every step leaves the context with the active workspace, or with a call
   that will put it there. *)
LEMMA ContextNext == TypeInv /\ ContextInv /\ [Next]_vars => ContextInv'
<1> SUFFICES ASSUME TypeInv, ContextInv, [Next]_vars PROVE ContextInv'
  OBVIOUS
<1>0. None \notin Proc \cup Place
  BY WorkspaceOK DEF WorkspaceOK
<1>1. \A p \in Proc : th[p] # None =>
         /\ (holder = p <=> Under(th[p])) /\ th[p].place \in Place
         /\ Under(th[p]) => ContextOf(th[p])
  <2> SUFFICES ASSUME NEW p \in Proc, th[p] # None
               PROVE  /\ (holder = p <=> Under(th[p])) /\ th[p].place \in Place
                      /\ Under(th[p]) => ContextOf(th[p])
    OBVIOUS
  <2>1. th[p] \in Call /\ (holder = p <=> Under(th[p]))
    BY InCall
  <2> QED
    BY <2>1 DEF ContextInv, Call
<1>a. ASSUME NEW p \in Proc, th[p] = None \/ ~Under(th[p]), \E c : th' = [th EXCEPT ![p] = c],
             UNCHANGED <<registry, run, history>>
      PROVE  ContextInv'
  <2>1. holder # p
    BY <1>a DEF TypeInv, HolderUnder
  <2> QED
    BY <1>a, <2>1, ContextOfOthers DEF run, history, Clean
<1>b. ASSUME NEW p \in Proc, Arrive(p) \/ Blocked(p) PROVE ContextInv'
  <2>1. th[p] = None \/ ~Under(th[p])
    BY <1>b DEF Arrive, Blocked, LockedAt, Under
  <2>2. (\E c : th' = [th EXCEPT ![p] = c]) /\ UNCHANGED <<registry, run, history>>
    BY <1>b DEF Arrive, Blocked, End
  <2> QED
    BY <1>a, <2>1, <2>2
<1>c. ASSUME NEW p \in Proc,
             \/ SetUp(p) \/ Mark(p) \/ Relocate(p) \/ CheckDelete(p) \/ Stage(p) \/ Staged(p)
             \/ StageFails(p) \/ Undo(p) \/ DeleteConflicts(p)
      PROVE  ContextInv'
  <2>1. ~Under(th[p])
    BY <1>c DEF SetUp, Mark, Relocate, CheckDelete, Stage, Staged, StageFails, Undo,
       DeleteConflicts, At, Under, Locked
  <2>2. \E c : th' = [th EXCEPT ![p] = c]
    BY <1>c DEF SetUp, Mark, Relocate, CheckDelete, Stage, Staged, StageFails, Undo,
       DeleteConflicts, Go, End
  <2>3. UNCHANGED <<registry, run, history>>
    BY <1>c DEF SetUp, Mark, Relocate, CheckDelete, Stage, Staged, StageFails, Undo,
       DeleteConflicts
  <2> QED
    BY <1>a, <2>1, <2>2, <2>3
<1>d. ASSUME NEW p \in Proc, Purge(p) PROVE ContextInv'
  <2>1. th[p] # None /\ ~Under(th[p])
    BY <1>d DEF Purge, At, Under, Locked
  <2>2. /\ \E c : th' = [th EXCEPT ![p] = c]
        /\ UNCHANGED <<registry, run, lost, stale, apart>>
    BY <1>d DEF Purge, End
  <2>3. holder # p
    BY <1>1, <2>1
  <2> QED
    BY <2>2, <2>3, ContextOfOthers DEF run, Clean
<1>e. ASSUME NEW p \in Proc, Enter(p) PROVE ContextInv'
  <2>1. /\ th[p] # None /\ th[p].op \in Locked /\ ~Under(th[p]) /\ holder = None
        /\ UNCHANGED <<registry, ctx, env, history>>
    BY <1>e DEF Enter, LockedAt, Under
  <2> DEFINE place == CASE th[p].op = "load" -> registry.entry[th[p].id]
                        [] th[p].op = "vault" -> th[p].from
                        [] th[p].op = "relocate vault" -> ctx
  <2>2. CASE End(p) /\ UNCHANGED holder
    BY <1>a, <2>1, <2>2 DEF End, run
  <2>3. CASE /\ holder' = p
             /\ th' = [th EXCEPT ![p].at = "act", ![p].base = registry, ![p].env = env,
                                 ![p].from = IF th[p].op = "vault" THEN @ ELSE ctx,
                                 ![p].place = place]
    <3> HIDE DEF place
    <3>1. th[p] \in Call
      BY <2>1, InCall
    <3>2. /\ th'[p].op = th[p].op /\ th'[p].at = "act" /\ th'[p].env = env
          /\ th[p].op # "vault" => th'[p].from = ctx
      BY <2>3, <3>1 DEF TypeInv, CallsSound, Call
    <3>3. Clean' => Follows(ctx, env, registry)
      BY <2>1 DEF ContextInv, Clean, history
    <3>4. ContextOf(th[p])'
      BY <2>1, <3>2, <3>3 DEF ContextOf, Follows
    <3> QED
      BY <2>3, <3>4, ContextOfHolder
  <2> QED
    BY <1>e, <2>2, <2>3 DEF Enter
<1>f. ASSUME NEW p \in Proc, BuildFails(p) \/ VaultDone(p) PROVE ContextInv'
  <2>1. /\ th[p] # None /\ Under(th[p]) /\ (th[p].op = "vault" \/ th[p].at = "act")
        /\ holder' = None /\ UNCHANGED <<registry, ctx, env, history>>
    BY <1>f DEF BuildFails, VaultDone, At, Under, Locked
  <2>2. Clean' => Clean /\ Follows(ctx, env, registry)
    BY <1>1, <2>1 DEF ContextOf, Clean, history
  <2> QED
    BY <2>1, <2>2, ContextLeft
<1>g. ASSUME NEW p \in Proc, Activate(p) PROVE ContextInv'
  <2>1. /\ th[p] # None /\ Under(th[p]) /\ th[p].at = "act"
        /\ holder' = holder /\ ctx' = th[p].place /\ UNCHANGED <<registry, env, lost, apart>>
        /\ stale' = (stale \/ (th[p].op = "vault" /\ ctx # th[p].from))
    BY <1>g DEF Activate, LockedAt, Under
  <2>2. PICK a \in {"etag", "rollback"} : th' = [th EXCEPT ![p].at = a]
    BY <1>g DEF Activate, Go
  <2>3. /\ th'[p].op = th[p].op /\ th'[p].at = a /\ th'[p].env = th[p].env
        /\ th'[p].place = th[p].place /\ th'[p].from = th[p].from
    BY <2>1, <2>2, InCall DEF TypeInv, CallsSound, Stand
  <2>4. ContextOf(th[p])
    BY <1>1, <2>1
  <2>5. Clean' => Clean /\ (th[p].op = "vault" => ctx = th[p].from)
    BY <2>1 DEF Clean
  <2>6. th[p].op = "vault" => th[p].place = th[p].from
    BY <2>1, InCall DEF Sound, Read
  <2>7. ContextOf(th[p])'
    BY <2>1, <2>3, <2>4, <2>5, <2>6 DEF ContextOf, Follows
  <2> QED
    BY <1>1, <2>1, <2>7, ContextOfHolder
<1>h. ASSUME NEW p \in Proc, NEW a \in {"rollback", "replace"}, th[p] # None, Under(th[p]),
             a = "replace" => th[p].at = "etag",
             th'[p].op = th[p].op, th'[p].at = a, th'[p].env = th[p].env,
             th'[p].place = th[p].place, th'[p].from = th[p].from,
             UNCHANGED <<registry, run, history>>
      PROVE  ContextInv'
  <2>1. ContextOf(th[p]) /\ holder' = p
    BY <1>1, <1>h DEF run
  <2>2. ContextOf(th[p])'
    BY <1>h, <2>1 DEF ContextOf, Follows, Clean, run, history
  <2> QED
    BY <2>1, <2>2, ContextOfHolder
<1>i. ASSUME NEW p \in Proc, th[p] # None, Under(th[p]), th' = [th EXCEPT ![p].at = "rollback"],
             UNCHANGED <<registry, run, history>>
      PROVE  ContextInv'
  <2>1. /\ th'[p].op = th[p].op /\ th'[p].at = "rollback" /\ th'[p].env = th[p].env
        /\ th'[p].place = th[p].place /\ th'[p].from = th[p].from
    BY <1>i, InCall DEF TypeInv, CallsSound, Stand
  <2> QED
    BY <1>h, <1>i, <2>1
<1>j. ASSUME NEW p \in Proc, VaultFails(p) PROVE ContextInv'
  BY <1>i, <1>j DEF VaultFails, Under, Locked, Go
<1>k. ASSUME NEW p \in Proc, WriteFails(p) PROVE ContextInv'
  <2>1. th[p] # None /\ th[p].at = "replace" /\ UNCHANGED <<registry, run, history>>
    BY <1>k DEF WriteFails
  <2>2. CASE th[p].op \in Locked
    <3>1. th' = [th EXCEPT ![p].at = "rollback"] /\ Under(th[p])
      BY <1>k, <2>1, <2>2 DEF WriteFails, Under, Locked, Go
    <3> QED
      BY <1>i, <2>1, <3>1
  <2>3. CASE th[p].op \notin Locked
    BY <1>a, <1>k, <2>1, <2>3 DEF WriteFails, Under, Go, End
  <2> QED
    BY <2>2, <2>3
<1>l. ASSUME NEW p \in Proc, ReadEtag(p) PROVE ContextInv'
  <2>1. /\ th[p] # None /\ th[p].at = "etag" /\ UNCHANGED <<registry, run, history>>
        /\ th' = [th EXCEPT ![p].at = "replace", ![p].etag = registry]
    BY <1>l DEF ReadEtag, Saving
  <2>2. CASE Under(th[p])
    <3>1. /\ th'[p].op = th[p].op /\ th'[p].at = "replace" /\ th'[p].env = th[p].env
          /\ th'[p].place = th[p].place /\ th'[p].from = th[p].from
      BY <2>1, InCall DEF TypeInv, CallsSound, Call
    <3> QED
      BY <1>h, <2>1, <2>2, <3>1
  <2>3. CASE ~Under(th[p])
    BY <1>a, <2>1, <2>3
  <2> QED
    BY <2>2, <2>3
<1>m. ASSUME NEW p \in Proc, Unmatched(p) PROVE ContextInv'
  BY <1>m, ContextLeft DEF Unmatched, Clean
<1>n. ASSUME NEW p \in Proc, Rollback(p) PROVE ContextInv'
  <2>1. /\ th[p] # None /\ Under(th[p]) /\ th[p].at = "rollback" /\ holder' = None /\ apart' = apart
        /\ env' = th[p].env /\ ctx' = th[p].from
        /\ stale' = (stale \/ (th[p].op = "vault" /\ th[p].from # ctx))
    BY <1>n DEF Rollback, LockedAt, Under, ContextBack
  <2>2. ~lost' => ~lost /\ registry' = registry
    <3>1. CASE registry' = th[p].base /\ lost' = (lost \/ registry # th[p].base)
      BY <3>1
    <3>2. CASE registry' = registry /\ lost' = lost
      BY <3>2
    <3> QED
      BY <1>n, <3>1, <3>2 DEF Rollback
  <2>3. Clean' => Clean /\ registry' = registry /\ (th[p].op = "vault" => th[p].from = ctx)
    BY <2>1, <2>2 DEF Clean
  <2>4. ContextOf(th[p])
    BY <1>1, <2>1
  <2>5. Clean' => Follows(ctx', env', registry')
    BY <2>1, <2>3, <2>4 DEF ContextOf
  <2> QED
    BY <2>1, <2>5, ContextLeft
<1>o. ASSUME NEW p \in Proc, Replace(p) PROVE ContextInv'
  <2>1. /\ th[p] # None /\ th[p].at = "replace" /\ registry' \in Candidates(th[p])
        /\ lost' = (lost \/ registry # th[p].base) /\ ctx' = ctx /\ stale' = stale
    BY <1>o DEF Replace
  <2>2. CASE th[p].op \in Locked
    <3>1. ContextOf(th[p]) /\ holder' = None /\ th[p].op # "vault"
      BY <1>1, <1>o, <2>1, <2>2 DEF Replace, Under, Candidates
    <3>2. ActivePlace(registry') = th[p].place
      BY <2>1, <2>2, InCall, CandidateOK
    <3> QED
      BY <2>1, <3>1, <3>2, ContextLeft DEF ContextOf, Follows
  <2>3. CASE th[p].op \notin Locked
    <3>1. /\ holder # p /\ holder' = holder /\ env' = env
          /\ apart' = (apart \/ ActivePlace(registry') # ActivePlace(registry))
      BY <1>1, <1>o, <2>1, <2>3 DEF Replace, Under
    <3>2. \E c : th' = [th EXCEPT ![p] = c]
      BY <1>o DEF Replace, Go, End
    <3>3. Clean' => Clean /\ ActivePlace(registry') = ActivePlace(registry)
      BY <2>1, <3>1 DEF Clean
    <3> QED
      BY <2>1, <3>1, <3>2, <3>3, ContextOfOthers
  <2> QED
    BY <2>2, <2>3
<1>q. ASSUME Override PROVE ContextInv'
  <2>1. /\ ctx = None /\ env # None /\ UNCHANGED <<registry, env, holder, th, history>>
    BY <1>q DEF Override
  <2>2. ASSUME NEW p \in Proc, holder' = p PROVE ContextOf(th[p])'
    <3>1. th[p] # None /\ Under(th[p]) /\ ContextOf(th[p]) /\ th[p].place # None
      BY <1>0, <1>1, <2>1, <2>2 DEF TypeInv, HolderUnder
    <3> QED
      BY <2>1, <3>1 DEF ContextOf, Follows, Clean, history
  <2> QED
    BY <2>1, <2>2 DEF ContextInv, Follows
<1>r. ASSUME Crash PROVE ContextInv'
  BY <1>r, ContextLeft DEF Crash, Follows
<1>s. ASSUME UNCHANGED vars PROVE ContextInv'
  BY <1>s DEF vars, run, history, ContextInv, ContextOf, Follows, Clean
<1> QED
  BY <1>b, <1>c, <1>d, <1>e, <1>f, <1>g, <1>j, <1>k, <1>l, <1>m, <1>n, <1>o, <1>q, <1>r, <1>s
  DEF Next

(* Whatever load or vault call failed before, and wherever it failed, between
   transitions the requests work in the active workspace; unless
   LMZ_CONFIG_PATH overrides it, a call outside the lock moved the active
   workspace or was written over, or a vault call brought back a context
   left meanwhile. *)
THEOREM RequestsFollow == Spec => []ContextFollows
<1>1. TypeInv /\ ContextInv /\ [Next]_vars => ContextInv'
  BY ContextNext
<1>2. ContextInv => ContextFollows
  BY DEF ContextInv, ContextFollows, Follows, Clean
<1> QED
  BY ContextInit, <1>1, <1>2, TypeAlways, PTL DEF Spec
=====
