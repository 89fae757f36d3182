------------------------- MODULE VaultRegistryProofs -------------------------
(***************************************************************************)
(* Why the config always names a registered vault, and why the requests    *)
(* work in it.  What a call has read stays true of its own copy (Sound);   *)
(* the lock is held by the one call that is between its checks and its     *)
(* answer (HolderBusy); and at each place such a call may stand, the       *)
(* context is either the config's or the one about to be written there     *)
(* (ContextInv).                                                           *)
(***************************************************************************)
EXTENDS VaultRegistry, VaultHealth, TLAPS

Copying == {"adopt", "open", "copy"}
Working == {"check", "act", "write", "replace", "list", "rollback"}
Busy(c) == c.op \in Locked /\ c.at \in Working

(* What the checks of a call have established of the config it has read. *)
Sound(c) ==
    /\ c \in Call
    /\ c.base.active \in Registered(c.base)
    /\ c.op \in Locked /\ c.at \in {"act", "write", "replace"} =>
          /\ c.op = "activate" => c.id \in Registered(c.base)
          /\ c.op \in {"delete", "undo"} => c.id # c.base.active
    /\ c.op = "rename" => c.at \in {"check", "write", "replace"}
    /\ c.op \in Package => c.at \in {"check", "act", "write", "replace", "purge"}

CallsSound ==
    /\ th \in [Proc -> Call \cup {None}]
    /\ \A p \in Proc : th[p] # None => Sound(th[p])

HolderBusy ==
    /\ holder \in Proc \cup {None}
    /\ \A p \in Proc : holder = p <=> th[p] # None /\ Busy(th[p])

PlacesOK ==
    /\ config \in Config /\ config.active \in Registered(config)
    /\ root \in [Id -> Proc \cup {Default, None}] /\ ctx \in Id

TypeInv == CallsSound /\ HolderBusy /\ PlacesOK

ContextInv ==
    \/ lost \/ stale
    \/ /\ holder = None => ctx = config.active
       /\ \A p \in Proc : holder = p =>
             /\ th[p].at \in {"check", "act", "list"} => ctx = config.active
             /\ th[p].at \in {"write", "replace"} =>
                   ctx = IF th[p].op = "activate" THEN th[p].id ELSE config.active

-----------------------------------------------------------------------------
(* The parts of the invariant are what the type invariant says. *)
LEMMA TypeInvImplies == TypeInv => VaultTypeOK
<1> SUFFICES ASSUME TypeInv PROVE VaultTypeOK
  OBVIOUS
<1>1. \A p \in Proc : th[p] # None => th[p] \in Call
  BY DEF TypeInv, CallsSound, Sound
<1>2. \A p \in Proc : (\E a \in Working : LockedAt(p, a)) <=> holder = p
  BY DEF TypeInv, HolderBusy, Busy, LockedAt, At
<1>3. {p \in Proc : \E a \in Working : LockedAt(p, a)} = IF holder = None THEN {} ELSE {holder}
  <2>1. None \notin Proc
    BY VaultOK DEF VaultOK
  <2> QED
    BY <1>2, <2>1 DEF TypeInv, HolderBusy
<1> QED
  BY <1>1, <1>3 DEF TypeInv, PlacesOK, VaultTypeOK, Working

(* At the start nothing is called and the default vault is active. *)
LEMMA TypeInit == Init => TypeInv
<1> SUFFICES ASSUME Init PROVE TypeInv
  OBVIOUS
<1>1. Default \in Id /\ None \notin Id \cup Proc \cup Name
  BY VaultOK DEF VaultOK
<1>2. config \in Config /\ config.active \in Registered(config)
  BY <1>1 DEF Init, Config, Name, Registered
<1>3. \A p \in Proc : th[p] = None
  BY DEF Init
<1> QED
  BY <1>1, <1>2, <1>3 DEF Init, TypeInv, CallsSound, HolderBusy, PlacesOK

(* What a call writes is a config whose active vault is registered. *)
LEMMA CandidateOK ==
  ASSUME NEW c \in Call, Sound(c), c.at \in {"act", "write", "replace"}
  PROVE  Candidate(c) \in Config /\ Candidate(c).active \in Registered(Candidate(c))
<1>1. None \notin Name /\ "first" \in Name /\ "renamed" \in Name
  BY VaultOK DEF VaultOK, Name
<1>2. c.base \in Config /\ c.id \in Id /\ c.op \in Op /\ c.base.active \in Id
  BY DEF Call, Config
<1>3. c.base.vaults \in [Id -> Name \cup {None}]
  BY <1>2 DEF Config
<1>4. CASE c.op \in {"create", "merge"} \cup Package
  <2>1. Candidate(c) = [c.base EXCEPT !.vaults[c.id] = "first"]
    BY <1>4 DEF Candidate, Package
  <2> QED
    BY <1>1, <1>2, <1>3, <2>1 DEF Config, Registered, Sound
<1>5. CASE c.op = "rename"
  <2>1. Candidate(c) = [c.base EXCEPT !.vaults[c.id] = "renamed"]
    BY <1>5 DEF Candidate, Package
  <2> QED
    BY <1>1, <1>2, <1>3, <2>1 DEF Config, Registered, Sound
<1>6. CASE c.op = "activate"
  <2>1. Candidate(c) = [c.base EXCEPT !.active = c.id]
    BY <1>6 DEF Candidate, Package
  <2>2. c.id \in Registered(c.base)
    BY <1>6 DEF Sound, Locked
  <2> QED
    BY <1>2, <1>3, <2>1, <2>2 DEF Config, Registered
<1>7. CASE c.op \in {"delete", "undo"}
  <2>1. Candidate(c) = [c.base EXCEPT !.vaults[c.id] = None]
    BY <1>7 DEF Candidate, Package
  <2>2. c.id # c.base.active
    BY <1>7 DEF Sound, Locked
  <2> QED
    BY <1>2, <1>3, <2>1, <2>2 DEF Config, Registered, Sound
<1> QED
  BY <1>2, <1>4, <1>5, <1>6, <1>7 DEF Op, Locked, Package

-----------------------------------------------------------------------------
(* One call moves on, and takes or gives up the lock if it has to. *)
LEMMA Moved ==
  ASSUME TypeInv, NEW p \in Proc, NEW c \in Call \cup {None},
         th' = [th EXCEPT ![p] = c],
         c # None => Sound(c),
         \/ holder' = holder /\ (holder = p <=> c # None /\ Busy(c))
         \/ holder = None /\ holder' = p /\ c # None /\ Busy(c)
         \/ holder = p /\ holder' = None /\ (c = None \/ ~Busy(c))
  PROVE  CallsSound' /\ HolderBusy'
<1>1. None \notin Proc
  BY VaultOK DEF VaultOK
<1>2. th' \in [Proc -> Call \cup {None}] /\ th'[p] = c
  BY DEF TypeInv, CallsSound
<1>3. \A q \in Proc : q # p => th'[q] = th[q]
  BY DEF TypeInv, CallsSound
<1>4. CallsSound'
  BY <1>2, <1>3 DEF TypeInv, CallsSound
<1>5. HolderBusy'
  <2>1. holder' \in Proc \cup {None}
    BY DEF TypeInv, HolderBusy
  <2>2. ASSUME NEW q \in Proc PROVE holder' = q <=> th'[q] # None /\ Busy(th'[q])
    BY <1>1, <1>2, <1>3 DEF TypeInv, HolderBusy
  <2> QED
    BY <2>1, <2>2 DEF HolderBusy
<1> QED
  BY <1>4, <1>5

(* A call that has come, seen as a record. *)
LEMMA InCall ==
  ASSUME TypeInv, NEW p \in Proc, th[p] # None
  PROVE  /\ th[p] \in Call /\ Sound(th[p])
         /\ \A a \in Place : [th[p] EXCEPT !.at = a] \in Call /\ [th[p] EXCEPT !.at = a] # None
         /\ (holder = p) <=> Busy(th[p])
<1>1. th[p] \in Call /\ Sound(th[p])
  BY DEF TypeInv, CallsSound, Sound
<1>2. \A a \in Place : [th[p] EXCEPT !.at = a] \in Call
  BY <1>1 DEF Call
<1> QED
  BY <1>1, <1>2, CallOK DEF TypeInv, HolderBusy

(* A step that only moves the call on to another place under the lock, or *)
(* to another place outside it.                                           *)
LEMMA Stepped ==
  ASSUME TypeInv, NEW p \in Proc, NEW a \in Place, th[p] # None,
         th' = [th EXCEPT ![p].at = a], holder' = holder,
         th[p].op \in Locked => (a \in Working <=> th[p].at \in Working),
         th[p].op \in Locked /\ a \in {"act", "write", "replace"} =>
            \/ th[p].at \in {"act", "write", "replace"}
            \/ Passes(th[p]),
         th[p].op = "rename" => a \in {"check", "write", "replace"},
         th[p].op \in Package => a \in {"check", "act", "write", "replace", "purge"}
  PROVE  CallsSound' /\ HolderBusy'
<1> DEFINE c == [th[p] EXCEPT !.at = a]
<1>1. th[p] \in Call /\ Sound(th[p]) /\ c \in Call /\ c # None /\ (holder = p <=> Busy(th[p]))
  BY InCall
<1>2. c.op = th[p].op /\ c.at = a /\ c.base = th[p].base /\ c.id = th[p].id
  BY <1>1 DEF Call
<1>3. Passes(th[p]) /\ th[p].op \in Locked =>
         /\ th[p].op = "activate" => th[p].id \in Registered(th[p].base)
         /\ th[p].op \in {"delete", "undo"} => th[p].id # th[p].base.active
  BY DEF Passes, Removable, Locked
<1>4. Sound(c)
  BY <1>1, <1>2, <1>3 DEF Sound
<1>5. Busy(c) <=> Busy(th[p])
  BY <1>2 DEF Busy
<1>6. th' = [th EXCEPT ![p] = c]
  OBVIOUS
<1> HIDE DEF c
<1> QED
  BY <1>1, <1>4, <1>5, <1>6, Moved

(* A call ends outside the lock, or giving it up. *)
LEMMA Ended ==
  ASSUME TypeInv, NEW p \in Proc, th[p] # None, th' = [th EXCEPT ![p] = None],
         holder' = (IF Busy(th[p]) THEN None ELSE holder)
  PROVE  CallsSound' /\ HolderBusy'
<1>1. holder = p <=> Busy(th[p])
  BY InCall
<1> QED
  BY <1>1, Moved

-----------------------------------------------------------------------------
(* Every step keeps what the calls know, and the lock with its holder. *)
LEMMA CallsNext == TypeInv /\ [Next]_vars => CallsSound' /\ HolderBusy'
<1> SUFFICES ASSUME TypeInv, [Next]_vars PROVE CallsSound' /\ HolderBusy'
  OBVIOUS
<1> USE DEF At, LockedAt, Go, Copying
<1>a. None \notin Proc
  BY VaultOK DEF VaultOK
<1>1. ASSUME NEW p \in Proc, Arrive(p) PROVE CallsSound' /\ HolderBusy'
  <2>1. PICK op \in Ops, id \in Id :
           th' = [th EXCEPT ![p] =
              [op |-> op, at |-> IF op \in Locked THEN "lock" ELSE "check", id |-> id, from |-> ctx,
               base |-> config, etag |-> config, tree |-> None, made |-> FALSE, wrote |-> FALSE]]
    BY <1>1 DEF Arrive
  <2> DEFINE c == [op |-> op, at |-> IF op \in Locked THEN "lock" ELSE "check", id |-> id, from |-> ctx,
               base |-> config, etag |-> config, tree |-> None, made |-> FALSE, wrote |-> FALSE]
  <2>2. c \in Call
    BY VaultOK DEF VaultOK, Call, Place, TypeInv, PlacesOK
  <2>3. Sound(c) /\ ~Busy(c)
    BY <2>2 DEF Sound, Busy, Working, TypeInv, PlacesOK, Locked, Package
  <2>4. holder' = holder /\ holder # p
    BY <1>1 DEF Arrive, TypeInv, HolderBusy
  <2>5. th' = [th EXCEPT ![p] = c]
    BY <2>1
  <2> HIDE DEF c
  <2> QED
    BY <2>2, <2>3, <2>4, <2>5, Moved
<1>2. ASSUME NEW p \in Proc, Enter(p) PROVE CallsSound' /\ HolderBusy'
  <2> DEFINE c == [th[p] EXCEPT !.at = "check", !.base = config]
  <2>1. th[p] \in Call /\ Sound(th[p]) /\ th[p].at = "lock" /\ holder = None
    BY <1>2, InCall DEF Enter, LockFree
  <2>2. c \in Call
    BY <2>1 DEF Call, Place, TypeInv, PlacesOK
  <2>3. c.op = th[p].op /\ c.at = "check" /\ c.base = config
    BY <2>1 DEF Call
  <2>4. Sound(c) /\ (th[p].op \in Locked => Busy(c))
    BY <2>2, <2>3 DEF Sound, Busy, Working, TypeInv, PlacesOK
  <2>5. th' = [th EXCEPT ![p] = c] /\ holder' = p
    BY <1>2 DEF Enter
  <2>6. th[p].op \in Locked
    BY <2>1 DEF Sound, Call, Op
  <2> HIDE DEF c
  <2> QED
    BY <2>1, <2>2, <2>4, <2>5, <2>6, Moved, CallOK
<1>3. ASSUME NEW p \in Proc, Blocked(p) PROVE CallsSound' /\ HolderBusy'
  <2>1. th[p] # None /\ th[p].at = "lock" /\ holder' = holder /\ ~Busy(th[p])
    BY <1>3 DEF Blocked, Busy, Working
  <2>2. CASE th[p].op = "undo"
    <3>1. th' = [th EXCEPT ![p].at = "purge"]
      BY <1>3, <2>2 DEF Blocked
    <3>2. th[p].op # "rename" /\ th[p].op \notin Package
      BY <2>2 DEF Package
    <3> QED
      BY <2>1, <3>1, <3>2, Stepped DEF Place, Working
  <2>3. CASE th[p].op # "undo"
    <3>1. th' = [th EXCEPT ![p] = None]
      BY <1>3, <2>3 DEF Blocked
    <3> QED
      BY <2>1, <3>1, Ended
  <2> QED
    BY <2>2, <2>3
<1>4. ASSUME NEW p \in Proc, Check(p) PROVE CallsSound' /\ HolderBusy'
  <2>1. PICK a \in {"act", "rollback"} : th' = [th EXCEPT ![p].at = a] /\ (a = "act" => Passes(th[p]))
    BY <1>4 DEF Check
  <2>2. /\ th[p] # None /\ th[p].at = "check" /\ holder' = holder
        /\ th[p].op # "rename" /\ th[p].op \notin Package
    BY <1>4 DEF Check, Locked, Package
  <2> QED
    BY <2>1, <2>2, Stepped DEF Place, Working
<1>5. ASSUME NEW p \in Proc, Promote(p) PROVE CallsSound' /\ HolderBusy'
  <2>1. /\ th[p] # None /\ th[p].at = "act" /\ th[p].op \in {"create", "merge"}
        /\ th[p].op \in Locked /\ holder' = holder
    BY <1>5 DEF Promote, Locked
  <2>2. CASE root[th[p].id] = None
    <3> DEFINE c == [th[p] EXCEPT !.at = "write", !.made = TRUE]
    <3>1. th[p] \in Call /\ Sound(th[p]) /\ (holder = p <=> Busy(th[p]))
      BY <2>1, InCall
    <3>2. c \in Call /\ c.op = th[p].op /\ c.at = "write" /\ c.base = th[p].base /\ c.id = th[p].id
      BY <3>1 DEF Call, Place
    <3>3. Sound(c) /\ Busy(c) /\ Busy(th[p])
      BY <2>1, <3>1, <3>2 DEF Sound, Busy, Working, Package
    <3>4. th' = [th EXCEPT ![p] = c]
      BY <1>5, <2>2 DEF Promote
    <3> HIDE DEF c
    <3> QED
      BY <2>1, <3>1, <3>2, <3>3, <3>4, Moved, CallOK
  <2>3. CASE root[th[p].id] # None
    <3>1. th' = [th EXCEPT ![p].at = "rollback"]
      BY <1>5, <2>3 DEF Promote
    <3> QED
      BY <2>1, <3>1, Stepped DEF Place, Working, Package
  <2> QED
    BY <2>2, <2>3
<1>6. ASSUME NEW p \in Proc, Activate(p) PROVE CallsSound' /\ HolderBusy'
  <2>1. /\ th[p] # None /\ th[p].at = "act" /\ th[p].op = "activate" /\ holder' = holder
        /\ \E a \in {"write", "rollback"} : th' = [th EXCEPT ![p].at = a]
    BY <1>6 DEF Activate
  <2> QED
    BY <2>1, Stepped DEF Place, Working, Package
<1>7. ASSUME NEW p \in Proc, MoveAside(p) PROVE CallsSound' /\ HolderBusy'
  <2> DEFINE c == [th[p] EXCEPT !.at = "write", !.tree = root[th[p].id]]
  <2>1. /\ th[p] # None /\ th[p].at = "act" /\ th[p].op \in {"delete", "undo"}
        /\ th[p].op \in Locked /\ holder' = holder
    BY <1>7 DEF MoveAside, Locked
  <2>2. th[p] \in Call /\ Sound(th[p]) /\ (holder = p <=> Busy(th[p]))
    BY <2>1, InCall
  <2>3. root[th[p].id] \in Proc \cup {Default, None}
    BY <2>2 DEF Call, TypeInv, PlacesOK
  <2>4. c \in Call /\ c.op = th[p].op /\ c.at = "write" /\ c.base = th[p].base /\ c.id = th[p].id
    BY <2>2, <2>3 DEF Call, Place
  <2>5. Sound(c) /\ Busy(c) /\ Busy(th[p])
    BY <2>1, <2>2, <2>4 DEF Sound, Busy, Working, Package
  <2>6. th' = [th EXCEPT ![p] = c]
    BY <1>7 DEF MoveAside
  <2> HIDE DEF c
  <2> QED
    BY <2>1, <2>2, <2>4, <2>5, <2>6, Moved, CallOK
<1>8. ASSUME NEW p \in Proc, ReadEtag(p) PROVE CallsSound' /\ HolderBusy'
  <2> DEFINE c == [th[p] EXCEPT !.at = "replace", !.etag = config]
  <2>1. th[p] # None /\ th[p].at = "write" /\ holder' = holder
    BY <1>8 DEF ReadEtag
  <2>2. th[p] \in Call /\ Sound(th[p]) /\ (holder = p <=> Busy(th[p]))
    BY <2>1, InCall
  <2>3. c \in Call /\ c.op = th[p].op /\ c.at = "replace" /\ c.base = th[p].base /\ c.id = th[p].id
    BY <2>2 DEF Call, Place, TypeInv, PlacesOK
  <2>4. Sound(c) /\ (Busy(c) <=> Busy(th[p]))
    BY <2>1, <2>2, <2>3 DEF Sound, Busy, Working
  <2>5. th' = [th EXCEPT ![p] = c]
    BY <1>8 DEF ReadEtag
  <2> HIDE DEF c
  <2> QED
    BY <2>1, <2>2, <2>3, <2>4, <2>5, Moved, CallOK
<1>9. ASSUME NEW p \in Proc, Replace(p) PROVE CallsSound' /\ HolderBusy'
  <2>1. th[p] # None /\ th[p].at = "replace" /\ holder' = holder
    BY <1>9 DEF Replace
  <2>2. CASE th[p].op \in Locked
    <3> DEFINE c == [th[p] EXCEPT !.at = "list", !.wrote = TRUE]
    <3>1. th[p] \in Call /\ Sound(th[p]) /\ (holder = p <=> Busy(th[p]))
      BY <2>1, InCall
    <3>2. c \in Call /\ c.op = th[p].op /\ c.at = "list" /\ c.base = th[p].base
      BY <3>1 DEF Call, Place
    <3>3. Sound(c) /\ Busy(c) /\ Busy(th[p])
      BY <2>1, <2>2, <3>1, <3>2 DEF Sound, Busy, Working, Package, Locked
    <3>4. th' = [th EXCEPT ![p] = c]
      BY <1>9, <2>2 DEF Replace
    <3> HIDE DEF c
    <3> QED
      BY <2>1, <3>1, <3>2, <3>3, <3>4, Moved, CallOK
  <2>3. CASE th[p].op \notin Locked
    <3>1. th' = [th EXCEPT ![p] = None] /\ ~Busy(th[p])
      BY <1>9, <2>3 DEF Replace, Busy
    <3> QED
      BY <2>1, <3>1, Ended
  <2> QED
    BY <2>2, <2>3
<1>10. ASSUME NEW p \in Proc, WriteFails(p) PROVE CallsSound' /\ HolderBusy'
  <2>1. th[p] # None /\ th[p].at = "replace" /\ holder' = holder /\ th[p].op \in Op
    BY <1>10, InCall DEF WriteFails, Call
  <2>2. CASE th[p].op \in Locked
    <3>1. th' = [th EXCEPT ![p].at = "rollback"] /\ th[p].op # "rename" /\ th[p].op \notin Package
      BY <1>10, <2>2 DEF WriteFails, Locked, Package
    <3> QED
      BY <2>1, <3>1, Stepped DEF Place, Working
  <2>3. CASE th[p].op \in Package
    <3>1. th' = [th EXCEPT ![p].at = "purge"] /\ th[p].op # "rename" /\ th[p].op \notin Locked
      BY <1>10, <2>3 DEF WriteFails, Locked, Package
    <3> QED
      BY <2>1, <3>1, Stepped DEF Place, Working
  <2>4. CASE th[p].op = "rename"
    <3>1. th' = [th EXCEPT ![p] = None] /\ ~Busy(th[p])
      BY <1>10, <2>4 DEF WriteFails, Locked, Package, Busy
    <3> QED
      BY <2>1, <3>1, Ended
  <2> QED
    BY <2>1, <2>2, <2>3, <2>4 DEF Op
<1>11. ASSUME NEW p \in Proc, Answer(p) PROVE CallsSound' /\ HolderBusy'
  <2>1. /\ th[p] # None /\ th[p].at = "list" /\ th[p].op \in Locked
        /\ Busy(th[p]) /\ holder' = None /\ holder = p
    BY <1>11, InCall DEF Answer, Busy, Working
  <2>2. CASE th[p].op = "merge"
    <3> DEFINE c == [th[p] EXCEPT !.at = "adopt", !.made = FALSE]
    <3>0. th[p] \in Call /\ Sound(th[p])
      BY <2>1, InCall
    <3>1. c \in Call /\ c # None
      BY <3>0, CallOK DEF Place, Call
    <3>2. Sound(c) /\ ~Busy(c)
      BY <2>2, <3>0, <3>1 DEF Sound, Busy, Working, Package, Call
    <3>3. th' = [th EXCEPT ![p] = c]
      BY <1>11, <2>1, <2>2 DEF Answer, Over
    <3> HIDE DEF c
    <3> QED
      BY <2>1, <3>0, <3>1, <3>2, <3>3, Moved
  <2>3. CASE th[p].op # "merge"
    <3>1. th' = [th EXCEPT ![p] = None]
      BY <1>11, <2>3 DEF Answer, Over
    <3> QED
      BY <2>1, <3>1, Ended
  <2> QED
    BY <2>2, <2>3
<1>12. ASSUME NEW p \in Proc, AnswerFails(p) PROVE CallsSound' /\ HolderBusy'
  <2> DEFINE c == [th[p] EXCEPT !.at = "rollback", !.tree = None]
  <2>1. th[p] # None /\ th[p].at = "list" /\ th[p].op \in Locked /\ holder' = holder
    BY <1>12 DEF AnswerFails
  <2>2. th[p] \in Call /\ Sound(th[p]) /\ (holder = p <=> Busy(th[p]))
    BY <2>1, InCall
  <2>3. c \in Call /\ c.op = th[p].op /\ c.at = "rollback" /\ c.base = th[p].base
    BY <2>2 DEF Call, Place
  <2>4. Sound(c) /\ Busy(c) /\ Busy(th[p])
    BY <2>1, <2>2, <2>3 DEF Sound, Busy, Working, Package, Locked
  <2>5. th' = [th EXCEPT ![p] = c]
    BY <1>12 DEF AnswerFails
  <2> HIDE DEF c
  <2> QED
    BY <2>1, <2>2, <2>3, <2>4, <2>5, Moved, CallOK
<1>13. ASSUME NEW p \in Proc, Rollback(p) PROVE CallsSound' /\ HolderBusy'
  <2>1. /\ th[p] # None /\ th[p].at = "rollback" /\ th[p].op \in Locked
        /\ Busy(th[p]) /\ holder' = None /\ holder = p
    BY <1>13, InCall DEF Rollback, Busy, Working
  <2>2. CASE th[p].op = "undo"
    <3> DEFINE c == [th[p] EXCEPT !.at = "purge"]
    <3>1. th[p] \in Call /\ Sound(th[p]) /\ c \in Call /\ c # None
      BY <2>1, InCall DEF Place
    <3>2. Sound(c) /\ ~Busy(c)
      BY <2>2, <3>1 DEF Sound, Busy, Working, Package, Call
    <3>3. th' = [th EXCEPT ![p] = c]
      BY <1>13, <2>2 DEF Rollback
    <3> HIDE DEF c
    <3> QED
      BY <2>1, <3>1, <3>2, <3>3, Moved
  <2>3. CASE th[p].op # "undo"
    <3>1. th' = [th EXCEPT ![p] = None]
      BY <1>13, <2>3 DEF Rollback
    <3> QED
      BY <2>1, <3>1, Ended
  <2> QED
    BY <2>2, <2>3
<1>14. ASSUME NEW p \in Proc, ReadForRename(p) \/ ReadForImport(p) PROVE CallsSound' /\ HolderBusy'
  <2>1. /\ th[p] # None /\ th[p].op \notin Locked /\ th[p].op \in Package \cup {"rename"}
        /\ ~Busy(th[p]) /\ holder' = holder
    BY <1>14 DEF ReadForRename, ReadForImport, Busy, Locked, Package
  <2>2. CASE th' = [th EXCEPT ![p] = None]
    BY <2>1, <2>2, Ended
  <2>3. ASSUME NEW a \in Place, th' = [th EXCEPT ![p].at = a, ![p].base = config],
               a = IF th[p].op = "rename" THEN "write" ELSE "act"
        PROVE  CallsSound' /\ HolderBusy'
    <3> DEFINE c == [th[p] EXCEPT !.at = a, !.base = config]
    <3>1. th[p] \in Call /\ Sound(th[p]) /\ holder # p
      BY <2>1, InCall
    <3>2. c \in Call /\ c.op = th[p].op /\ c.at = a /\ c.base = config
      BY <3>1 DEF Call, TypeInv, PlacesOK
    <3>3. Sound(c) /\ ~Busy(c)
      BY <2>1, <2>3, <3>2 DEF Sound, Busy, Package, TypeInv, PlacesOK
    <3>4. th' = [th EXCEPT ![p] = c]
      BY <2>3
    <3> HIDE DEF c
    <3> QED
      BY <2>1, <3>1, <3>2, <3>3, <3>4, Moved
  <2>4. CASE ReadForRename(p)
    <3>1. \/ th' = [th EXCEPT ![p] = None]
          \/ th' = [th EXCEPT ![p].at = "write", ![p].base = config] /\ th[p].op = "rename"
      BY <2>4 DEF ReadForRename
    <3> QED
      BY <3>1, <2>2, <2>3 DEF Place
  <2>5. CASE ReadForImport(p)
    <3>1. \/ th' = [th EXCEPT ![p] = None]
          \/ th' = [th EXCEPT ![p].at = "act", ![p].base = config] /\ th[p].op # "rename"
      BY <2>5 DEF ReadForImport, Package
    <3> QED
      BY <3>1, <2>2, <2>3 DEF Place
  <2> QED
    BY <1>14, <2>4, <2>5
<1>15. ASSUME NEW p \in Proc, MoveIn(p) PROVE CallsSound' /\ HolderBusy'
  <2> DEFINE c == [th[p] EXCEPT !.at = "write", !.made = TRUE]
  <2>1. /\ th[p] # None /\ th[p].op \in Package /\ th[p].op \notin Locked \cup {"rename"}
        /\ ~Busy(th[p]) /\ holder' = holder
    BY <1>15 DEF MoveIn, Busy, Locked, Package
  <2>2. th[p] \in Call /\ Sound(th[p]) /\ holder # p
    BY <2>1, InCall
  <2>3. c \in Call /\ c.op = th[p].op /\ c.at = "write" /\ c.base = th[p].base
    BY <2>2 DEF Call, Place
  <2>4. Sound(c) /\ ~Busy(c)
    BY <2>1, <2>2, <2>3 DEF Sound, Busy
  <2>5. th' = [th EXCEPT ![p] = c]
    BY <1>15 DEF MoveIn
  <2> HIDE DEF c
  <2> QED
    BY <2>1, <2>2, <2>3, <2>4, <2>5, Moved
<1>16. ASSUME NEW p \in Proc, ImportFails(p) PROVE CallsSound' /\ HolderBusy'
  <2>1. /\ th[p] # None /\ th[p].op \in Package /\ th[p].op \notin Locked \cup {"rename"}
        /\ th' = [th EXCEPT ![p].at = "purge"] /\ holder' = holder
    BY <1>16 DEF ImportFails, Locked, Package
  <2> QED
    BY <2>1, Stepped DEF Place
<1>17. ASSUME NEW p \in Proc, FindTarget(p) \/ CopyInto(p) PROVE CallsSound' /\ HolderBusy'
  <2>1. /\ th[p] # None /\ th[p].at \in Copying /\ holder' = holder
        /\ \E a \in Copying : th' = [th EXCEPT ![p].at = a]
    BY <1>17 DEF FindTarget, CopyInto, Copying
  <2>2. th[p].op \notin Package \cup {"rename"} /\ ~Busy(th[p])
    BY <2>1, InCall DEF Sound, Copying, Busy, Working
  <2> QED
    BY <2>1, <2>2, Stepped DEF Place, Copying, Working
<1>21. ASSUME NEW p \in Proc, Purge(p) \/ Adopt(p) PROVE CallsSound' /\ HolderBusy'
  <2>1. th[p] # None /\ th' = [th EXCEPT ![p] = None] /\ holder' = holder /\ ~Busy(th[p])
    BY <1>21 DEF Purge, Adopt, Busy, Working
  <2> QED
    BY <2>1, Ended
<1>18. ASSUME NEW p \in Proc, AdoptFails(p) PROVE CallsSound' /\ HolderBusy'
  <2> DEFINE c == [th[p] EXCEPT !.op = "undo", !.at = "lock", !.from = ctx,
                                !.tree = None, !.made = FALSE, !.wrote = FALSE]
  <2>1. th[p] # None /\ ~Busy(th[p]) /\ holder' = holder
    BY <1>18 DEF AdoptFails, Busy, Working
  <2>2. th[p] \in Call /\ Sound(th[p]) /\ holder # p
    BY <2>1, InCall
  <2>3. c \in Call /\ c.op = "undo" /\ c.at = "lock" /\ c.base = th[p].base
    BY <2>2 DEF Call, Place, Op, Locked, TypeInv, PlacesOK
  <2>4. Sound(c) /\ ~Busy(c)
    BY <2>2, <2>3 DEF Sound, Busy, Working, Package
  <2>5. th' = [th EXCEPT ![p] = c]
    BY <1>18 DEF AdoptFails
  <2> HIDE DEF c
  <2> QED
    BY <2>1, <2>2, <2>3, <2>4, <2>5, Moved
<1>19. CASE Crash
  BY <1>19, <1>a DEF Crash, CallsSound, HolderBusy
<1>20. CASE UNCHANGED vars
  BY <1>20 DEF vars, TypeInv, CallsSound, HolderBusy
<1> QED
  BY <1>1, <1>2, <1>3, <1>4, <1>5, <1>6, <1>7, <1>8, <1>9, <1>10, <1>11, <1>12, <1>13, <1>14,
     <1>15, <1>16, <1>17, <1>18, <1>19, <1>20, <1>21 DEF Next

(* Every step leaves a config whose active vault is registered. *)
LEMMA PlacesNext == TypeInv /\ [Next]_vars => PlacesOK'
<1> SUFFICES ASSUME TypeInv, [Next]_vars PROVE PlacesOK'
  OBVIOUS
<1> USE DEF TypeInv, PlacesOK
<1>1. ASSUME NEW p \in Proc, Replace(p) PROVE PlacesOK'
  <2>1. th[p] # None /\ th[p].at = "replace"
    BY <1>1 DEF Replace, At
  <2> QED
    BY <1>1, <2>1, InCall, CandidateOK DEF Replace
<1>2. ASSUME NEW p \in Proc, Rollback(p) PROVE PlacesOK'
  <2>1. th[p] # None
    BY <1>2 DEF Rollback, LockedAt, At
  <2>2. /\ th[p].base \in Config /\ th[p].base.active \in Registered(th[p].base) /\ th[p].from \in Id
        /\ th[p].tree \in Proc \cup {Default, None} /\ th[p].id \in Id
    BY <2>1, InCall DEF Call, Sound
  <2>3. root' = RootBack(th[p])
    BY <1>2 DEF Rollback
  <2>4. RootBack(th[p]) \in [Id -> Proc \cup {Default, None}]
    BY <2>2 DEF RootBack
  <2> QED
    BY <1>2, <2>2, <2>3, <2>4 DEF Rollback, ContextBack
<1>3. ASSUME NEW p \in Proc, Activate(p) PROVE PlacesOK'
  <2>1. th[p] # None /\ ctx' = th[p].id /\ UNCHANGED <<config, root>>
    BY <1>3 DEF Activate, At
  <2> QED
    BY <2>1, InCall DEF Call
<1>4. ASSUME NEW p \in Proc, Promote(p) \/ MoveAside(p) \/ MoveIn(p) \/ Purge(p) \/ CopyInto(p) PROVE PlacesOK'
  BY <1>4 DEF Promote, MoveAside, MoveIn, Purge, CopyInto
<1>5. CASE Crash
  BY <1>5 DEF Crash, Registered
<1>6. CASE UNCHANGED vars
  BY <1>6 DEF vars
<1>7. ASSUME NEW p \in Proc,
             \/ Arrive(p) \/ Enter(p) \/ Blocked(p) \/ Check(p) \/ ReadEtag(p) \/ WriteFails(p)
             \/ Answer(p) \/ AnswerFails(p) \/ ReadForRename(p) \/ ReadForImport(p)
             \/ ImportFails(p) \/ FindTarget(p) \/ Adopt(p) \/ AdoptFails(p)
      PROVE  PlacesOK'
  <2>1. UNCHANGED <<config, root, ctx>>
    BY <1>7 DEF Arrive, Enter, Blocked, Check, ReadEtag, WriteFails, Answer, AnswerFails,
                ReadForRename, ReadForImport, ImportFails, FindTarget, Adopt, AdoptFails
  <2> QED
    BY <2>1
<1> QED
  BY <1>1, <1>2, <1>3, <1>4, <1>5, <1>6, <1>7 DEF Next

(* The config always names a registered vault, and the lock is held by the *)
(* one call that works under it: for any vaults, threads and bounds.       *)
THEOREM RegistryTypeCorrect == Spec => []VaultTypeOK
<1>1. Init => TypeInv
  BY TypeInit
<1>2. TypeInv /\ [Next]_vars => TypeInv'
  BY CallsNext, PlacesNext DEF TypeInv
<1>3. TypeInv => VaultTypeOK
  BY TypeInvImplies
<1> QED
  BY <1>1, <1>2, <1>3, PTL DEF Spec

-----------------------------------------------------------------------------
(* The config's active vault is changed by a call under the lock only: the *)
(* others write a config made from the one that is there, or are lost.     *)
LEMMA ActiveAfterReplace ==
  ASSUME TypeInv, NEW p \in Proc, Replace(p), ~lost'
  PROVE  /\ ~lost
         /\ config'.active = IF th[p].op = "activate" THEN th[p].id ELSE config.active
         /\ th[p] # None
<1>1. /\ ~lost /\ config.active = th[p].base.active /\ config' = Candidate(th[p])
      /\ th[p] # None
  BY DEF Replace, SameVaults, At
<1>2. /\ th[p].op \in Op /\ th[p].base \in Config
  BY <1>1, InCall DEF Call
<1>3. Candidate(th[p]).active = IF th[p].op = "activate" THEN th[p].id ELSE th[p].base.active
  BY <1>2 DEF Candidate, Op, Locked, Package, Config
<1> QED
  BY <1>1, <1>3

LEMMA ContextNext == TypeInv /\ ContextInv /\ [Next]_vars => ContextInv'
<1> SUFFICES ASSUME TypeInv, ContextInv, [Next]_vars, ~lost', ~stale' PROVE ContextInv'
  BY DEF ContextInv
<1> USE DEF At, LockedAt, Go, Copying
<1>a. None \notin Proc
  BY VaultOK DEF VaultOK
<1>b. \A p \in Proc : holder = p => th[p] # None /\ th[p] \in Call /\ th[p].op \in Locked
  BY InCall DEF TypeInv, HolderBusy, Busy
<1>c. \A p \in Proc : th[p] # None => th[p] \in Call
  BY InCall
<1>1. ASSUME NEW p \in Proc, Enter(p) PROVE ContextInv'
  <2>1. /\ holder = None /\ holder' = p /\ UNCHANGED <<config, ctx, lost, stale>>
        /\ th' = [th EXCEPT ![p].at = "check", ![p].base = config] /\ th[p] # None
    BY <1>1 DEF Enter, LockFree, Unhurt
  <2>2. th'[p].at = "check"
    BY <2>1, <1>c DEF TypeInv, CallsSound, Call
  <2> QED
    BY <1>a, <2>1, <2>2 DEF ContextInv
<1>2. ASSUME NEW p \in Proc, Rollback(p) PROVE ContextInv'
  <2>1. holder' = None /\ config' = th[p].base /\ ctx' = th[p].from /\ th[p].from = th[p].base.active
    BY <1>2 DEF Rollback, ContextBack
  <2> QED
    BY <1>a, <2>1 DEF ContextInv
<1>3. CASE Crash
  BY <1>3, <1>a DEF Crash, ContextInv
<1>4. ASSUME NEW p \in Proc, Activate(p) PROVE ContextInv'
  <2>1. /\ ctx' = th[p].id /\ th[p].op = "activate" /\ holder' = holder /\ th[p] # None /\ th[p].at = "act"
        /\ UNCHANGED config
        /\ \E a \in {"write", "rollback"} : th' = [th EXCEPT ![p].at = a]
    BY <1>4 DEF Activate
  <2>2. holder = p
    BY <2>1, InCall DEF Busy, Working, Locked
  <2>3. th'[p].at \in {"write", "rollback"} /\ th'[p].op = "activate" /\ th'[p].id = th[p].id
    BY <2>1, <1>c DEF TypeInv, CallsSound, Call
  <2> QED
    BY <1>a, <2>1, <2>2, <2>3 DEF ContextInv
<1>5. ASSUME NEW p \in Proc, \A q \in Proc : q # p => th'[q] = th[q],
             UNCHANGED <<config, ctx, holder, lost, stale>>,
             holder = p =>
                /\ th'[p].op = th[p].op /\ th'[p].id = th[p].id
                /\ th'[p].at \in {"check", "act", "list"} => th[p].at \in {"check", "act", "list"}
                /\ th'[p].at \in {"write", "replace"} =>
                      \/ th[p].at \in {"write", "replace"}
                      \/ th[p].at = "act" /\ th[p].op # "activate"
      PROVE  ContextInv'
  BY <1>5 DEF ContextInv
<1>6. ASSUME NEW p \in Proc, Arrive(p) PROVE ContextInv'
  <2>1. \A q \in Proc : q # p => th'[q] = th[q]
    BY <1>6 DEF Arrive, TypeInv, CallsSound
  <2>2. holder # p /\ UNCHANGED <<config, ctx, holder, lost, stale>>
    BY <1>6, <1>b DEF Arrive, Unhurt
  <2> QED
    BY <1>5, <2>1, <2>2
<1>7. ASSUME NEW p \in Proc,
             \/ Check(p) \/ Promote(p) \/ MoveAside(p) \/ ReadEtag(p) \/ AnswerFails(p)
      PROVE  ContextInv'
  <2>1. th[p] # None /\ th[p] \in Call /\ UNCHANGED <<config, ctx, holder, lost, stale>>
    BY <1>7, <1>c DEF Check, Promote, MoveAside, ReadEtag, AnswerFails, Unhurt
  <2>2. \A q \in Proc : q # p => th'[q] = th[q]
    BY <1>7 DEF Check, Promote, MoveAside, ReadEtag, AnswerFails, TypeInv, CallsSound
  <2> DEFINE Moves(c, d) ==
                /\ d.op = c.op /\ d.id = c.id
                /\ \/ d.at = "rollback"
                   \/ d.at = "act" /\ c.at = "check"
                   \/ d.at = "write" /\ c.at = "act" /\ c.op # "activate"
                   \/ d.at = "replace" /\ c.at = "write"
  <2>3. ASSUME Check(p) PROVE Moves(th[p], th'[p])
    <3>1. th[p].at = "check" /\ \E a \in {"act", "rollback"} : th' = [th EXCEPT ![p].at = a]
      BY <2>3 DEF Check
    <3> QED
      BY <2>1, <3>1 DEF Call, TypeInv, CallsSound
  <2>4. ASSUME Promote(p) PROVE Moves(th[p], th'[p])
    <3>1. th[p].at = "act" /\ th[p].op # "activate"
      BY <2>4 DEF Promote
    <3>2. \/ th' = [th EXCEPT ![p].at = "write", ![p].made = TRUE]
          \/ th' = [th EXCEPT ![p].at = "rollback"]
      BY <2>4 DEF Promote
    <3> QED
      BY <2>1, <3>1, <3>2 DEF Call, TypeInv, CallsSound
  <2>5. ASSUME MoveAside(p) PROVE Moves(th[p], th'[p])
    BY <2>1, <2>5 DEF MoveAside, Call, TypeInv, CallsSound
  <2>6. ASSUME ReadEtag(p) PROVE Moves(th[p], th'[p])
    BY <2>1, <2>6 DEF ReadEtag, Call, TypeInv, CallsSound
  <2>7. ASSUME AnswerFails(p) PROVE Moves(th[p], th'[p])
    BY <2>1, <2>7 DEF AnswerFails, Call, TypeInv, CallsSound
  <2>8. Moves(th[p], th'[p])
    BY <1>7, <2>3, <2>4, <2>5, <2>6, <2>7
  <2> QED
    BY <1>5, <2>1, <2>2, <2>8
<1>8. ASSUME NEW p \in Proc, Replace(p) PROVE ContextInv'
  <2>1. /\ th[p] # None /\ th[p] \in Call /\ UNCHANGED <<ctx, holder, stale>> /\ ~lost
        /\ config'.active = IF th[p].op = "activate" THEN th[p].id ELSE config.active
        /\ th[p].at = "replace"
    BY <1>8, <1>c, ActiveAfterReplace DEF Replace
  <2>2. \A q \in Proc : q # p => th'[q] = th[q]
    BY <1>8 DEF Replace, TypeInv, CallsSound
  <2>3. CASE th[p].op \in Locked
    <3>1. holder = p /\ th'[p].at = "list"
      <4>1. th' = [th EXCEPT ![p] = [th[p] EXCEPT !.at = "list", !.wrote = TRUE]]
        BY <1>8, <2>3 DEF Replace
      <4> QED
        BY <2>1, <2>3, <4>1, InCall DEF Busy, Working, Call, TypeInv, CallsSound
    <3>2. ctx' = config'.active
      BY <2>1, <3>1 DEF ContextInv
    <3> QED
      BY <1>a, <2>1, <3>1, <3>2 DEF ContextInv
  <2>4. CASE th[p].op \notin Locked
    <3>1. holder # p /\ config'.active = config.active
      BY <1>b, <2>1, <2>4 DEF Locked
    <3> QED
      BY <2>1, <2>2, <3>1 DEF ContextInv
  <2> QED
    BY <2>3, <2>4
<1>9. ASSUME NEW p \in Proc, WriteFails(p) PROVE ContextInv'
  <2>1. th[p] # None /\ th[p] \in Call /\ UNCHANGED <<config, ctx, holder, lost, stale>>
    BY <1>9, <1>c DEF WriteFails, Unhurt
  <2>2. \A q \in Proc : q # p => th'[q] = th[q]
    BY <1>9, <2>1 DEF WriteFails, Call, Op, TypeInv, CallsSound
  <2>3. CASE th[p].op \in Locked
    <3>1. th' = [th EXCEPT ![p].at = "rollback"]
      BY <1>9, <2>3 DEF WriteFails, Locked, Package
    <3>2. th'[p].op = th[p].op /\ th'[p].id = th[p].id /\ th'[p].at = "rollback"
      BY <2>1, <3>1 DEF Call, TypeInv, CallsSound
    <3> QED
      BY <1>5, <2>1, <2>2, <3>2
  <2>4. CASE th[p].op \notin Locked
    <3>1. holder # p
      BY <1>b, <2>4
    <3> QED
      BY <1>5, <2>1, <2>2, <3>1
  <2> QED
    BY <2>3, <2>4
<1>10. ASSUME NEW p \in Proc, Answer(p) PROVE ContextInv'
  <2>1. /\ th[p] # None /\ th[p].at = "list" /\ holder = p /\ holder' = None
        /\ UNCHANGED <<config, ctx, lost, stale>>
    BY <1>10, InCall DEF Answer, Busy, Working, Unhurt
  <2> QED
    BY <1>a, <2>1 DEF ContextInv
<1>11. ASSUME NEW p \in Proc,
              \/ Blocked(p) \/ ReadForRename(p) \/ ReadForImport(p) \/ MoveIn(p) \/ ImportFails(p)
              \/ Purge(p) \/ FindTarget(p) \/ CopyInto(p) \/ Adopt(p) \/ AdoptFails(p)
       PROVE  ContextInv'
  <2>1. UNCHANGED <<config, ctx, holder, lost, stale>>
    BY <1>11 DEF Blocked, ReadForRename, ReadForImport, MoveIn, ImportFails, Purge, FindTarget, CopyInto, Adopt, AdoptFails, Unhurt
  <2>2. th[p] # None /\ ~Busy(th[p])
    BY <1>11 DEF Blocked, ReadForRename, ReadForImport, MoveIn, ImportFails, Purge, FindTarget, CopyInto, Adopt, AdoptFails,
                 Busy, Working, Locked, Package
  <2>3. holder # p
    BY <2>2, InCall
  <2>4. \A q \in Proc : q # p => th'[q] = th[q]
    BY <1>11 DEF Blocked, ReadForRename, ReadForImport, MoveIn, ImportFails, Purge, FindTarget, CopyInto, Adopt, AdoptFails,
                 TypeInv, CallsSound
  <2> QED
    BY <2>1, <2>3, <2>4 DEF ContextInv
<1>12. CASE UNCHANGED vars
  BY <1>12 DEF vars, ContextInv
<1> QED
  BY <1>1, <1>2, <1>3, <1>4, <1>6, <1>7, <1>8, <1>9, <1>10, <1>11, <1>12 DEF Next

(* Between transitions the requests work in the vault that the config      *)
(* names, unless one of the two named accidents has happened.              *)
THEOREM ContextIsActive == Spec => []ContextFollows
<1>1. Init => TypeInv /\ ContextInv
  BY TypeInit, VaultOK DEF Init, ContextInv, VaultOK
<1>2. TypeInv /\ ContextInv /\ [Next]_vars => (TypeInv /\ ContextInv)'
  BY CallsNext, PlacesNext, ContextNext DEF TypeInv
<1>3. ContextInv => ContextFollows
  BY DEF ContextInv, ContextFollows
<1> QED
  BY <1>1, <1>2, <1>3, PTL DEF Spec

-----------------------------------------------------------------------------
(***************************************************************************)
(* Why the registered vaults and the trees on disk correspond.  The        *)
(* argument follows one id at a time: while no call is in the middle of    *)
(* putting or moving its tree, it has a tree exactly if it is registered;  *)
(* in between, the tree at the root is that of the call that made it, or   *)
(* has been moved away by the one call that may delete it.  None of this   *)
(* holds of an id that one of the named accidents has hit.                 *)
(***************************************************************************)

(* A call whose tree stands at the root; one that moved the tree away. *)
Puts(p, i) == th[p] # None /\ th[p].id = i /\ th[p].made
Taken(p, i) == /\ th[p] # None /\ th[p].id = i /\ th[p].tree # None
               /\ th[p].at \in {"write", "replace", "rollback"}
Deletes(c) == c.op \in {"delete", "undo"}
Deleting(p, i) == /\ th[p] # None /\ th[p].id = i /\ Deletes(th[p])
                  /\ th[p].at \in {"write", "replace"} \/ (th[p].at = "rollback" /\ th[p].wrote)
Importing(p, i) == /\ th[p] # None /\ th[p].id = i /\ th[p].op \in Package
                   /\ th[p].at \in {"act", "purge"} /\ ~th[p].made

(* Nobody is in the middle of moving the tree of i. *)
Settled(i) == \A p \in Proc : ~Taken(p, i) /\ (Puts(p, i) => th[p].at = "list")

RootInv(i) ==
    /\ Settled(i) => (root[i] # None <=> i \in Registered(config))
    /\ \A p \in Proc : Puts(p, i) =>
          /\ root[i] = p
          /\ th[p].op \in Locked => (i \in Registered(config) <=> th[p].wrote)
          /\ th[p].op \in Package => i \notin Registered(config) \/ \E q \in Proc : Taken(q, i)
    /\ \A p \in Proc : Taken(p, i) =>
          /\ i \in Registered(config)
          /\ root[i] = None \/ \E q \in Proc : Puts(q, i) /\ th[q].op \in Package
    /\ \A p \in Proc : Deleting(p, i) => Taken(p, i) /\ ~th[p].wrote
    /\ \A p \in Proc : Importing(p, i) => root[i] # p /\ \A q \in Proc : Taken(q, i) => th[q].tree # p

(* What a call under the lock has read is still there. *)
BaseKept(p) ==
    th[p] # None /\ Busy(th[p]) /\ ~th[p].wrote =>
        /\ Registered(th[p].base) \subseteq Registered(config)
        /\ th[p].base.active = config.active

(* How a call comes by a tree and writes the config. *)
Grown(c) ==
    /\ c.made => /\ c.op \in {"create", "merge"} \cup Package
                 /\ c.at \in {"write", "replace", "list", "rollback", "purge"}
                 /\ c.op \in {"create", "merge"} => c.at # "purge" /\ c.id \notin Registered(c.base)
    /\ c.op \in {"create", "merge"} \cup Package =>
          /\ c.at \in {"write", "replace", "list"} \/ (c.wrote /\ c.at \notin Copying) => c.made
          /\ c.at \in {"act", "write", "replace"} => c.id \notin Registered(c.base)
    /\ c.tree # None => Deletes(c)
    /\ Deletes(c) /\ c.at \in {"act", "write", "replace"} => c.id \in Registered(c.base)
    /\ c.op = "rename" /\ c.at \in {"write", "replace"} => c.id \in Registered(c.base)
    /\ c.wrote => c.op \in Locked /\ c.at \in {"list", "rollback", "purge"} \cup Copying
    /\ c.at = "list" => c.wrote
    /\ c.at \in Copying => c.tree = None /\ ~c.made /\ c.op = "merge"
    /\ c.at = "purge" => c.op \in Package \cup {"undo"}
    /\ c.at \in {"lock", "check", "act"} => ~c.made /\ c.tree = None /\ ~c.wrote

GrownInv == \A p \in Proc : th[p] # None => Grown(th[p])

RootsInv ==
    lost \/ /\ \A i \in Id : i \in hurt \/ RootInv(i)
            /\ \A p \in Proc : BaseKept(p)

-----------------------------------------------------------------------------
LEMMA RootsInit == Init => GrownInv /\ RootsInv
<1> SUFFICES ASSUME Init PROVE GrownInv /\ RootsInv
  OBVIOUS
<1>1. \A p \in Proc : th[p] = None
  BY DEF Init
<1>2. None \notin Id \cup Proc \cup Name /\ Default \in Id
  BY VaultOK DEF VaultOK
<1>3. ASSUME NEW i \in Id PROVE root[i] # None <=> i \in Registered(config)
  BY <1>2 DEF Init, Registered, Name
<1> QED
  BY <1>1, <1>3 DEF GrownInv, RootsInv, RootInv, BaseKept, Puts, Taken, Deleting, Importing

(* A step of one call leaves those of the others as they are. *)
LEMMA Others ==
  ASSUME TypeInv, NEW p \in Proc, NEW c, th' = [th EXCEPT ![p] = c]
  PROVE  th'[p] = c /\ \A q \in Proc : q # p => th'[q] = th[q]
BY DEF TypeInv, CallsSound

(* The calls go through their places in order. *)
LEMMA GrownNext == TypeInv /\ GrownInv /\ [Next]_vars => GrownInv'
<1> SUFFICES ASSUME TypeInv, GrownInv, [Next]_vars PROVE GrownInv'
  OBVIOUS
<1> USE DEF At, LockedAt, Go, Copying
<1>a. \A p \in Proc : th[p] # None => th[p] \in Call /\ Grown(th[p]) /\ Sound(th[p])
  BY InCall DEF GrownInv
<1>b. TypeInv /\ th \in [Proc -> Call \cup {None}] /\ config.active \in Registered(config)
  BY DEF TypeInv, CallsSound, PlacesOK
<1>c. ASSUME NEW p \in Proc, NEW c, th' = [th EXCEPT ![p] = c], c = None \/ Grown(c) PROVE GrownInv'
  BY <1>c, <1>b DEF GrownInv
<1>1. ASSUME NEW p \in Proc, Arrive(p) PROVE GrownInv'
  <2>1. PICK op \in Ops, id \in Id :
           th' = [th EXCEPT ![p] =
              [op |-> op, at |-> IF op \in Locked THEN "lock" ELSE "check", id |-> id, from |-> ctx,
               base |-> config, etag |-> config, tree |-> None, made |-> FALSE, wrote |-> FALSE]]
    BY <1>1 DEF Arrive
  <2>2. Grown([op |-> op, at |-> IF op \in Locked THEN "lock" ELSE "check", id |-> id, from |-> ctx,
               base |-> config, etag |-> config, tree |-> None, made |-> FALSE, wrote |-> FALSE])
    BY DEF Grown, Deletes
  <2> QED
    BY <1>c, <2>1, <2>2
<1>2. ASSUME NEW p \in Proc, Enter(p) PROVE GrownInv'
  <2>1. th' = [th EXCEPT ![p] = [th[p] EXCEPT !.at = "check", !.base = config]] /\ th[p] # None /\ th[p].at = "lock"
    BY <1>2 DEF Enter
  <2>2. Grown([th[p] EXCEPT !.at = "check", !.base = config])
    BY <1>a, <2>1 DEF Grown, Deletes, Call
  <2> QED
    BY <1>c, <2>1, <2>2
<1>3. ASSUME NEW p \in Proc, Blocked(p) PROVE GrownInv'
  <2>1. th[p] # None /\ th[p].at = "lock"
    BY <1>3 DEF Blocked
  <2>2. \/ th' = [th EXCEPT ![p] = [th[p] EXCEPT !.at = "purge"]] /\ th[p].op = "undo"
        \/ th' = [th EXCEPT ![p] = None]
    BY <1>3 DEF Blocked
  <2>3. th[p].op = "undo" => Grown([th[p] EXCEPT !.at = "purge"])
    BY <1>a, <2>1 DEF Grown, Deletes, Call
  <2> QED
    BY <1>c, <2>2, <2>3
<1>4. ASSUME NEW p \in Proc, Check(p) PROVE GrownInv'
  <2>1. PICK a \in {"act", "rollback"} :
           th' = [th EXCEPT ![p] = [th[p] EXCEPT !.at = a]] /\ (a = "act" => Passes(th[p]))
    BY <1>4 DEF Check
  <2>2. th[p] # None /\ th[p].at = "check" /\ th[p].op \in Locked
    BY <1>4 DEF Check
  <2>3. /\ Passes(th[p]) /\ th[p].op \in {"create", "merge"} => th[p].id \notin Registered(th[p].base)
        /\ Passes(th[p]) /\ Deletes(th[p]) => th[p].id \in Registered(th[p].base)
    BY DEF Passes, Removable, Deletes
  <2>4. Grown([th[p] EXCEPT !.at = a])
    BY <1>a, <2>1, <2>2, <2>3 DEF Grown, Deletes, Call, Package, Locked
  <2> QED
    BY <1>c, <2>1, <2>4
<1>5. ASSUME NEW p \in Proc, Promote(p) PROVE GrownInv'
  <2>1. th[p] # None /\ th[p].at = "act" /\ th[p].op \in {"create", "merge"}
    BY <1>5 DEF Promote
  <2>2. \/ th' = [th EXCEPT ![p] = [th[p] EXCEPT !.at = "write", !.made = TRUE]]
        \/ th' = [th EXCEPT ![p] = [th[p] EXCEPT !.at = "rollback"]]
    BY <1>5 DEF Promote
  <2>3. Grown([th[p] EXCEPT !.at = "write", !.made = TRUE]) /\ Grown([th[p] EXCEPT !.at = "rollback"])
    BY <1>a, <2>1 DEF Grown, Deletes, Call, Package
  <2> QED
    BY <1>c, <2>2, <2>3
<1>6. ASSUME NEW p \in Proc, Activate(p) PROVE GrownInv'
  <2>1. /\ th[p] # None /\ th[p].at = "act" /\ th[p].op = "activate"
        /\ \E a \in {"write", "rollback"} : th' = [th EXCEPT ![p] = [th[p] EXCEPT !.at = a]]
    BY <1>6 DEF Activate
  <2>2. \A a \in {"write", "rollback"} : Grown([th[p] EXCEPT !.at = a])
    BY <1>a, <2>1 DEF Grown, Deletes, Call, Package
  <2> QED
    BY <1>c, <2>1, <2>2
<1>7. ASSUME NEW p \in Proc, MoveAside(p) PROVE GrownInv'
  <2>1. th' = [th EXCEPT ![p] = [th[p] EXCEPT !.at = "write", !.tree = root[th[p].id]]] /\ th[p] # None /\ th[p].at = "act" /\ Deletes(th[p])
    BY <1>7, <1>a DEF MoveAside, Deletes
  <2>2. Grown([th[p] EXCEPT !.at = "write", !.tree = root[th[p].id]])
    BY <1>a, <2>1 DEF Grown, Sound, Deletes, Call, Package, Locked, Op
  <2> QED
    BY <1>c, <2>1, <2>2
<1>8. ASSUME NEW p \in Proc, ReadEtag(p) PROVE GrownInv'
  <2>1. th' = [th EXCEPT ![p] = [th[p] EXCEPT !.at = "replace", !.etag = config]] /\ th[p] # None /\ th[p].at = "write"
    BY <1>8, <1>a DEF ReadEtag
  <2>2. Grown([th[p] EXCEPT !.at = "replace", !.etag = config])
    BY <1>a, <2>1 DEF Grown, Sound, Deletes, Call, Package, Locked, Op
  <2> QED
    BY <1>c, <2>1, <2>2
<1>9. ASSUME NEW p \in Proc, Replace(p) PROVE GrownInv'
  <2>1. th[p] # None /\ th[p].at = "replace"
    BY <1>9 DEF Replace
  <2>2. \/ th' = [th EXCEPT ![p] = [th[p] EXCEPT !.at = "list", !.wrote = TRUE]] /\ th[p].op \in Locked
        \/ th' = [th EXCEPT ![p] = None]
    BY <1>9 DEF Replace
  <2>3. th[p].op \in Locked => Grown([th[p] EXCEPT !.at = "list", !.wrote = TRUE])
    BY <1>a, <2>1 DEF Grown, Deletes, Call, Package, Locked
  <2> QED
    BY <1>c, <2>2, <2>3
<1>10. ASSUME NEW p \in Proc, WriteFails(p) PROVE GrownInv'
  <2>1. th[p] # None /\ th[p].at = "replace"
    BY <1>10 DEF WriteFails
  <2>2. \/ th' = [th EXCEPT ![p] = [th[p] EXCEPT !.at = "rollback"]] /\ th[p].op \in Locked
        \/ th' = [th EXCEPT ![p] = [th[p] EXCEPT !.at = "purge"]] /\ th[p].op \in Package
        \/ th' = [th EXCEPT ![p] = None]
    BY <1>10, <1>a, <2>1 DEF WriteFails, Call, Op
  <2>3. /\ th[p].op \in Locked => Grown([th[p] EXCEPT !.at = "rollback"])
        /\ th[p].op \in Package => Grown([th[p] EXCEPT !.at = "purge"])
    BY <1>a, <2>1 DEF Grown, Deletes, Call, Package, Locked
  <2> QED
    BY <1>c, <2>2, <2>3
<1>11. ASSUME NEW p \in Proc, Answer(p) PROVE GrownInv'
  <2>1. th[p] # None /\ th[p].at = "list"
    BY <1>11 DEF Answer
  <2>2. \/ th' = [th EXCEPT ![p] = [th[p] EXCEPT !.at = "adopt", !.made = FALSE]] /\ th[p].op = "merge"
        \/ th' = [th EXCEPT ![p] = None]
    BY <1>11 DEF Answer, Over
  <2>3. th[p].op = "merge" => Grown([th[p] EXCEPT !.at = "adopt", !.made = FALSE])
    BY <1>a, <2>1 DEF Copying, Grown, Deletes, Call
  <2> QED
    BY <1>c, <2>2, <2>3
<1>12. ASSUME NEW p \in Proc, AnswerFails(p) PROVE GrownInv'
  <2>1. th' = [th EXCEPT ![p] = [th[p] EXCEPT !.at = "rollback", !.tree = None]] /\ th[p] # None /\ th[p].at = "list" /\ th[p].op \in Locked
    BY <1>12, <1>a DEF AnswerFails
  <2>2. Grown([th[p] EXCEPT !.at = "rollback", !.tree = None])
    BY <1>a, <2>1 DEF Grown, Sound, Deletes, Call, Package, Locked, Op
  <2> QED
    BY <1>c, <2>1, <2>2
<1>13. ASSUME NEW p \in Proc, Rollback(p) PROVE GrownInv'
  <2>1. th[p] # None /\ th[p].at = "rollback"
    BY <1>13 DEF Rollback
  <2>2. \/ th' = [th EXCEPT ![p] = [th[p] EXCEPT !.at = "purge"]] /\ th[p].op = "undo"
        \/ th' = [th EXCEPT ![p] = None]
    BY <1>13 DEF Rollback
  <2>3. th[p].op = "undo" => Grown([th[p] EXCEPT !.at = "purge"])
    BY <1>a, <2>1 DEF Grown, Deletes, Call, Package
  <2> QED
    BY <1>c, <2>2, <2>3
<1>14. ASSUME NEW p \in Proc, ReadForRename(p) PROVE GrownInv'
  <2>1. th[p] # None /\ th[p].at = "check" /\ th[p].op = "rename"
    BY <1>14 DEF ReadForRename
  <2>2. \/ th' = [th EXCEPT ![p] = [th[p] EXCEPT !.at = "write", !.base = config]] /\ th[p].id \in Registered(config)
        \/ th' = [th EXCEPT ![p] = None]
    BY <1>14 DEF ReadForRename
  <2>3. th[p].id \in Registered(config) => Grown([th[p] EXCEPT !.at = "write", !.base = config])
    BY <1>a, <2>1 DEF Grown, Deletes, Call, Package, Locked
  <2> QED
    BY <1>c, <2>2, <2>3
<1>15. ASSUME NEW p \in Proc, ReadForImport(p) PROVE GrownInv'
  <2>1. th[p] # None /\ th[p].at = "check" /\ th[p].op \in Package
    BY <1>15 DEF ReadForImport
  <2>2. \/ th' = [th EXCEPT ![p] = [th[p] EXCEPT !.at = "act", !.base = config]] /\ th[p].id \notin Registered(config)
        \/ th' = [th EXCEPT ![p] = None]
    BY <1>15 DEF ReadForImport, TargetFree
  <2>3. th[p].id \notin Registered(config) => Grown([th[p] EXCEPT !.at = "act", !.base = config])
    BY <1>a, <2>1 DEF Grown, Deletes, Call, Package, Locked
  <2> QED
    BY <1>c, <2>2, <2>3
<1>16. ASSUME NEW p \in Proc, MoveIn(p) PROVE GrownInv'
  <2>1. th' = [th EXCEPT ![p] = [th[p] EXCEPT !.at = "write", !.made = TRUE]] /\ th[p] # None /\ th[p].at = "act" /\ th[p].op \in Package
    BY <1>16, <1>a DEF MoveIn
  <2>2. Grown([th[p] EXCEPT !.at = "write", !.made = TRUE])
    BY <1>a, <2>1 DEF Grown, Sound, Deletes, Call, Package, Locked, Op
  <2> QED
    BY <1>c, <2>1, <2>2
<1>17. ASSUME NEW p \in Proc, ImportFails(p) PROVE GrownInv'
  <2>1. th' = [th EXCEPT ![p] = [th[p] EXCEPT !.at = "purge"]] /\ th[p] # None /\ th[p].at = "act" /\ th[p].op \in Package
    BY <1>17, <1>a DEF ImportFails
  <2>2. Grown([th[p] EXCEPT !.at = "purge"])
    BY <1>a, <2>1 DEF Grown, Sound, Deletes, Call, Package, Locked, Op
  <2> QED
    BY <1>c, <2>1, <2>2
<1>18. ASSUME NEW p \in Proc, Purge(p) \/ Adopt(p) PROVE GrownInv'
  BY <1>18, <1>c DEF Purge, Adopt
<1>22. ASSUME NEW p \in Proc, FindTarget(p) \/ CopyInto(p) PROVE GrownInv'
  <2>1. th[p] # None /\ th[p].at \in Copying /\ \E a \in Copying : th' = [th EXCEPT ![p] = [th[p] EXCEPT !.at = a]]
    BY <1>22, <1>a DEF FindTarget, CopyInto, Copying
  <2>2. \A a \in Copying : Grown([th[p] EXCEPT !.at = a])
    BY <1>a, <2>1 DEF Grown, Sound, Deletes, Call, Package, Copying
  <2> QED
    BY <1>c, <2>1, <2>2
<1>19. ASSUME NEW p \in Proc, AdoptFails(p) PROVE GrownInv'
  <2>1. th' = [th EXCEPT ![p] = [th[p] EXCEPT !.op = "undo", !.at = "lock", !.from = ctx,
                !.tree = None, !.made = FALSE, !.wrote = FALSE]] /\ th[p] # None /\ th[p].at \in Copying
    BY <1>19, <1>a DEF AdoptFails, Copying
  <2>2. Grown([th[p] EXCEPT !.op = "undo", !.at = "lock", !.from = ctx,
                !.tree = None, !.made = FALSE, !.wrote = FALSE])
    BY <1>a, <2>1 DEF Grown, Sound, Deletes, Call, Package, Locked, Op
  <2> QED
    BY <1>c, <2>1, <2>2
<1>20. CASE Crash
  BY <1>20 DEF Crash, GrownInv
<1>21. CASE UNCHANGED vars
  BY <1>21 DEF vars, GrownInv
<1> QED
  BY <1>1, <1>2, <1>3, <1>4, <1>5, <1>6, <1>7, <1>8, <1>9, <1>10,
     <1>11, <1>12, <1>13, <1>14, <1>15, <1>16, <1>17, <1>18, <1>19, <1>20, <1>21, <1>22 DEF Next

-----------------------------------------------------------------------------
(* What a call that is not lost makes of the registered vaults. *)
LEMMA ReplacedVaults ==
  ASSUME TypeInv, GrownInv, NEW p \in Proc, Replace(p), ~lost'
  PROVE  /\ ~lost /\ SameVaults(config, th[p].base) /\ config' = Candidate(th[p])
         /\ th[p] # None /\ th[p] \in Call /\ Grown(th[p]) /\ Sound(th[p])
         /\ \A i \in Id : i \in Registered(config') <=>
               IF i = th[p].id /\ th[p].op # "activate" THEN ~Deletes(th[p]) ELSE i \in Registered(config)
<1>1. /\ ~lost /\ SameVaults(config, th[p].base) /\ config' = Candidate(th[p])
      /\ th[p] # None /\ th[p] \in Call /\ Grown(th[p]) /\ Sound(th[p])
  BY InCall DEF Replace, At, GrownInv
<1>2. /\ th[p].base \in Config /\ th[p].id \in Id /\ th[p].op \in Op
      /\ None \notin Name /\ "first" \in Name /\ "renamed" \in Name
  BY <1>1, VaultOK DEF Call, VaultOK, Name
<1>3. \/ th[p].op \in {"create", "merge"} \cup Package /\ config' = [th[p].base EXCEPT !.vaults[th[p].id] = "first"]
      \/ th[p].op = "rename" /\ config' = [th[p].base EXCEPT !.vaults[th[p].id] = "renamed"]
      \/ th[p].op = "activate" /\ config' = [th[p].base EXCEPT !.active = th[p].id]
      \/ Deletes(th[p]) /\ config' = [th[p].base EXCEPT !.vaults[th[p].id] = None]
  BY <1>1, <1>2 DEF Candidate, Op, Locked, Package, Deletes
<1>4. ASSUME NEW i \in Id
      PROVE i \in Registered(config') <=>
               IF i = th[p].id /\ th[p].op # "activate" THEN ~Deletes(th[p]) ELSE i \in Registered(th[p].base)
  BY <1>2, <1>3 DEF Config, Registered, Deletes, Package
<1> QED
  BY <1>1, <1>4 DEF SameVaults

LEMMA RolledBackVaults ==
  ASSUME TypeInv, GrownInv, NEW p \in Proc, Rollback(p), ~lost'
  PROVE  /\ ~lost /\ config' = th[p].base
         /\ th[p] # None /\ th[p] \in Call /\ Grown(th[p]) /\ Sound(th[p])
         /\ \A i \in Id : i \in Registered(config') <=>
               IF i = th[p].id /\ th[p].wrote /\ th[p].op \in {"create", "merge"} THEN FALSE
               ELSE IF i = th[p].id /\ th[p].wrote /\ Deletes(th[p]) THEN i \in Registered(th[p].base)
               ELSE i \in Registered(config)
<1>1. /\ ~lost /\ SameVaults(config, Written(th[p])) /\ config' = th[p].base
      /\ th[p] # None /\ th[p] \in Call /\ Grown(th[p]) /\ Sound(th[p]) /\ th[p].op \in Locked
      /\ th[p].at = "rollback"
  BY InCall DEF Rollback, At, LockedAt, GrownInv
<1>2. /\ th[p].base \in Config /\ th[p].id \in Id
      /\ None \notin Name /\ "first" \in Name /\ "renamed" \in Name
  BY <1>1, VaultOK DEF Call, VaultOK, Name
<1>3. CASE ~th[p].wrote
  BY <1>1, <1>3 DEF Written, SameVaults
<1>4. CASE th[p].wrote
  <2>1. SameVaults(config, Candidate(th[p]))
    BY <1>1, <1>4 DEF Written
  <2>2. \/ th[p].op \in {"create", "merge"} /\ Candidate(th[p]) = [th[p].base EXCEPT !.vaults[th[p].id] = "first"]
        \/ th[p].op = "activate" /\ Candidate(th[p]) = [th[p].base EXCEPT !.active = th[p].id]
        \/ Deletes(th[p]) /\ Candidate(th[p]) = [th[p].base EXCEPT !.vaults[th[p].id] = None]
    BY <1>1 DEF Candidate, Locked, Package, Deletes
  <2>3. ASSUME NEW i \in Id, i # th[p].id \/ th[p].op = "activate"
        PROVE  i \in Registered(Candidate(th[p])) <=> i \in Registered(th[p].base)
    BY <1>2, <2>2, <2>3 DEF Config, Registered, Deletes
  <2>4. th[p].op \in {"create", "merge"} => th[p].id \notin Registered(th[p].base)
    BY <1>1, <1>4 DEF Grown, Copying
  <2>5. th[p].op \in {"create", "merge", "activate"} \/ Deletes(th[p])
    BY <1>1 DEF Locked, Deletes
  <2> QED
    BY <1>1, <1>4, <2>1, <2>3, <2>4, <2>5 DEF SameVaults, Deletes
<1> QED
  BY <1>3, <1>4

(* A call under the lock still finds what it has read. *)
LEMMA BaseNext ==
  ASSUME TypeInv, GrownInv, ~lost, \A q \in Proc : BaseKept(q), [Next]_vars, ~lost'
  PROVE  \A q \in Proc : BaseKept(q)'
<1> USE DEF At, LockedAt, Go, Copying
<1>a. \A q \in Proc : th[q] # None => th[q] \in Call /\ Sound(th[q]) /\ Grown(th[q]) /\ (holder = q <=> Busy(th[q]))
  BY InCall DEF GrownInv
<1>b. th \in [Proc -> Call \cup {None}]
  BY DEF TypeInv, CallsSound
<1>1. ASSUME NEW p \in Proc, \A q \in Proc : q # p => th'[q] = th[q], config' = config,
             th'[p] # None /\ Busy(th'[p]) =>
                th[p] # None /\ Busy(th[p]) /\ th'[p].base = th[p].base /\ (th[p].wrote => th'[p].wrote)
      PROVE  \A q \in Proc : BaseKept(q)'
  BY <1>1 DEF BaseKept
<1>2. ASSUME NEW p \in Proc, Enter(p) PROVE \A q \in Proc : BaseKept(q)'
  <2>1. th'[p].base = config /\ config' = config /\ \A q \in Proc : q # p => th'[q] = th[q]
    BY <1>2, <1>a, <1>b DEF Enter, Call
  <2> QED
    BY <2>1 DEF BaseKept
<1>3. ASSUME NEW p \in Proc, Replace(p) PROVE \A q \in Proc : BaseKept(q)'
  <2>1. /\ th[p] # None /\ th[p] \in Call /\ SameVaults(config, th[p].base) /\ config' = Candidate(th[p])
        /\ \A i \in Id : i \in Registered(config') <=>
               IF i = th[p].id /\ th[p].op # "activate" THEN ~Deletes(th[p]) ELSE i \in Registered(config)
    BY <1>3, ReplacedVaults
  <2>2. \A q \in Proc : q # p => th'[q] = th[q]
    BY <1>3, <1>b DEF Replace
  <2>3. CASE th[p].op \in Locked
    <3>1. th'[p].wrote /\ \A q \in Proc : q # p => th[q] = None \/ ~Busy(th[q])
      BY <1>3, <1>a, <1>b, <2>1, <2>3 DEF Replace, Busy, Working, Call
    <3> QED
      BY <2>2, <3>1 DEF BaseKept
  <2>4. CASE th[p].op \notin Locked
    <3>1. th'[p] = None
      BY <1>3, <1>b, <2>4 DEF Replace
    <3>2. Registered(config) \subseteq Registered(config')
      BY <2>1, <2>4 DEF Deletes, Locked, Registered
    <3>3. config'.active = config.active
      BY <1>3, <2>4, ActiveAfterReplace DEF Locked
    <3> QED
      BY <2>2, <3>1, <3>2, <3>3 DEF BaseKept
  <2> QED
    BY <2>3, <2>4
<1>4. ASSUME NEW p \in Proc, Rollback(p) PROVE \A q \in Proc : BaseKept(q)'
  <2>1. th[p] # None /\ Busy(th[p])
    BY <1>4 DEF Rollback, Busy, Working
  <2>2. \A q \in Proc : q # p => th'[q] = th[q] /\ (th[q] = None \/ ~Busy(th[q]))
    BY <1>4, <1>a, <1>b, <2>1 DEF Rollback
  <2>3. th'[p] = None \/ ~Busy(th'[p])
    BY <1>4, <1>a, <1>b, <2>1 DEF Rollback, Busy, Working, Call
  <2> QED
    BY <2>2, <2>3 DEF BaseKept
<1>5. ASSUME NEW p \in Proc,
             \/ Arrive(p) \/ Blocked(p) \/ ReadForRename(p) \/ ReadForImport(p) \/ MoveIn(p)
             \/ ImportFails(p) \/ Purge(p) \/ FindTarget(p) \/ CopyInto(p) \/ Adopt(p) \/ AdoptFails(p) \/ Answer(p)
      PROVE  \A q \in Proc : BaseKept(q)'
  <2>1. config' = config
    BY <1>5 DEF Arrive, Blocked, ReadForRename, ReadForImport, MoveIn, ImportFails, Purge, FindTarget, CopyInto, Adopt, AdoptFails, Answer
  <2>2. CallsSound' /\ HolderBusy' /\ holder' # p
    <3>1. CASE Answer(p)
      BY <3>1, CallsNext, VaultOK DEF Answer, VaultOK
    <3>2. CASE ~Answer(p)
      <4>1. holder' = holder /\ (th[p] # None => ~Busy(th[p]))
        BY <1>5, <3>2 DEF Arrive, Blocked, ReadForRename, ReadForImport, MoveIn, ImportFails, Purge, FindTarget, CopyInto, Adopt,
                          AdoptFails, Busy, Working, Locked, Package
      <4> QED
        BY <4>1, CallsNext DEF TypeInv, HolderBusy
    <3> QED
      BY <3>1, <3>2
  <2>3. th'[p] = None \/ ~Busy(th'[p])
    BY <2>2 DEF HolderBusy
  <2>4. \A q \in Proc : q # p => th'[q] = th[q]
    BY <1>5, <1>b DEF Arrive, Blocked, ReadForRename, ReadForImport, MoveIn, ImportFails, Purge, FindTarget, CopyInto, Adopt,
                      AdoptFails, Answer, Over
  <2> QED
    BY <1>1, <2>1, <2>3, <2>4
<1>6. ASSUME NEW p \in Proc,
             Check(p) \/ Promote(p) \/ Activate(p) \/ MoveAside(p) \/ ReadEtag(p) \/ WriteFails(p) \/ AnswerFails(p)
      PROVE  \A q \in Proc : BaseKept(q)'
  <2>1. config' = config /\ th[p] # None /\ th[p] \in Call
    BY <1>6, <1>a DEF Check, Promote, Activate, MoveAside, ReadEtag, WriteFails, AnswerFails
  <2>2. \A q \in Proc : q # p => th'[q] = th[q]
    BY <1>6, <1>b, <2>1 DEF Check, Promote, Activate, MoveAside, ReadEtag, WriteFails, AnswerFails, Call, Op
  <2>3. holder' = holder
    BY <1>6 DEF Check, Promote, Activate, MoveAside, ReadEtag, WriteFails, AnswerFails
  <2>4. th'[p] # None /\ Busy(th'[p]) => th[p] # None /\ Busy(th[p])
    BY <2>3, CallsNext DEF HolderBusy, TypeInv
  <2>5. th'[p] = None \/ (th'[p].base = th[p].base /\ th'[p].wrote = th[p].wrote)
    <3>1. CASE Check(p)
      BY <1>b, <2>1, <3>1 DEF Check, Call
    <3>2. CASE Promote(p)
      BY <1>b, <2>1, <3>2 DEF Promote, Call
    <3>3. CASE Activate(p)
      BY <1>b, <2>1, <3>3 DEF Activate, Call
    <3>4. CASE MoveAside(p)
      BY <1>b, <2>1, <3>4 DEF MoveAside, Call
    <3>5. CASE ReadEtag(p)
      BY <1>b, <2>1, <3>5 DEF ReadEtag, Call
    <3>6. CASE WriteFails(p)
      BY <1>b, <2>1, <3>6 DEF WriteFails, Call, Op
    <3>7. CASE AnswerFails(p)
      BY <1>b, <2>1, <3>7 DEF AnswerFails, Call
    <3> QED
      BY <1>6, <3>1, <3>2, <3>3, <3>4, <3>5, <3>6, <3>7
  <2> QED
    BY <1>1, <2>1, <2>2, <2>4, <2>5
<1>7. CASE Crash
  BY <1>7 DEF Crash, BaseKept
<1>8. CASE UNCHANGED vars
  BY <1>8 DEF vars, BaseKept
<1> QED
  BY <1>2, <1>3, <1>4, <1>5, <1>6, <1>7, <1>8 DEF Next

-----------------------------------------------------------------------------
(* A step that moves no tree of i and registers or removes nothing of it. *)
LEMMA SameFor ==
  ASSUME NEW i \in Id, RootInv(i), root'[i] = root[i],
         i \in Registered(config') <=> i \in Registered(config),
         \A q \in Proc :
            /\ Puts(q, i)' <=> Puts(q, i)
            /\ Taken(q, i)' <=> Taken(q, i)
            /\ Taken(q, i) => th'[q].tree = th[q].tree
            /\ Deleting(q, i)' => Deleting(q, i) /\ th'[q].wrote = th[q].wrote
            /\ Importing(q, i)' => Importing(q, i) \/ (root[i] = None /\ i \notin Registered(config))
            /\ Puts(q, i) => /\ th'[q].op = th[q].op /\ th'[q].wrote = th[q].wrote
                             /\ th'[q].at = "list" <=> th[q].at = "list"
  PROVE  RootInv(i)'
<1>0. None \notin Proc
  BY VaultOK DEF VaultOK
<1>1. Settled(i)' <=> Settled(i)
  BY DEF Settled, Puts
<1>2. (Settled(i) => (root[i] # None <=> i \in Registered(config)))'
  BY <1>1 DEF RootInv
<1>3. ASSUME NEW q \in Proc, Puts(q, i)'
      PROVE  /\ root'[i] = q
             /\ th'[q].op \in Locked => (i \in Registered(config') <=> th'[q].wrote)
             /\ th'[q].op \in Package => i \notin Registered(config') \/ \E r \in Proc : Taken(r, i)'
  BY <1>3 DEF RootInv
<1>4. ASSUME NEW q \in Proc, Taken(q, i)'
      PROVE  /\ i \in Registered(config')
             /\ root'[i] = None \/ \E r \in Proc : Puts(r, i)' /\ th'[r].op \in Package
  BY <1>4 DEF RootInv
<1>5. ASSUME NEW q \in Proc, Deleting(q, i)' PROVE Taken(q, i)' /\ ~th'[q].wrote
  BY <1>5 DEF RootInv
<1>6. ASSUME NEW q \in Proc, Importing(q, i)'
      PROVE  root'[i] # q /\ \A r \in Proc : Taken(r, i)' => th'[r].tree # q
  <2>1. CASE Importing(q, i)
    BY <2>1 DEF RootInv
  <2>2. CASE root[i] = None /\ i \notin Registered(config)
    BY <1>0, <2>2 DEF RootInv
  <2> QED
    BY <1>6, <2>1, <2>2
<1> QED
  BY <1>2, <1>3, <1>4, <1>5, <1>6 DEF RootInv

(* The invariant of one id is kept by every step that is no accident of it. *)
LEMMA RootNext ==
  ASSUME TypeInv, GrownInv, ~lost, \A q \in Proc : BaseKept(q), [Next]_vars, ~lost',
         NEW i \in Id, RootInv(i), i \notin hurt'
  PROVE  RootInv(i)'
<1> USE DEF At, LockedAt, Go, Copying
<1>0. None \notin Proc
  BY VaultOK DEF VaultOK
<1>a. \A q \in Proc : th[q] # None => th[q] \in Call /\ Sound(th[q]) /\ Grown(th[q]) /\ (holder = q <=> Busy(th[q]))
  BY InCall DEF GrownInv
<1>b. th \in [Proc -> Call \cup {None}] /\ root \in [Id -> Proc \cup {Default, None}]
  BY DEF TypeInv, CallsSound, PlacesOK
(* Only the call that holds the lock takes trees away. *)
<1>c. \A q \in Proc : Taken(q, i) => holder = q /\ Deletes(th[q])
  BY <1>a DEF Taken, Grown, Deletes, Busy, Working, Locked
(* A step of p, none of whose trees of i come or go. *)
<1>d. ASSUME NEW p \in Proc, \A q \in Proc : q # p => th'[q] = th[q],
             root'[i] = root[i], i \in Registered(config') <=> i \in Registered(config),
             Puts(p, i)' <=> Puts(p, i), Taken(p, i)' <=> Taken(p, i),
             Taken(p, i) => th'[p].tree = th[p].tree,
             Deleting(p, i)' => Deleting(p, i) /\ th'[p].wrote = th[p].wrote,
             Importing(p, i)' => Importing(p, i) \/ (root[i] = None /\ i \notin Registered(config)),
             Puts(p, i) => /\ th'[p].op = th[p].op /\ th'[p].wrote = th[p].wrote
                           /\ th'[p].at = "list" <=> th[p].at = "list"
      PROVE  RootInv(i)'
  <2>1. \A q \in Proc : q # p =>
           /\ Puts(q, i)' <=> Puts(q, i)
           /\ Taken(q, i)' <=> Taken(q, i)
           /\ Deleting(q, i)' <=> Deleting(q, i)
           /\ Importing(q, i)' <=> Importing(q, i)
    BY <1>d DEF Puts, Taken, Deleting, Importing
  <2> QED
    BY <1>d, <2>1, SameFor
(* Calls that are not at work on a tree of theirs before or after. *)
<1>e. ASSUME NEW p \in Proc, \A q \in Proc : q # p => th'[q] = th[q],
             root' = root, config' = config,
             th[p] = None \/ th[p].id # i \/ (~th[p].made /\ th[p].tree = None),
             \/ th'[p] = None \/ th'[p].id # i
             \/ /\ ~th'[p].made /\ th'[p].tree = None
                /\ ~Deleting(p, i)'
                /\ Importing(p, i)' => Importing(p, i) \/ (root[i] = None /\ i \notin Registered(config))
      PROVE  RootInv(i)'
  BY <1>d, <1>e DEF Puts, Taken, Deleting, Importing
<1>1. ASSUME NEW p \in Proc, Arrive(p) PROVE RootInv(i)'
  <2>1. /\ root' = root /\ config' = config /\ th[p] = None /\ \A q \in Proc : q # p => th'[q] = th[q]
        /\ ~th'[p].made /\ th'[p].tree = None /\ th'[p].at \in {"lock", "check"}
    BY <1>1, <1>b DEF Arrive
  <2>2. ~Deleting(p, i)' /\ ~Importing(p, i)'
    BY <2>1 DEF Deleting, Importing
  <2> QED
    BY <1>e, <2>1, <2>2
<1>f. ASSUME NEW p \in Proc, CopyInto(p) PROVE RootInv(i)'
  <2>1. /\ th[p] # None /\ th[p] \in Call /\ Grown(th[p]) /\ th[p].at \in Copying
        /\ ~th[p].made /\ th[p].tree = None /\ th[p].op = "merge" /\ config' = config
    BY <1>f, <1>a DEF CopyInto, Grown, Copying
  <2>2. /\ \A q \in Proc : q # p => th'[q] = th[q]
        /\ th'[p] = [th[p] EXCEPT !.at = "copy"]
    BY <1>f, <1>b DEF CopyInto
  <2>3. root'[i] = root[i]
    BY <1>f, <1>b DEF CopyInto
  <2>4. /\ ~Puts(p, i) /\ ~Taken(p, i) /\ ~Puts(p, i)' /\ ~Taken(p, i)'
        /\ ~Deleting(p, i)' /\ ~Importing(p, i)'
    BY <2>1, <2>2 DEF Puts, Taken, Deleting, Deletes, Importing, Package, Call
  <2> QED
    BY <1>d, <2>1, <2>2, <2>3, <2>4
<1>2. ASSUME NEW p \in Proc,
             \/ Enter(p) \/ Blocked(p) \/ Check(p) \/ Activate(p) \/ ReadForRename(p) \/ ReadForImport(p)
             \/ ImportFails(p) \/ FindTarget(p) \/ Adopt(p) \/ AdoptFails(p)
      PROVE  RootInv(i)'
  <2>1. root' = root /\ config' = config /\ th[p] # None /\ th[p] \in Call /\ Grown(th[p])
    BY <1>2, <1>a DEF Enter, Blocked, Check, Activate, ReadForRename, ReadForImport, ImportFails, FindTarget, Adopt, AdoptFails
  <2>2. \A q \in Proc : q # p => th'[q] = th[q]
    BY <1>2, <1>b DEF Enter, Blocked, Check, Activate, ReadForRename, ReadForImport, ImportFails, FindTarget, Adopt, AdoptFails
  <2>3. ~th[p].made /\ th[p].tree = None
    BY <1>2, <2>1 DEF Grown, Enter, Blocked, Check, Activate, ReadForRename, ReadForImport, ImportFails, FindTarget, Adopt, AdoptFails
  <2> DEFINE Bare(c) == /\ ~c.made /\ c.tree = None /\ c.id = th[p].id
                        /\ ~(Deletes(c) /\ (c.at \in {"write", "replace"} \/ (c.at = "rollback" /\ c.wrote)))
                        /\ c.op \in Package /\ c.at \in {"act", "purge"} =>
                              \/ th[p].op \in Package /\ th[p].at = "act"
                              \/ root[c.id] = None /\ c.id \notin Registered(config)
  <2>4. CASE Enter(p)
    <3>1. th'[p].at = "check" /\ Bare(th'[p])
      BY <1>b, <2>1, <2>4 DEF Enter, Grown, Call
    <3> QED
      BY <1>e, <2>1, <2>2, <2>3, <3>1 DEF Deleting, Importing
  <2>5. CASE Blocked(p)
    <3>1. th'[p] = None \/ Bare(th'[p])
      BY <1>b, <2>1, <2>5 DEF Blocked, Grown, Call, Package
    <3> QED
      BY <1>e, <2>1, <2>2, <2>3, <3>1 DEF Deleting, Importing
  <2>6. CASE Check(p)
    <3>1. PICK a \in {"act", "rollback"} : th' = [th EXCEPT ![p].at = a]
      BY <2>6 DEF Check
    <3>2. Bare(th'[p])
      BY <1>b, <2>1, <2>6, <3>1 DEF Check, Grown, Call, Package, Locked
    <3> QED
      BY <1>e, <2>1, <2>2, <2>3, <3>2 DEF Deleting, Importing
  <2>7. CASE Activate(p)
    <3>1. PICK a \in {"write", "rollback"} : th' = [th EXCEPT ![p].at = a]
      BY <2>7 DEF Activate
    <3>2. Bare(th'[p])
      BY <1>b, <2>1, <2>7, <3>1 DEF Activate, Grown, Call, Package, Deletes
    <3> QED
      BY <1>e, <2>1, <2>2, <2>3, <3>2 DEF Deleting, Importing
  <2>8. CASE ReadForRename(p)
    <3>1. th'[p] = None \/ Bare(th'[p])
      BY <1>b, <2>1, <2>8 DEF ReadForRename, Grown, Call, Package, Deletes
    <3> QED
      BY <1>e, <2>1, <2>2, <2>3, <3>1 DEF Deleting, Importing
  <2>9. CASE ReadForImport(p)
    <3>1. th'[p] = None \/ Bare(th'[p])
      BY <1>b, <2>1, <2>9 DEF ReadForImport, TargetFree, Grown, Call, Package, Deletes
    <3> QED
      BY <1>e, <2>1, <2>2, <2>3, <3>1 DEF Deleting, Importing
  <2>10. CASE ImportFails(p)
    <3>1. Bare(th'[p]) /\ th[p].op \in Package /\ th[p].at = "act" /\ ~th[p].made
      BY <1>b, <2>1, <2>10 DEF ImportFails, Grown, Call, Package, Deletes
    <3> QED
      BY <1>e, <2>1, <2>2, <2>3, <3>1 DEF Deleting, Importing
  <2>13. CASE FindTarget(p)
    <3>1. PICK a \in Copying : th' = [th EXCEPT ![p].at = a]
      BY <2>13 DEF FindTarget, Copying
    <3>2. th[p].op = "merge"
      BY <2>1, <2>13 DEF FindTarget, Grown, Copying
    <3>3. Bare(th'[p])
      BY <1>b, <2>1, <2>3, <3>1, <3>2 DEF Call, Package, Deletes, Copying
    <3> QED
      BY <1>e, <2>1, <2>2, <2>3, <3>3 DEF Deleting, Importing
  <2>11. CASE Adopt(p)
    <3>1. th'[p] = None
      BY <1>b, <2>11 DEF Adopt
    <3> QED
      BY <1>e, <2>1, <2>2, <2>3, <3>1
  <2>12. CASE AdoptFails(p)
    <3>1. Bare(th'[p])
      BY <1>b, <2>1, <2>12 DEF AdoptFails, Grown, Call, Package, Deletes
    <3> QED
      BY <1>e, <2>1, <2>2, <2>3, <3>1 DEF Deleting, Importing
  <2> QED
    BY <1>2, <2>4, <2>5, <2>6, <2>7, <2>8, <2>9, <2>10, <2>11, <2>12, <2>13
<1>3. ASSUME NEW p \in Proc, ReadEtag(p) \/ WriteFails(p) PROVE RootInv(i)'
  <2>1. /\ root' = root /\ config' = config /\ th[p] # None /\ th[p] \in Call /\ Grown(th[p])
        /\ th[p].at \in {"write", "replace"}
    BY <1>3, <1>a DEF ReadEtag, WriteFails
  <2>2. \A q \in Proc : q # p => th'[q] = th[q]
    BY <1>3, <1>b, <2>1 DEF ReadEtag, WriteFails, Call, Op
  <2>3. CASE ReadEtag(p)
    <3>1. /\ th'[p] # None /\ th[p].at = "write" /\ th'[p].at = "replace" /\ th'[p].id = th[p].id /\ th'[p].op = th[p].op
          /\ th'[p].made = th[p].made /\ th'[p].tree = th[p].tree /\ th'[p].wrote = th[p].wrote
      BY <1>b, <2>1, <2>3, CallsNext, CallOK DEF ReadEtag, Call, Place, TypeInv, PlacesOK
    <3> QED
      BY <1>d, <2>1, <2>2, <3>1 DEF Puts, Taken, Deleting, Importing, Deletes
  <2>4. CASE WriteFails(p) /\ th[p].op \in Locked
    <3>1. th' = [th EXCEPT ![p] = [th[p] EXCEPT !.at = "rollback"]] /\ [th[p] EXCEPT !.at = "rollback"] # None
      BY <2>4, InCall DEF WriteFails, Locked, Package, Place
    <3>2. /\ th'[p] # None /\ th'[p].at = "rollback" /\ th'[p].id = th[p].id /\ th'[p].op = th[p].op
          /\ th'[p].made = th[p].made /\ th'[p].tree = th[p].tree /\ th'[p].wrote = th[p].wrote
          /\ ~th[p].wrote /\ th[p].at = "replace"
      BY <1>b, <2>1, <2>4, <3>1 DEF WriteFails, Call, Grown
    <3> QED
      BY <1>d, <2>1, <2>2, <3>2 DEF Puts, Taken, Deleting, Importing, Deletes
  <2>5. CASE WriteFails(p) /\ th[p].op \in Package
    <3>1. th' = [th EXCEPT ![p] = [th[p] EXCEPT !.at = "purge"]] /\ [th[p] EXCEPT !.at = "purge"] # None
      BY <2>5, <2>1, InCall DEF WriteFails, Locked, Package, Place
    <3>2. /\ th'[p] # None /\ th'[p].at = "purge" /\ th'[p].id = th[p].id /\ th'[p].op = th[p].op
          /\ th'[p].made = th[p].made /\ th'[p].tree = th[p].tree /\ th'[p].wrote = th[p].wrote
          /\ th[p].made /\ th[p].tree = None /\ th[p].at = "replace"
      BY <1>b, <2>1, <2>5, <3>1 DEF WriteFails, Call, Grown, Deletes, Package
    <3> QED
      BY <1>d, <2>1, <2>2, <3>2 DEF Puts, Taken, Deleting, Importing
  <2>6. CASE WriteFails(p) /\ th[p].op = "rename"
    <3>1. th'[p] = None /\ ~th[p].made /\ th[p].tree = None
      BY <1>b, <2>1, <2>6 DEF WriteFails, Grown, Deletes, Package, Locked
    <3> QED
      BY <1>e, <2>1, <2>2, <3>1
  <2> QED
    BY <1>3, <2>1, <2>3, <2>4, <2>5, <2>6 DEF Call, Op
<1>4. ASSUME NEW p \in Proc, Promote(p) PROVE RootInv(i)'
  <2>1. /\ config' = config /\ th[p] # None /\ th[p] \in Call /\ Grown(th[p]) /\ holder = p
        /\ th[p].op \in {"create", "merge"} /\ th[p].at = "act" /\ ~th[p].made /\ th[p].tree = None /\ ~th[p].wrote
    BY <1>4, <1>a DEF Promote, Busy, Working, Locked, Grown
  <2>2. \A q \in Proc : q # p => th'[q] = th[q]
    BY <1>4, <1>b DEF Promote
  <2>3. CASE root[th[p].id] # None
    <3>1. root' = root /\ th'[p] = [th[p] EXCEPT !.at = "rollback"]
      BY <1>4, <1>b, <2>3 DEF Promote
    <3>2. ~th'[p].made /\ th'[p].tree = None /\ th'[p].op = th[p].op
      BY <2>1, <3>1 DEF Call
    <3> QED
      BY <1>e, <2>1, <2>2, <3>1, <3>2 DEF Deleting, Importing, Deletes, Package
  <2>4. CASE root[th[p].id] = None
    <3>1. /\ root' = [root EXCEPT ![th[p].id] = p]
          /\ th' = [th EXCEPT ![p] = [th[p] EXCEPT !.at = "write", !.made = TRUE]]
      BY <1>4, <2>4 DEF Promote
    <3>2. /\ th'[p].at = "write" /\ th'[p].made /\ th'[p].tree = None /\ th'[p].id = th[p].id
          /\ th'[p].op = th[p].op /\ ~th'[p].wrote
      BY <1>b, <2>1, <3>1 DEF Call
    <3>3. CASE th[p].id # i
      <4>1. root'[i] = root[i]
        BY <3>1, <3>3, <1>b
      <4> QED
        BY <1>d, <2>1, <2>2, <3>2, <3>3, <4>1 DEF Puts, Taken, Deleting, Importing
    <3>4. CASE th[p].id = i
      <4>1. root[i] = None /\ root'[i] = p /\ th'[p] # None
        BY <1>b, <2>4, <3>1, <3>4, CallsNext, <2>1, CallOK DEF Call, Place
      <4>2. \A q \in Proc : ~Puts(q, i) /\ ~Taken(q, i)
        BY <1>0, <1>c, <2>1, <4>1 DEF RootInv, Deletes
      <4>3. i \notin Registered(config)
        BY <4>1, <4>2 DEF RootInv, Settled
      <4>4. \A q \in Proc : ~Taken(q, i)' /\ ~Deleting(q, i)' /\ (q # p => ~Puts(q, i)')
        BY <2>1, <2>2, <3>2, <4>2 DEF Puts, Taken, Deleting, Deletes, RootInv
      <4>5. \A q \in Proc : Importing(q, i)' => root'[i] # q
        BY <2>1, <3>2, <4>1 DEF Importing, Package
      <4>6. Puts(p, i)' /\ th'[p].at # "list"
        BY <3>2, <3>4, <4>1 DEF Puts
      <4>7. ~Settled(i)'
        BY <4>6 DEF Settled
      <4> QED
        BY <2>1, <3>2, <4>1, <4>3, <4>4, <4>5, <4>7 DEF RootInv, Package
    <3> QED
      BY <3>3, <3>4
  <2> QED
    BY <2>3, <2>4
<1>5. ASSUME NEW p \in Proc, MoveAside(p) PROVE RootInv(i)'
  <2>1. /\ config' = config /\ th[p] # None /\ th[p] \in Call /\ Grown(th[p]) /\ holder = p /\ Busy(th[p])
        /\ Deletes(th[p]) /\ th[p].at = "act" /\ ~th[p].made /\ th[p].tree = None /\ ~th[p].wrote
    BY <1>5, <1>a DEF MoveAside, Busy, Working, Locked, Grown, Deletes
  <2>2. \A q \in Proc : q # p => th'[q] = th[q]
    BY <1>5, <1>b DEF MoveAside
  <2>3. /\ root' = [root EXCEPT ![th[p].id] = None]
        /\ th' = [th EXCEPT ![p] = [th[p] EXCEPT !.at = "write", !.tree = root[th[p].id]]]
    BY <1>5 DEF MoveAside
  <2>4. /\ th'[p].at = "write" /\ ~th'[p].made /\ th'[p].tree = root[th[p].id] /\ th'[p].id = th[p].id
        /\ th'[p].op = th[p].op /\ ~th'[p].wrote
    BY <1>b, <2>1, <2>3 DEF Call
  <2>5. CASE th[p].id # i
    <3>1. root'[i] = root[i]
      BY <2>3, <2>5, <1>b
    <3> QED
      BY <1>d, <2>1, <2>2, <2>4, <2>5, <3>1 DEF Puts, Taken, Deleting, Importing
  <2>6. CASE th[p].id = i
    <3>1. i \in Registered(config)
      BY <2>1, <2>6 DEF BaseKept, Grown
    <3>2. \A q \in Proc : ~Taken(q, i)
      BY <1>c, <2>1 DEF Taken
    <3>3. \A q \in Proc : ~Puts(q, i)
      <4>1. ASSUME NEW q \in Proc, Puts(q, i) PROVE FALSE
        <5>1. th[q].op \in Package
          <6>1. th[q] # None /\ Grown(th[q]) /\ th[q].made /\ th[q] \in Call
            BY <1>a, <4>1 DEF Puts
          <6>2. q # p
            BY <2>1, <6>1
          <6>3. ~Busy(th[q])
            BY <1>a, <2>1, <6>1, <6>2
          <6> QED
            BY <6>1, <6>3 DEF Grown, Busy, Working, Locked
        <5> QED
          BY <3>1, <3>2, <4>1, <5>1 DEF RootInv
      <4> QED
        BY <4>1
    <3>4. root[i] # None /\ root'[i] = None
      BY <1>b, <2>3, <2>6, <3>1, <3>2, <3>3 DEF RootInv, Settled
    <3>5. th'[p] # None
      <4>1. root[th[p].id] \in Proc \cup {Default, None}
        BY <1>b, <2>1 DEF Call
      <4>2. [th[p] EXCEPT !.at = "write", !.tree = root[th[p].id]] \in Call
        BY <2>1, <4>1 DEF Call, Place
      <4> QED
        BY <1>b, <2>3, <4>2, CallOK
    <3>6. Taken(p, i)' /\ ~Settled(i)' /\ ~Puts(p, i)' /\ ~Importing(p, i)'
      BY <2>4, <2>6, <3>4, <3>5 DEF Taken, Settled, Puts, Importing
    <3>7. \A q \in Proc : /\ ~Puts(q, i)' /\ (Taken(q, i)' => q = p)
                          /\ Deleting(q, i)' => q = p
                          /\ Importing(q, i)' => Importing(q, i)
      BY <2>2, <3>2, <3>3, <3>6 DEF Taken, Puts, Deleting, Importing, RootInv
    <3>8. \A q \in Proc : Importing(q, i)' => root'[i] # q /\ th'[p].tree # q
      BY <1>0, <2>4, <2>6, <3>4, <3>7 DEF RootInv
    <3> QED
      BY <2>1, <2>4, <3>1, <3>4, <3>6, <3>7, <3>8 DEF RootInv
  <2> QED
    BY <2>5, <2>6
<1>6. ASSUME NEW p \in Proc, Replace(p) PROVE RootInv(i)'
  <2>1. /\ root' = root /\ th[p] # None /\ th[p] \in Call /\ Grown(th[p]) /\ Sound(th[p]) /\ th[p].at = "replace"
        /\ SameVaults(config, th[p].base) /\ ~th[p].wrote
        /\ \A j \in Id : j \in Registered(config') <=>
              IF j = th[p].id /\ th[p].op # "activate" THEN ~Deletes(th[p]) ELSE j \in Registered(config)
    BY <1>6, ReplacedVaults DEF Replace, Grown
  <2>2. \A q \in Proc : q # p => th'[q] = th[q]
    BY <1>6, <1>b DEF Replace
  <2>3. CASE th[p].op \in Locked
    <3>1. /\ th' = [th EXCEPT ![p] = [th[p] EXCEPT !.at = "list", !.wrote = TRUE]]
          /\ holder = p
      BY <1>6, <1>a, <2>1, <2>3 DEF Replace, Busy, Working
    <3>2. /\ th'[p].at = "list" /\ th'[p].made = th[p].made /\ th'[p].tree = th[p].tree /\ th'[p].id = th[p].id
          /\ th'[p].op = th[p].op /\ th'[p].wrote
      BY <1>b, <2>1, <3>1 DEF Call
    <3>3. CASE th[p].id # i \/ th[p].op = "activate"
      <4>1. i \in Registered(config') <=> i \in Registered(config)
        BY <2>1, <3>3
      <4>2. th[p].op = "activate" => ~th[p].made /\ th[p].tree = None
        BY <2>1 DEF Grown, Deletes, Package
      <4> QED
        BY <1>d, <2>1, <2>2, <3>2, <3>3, <4>1, <4>2 DEF Puts, Taken, Deleting, Importing
    <3>4. CASE th[p].id = i /\ th[p].op \in {"create", "merge"}
      <4>1. Puts(p, i) /\ root[i] = p /\ i \in Registered(config')
        BY <2>1, <3>4 DEF Grown, Puts, RootInv, Deletes
      <4>2. \A q \in Proc : (q # p => ~Puts(q, i)) /\ ~Taken(q, i)
        BY <1>c, <3>1, <3>4, <4>1 DEF RootInv, Deletes
      <4>3. \A q \in Proc : /\ (q # p => ~Puts(q, i)') /\ ~Taken(q, i)' /\ ~Deleting(q, i)'
                            /\ (Importing(q, i)' => q # p)
        BY <2>2, <3>2, <3>4, <4>2 DEF Puts, Taken, Deleting, Importing, Deletes, RootInv, Package
      <4>4. root'[i] # None
        BY <1>0, <2>1, <4>1
      <4> QED
        BY <2>1, <3>2, <3>4, <4>1, <4>3, <4>4 DEF RootInv, Package
    <3>5. CASE th[p].id = i /\ Deletes(th[p])
      <4>1. Deleting(p, i) /\ i \notin Registered(config')
        BY <2>1, <3>5 DEF Deleting, Deletes
      <4>2. Taken(p, i) /\ \A q \in Proc : Taken(q, i) => q = p
        BY <1>c, <3>1, <4>1 DEF RootInv
      <4>3. \A q \in Proc : /\ ~Taken(q, i)' /\ ~Deleting(q, i)' /\ (Importing(q, i)' => Importing(q, i))
                            /\ (Puts(q, i)' => Puts(q, i) /\ q # p /\ th'[q] = th[q])
        BY <2>1, <2>2, <3>2, <3>5, <4>2 DEF Puts, Taken, Deleting, Importing, Deletes, RootInv, Package, Grown
      <4>4. ASSUME NEW q \in Proc, Puts(q, i)'
            PROVE  root'[i] = q /\ th'[q].op \notin Locked /\ th'[q].at # "list"
        <5>1. Puts(q, i) /\ q # p /\ th'[q] = th[q] /\ th[q] # None /\ Grown(th[q])
          BY <1>a, <4>3, <4>4 DEF Puts
        <5>2. ~Busy(th[q])
          BY <1>a, <3>1, <5>1
        <5> QED
          BY <2>1, <5>1, <5>2 DEF RootInv, Puts, Grown, Busy, Working, Locked, Package
      <4>5. Settled(i)' => root'[i] = None
        <5>1. root[i] = None \/ \E q \in Proc : Puts(q, i) /\ th[q].op \in Package
          BY <4>2 DEF RootInv
        <5>2. ASSUME NEW q \in Proc, Puts(q, i), th[q].op \in Package PROVE Puts(q, i)'
          <6>1. q # p
            BY <3>5, <5>2 DEF Deletes, Package
          <6> QED
            BY <2>2, <5>2, <6>1 DEF Puts
        <5> QED
          BY <2>1, <4>4, <5>1, <5>2 DEF Settled
      <4> QED
        BY <2>1, <4>1, <4>3, <4>4, <4>5 DEF RootInv
    <3> QED
      BY <2>3, <3>3, <3>4, <3>5 DEF Locked, Deletes
  <2>4. CASE th[p].op \notin Locked
    <3>1. th'[p] = None /\ th[p].op \in Package \cup {"rename"}
      BY <1>6, <1>b, <2>1, <2>4 DEF Replace, Call, Op
    <3>2. CASE th[p].op = "rename" \/ th[p].id # i
      <4>1. i \in Registered(config') <=> i \in Registered(config)
        BY <2>1, <3>2 DEF Grown, SameVaults, Deletes
      <4>2. th[p].op = "rename" => ~th[p].made /\ th[p].tree = None
        BY <2>1 DEF Grown, Deletes, Package
      <4> QED
        BY <1>d, <2>1, <2>2, <3>1, <3>2, <4>1, <4>2 DEF Puts, Taken, Deleting, Importing
    <3>3. CASE th[p].op \in Package /\ th[p].id = i
      <4>1. Puts(p, i) /\ root[i] = p /\ i \notin Registered(config) /\ i \in Registered(config')
        BY <2>1, <3>3 DEF Grown, Puts, RootInv, SameVaults, Deletes, Package
      <4>2. \A q \in Proc : (q # p => ~Puts(q, i)) /\ ~Taken(q, i)
        BY <4>1 DEF RootInv
      <4>3. \A q \in Proc : ~Puts(q, i)' /\ ~Taken(q, i)' /\ ~Deleting(q, i)' /\ (Importing(q, i)' => q # p)
        BY <2>2, <3>1, <4>2 DEF Puts, Taken, Deleting, Importing, RootInv
      <4>4. root'[i] # None
        BY <1>0, <2>1, <4>1
      <4> QED
        BY <2>1, <4>1, <4>3, <4>4 DEF RootInv
    <3> QED
      BY <3>1, <3>2, <3>3
  <2> QED
    BY <2>3, <2>4
<1>7. ASSUME NEW p \in Proc, Answer(p) \/ AnswerFails(p) PROVE RootInv(i)'
  <2>1. /\ root' = root /\ config' = config /\ th[p] # None /\ th[p] \in Call /\ Grown(th[p])
        /\ th[p].op \in Locked /\ th[p].at = "list" /\ th[p].wrote /\ holder = p
    BY <1>7, <1>a DEF Answer, AnswerFails, Grown, Busy, Working
  <2>2. \A q \in Proc : q # p => th'[q] = th[q]
    BY <1>7, <1>b DEF Answer, AnswerFails, Over
  <2>3. ~Taken(p, i) /\ ~Importing(p, i)
    BY <2>1 DEF Taken, Importing
  <2>4. CASE ~Puts(p, i)
    <3>1. CASE Answer(p)
      <4>1. th'[p] = None \/ th'[p] = [th[p] EXCEPT !.at = "adopt", !.made = FALSE]
        BY <1>b, <3>1 DEF Answer, Over
      <4>2. ~Puts(p, i)' /\ ~Taken(p, i)' /\ ~Importing(p, i)' /\ ~Deleting(p, i)'
        BY <2>1, <4>1 DEF Puts, Taken, Importing, Deleting, Call
      <4> QED
        BY <1>d, <2>1, <2>2, <2>3, <2>4, <4>2
    <3>2. CASE AnswerFails(p)
      <4>1. /\ th'[p] = [th[p] EXCEPT !.at = "rollback", !.tree = None]
            /\ Deletes(th[p]) => th[p].id # i
        BY <1>b, <3>2 DEF AnswerFails, Deletes
      <4>2. ~Puts(p, i)' /\ ~Taken(p, i)' /\ ~Importing(p, i)' /\ ~Deleting(p, i)'
        BY <2>1, <2>4, <4>1 DEF Puts, Taken, Importing, Deleting, Deletes, Call
      <4> QED
        BY <1>d, <2>1, <2>2, <2>3, <2>4, <4>2
    <3> QED
      BY <1>7, <3>1, <3>2
  <2>5. CASE Puts(p, i)
    <3>1. root[i] = p /\ i \in Registered(config) /\ th[p].op \in {"create", "merge"}
      BY <2>1, <2>5 DEF RootInv, Puts, Grown, Locked, Package
    <3>2. \A q \in Proc : (q # p => ~Puts(q, i)) /\ ~Taken(q, i)
      BY <1>c, <2>1, <3>1 DEF RootInv, Deletes
    <3>3. th'[p] = None \/ (/\ th'[p].op = th[p].op /\ th'[p].id = th[p].id /\ th'[p].wrote
                            /\ th'[p].at \in {"adopt", "rollback"}
                            /\ th'[p].tree # None => th[p].tree # None)
      <4>1. CASE Answer(p)
        <5>1. th'[p] = None \/ th'[p] = [th[p] EXCEPT !.at = "adopt", !.made = FALSE]
          BY <1>b, <4>1 DEF Answer, Over
        <5> QED
          BY <2>1, <5>1 DEF Call
      <4>2. CASE AnswerFails(p)
        <5>1. th'[p] = [th[p] EXCEPT !.at = "rollback", !.tree = None]
          BY <1>b, <4>2 DEF AnswerFails
        <5> QED
          BY <2>1, <5>1 DEF Call
      <4> QED
        BY <1>7, <4>1, <4>2
    <3>4. th[p].tree = None
      BY <2>1, <3>1 DEF Grown, Deletes
    <3>5. \A q \in Proc : /\ (q # p => ~Puts(q, i)') /\ ~Taken(q, i)' /\ ~Deleting(q, i)'
                          /\ (Importing(q, i)' => q # p)
      BY <2>2, <3>1, <3>2, <3>3, <3>4 DEF Puts, Taken, Deleting, Importing, Deletes, RootInv, Package
    <3>6. root'[i] # None
      BY <1>0, <2>1, <3>1
    <3>7. Puts(p, i)' => th'[p].op \notin Package /\ th'[p].wrote
      BY <3>1, <3>3 DEF Puts, Package
    <3> QED
      BY <2>1, <3>1, <3>5, <3>6, <3>7 DEF RootInv
  <2> QED
    BY <2>4, <2>5
<1>8. ASSUME NEW p \in Proc, MoveIn(p) PROVE RootInv(i)'
  <2>1. /\ config' = config /\ th[p] # None /\ th[p] \in Call /\ Grown(th[p])
        /\ th[p].op \in Package /\ th[p].at = "act" /\ ~th[p].made /\ th[p].tree = None /\ ~th[p].wrote
        /\ root[th[p].id] = None
    BY <1>8, <1>a DEF MoveIn, Grown
  <2>2. \A q \in Proc : q # p => th'[q] = th[q]
    BY <1>8, <1>b DEF MoveIn
  <2>3. /\ root' = [root EXCEPT ![th[p].id] = p]
        /\ th' = [th EXCEPT ![p] = [th[p] EXCEPT !.at = "write", !.made = TRUE]]
    BY <1>8 DEF MoveIn
  <2>4. /\ th'[p].at = "write" /\ th'[p].made /\ th'[p].tree = None /\ th'[p].id = th[p].id
        /\ th'[p].op = th[p].op /\ ~th'[p].wrote
    BY <1>b, <2>1, <2>3 DEF Call
  <2>5. CASE th[p].id # i
    <3>1. root'[i] = root[i]
      BY <2>3, <2>5, <1>b
    <3> QED
      BY <1>d, <2>1, <2>2, <2>4, <2>5, <3>1 DEF Puts, Taken, Deleting, Importing
  <2>6. CASE th[p].id = i
    <3>1. root[i] = None /\ root'[i] = p
      BY <1>b, <2>1, <2>3, <2>6
    <3>2. th'[p] # None
      <4>1. [th[p] EXCEPT !.at = "write", !.made = TRUE] \in Call
        BY <2>1 DEF Call, Place
      <4> QED
        BY <1>b, <2>3, <4>1, CallOK
    <3>3. Puts(p, i)' /\ ~Settled(i)' /\ ~Importing(p, i)' /\ ~Taken(p, i)' /\ ~Taken(p, i)
      BY <2>1, <2>4, <2>6, <3>2 DEF Puts, Settled, Importing, Taken
    <3>4. \A q \in Proc : ~Puts(q, i)
      BY <1>0, <3>1 DEF RootInv
    <3>5. \A q \in Proc : /\ (Taken(q, i)' <=> Taken(q, i)) /\ (q # p => ~Puts(q, i)')
                          /\ (Deleting(q, i)' => Taken(q, i)' /\ ~th'[q].wrote)
      BY <2>1, <2>2, <2>4, <3>3, <3>4 DEF Taken, Puts, Deleting, Deletes, Package, RootInv
    <3>6. i \notin Registered(config) \/ \E q \in Proc : Taken(q, i)
      BY <3>1, <3>4 DEF RootInv, Settled
    <3>7. \A q \in Proc : Importing(q, i)' =>
             q # p /\ Importing(q, i) /\ \A r \in Proc : Taken(r, i)' => th'[r].tree # q
      <4>1. ASSUME NEW q \in Proc, Importing(q, i)' PROVE q # p /\ Importing(q, i)
        BY <2>2, <3>3, <4>1 DEF Importing
      <4>2. ASSUME NEW r \in Proc, Taken(r, i)' PROVE Taken(r, i) /\ th'[r] = th[r]
        BY <2>2, <3>3, <4>2 DEF Taken
      <4> QED
        BY <4>1, <4>2 DEF RootInv
    <3>8. \A q \in Proc : Taken(q, i)' => i \in Registered(config')
      BY <2>1, <3>5 DEF RootInv
    <3> QED
      BY <2>1, <2>4, <3>1, <3>3, <3>5, <3>6, <3>7, <3>8 DEF RootInv, Package, Locked
  <2> QED
    BY <2>5, <2>6
<1>9. ASSUME NEW p \in Proc, Purge(p) PROVE RootInv(i)'
  <2>1. /\ config' = config /\ th[p] # None /\ th[p] \in Call /\ Grown(th[p]) /\ th[p].at = "purge" /\ th'[p] = None
    BY <1>9, <1>a, <1>b DEF Purge
  <2>2. \A q \in Proc : q # p => th'[q] = th[q]
    BY <1>9, <1>b DEF Purge
  <2>3. root' = [root EXCEPT ![th[p].id] = None]
    BY <1>9 DEF Purge
  <2>4. ~Taken(p, i)
    BY <2>1 DEF Taken
  <2>5. CASE th[p].id # i
    <3>1. root'[i] = root[i]
      BY <2>3, <2>5, <1>b
    <3> QED
      BY <1>d, <2>1, <2>2, <2>5, <3>1 DEF Puts, Taken, Deleting, Importing
  <2>6. CASE th[p].id = i /\ root[i] = None
    <3>1. root' = root /\ ~Puts(p, i)
      BY <1>0, <1>b, <2>3, <2>6 DEF RootInv
    <3> QED
      BY <1>d, <2>1, <2>2, <2>4, <3>1 DEF Puts, Taken, Deleting, Importing
  <2>7. CASE th[p].id = i /\ root[i] # None
    <3>1. root[i] = p /\ i \notin Registered(config)
      BY <1>9, <2>7 DEF Purge, Foreign
    <3>2. root'[i] = None
      BY <1>b, <2>3, <2>7
    <3>3. \A q \in Proc : ~Taken(q, i) /\ (q # p => ~Puts(q, i))
      BY <3>1 DEF RootInv
    <3>4. \A q \in Proc : ~Taken(q, i)' /\ ~Puts(q, i)' /\ ~Deleting(q, i)'
      BY <2>1, <2>2, <3>3 DEF Taken, Puts, Deleting, RootInv
    <3> QED
      BY <1>0, <2>1, <3>1, <3>2, <3>4 DEF RootInv
  <2> QED
    BY <2>5, <2>6, <2>7
<1>10. ASSUME NEW p \in Proc, Rollback(p) PROVE RootInv(i)'
  <2>1. /\ th[p] # None /\ th[p] \in Call /\ Grown(th[p]) /\ Sound(th[p]) /\ holder = p
        /\ th[p].op \in Locked /\ th[p].at = "rollback" /\ root' = RootBack(th[p])
        /\ \A j \in Id : j \in Registered(config') <=>
              IF j = th[p].id /\ th[p].wrote /\ th[p].op \in {"create", "merge"} THEN FALSE
              ELSE IF j = th[p].id /\ th[p].wrote /\ Deletes(th[p]) THEN j \in Registered(th[p].base)
              ELSE j \in Registered(config)
    BY <1>10, <1>a, RolledBackVaults DEF Rollback, Busy, Working
  <2>2. \A q \in Proc : q # p => th'[q] = th[q]
    BY <1>10, <1>b DEF Rollback
  <2>3. \/ th'[p] = None
        \/ th'[p] = [th[p] EXCEPT !.at = "purge"] /\ th[p].op = "undo"
    BY <1>10, <1>b DEF Rollback
  <2>4. /\ ~Puts(p, i)' /\ ~Taken(p, i)' /\ ~Deleting(p, i)' /\ ~Importing(p, i)'
        /\ ~Importing(p, i)
    BY <2>1, <2>3 DEF Puts, Taken, Deleting, Importing, Grown, Package, Call
  <2>5. CASE th[p].id # i
    <3>1. root'[i] = root[i]
      BY <1>b, <2>1, <2>5 DEF RootBack
    <3> QED
      BY <1>d, <2>1, <2>2, <2>4, <2>5, <3>1 DEF Puts, Taken
  <2>6. CASE th[p].id = i /\ th[p].op \in {"create", "merge"} /\ th[p].made
    <3>1. root'[i] = None
      BY <1>b, <2>1, <2>6 DEF RootBack
    <3>2. Puts(p, i) /\ root[i] = p /\ (i \in Registered(config) <=> th[p].wrote)
      BY <2>1, <2>6 DEF Puts, RootInv
    <3>3. \A q \in Proc : (q # p => ~Puts(q, i)) /\ ~Taken(q, i)
      BY <1>c, <2>1, <2>6, <3>2 DEF RootInv, Deletes
    <3>4. i \notin Registered(config')
      BY <2>1, <2>6, <3>2
    <3>5. \A q \in Proc : /\ ~Puts(q, i)' /\ ~Taken(q, i)' /\ ~Deleting(q, i)'
                          /\ Importing(q, i)' => Importing(q, i)
      BY <2>2, <2>4, <3>3 DEF Puts, Taken, Deleting, Importing, RootInv
    <3> QED
      BY <1>0, <3>1, <3>4, <3>5 DEF RootInv
  <2>7. CASE th[p].id = i /\ Deletes(th[p]) /\ th[p].tree # None
    <3>1. root[i] = None /\ Taken(p, i)
      BY <1>10, <2>1, <2>7 DEF Rollback, Taken
    <3>2. ~th[p].wrote
      BY <2>1, <2>7 DEF RootInv, Deleting
    <3>3. root'[i] = th[p].tree
      BY <1>b, <2>1, <2>7, <3>1 DEF RootBack, Deletes
    <3>4. i \in Registered(config) /\ i \in Registered(config')
      BY <2>1, <3>1, <3>2 DEF RootInv
    <3>5. \A q \in Proc : ~Puts(q, i) /\ (Taken(q, i) => q = p)
      BY <1>0, <1>c, <2>1, <3>1 DEF RootInv
    <3>6. \A q \in Proc : /\ ~Puts(q, i)' /\ ~Taken(q, i)' /\ ~Deleting(q, i)'
                          /\ Importing(q, i)' => Importing(q, i)
      BY <2>2, <2>4, <3>5 DEF Puts, Taken, Deleting, Importing, RootInv
    <3>7. \A q \in Proc : Importing(q, i)' => root'[i] # q
      BY <3>1, <3>3, <3>6 DEF RootInv
    <3> QED
      BY <2>7, <3>3, <3>4, <3>6, <3>7 DEF RootInv
  <2>8. CASE /\ th[p].id = i
             /\ ~(th[p].op \in {"create", "merge"} /\ th[p].made)
             /\ ~(Deletes(th[p]) /\ th[p].tree # None)
    <3>1. root' = root
      BY <2>1, <2>8 DEF RootBack, Deletes
    <3>2. ~Puts(p, i) /\ ~Taken(p, i)
      BY <2>1, <2>8 DEF Puts, Taken, Grown, Locked, Package
    <3>3. th[p].wrote => ~Deletes(th[p]) /\ th[p].op \notin {"create", "merge"}
      <4>1. th[p].wrote /\ Deletes(th[p]) => Deleting(p, i)
        BY <2>1, <2>8 DEF Deleting
      <4> QED
        BY <2>1, <2>8, <3>2, <4>1 DEF RootInv, Grown
    <3>4. i \in Registered(config') <=> i \in Registered(config)
      BY <2>1, <3>3
    <3> QED
      BY <1>d, <2>2, <2>4, <3>1, <3>2, <3>4
  <2> QED
    BY <2>5, <2>6, <2>7, <2>8
<1>11. CASE Crash
  <2>1. /\ root' = root /\ config' = config /\ \A q \in Proc : th'[q] = None
        /\ \A q \in Proc : th[q] # None /\ (th[q].made \/ th[q].tree # None) => th[q].id # i
    BY <1>11 DEF Crash
  <2>2. \A q \in Proc : ~Puts(q, i) /\ ~Taken(q, i)
    BY <2>1 DEF Puts, Taken
  <2>3. \A q \in Proc : ~Puts(q, i)' /\ ~Taken(q, i)' /\ ~Deleting(q, i)' /\ ~Importing(q, i)'
    BY <2>1 DEF Puts, Taken, Deleting, Importing
  <2> QED
    BY <2>1, <2>2, <2>3 DEF RootInv, Settled
<1>12. CASE UNCHANGED vars
  BY <1>12, SameFor DEF vars, Puts, Taken, Deleting, Importing
<1> QED
  BY <1>1, <1>2, <1>3, <1>4, <1>5, <1>6, <1>7, <1>8, <1>9, <1>10, <1>11, <1>12, <1>f DEF Next

-----------------------------------------------------------------------------
(* hurt and lost only grow. *)
LEMMA HistoryGrows == [Next]_vars => hurt \subseteq hurt' /\ (lost => lost')
<1> SUFFICES ASSUME [Next]_vars PROVE hurt \subseteq hurt' /\ (lost => lost')
  OBVIOUS
<1> USE DEF Unhurt
<1>1. ASSUME NEW p \in Proc,
             \/ Arrive(p) \/ Enter(p) \/ Blocked(p) \/ Check(p) \/ Promote(p) \/ Activate(p) \/ MoveAside(p)
             \/ ReadEtag(p) \/ WriteFails(p) \/ Answer(p) \/ ReadForRename(p) \/ ReadForImport(p)
             \/ MoveIn(p) \/ ImportFails(p) \/ FindTarget(p) \/ Adopt(p) \/ AdoptFails(p)
      PROVE  hurt' = hurt /\ lost' = lost
  BY <1>1 DEF Arrive, Enter, Blocked, Check, Promote, Activate, MoveAside, ReadEtag, WriteFails, Answer,
              ReadForRename, ReadForImport, MoveIn, ImportFails, FindTarget, Adopt, AdoptFails
<1>2. ASSUME NEW p \in Proc, Replace(p) \/ AnswerFails(p) \/ Rollback(p) \/ Purge(p) \/ CopyInto(p)
      PROVE  hurt \subseteq hurt' /\ (lost => lost')
  <2>1. CASE Replace(p)
    BY <2>1 DEF Replace
  <2>2. CASE AnswerFails(p)
    BY <2>2 DEF AnswerFails
  <2>3. CASE Rollback(p)
    <3>1. hurt \subseteq hurt'
      BY <2>3, SMT DEF Rollback
    <3>2. lost => lost'
      BY <2>3, Zenon DEF Rollback
    <3> QED
      BY <3>1, <3>2
  <2>4. CASE Purge(p) \/ CopyInto(p)
    BY <2>4 DEF Purge, CopyInto
  <2> QED
    BY <1>2, <2>1, <2>2, <2>3, <2>4
<1>3. CASE Crash
  BY <1>3 DEF Crash
<1>4. CASE UNCHANGED vars
  BY <1>4 DEF vars
<1> QED
  BY <1>1, <1>2, <1>3, <1>4 DEF Next

LEMMA RootsNext == TypeInv /\ GrownInv /\ RootsInv /\ [Next]_vars => GrownInv' /\ RootsInv'
<1> SUFFICES ASSUME TypeInv, GrownInv, RootsInv, [Next]_vars PROVE GrownInv' /\ RootsInv'
  OBVIOUS
<1>1. GrownInv'
  BY GrownNext
<1>2. ASSUME ~lost' PROVE /\ \A i \in Id : i \in hurt' \/ RootInv(i)'
                          /\ \A p \in Proc : BaseKept(p)'
  <2>1. ~lost /\ (\A i \in Id : i \in hurt \/ RootInv(i)) /\ \A p \in Proc : BaseKept(p)
    BY <1>2, HistoryGrows DEF RootsInv
  <2>2. \A p \in Proc : BaseKept(p)'
    BY <1>2, <2>1, BaseNext
  <2>3. ASSUME NEW i \in Id, i \notin hurt' PROVE RootInv(i)'
    BY <1>2, <2>1, <2>3, HistoryGrows, RootNext
  <2> QED
    BY <2>2, <2>3
<1> QED
  BY <1>1, <1>2 DEF RootsInv

(* At every moment a registered vault has its tree, and a tree at a root   *)
(* is a registered vault's, but for the ids a call is just moving or one   *)
(* of the named accidents has hit.                                         *)
THEOREM RootsAreRegistered == Spec => []RootsMatch
<1>1. RootsInv => RootsMatch
  <2> SUFFICES ASSUME RootsInv, ~lost, NEW i \in Id, i \notin hurt, ~InFlight(i)
               PROVE  (root[i] # None) = (i \in Registered(config))
    BY DEF RootsMatch
  <2>1. RootInv(i)
    BY DEF RootsInv
  <2>2. Settled(i)
    BY DEF Settled, Puts, Taken, InFlight
  <2> QED
    BY <2>1, <2>2 DEF RootInv
<1>2. Init => TypeInv /\ GrownInv /\ RootsInv
  BY TypeInit, RootsInit
<1>3. TypeInv /\ GrownInv /\ RootsInv /\ [Next]_vars => (TypeInv /\ GrownInv /\ RootsInv)'
  <2>1. TypeInv /\ [Next]_vars => TypeInv'
    BY CallsNext, PlacesNext DEF TypeInv
  <2> QED
    BY <2>1, RootsNext
<1> QED
  BY <1>1, <1>2, <1>3, PTL DEF Spec

-----------------------------------------------------------------------------
(* The vault the requests work in is registered and nobody takes its tree. *)
ActiveInv == lost \/ stale \/ (ctx \in Registered(config) /\ \A p \in Proc : ~Taken(p, ctx))

LEMMA ActiveNext ==
  ASSUME TypeInv, GrownInv, RootsInv, ContextInv, ActiveInv, [Next]_vars
  PROVE  ActiveInv'
<1> SUFFICES ASSUME ~lost', ~stale'
             PROVE  ctx' \in Registered(config)' /\ \A q \in Proc : ~Taken(q, ctx)'
  BY DEF ActiveInv
<1> USE DEF At, LockedAt, Go, Copying
<1>a. \A q \in Proc : th[q] # None => th[q] \in Call /\ Sound(th[q]) /\ Grown(th[q]) /\ (holder = q <=> Busy(th[q]))
  BY InCall DEF GrownInv
<1>b. th \in [Proc -> Call \cup {None}] /\ config.active \in Registered(config) /\ None \notin Proc
  BY VaultOK DEF TypeInv, CallsSound, PlacesOK, VaultOK
<1>c. \A q \in Proc, i \in Id : Taken(q, i) => holder = q /\ Deletes(th[q])
  BY <1>a DEF Taken, Grown, Deletes, Busy, Working, Locked
<1>l. ~lost
  BY HistoryGrows
(* A step that leaves the context and the config alone and takes no tree. *)
<1>d. ASSUME NEW p \in Proc, UNCHANGED <<ctx, config, lost, stale>>, \A q \in Proc : q # p => th'[q] = th[q],
             \/ th'[p] = None \/ ~Deletes(th'[p]) \/ th'[p].at \notin {"write", "replace", "rollback"}
             \/ th'[p].id # ctx \/ th'[p].tree = None
             \/ (th[p] # None /\ th[p].id = th'[p].id /\ th[p].tree = th'[p].tree /\ th[p].at \in {"write", "replace"}),
             Grown(th'[p]) \/ th'[p] = None
      PROVE  ctx' \in Registered(config)' /\ \A q \in Proc : ~Taken(q, ctx)'
  <2>1. ctx \in Registered(config) /\ \A q \in Proc : ~Taken(q, ctx)
    BY <1>d DEF ActiveInv
  <2>2. ASSUME NEW q \in Proc, Taken(q, ctx)' PROVE FALSE
    <3>1. CASE q # p
      BY <1>d, <2>1, <2>2, <3>1 DEF Taken
    <3>2. CASE q = p
      BY <1>d, <2>1, <2>2, <3>2 DEF Taken, Grown
    <3> QED
      BY <3>1, <3>2
  <2>3. ctx' \in Registered(config)'
    BY <1>d, <2>1 DEF Registered
  <2> QED
    BY <2>2, <2>3
<1>g. \A q \in Proc : th'[q] # None => Grown(th'[q])
  <2>1. GrownInv'
    BY GrownNext
  <2>2. \A q \in Proc : (th[q] # None => Grown(th[q]))'
    BY <2>1 DEF GrownInv
  <2> QED
    BY <2>2 DEF Grown, Deletes
<1>k. ASSUME NEW p \in Proc PROVE BaseKept(p)
  BY <1>l DEF RootsInv
<1>1. ASSUME NEW p \in Proc,
             \/ Arrive(p) \/ Enter(p) \/ Blocked(p) \/ Check(p) \/ Promote(p)
             \/ ReadEtag(p) \/ WriteFails(p) \/ Answer(p) \/ AnswerFails(p) \/ ReadForRename(p) \/ ReadForImport(p)
             \/ MoveIn(p) \/ ImportFails(p) \/ Purge(p) \/ FindTarget(p) \/ CopyInto(p) \/ Adopt(p) \/ AdoptFails(p)
      PROVE  ctx' \in Registered(config)' /\ \A q \in Proc : ~Taken(q, ctx)'
  <2>1. UNCHANGED <<ctx, config, lost, stale>>
    BY <1>1 DEF Unhurt, Arrive, Enter, Blocked, Check, Promote, ReadEtag, WriteFails, Answer, AnswerFails,
                ReadForRename, ReadForImport, MoveIn, ImportFails, Purge, FindTarget, CopyInto, Adopt, AdoptFails
  <2>2. \A q \in Proc : q # p => th'[q] = th[q]
    <3>1. CASE Arrive(p) \/ Enter(p) \/ Blocked(p) \/ Check(p) \/ Promote(p)
      BY <1>b, <3>1 DEF Arrive, Enter, Blocked, Check, Promote
    <3>2. CASE ReadEtag(p) \/ Answer(p) \/ AnswerFails(p)
      BY <1>b, <3>2 DEF ReadEtag, Answer, AnswerFails, Over
    <3>5. CASE WriteFails(p)
      <4>1. th[p].op \in Locked \/ th[p].op \in Package \/ th[p].op = "rename"
        BY <1>a, <3>5 DEF WriteFails, Call, Op
      <4> QED
        BY <1>b, <3>5, <4>1 DEF WriteFails
    <3>3. CASE ReadForRename(p) \/ ReadForImport(p) \/ MoveIn(p) \/ ImportFails(p)
      BY <1>b, <3>3 DEF ReadForRename, ReadForImport, MoveIn, ImportFails
    <3>4. CASE Purge(p) \/ FindTarget(p) \/ CopyInto(p) \/ Adopt(p) \/ AdoptFails(p)
      BY <1>b, <3>4 DEF Purge, FindTarget, CopyInto, Adopt, AdoptFails
    <3> QED
      BY <1>1, <3>1, <3>2, <3>3, <3>4, <3>5
  <2>3. CASE Arrive(p) \/ Blocked(p) \/ Purge(p) \/ FindTarget(p) \/ CopyInto(p) \/ Adopt(p) \/ Answer(p) \/ Enter(p) \/ AdoptFails(p) \/ ReadForImport(p)
    <3>1. th'[p] = None \/ th'[p].at \notin {"write", "replace", "rollback"}
      BY <2>3, <1>a, <1>b DEF Arrive, Blocked, Purge, FindTarget, CopyInto, Adopt, Answer, Over, Enter, AdoptFails, ReadForImport, Call
    <3> QED
      BY <1>d, <1>g, <2>1, <2>2, <3>1
  <2>4. CASE Check(p) \/ Promote(p) \/ AnswerFails(p) \/ ReadForRename(p) \/ MoveIn(p) \/ ImportFails(p)
    <3>1. th[p] # None /\ th[p] \in Call /\ Grown(th[p]) /\ (th[p].at = "list" \/ th[p].tree = None)
      BY <2>4, <1>a DEF Check, Promote, AnswerFails, ReadForRename, MoveIn, ImportFails, Grown
    <3>2. th'[p] = None \/ th'[p].tree = None
      BY <2>4, <1>b, <3>1 DEF Check, Promote, AnswerFails, ReadForRename, MoveIn, ImportFails, Call
    <3> QED
      BY <1>d, <1>g, <2>1, <2>2, <3>2
  <2>5. CASE ReadEtag(p) \/ WriteFails(p)
    <3>1. th[p] # None /\ th[p] \in Call /\ th[p].at \in {"write", "replace"}
      BY <2>5, <1>a DEF ReadEtag, WriteFails
    <3>2. th'[p] = None \/ (th[p].id = th'[p].id /\ th[p].tree = th'[p].tree)
      <4>1. CASE ReadEtag(p)
        BY <4>1, <1>b, <3>1 DEF ReadEtag, Call, Op
      <4>2. CASE WriteFails(p)
        <5>1. th'[p] \in {None, [th[p] EXCEPT !.at = "rollback"], [th[p] EXCEPT !.at = "purge"]}
          BY <4>2, <1>b, <3>1 DEF WriteFails, Go, Call, Op
        <5> QED
          BY <5>1, <3>1 DEF Call
      <4> QED
        BY <2>5, <4>1, <4>2
    <3> QED
      BY <1>d, <1>g, <2>1, <2>2, <3>1, <3>2
  <2> QED
    BY <1>1, <2>3, <2>4, <2>5
<1>2. ASSUME NEW p \in Proc, Activate(p)
      PROVE  ctx' \in Registered(config)' /\ \A q \in Proc : ~Taken(q, ctx)'
  <2>1. /\ th[p] # None /\ th[p] \in Call /\ Sound(th[p]) /\ Grown(th[p]) /\ th[p].op = "activate" /\ th[p].at = "act"
        /\ holder = p /\ Busy(th[p]) /\ ctx' = th[p].id /\ config' = config
    BY <1>2, <1>a DEF Activate, Busy, Working, Locked
  <2>2. th[p].id \in Registered(config)
    BY <1>k, <2>1 DEF BaseKept, Grown, Sound, Locked
  <2>3. \A q \in Proc : (q # p => th'[q] = th[q]) /\ (th'[p] = None \/ th'[p].tree = None)
    BY <1>2, <1>b, <2>1 DEF Activate, Grown, Call
  <2>4. \A q \in Proc : ~Taken(q, ctx)'
    <3>1. ASSUME NEW q \in Proc, Taken(q, ctx)' PROVE FALSE
      <4>1. q # p
        BY <2>3, <3>1 DEF Taken
      <4>2. Taken(q, th[p].id) /\ th[p].id \in Id
        BY <2>1, <2>3, <3>1, <4>1 DEF Taken, Call
      <4> QED
        BY <1>c, <2>1, <4>1, <4>2
    <3> QED
      BY <3>1
  <2> QED
    BY <2>1, <2>2, <2>4 DEF Registered
<1>3. ASSUME NEW p \in Proc, MoveAside(p)
      PROVE  ctx' \in Registered(config)' /\ \A q \in Proc : ~Taken(q, ctx)'
  <2>1. /\ th[p] # None /\ th[p] \in Call /\ Sound(th[p]) /\ Grown(th[p]) /\ Deletes(th[p]) /\ th[p].at = "act"
        /\ holder = p /\ Busy(th[p]) /\ UNCHANGED <<ctx, config, lost, stale>>
    BY <1>3, <1>a DEF MoveAside, Unhurt, Busy, Working, Locked, Deletes
  <2>2. ctx = config.active /\ th[p].base.active = config.active /\ th[p].id # th[p].base.active
    <3>1. ctx = config.active
      BY <1>3, <2>1 DEF ContextInv
    <3>2. th[p].base.active = config.active
      BY <1>k, <2>1 DEF BaseKept, Grown
    <3>3. th[p].id # th[p].base.active
      BY <2>1 DEF Sound, Deletes, Locked
    <3> QED
      BY <3>1, <3>2, <3>3
  <2>3. \A q \in Proc : (q # p => th'[q] = th[q]) /\ (th'[p] = None \/ th'[p].id = th[p].id)
    BY <1>3, <1>b, <2>1 DEF MoveAside, Call
  <2> QED
    BY <1>d, <1>g, <2>1, <2>2, <2>3
<1>4. ASSUME NEW p \in Proc, Replace(p)
      PROVE  ctx' \in Registered(config)' /\ \A q \in Proc : ~Taken(q, ctx)'
  <2>1. /\ ctx' = ctx /\ stale' = stale /\ th[p] # None /\ th[p] \in Call /\ Grown(th[p]) /\ Sound(th[p]) /\ th[p].at = "replace"
        /\ SameVaults(config, th[p].base)
        /\ \A j \in Id : j \in Registered(config') <=>
              IF j = th[p].id /\ th[p].op # "activate" THEN ~Deletes(th[p]) ELSE j \in Registered(config)
    BY <1>4, ReplacedVaults DEF Replace
  <2>2. ctx \in Registered(config) /\ ctx \in Id /\ \A q \in Proc : ~Taken(q, ctx)
    BY <1>l, <2>1 DEF ActiveInv, Registered
  <2>3. Deletes(th[p]) => ctx # th[p].id
    <3>1. Deletes(th[p]) => holder = p /\ th[p].op # "activate"
      BY <1>a, <2>1 DEF Busy, Working, Deletes, Locked
    <3>2. Deletes(th[p]) => ctx = config.active
      BY <1>l, <2>1, <3>1 DEF ContextInv
    <3> QED
      BY <2>1, <3>2 DEF Sound, SameVaults, Deletes, Locked
  <2>4. ctx \in Registered(config')
    BY <2>1, <2>2, <2>3
  <2>5. \A q \in Proc : (q # p => th'[q] = th[q]) /\ (th'[p] = None \/ th'[p].at = "list")
    BY <1>4, <1>b, <2>1 DEF Replace, Call
  <2>6. \A q \in Proc : ~Taken(q, ctx)'
    BY <2>1, <2>2, <2>5 DEF Taken
  <2> QED
    BY <2>1, <2>4, <2>6 DEF Registered
<1>5. ASSUME NEW p \in Proc, Rollback(p)
      PROVE  ctx' \in Registered(config)' /\ \A q \in Proc : ~Taken(q, ctx)'
  <2>1. /\ th[p] # None /\ th[p] \in Call /\ Sound(th[p]) /\ holder = p
        /\ config' = th[p].base /\ ctx' = th[p].from /\ th[p].from = th[p].base.active
    <3>1. th[p] # None /\ th[p] \in Call /\ Sound(th[p]) /\ config' = th[p].base
      BY <1>5, RolledBackVaults
    <3>2. holder = p /\ ctx' = th[p].from
      BY <1>5, <1>a DEF Rollback, ContextBack, Busy, Working
    <3>3. th[p].from = th[p].base.active
      BY <1>5, Zenon DEF Rollback
    <3> QED
      BY <3>1, <3>2, <3>3
  <2>2. \A q \in Proc : (q # p => th'[q] = th[q]) /\ (th'[p] = None \/ th'[p].at = "purge")
    BY <1>5, <1>b, <2>1 DEF Rollback, Call
  <2>3. ctx' \in Id
    BY <2>1 DEF Call
  <2>4. ASSUME NEW q \in Proc, Taken(q, ctx)' PROVE FALSE
    <3>1. q # p
      BY <2>2, <2>4 DEF Taken
    <3>2. Taken(q, ctx')
      BY <2>2, <2>4, <3>1 DEF Taken
    <3> QED
      BY <1>c, <2>1, <2>3, <3>1, <3>2
  <2> QED
    BY <2>1, <2>4 DEF Sound, Registered
<1>6. CASE Crash
  BY <1>6, <1>b DEF Crash, Taken, Registered
<1>7. CASE UNCHANGED vars
  BY <1>7, <1>l DEF vars, ActiveInv, Taken, Registered
<1> QED
  BY <1>1, <1>2, <1>3, <1>4, <1>5, <1>6, <1>7 DEF Next

(* No order of creates, switches, deletes and failures takes the files of  *)
(* the vault the requests work in away from under them.                    *)
THEOREM ActiveKeepsItsRoot == Spec => []ActiveRooted
<1>1. TypeInv /\ RootsInv /\ ActiveInv => ActiveRooted
  <2> SUFFICES ASSUME TypeInv, RootsInv, ActiveInv, ~lost, ~stale, ctx \notin hurt PROVE root[ctx] # None
    BY DEF ActiveRooted
  <2>1. ctx \in Id /\ RootInv(ctx) /\ ctx \in Registered(config) /\ (\A p \in Proc : ~Taken(p, ctx)) /\ None \notin Proc
    BY VaultOK DEF TypeInv, PlacesOK, RootsInv, ActiveInv, VaultOK
  <2>2. CASE Settled(ctx)
    BY <2>1, <2>2 DEF RootInv
  <2>3. CASE ~Settled(ctx)
    BY <2>1, <2>3 DEF RootInv, Settled
  <2> QED
    BY <2>2, <2>3
<1>2. Init => TypeInv /\ GrownInv /\ RootsInv /\ ContextInv /\ ActiveInv
  <2> SUFFICES ASSUME Init PROVE ContextInv /\ ActiveInv
    BY TypeInit, RootsInit
  <2>1. /\ Default \in Id /\ None \notin Id \cup Proc \cup Name /\ holder = None /\ ctx = Default
        /\ \A p \in Proc : th[p] = None
    BY VaultOK DEF Init, VaultOK
  <2>2. config.active = Default /\ Default \in Registered(config)
    BY <2>1 DEF Init, Registered, Name
  <2> QED
    BY <2>1, <2>2 DEF ContextInv, ActiveInv, Taken
<1>3. /\ TypeInv /\ GrownInv /\ RootsInv /\ ContextInv /\ ActiveInv /\ [Next]_vars
      => (TypeInv /\ GrownInv /\ RootsInv /\ ContextInv /\ ActiveInv)'
  <2>1. TypeInv /\ [Next]_vars => TypeInv'
    BY CallsNext, PlacesNext DEF TypeInv
  <2> QED
    BY <2>1, RootsNext, ContextNext, ActiveNext
<1> QED
  BY <1>1, <1>2, <1>3, PTL DEF Spec

-----------------------------------------------------------------------------
(***************************************************************************)
(* Why a repair harms no item and heals what it says (VaultHealth).  Every *)
(* thread stands where its call can be (HealthTypeInv).  The audit has     *)
(* read the row of every item that is not late, so that what it lists as   *)
(* an orphan is no file of theirs (Valid), and their files are where       *)
(* they were or in the hands of a delete (RowsKept).  What a repair has    *)
(* established of an item nobody else works on (Course) grows step by step *)
(* until the audit after it.                                               *)
(***************************************************************************)
RepairStep == {"scan", "rows", "thumbs", "make", "set", "tagging", "tags", "tag", "derived",
               "quarantine", "done"}
IngestStep == {"store", "commit", "publish", "ready", "failed"}
ShowStep == {"try", "make", "mark"}
Statuses == {"ready", "failed", "pending", "skipped"}
Doing == [op : {"none", "repair"} \cup HealthOp, at : {"idle", "drop"} \cup RepairStep \cup IngestStep \cup ShowStep,
          item : Item \cup {Nobody}, rows : SUBSET Item, failed : SUBSET Item, folder : 0..4,
          orphans : SUBSET File, todo : SUBSET Item,
          seen : {<<>>} \cup (SUBSET Item) \X [Item -> Statuses],
          made : SUBSET Item, unmade : SUBSET Item, untagged : SUBSET Item,
          issues : SUBSET File, staged : SUBSET File]

(* Where a thread may stand, and what it holds there. *)
CourseOf(p, c) ==
    /\ c.op = "none" => c = Idle
    /\ c.op = "repair" => /\ p \in Repairers /\ c.at \in RepairStep
                          /\ c.at \in {"make", "set", "tag"} => c.item \in Item
                          /\ c.at = "scan" => c.folder \in 1..4
    /\ c.op # "repair" => c.orphans = {} /\ c.todo = {} /\ c.made = {}
    /\ c.op \in HealthOp => p \in Callers /\ c.item \in Item
    /\ c.op = "ingest" => c.at \in IngestStep
    /\ c.op = "delete" => c.at = "drop" /\ \A f \in c.staged : f.item = c.item
    /\ c.op = "thumb" => c.at \in ShowStep

HealthTypeInv ==
    /\ items \subseteq Item /\ gone \subseteq Item
    /\ status \in [Item -> Statuses]
    /\ writer \in Thread \cup {Nobody}
    /\ files \subseteq File /\ old \subseteq Item
    /\ lock \in [Item -> Thread \cup {Nobody}]
    /\ doing \in [Thread -> Doing] /\ \A p \in Thread : CourseOf(p, doing[p])
    /\ late \subseteq Item /\ condemned \subseteq Item /\ taken \subseteq Item

-----------------------------------------------------------------------------
Stores(c) == c.at \in {"store", "commit"}

(* An item is in the table, or being stored. *)
Here(h) == h \in items \/ \E q \in Thread : Stores(doing[q]) /\ doing[q].item = h

(* The item that is being stored is new, the one write transaction is the
   thread's that stores it, and its files are there. *)
StoreOf(p, c) ==
    Stores(c) =>
        /\ writer = p /\ c.item \notin items \cup gone
        /\ c.item \in late \cup taken \/ Has("asset", c.item)
        /\ c.item \in late \cup taken \/ c.at = "store" \/ Has("note", c.item)

(* What a thread works on otherwise is an item, or was one. *)
KnownOf(c) ==
    /\ c.todo \cup c.made \subseteq items \cup gone
    /\ c.at \in {"publish", "ready", "failed"} \/ (c.op = "repair" /\ c.at = "make")
         => c.item \in items \cup gone

(* An audit has read the rows of everything but what is late. *)
RowsOf(c) ==
    c.at = "scan" => c.failed \subseteq condemned /\ \A h \in Item : Here(h) => h \in c.rows \cup late

(* What may be listed as an orphan of an item that is not late. *)
Spare(f) == f.kind = "wd" \/ (f.kind = "thumb" /\ (f.item \in condemned \/ f.item \notin Media))
OrphansOf(c) ==
    \A f \in c.orphans : f.home /\ Here(f.item) => f.item \in late \/ Spare(f)

Valid(p) ==
    /\ StoreOf(p, doing[p]) /\ KnownOf(doing[p]) /\ RowsOf(doing[p]) /\ OrphansOf(doing[p])

(* A file is there, or a delete that can put it back has it. *)
Kept(k, h) ==
    Has(k, h) \/ \E q \in Thread : /\ doing[q].at = "drop" /\ doing[q].item = h
                                   /\ Home(k, h) \in doing[q].staged

(* The table calls the thumbnail ready, or is about to. *)
Ready(h) ==
    \/ status[h] = "ready"
    \/ \E p \in Thread : h \in doing[p].made \/ (doing[p].at = "ready" /\ doing[p].item = h)

RowsKept ==
    \A h \in items \ (late \cup taken) :
        /\ Kept("asset", h) /\ Kept("note", h)
        /\ h \in Media /\ Ready(h) /\ h \notin condemned => Kept("thumb", h)

FilesInv == RowsKept /\ \A p \in Thread : Valid(p)

-----------------------------------------------------------------------------
(* What the table accounts for, whatever became of thumbnails. *)
Wanted(f) ==
    f.home /\ f.item \in items /\ (f.kind \in Derived => f.item \in Media)

Listed(c, h) == \A f \in files : f.item = h => Wanted(f) \/ f \in c.orphans

(* What the audit after a repair may still find of an item. *)
Excused(c, f) ==
    \/ f = Home("thumb", f.item) /\ f.item \in c.unmade
    \/ /\ f \notin files
       /\ \/ ~Has("asset", f.item)
          \/ f.kind = "wd" /\ f.item \in c.untagged
          \/ f.kind = "thumb" /\ f.item \in condemned

(* A thumbnail that stays marked failed is not there, or will go. *)
Given(c, h) ==
    h \in items /\ status[h] = "failed" =>
        \/ h \in c.unmade
        \/ c.at \in {"thumbs", "make", "set"} /\ h \in c.made
        \/ Has("thumb", h) => Home("thumb", h) \in c.orphans

(* What a repair has established of an item whose row and files nobody else
   has changed. *)
Course(c, h) ==
    /\ \A f \in c.orphans : f.item = h => ~Wanted(f) \/ (f = Home("thumb", h) /\ h \in condemned)
    /\ h \in c.todo \/ (c.at \in {"make", "set", "tag"} /\ c.item = h) => h \in items \cap Media
    /\ c.at = "scan" =>
          /\ (h \in c.rows <=> h \in items) /\ (h \in c.failed <=> h \in items /\ status[h] = "failed")
          /\ h \in c.failed => h \in condemned
          /\ \A f \in files : f.item = h /\ (\E i \in 1..(c.folder - 1) : Folder[i] = f.kind)
                => Wanted(f) \/ f \in c.orphans
    /\ c.at # "scan" => Listed(c, h) /\ Given(c, h)
    /\ h \in items \cap Media /\ Has("asset", h) =>
          /\ \/ c.at \in {"scan", "rows"}
             \/ c.at \in {"thumbs", "make"} /\ (h \in c.todo \/ (c.at = "make" /\ c.item = h))
             \/ c.at = "set" /\ h \in c.todo
             \/ Has("thumb", h) \/ h \in c.unmade \cup condemned
          /\ c.at \in {"derived", "quarantine"} \/ (c.at \in {"tags", "tag"} /\ h \notin c.todo
                                                     /\ ~(c.at = "tag" /\ c.item = h))
             => Has("wd", h) \/ h \in c.untagged
    /\ c.at = "done" => \A f \in c.issues : f.item = h => Excused(c, f)

HealInv ==
    \A p \in Repairers : doing[p].op = "repair" =>
        \A h \in Item \ touched[p] : Course(doing[p], h)

-----------------------------------------------------------------------------
(* A thread that moves on as it should leaves the others as they are. *)
LEMMA BecomeOK ==
  ASSUME HealthTypeInv, NEW p \in Thread, NEW c \in Doing, CourseOf(p, c), Become(p, c)
  PROVE  /\ doing' \in [Thread -> Doing] /\ \A q \in Thread : CourseOf(q, doing'[q])
         /\ doing'[p] = c /\ \A q \in Thread : q # p => doing'[q] = doing[q]
BY DEF HealthTypeInv, Become

LEMMA IdleOK == Idle \in Doing /\ \A p \in Thread : CourseOf(p, Idle)
BY DEF Idle, Doing, CourseOf, HealthOp

(* What a step says of where it stands says what the thread is doing. *)
LEMMA OpOf ==
  ASSUME HealthTypeInv, NEW p \in Thread
  PROVE  LET c == doing[p] IN
         /\ c \in Doing /\ CourseOf(p, c)
         /\ c.at \in RepairStep \ {"make"} => c.op = "repair" /\ p \in Repairers
         /\ c.at \in IngestStep => c.op = "ingest" /\ p \in Callers /\ c.item \in Item
         /\ c.at = "drop" => c.op = "delete" /\ p \in Callers /\ c.item \in Item
         /\ c.at \in {"try", "mark"} => c.op = "thumb" /\ p \in Callers /\ c.item \in Item
         /\ c.op \in {"none", "repair"} \cup HealthOp
<1> DEFINE c == doing[p]
<1>1. c \in Doing /\ CourseOf(p, c)
  BY DEF HealthTypeInv
<1>2. c.op \in {"none", "repair", "ingest", "delete", "thumb"}
  BY <1>1 DEF Doing, HealthOp
<1> HIDE DEF c
<1>3. /\ c.at \in RepairStep \ {"make"} => c.op = "repair" /\ p \in Repairers
      /\ c.at \in IngestStep => c.op = "ingest" /\ p \in Callers /\ c.item \in Item
      /\ c.at = "drop" => c.op = "delete" /\ p \in Callers /\ c.item \in Item
      /\ c.at \in {"try", "mark"} => c.op = "thumb" /\ p \in Callers /\ c.item \in Item
  BY <1>1, <1>2 DEF CourseOf, Idle, RepairStep, IngestStep, ShowStep, HealthOp
<1> QED
  BY <1>1, <1>2, <1>3 DEF c, HealthOp

(* What a step of a repair makes of the thread. *)
LEMMA RepairMoves ==
  ASSUME HealthTypeInv, NEW p \in Repairers, Repair(p)
  PROVE  \E c \in Doing : CourseOf(p, c) /\ Become(p, c)
<1> DEFINE d == doing[p]
<1>0. /\ p \in Thread /\ d \in Doing /\ CourseOf(p, d) /\ items \subseteq Item /\ files \subseteq File
      /\ status \in [Item -> Statuses]
  BY DEF HealthTypeInv, Thread
<1>1. d.at \in RepairStep \ {"make"} => d.op = "repair"
  BY <1>0, OpOf
<1>2. Idle \in Doing /\ CourseOf(p, Idle)
  BY <1>0, IdleOK
<1>a. CASE AuditRows(p)
  <2> DEFINE c == [Idle EXCEPT !.op = "repair", !.at = "scan", !.rows = items, !.failed = Failed,
                               !.folder = 1]
  <2>1. Become(p, c)
    BY <1>a DEF AuditRows
  <2>2. c \in Doing
    <3>1. /\ Failed \in SUBSET Item /\ items \in SUBSET Item /\ 1 \in 0..4
          /\ "scan" \in {"idle", "drop"} \cup RepairStep \cup IngestStep \cup ShowStep
          /\ "repair" \in {"none", "repair"} \cup HealthOp
      BY <1>0 DEF Failed, RepairStep
    <3> HIDE DEF Failed
    <3> QED
      BY <1>0, <1>2, <3>1 DEF Doing
  <2>3. CourseOf(p, c)
    BY <1>0 DEF CourseOf, Idle, RepairStep, HealthOp
  <2> QED
    BY <2>1, <2>2, <2>3
<1>b. CASE AuditScan(p)
  <2> DEFINE k == Folder[d.folder]
             found == {f \in files : f.kind = k} \ Expected(d.rows, d.failed)
             b == [Idle EXCEPT !.op = "repair", !.at = "rows", !.orphans = d.orphans \cup found]
             c == [d EXCEPT !.orphans = @ \cup found, !.folder = @ + 1]
  <2>1. d.at = "scan" /\ d.op = "repair" /\ d.folder \in 1..4
    BY <1>0, <1>1, <1>b DEF AuditScan, RepairStep, CourseOf
  <2>2. found \subseteq File /\ d.orphans \subseteq File
    BY <1>0 DEF Doing
  <2>3. CASE k = "thumb"
    <3>1. Become(p, b)
      BY <1>b, <2>3 DEF AuditScan
    <3> HIDE DEF found
    <3>2. b \in Doing
      BY <1>0, <1>2, <2>2 DEF Doing, RepairStep
    <3>3. CourseOf(p, b)
      BY <1>0 DEF Idle, CourseOf, RepairStep, HealthOp
    <3> QED
      BY <3>1, <3>2, <3>3
  <2>4. CASE k # "thumb"
    <3>1. Become(p, c)
      BY <1>b, <2>4 DEF AuditScan
    <3>2. d.folder \in 1..3
      BY <2>1, <2>4 DEF Folder
    <3> HIDE DEF found, k
    <3>3. c \in Doing
      <4>1. d.folder + 1 \in 0..4 /\ d.orphans \cup found \in SUBSET File
        BY <2>2, <3>2
      <4> QED
        BY <1>0, <4>1 DEF Doing
    <3>4. /\ c.op = "repair" /\ c.at = "scan" /\ c.folder \in 1..4
      BY <1>0, <2>1, <3>2 DEF Doing
    <3>5. CourseOf(p, c)
      BY <3>4 DEF CourseOf, RepairStep, HealthOp
    <3> QED
      BY <3>1, <3>3, <3>5
  <2> QED
    BY <2>3, <2>4
<1>r. ASSUME NEW c \in Doing, Become(p, c), c.op = "repair", c.at \in RepairStep \ {"scan"},
             c.at \in {"make", "set", "tag"} => c.item \in Item
      PROVE  \E x \in Doing : CourseOf(p, x) /\ Become(p, x)
  BY <1>r DEF CourseOf, HealthOp
<1>i. ASSUME Become(p, Idle) PROVE \E x \in Doing : CourseOf(p, x) /\ Become(p, x)
  BY <1>2, <1>i
<1>c. CASE ThumbRows(p)
  <2> DEFINE c == [d EXCEPT !.at = "thumbs", !.todo = items \cap Media, !.seen = <<items, status>>]
  <2>1. Become(p, c) /\ d.op = "repair"
    BY <1>1, <1>c DEF ThumbRows, RepairStep
  <2>2. c \in Doing
    BY <1>0 DEF Doing, RepairStep
  <2>3. c.op = "repair" /\ c.at = "thumbs"
    BY <1>0, <2>1 DEF Doing
  <2> HIDE DEF c
  <2> QED
    BY <1>r, <2>1, <2>2, <2>3 DEF RepairStep
<1>d. ASSUME NEW h \in Item, ThumbTake(p, h) \/ TagTake(p, h)
      PROVE  \E x \in Doing : CourseOf(p, x) /\ Become(p, x)
  <2>1. PICK a \in {"make", "tag"} : \/ Become(p, [d EXCEPT !.todo = @ \ {h}])
                                     \/ Become(p, [d EXCEPT !.todo = @ \ {h}, !.item = h, !.at = a])
    BY <1>d DEF ThumbTake, TagTake
  <2>2. d.at \in {"thumbs", "tags"} /\ d.op = "repair"
    BY <1>1, <1>d DEF ThumbTake, TagTake, RepairStep
  <2>3. CASE Become(p, [d EXCEPT !.todo = @ \ {h}])
    <3> DEFINE c == [d EXCEPT !.todo = @ \ {h}]
    <3>1. c \in Doing /\ c.op = "repair" /\ c.at = d.at
      BY <1>0, <2>2 DEF Doing
    <3> HIDE DEF c
    <3> QED
      BY <1>r, <2>2, <2>3, <3>1 DEF RepairStep, c
  <2>4. CASE Become(p, [d EXCEPT !.todo = @ \ {h}, !.item = h, !.at = a])
    <3> DEFINE c == [d EXCEPT !.todo = @ \ {h}, !.item = h, !.at = a]
    <3>1. c \in Doing /\ c.op = "repair" /\ c.at = a /\ c.item = h
      BY <1>0, <2>2 DEF Doing, RepairStep
    <3> HIDE DEF c
    <3> QED
      BY <1>r, <2>4, <3>1 DEF RepairStep, c
  <2> QED
    BY <2>1, <2>3, <2>4
<1>e. CASE ThumbMake(p)
  <2> DEFINE c == [d EXCEPT !.at = "set", !.made = @ \cup {d.item}]
             b == [d EXCEPT !.at = "set", !.unmade = @ \cup {d.item}]
  <2>1. d.op = "repair" /\ d.at = "make" /\ d.item \in Item /\ (Become(p, c) \/ Become(p, b))
    BY <1>0, <1>e DEF ThumbMake, CourseOf
  <2>2. c \in Doing /\ c.op = "repair" /\ c.at = "set" /\ c.item = d.item
    BY <1>0, <2>1 DEF Doing, RepairStep
  <2>3. b \in Doing /\ b.op = "repair" /\ b.at = "set" /\ b.item = d.item
    BY <1>0, <2>1 DEF Doing, RepairStep
  <2> HIDE DEF b, c
  <2> QED
    BY <1>r, <2>1, <2>2, <2>3 DEF RepairStep
<1>f. CASE ThumbSet(p)
  <2> DEFINE c == [d EXCEPT !.at = "thumbs", !.item = Nobody]
  <2>1. d.op = "repair" /\ Become(p, c)
    BY <1>f DEF ThumbSet
  <2>2. c \in Doing /\ c.op = "repair" /\ c.at = "thumbs"
    BY <1>0, <2>1 DEF Doing, RepairStep
  <2> HIDE DEF c
  <2> QED
    BY <1>r, <2>1, <2>2 DEF RepairStep
<1>g. CASE ThumbSetFails(p) \/ Report(p)
  BY <1>g, <1>i DEF ThumbSetFails, Report
<1>h. CASE ThumbCommit(p)
  <2> DEFINE c == [d EXCEPT !.at = "tagging", !.seen = <<>>, !.made = {}]
  <2>1. d.op = "repair" /\ Become(p, c)
    BY <1>1, <1>h DEF ThumbCommit, RepairStep
  <2>2. c \in Doing /\ c.op = "repair" /\ c.at = "tagging"
    BY <1>0, <2>1 DEF Doing, RepairStep
  <2> HIDE DEF c
  <2> QED
    BY <1>r, <2>1, <2>2 DEF RepairStep
<1>j. CASE TagRows(p)
  <2> DEFINE c == [d EXCEPT !.at = "tags", !.todo = items \cap Media]
  <2>1. d.op = "repair" /\ Become(p, c)
    BY <1>1, <1>j DEF TagRows, RepairStep
  <2>2. c \in Doing /\ c.op = "repair" /\ c.at = "tags"
    BY <1>0, <2>1 DEF Doing, RepairStep
  <2> HIDE DEF c
  <2> QED
    BY <1>r, <2>1, <2>2 DEF RepairStep
<1>k. CASE TagMake(p)
  <2> DEFINE r == [d EXCEPT !.at = "tags", !.item = Nobody]
             b == [r EXCEPT !.untagged = @ \cup {d.item}]
  <2>1. d.op = "repair" /\ d.at = "tag" /\ d.item \in Item /\ (Become(p, r) \/ Become(p, b))
    BY <1>0, <1>1, <1>k DEF TagMake, RepairStep, CourseOf
  <2>2. r \in Doing /\ r.op = "repair" /\ r.at = "tags"
    BY <1>0, <2>1 DEF Doing, RepairStep
  <2> HIDE DEF r
  <2>3. b \in Doing /\ b.op = "repair" /\ b.at = "tags"
    BY <2>1, <2>2 DEF Doing
  <2> HIDE DEF b
  <2> QED
    BY <1>r, <2>1, <2>2, <2>3 DEF RepairStep
<1>l. CASE TagEnd(p) \/ DerivedEnd(p)
  <2>1. PICK a \in {"derived", "quarantine"} : Become(p, [d EXCEPT !.at = a])
    BY <1>l DEF TagEnd, DerivedEnd, MoveOn
  <2> DEFINE c == [d EXCEPT !.at = a]
  <2>2. d.op = "repair"
    BY <1>1, <1>l DEF TagEnd, DerivedEnd, RepairStep
  <2>3. c \in Doing /\ c.op = "repair" /\ c.at = a
    BY <1>0, <2>2 DEF Doing, RepairStep
  <2>4. Become(p, c)
    BY <2>1
  <2> HIDE DEF c
  <2> QED
    BY <1>r, <2>3, <2>4 DEF RepairStep
<1>m. CASE AuditAfter(p)
  <2> DEFINE c == [d EXCEPT !.at = "done", !.issues = Issues]
  <2>1. d.op = "repair" /\ Become(p, c)
    BY <1>1, <1>m DEF AuditAfter, RepairStep
  <2>2. Issues \subseteq File
    <3>1. \A k \in Kind, h \in items : Home(k, h) \in File
      BY <1>0 DEF Home, File
    <3>2. Expected(items, Failed) \subseteq File
      <4> HIDE DEF Failed
      <4> QED
        BY <3>1 DEF Expected, Kind
    <3> QED
      BY <1>0, <3>2 DEF Issues
  <2>3. c \in Doing /\ c.op = "repair" /\ c.at = "done"
    <3> HIDE DEF Issues
    <3> QED
      BY <1>0, <2>1, <2>2 DEF Doing, RepairStep
  <2> HIDE DEF c
  <2> QED
    BY <1>r, <2>1, <2>3 DEF RepairStep
<1>n. ASSUME NEW f \in File, Discard(p, f)
      PROVE  \E x \in Doing : CourseOf(p, x) /\ Become(p, x)
  <2> DEFINE c == [d EXCEPT !.orphans = @ \ {f}]
  <2>1. d.at \in {"derived", "quarantine"} /\ d.op = "repair" /\ Become(p, c)
    BY <1>1, <1>n DEF Discard, RepairStep
  <2>2. c \in Doing /\ c.op = "repair" /\ c.at = d.at
    BY <1>0, <2>1 DEF Doing
  <2> HIDE DEF c
  <2> QED
    BY <1>r, <2>1, <2>2 DEF RepairStep
<1> QED
  BY <1>a, <1>b, <1>c, <1>d, <1>e, <1>f, <1>g, <1>h, <1>j, <1>k, <1>l, <1>m, <1>n DEF Repair

(* What a step of another call makes of its thread. *)
LEMMA ServeMoves ==
  ASSUME HealthTypeInv, NEW p \in Callers, Serve(p)
  PROVE  \E c \in Doing : CourseOf(p, c) /\ Become(p, c)
<1> DEFINE d == doing[p]
<1>0. /\ p \in Thread /\ d \in Doing /\ CourseOf(p, d) /\ items \subseteq Item /\ files \subseteq File
      /\ HealthOps \subseteq HealthOp
  BY HealthOK DEF HealthTypeInv, Thread, HealthOK
<1>1. Idle \in Doing /\ CourseOf(p, Idle)
  BY <1>0, IdleOK
<1>2. /\ d.at \in IngestStep => d.op = "ingest" /\ d.item \in Item
      /\ d.at \in {"try", "mark"} => d.op = "thumb" /\ d.item \in Item
  BY <1>0, OpOf
<1>i. ASSUME Become(p, Idle) PROVE \E x \in Doing : CourseOf(p, x) /\ Become(p, x)
  BY <1>1, <1>i
<1>g. ASSUME NEW a \in IngestStep \cup ShowStep, MoveOn(p, a),
             \/ d.op = "ingest" /\ a \in IngestStep
             \/ d.op = "thumb" /\ a \in ShowStep
      PROVE  \E x \in Doing : CourseOf(p, x) /\ Become(p, x)
  <2> DEFINE c == [d EXCEPT !.at = a]
  <2>1. /\ c \in Doing /\ c.op = d.op /\ c.at = a /\ c.item = d.item
        /\ c.orphans = d.orphans /\ c.todo = d.todo /\ c.made = d.made
    BY <1>0, <1>g DEF Doing
  <2>2. Become(p, c)
    BY <1>g DEF MoveOn
  <2> HIDE DEF c
  <2>3. CourseOf(p, c)
    BY <1>0, <1>g, <2>1 DEF CourseOf, HealthOp
  <2> QED
    BY <2>1, <2>2, <2>3
<1>a. ASSUME NEW h \in Item, IngestCopy(p, h) \/ Show(p, h)
      PROVE  \E x \in Doing : CourseOf(p, x) /\ Become(p, x)
  <2>1. PICK op \in {"ingest", "thumb"}, a \in {"store", "try"} :
           /\ Become(p, [Idle EXCEPT !.op = op, !.at = a, !.item = h])
           /\ op = "ingest" <=> a = "store"
    BY <1>a DEF IngestCopy, Show
  <2> DEFINE c == [Idle EXCEPT !.op = op, !.at = a, !.item = h]
  <2>2. /\ op \in {"none", "repair"} \cup HealthOp
        /\ a \in {"idle", "drop"} \cup RepairStep \cup IngestStep \cup ShowStep
    BY DEF HealthOp, IngestStep, ShowStep
  <2>3. c \in Doing
    BY <1>1, <2>2 DEF Doing
  <2>4. CourseOf(p, c)
    BY <2>1 DEF CourseOf, Idle, HealthOp, IngestStep, ShowStep
  <2> QED
    BY <2>1, <2>3, <2>4
<1>b. ASSUME NEW h \in Item, DeleteStage(p, h)
      PROVE  \E x \in Doing : CourseOf(p, x) /\ Become(p, x)
  <2> DEFINE S == {f \in files : f.item = h}
             c == [Idle EXCEPT !.op = "delete", !.at = "drop", !.item = h, !.staged = S]
  <2>1. Become(p, c)
    BY <1>b DEF DeleteStage
  <2>2. /\ S \in SUBSET File /\ \A f \in S : f.item = h
        /\ "delete" \in {"none", "repair"} \cup HealthOp
        /\ "drop" \in {"idle", "drop"} \cup RepairStep \cup IngestStep \cup ShowStep
    BY <1>0 DEF HealthOp
  <2> HIDE DEF S
  <2>3. c \in Doing
    BY <1>1, <2>2 DEF Doing
  <2>4. CourseOf(p, c)
    BY <2>2 DEF CourseOf, Idle, HealthOp
  <2> QED
    BY <2>1, <2>3, <2>4
<1>c. CASE IngestStore(p)
  <2>1. MoveOn(p, "commit") /\ d.at = "store"
    BY <1>c DEF IngestStore
  <2> QED
    BY <1>2, <1>g, <2>1 DEF IngestStep
<1>d. CASE IngestCommit(p)
  <2>1. d.at = "commit" /\ (MoveOn(p, "publish") \/ Become(p, Idle))
    BY <1>d DEF IngestCommit
  <2> QED
    BY <1>2, <1>g, <1>i, <2>1 DEF IngestStep
<1>e. CASE IngestRaise(p) \/ DeleteDrop(p) \/ DeleteFails(p) \/ ShowMark(p)
  BY <1>e, <1>i DEF IngestRaise, DeleteDrop, DeleteFails, ShowMark
<1>f. CASE IngestThumb(p)
  <2>1. d.at = "publish" /\ (MoveOn(p, "ready") \/ MoveOn(p, "failed"))
    BY <1>f DEF IngestThumb
  <2> QED
    BY <1>2, <1>g, <2>1 DEF IngestStep
<1>h. CASE IngestStatus(p)
  <2>1. d.at \in {"ready", "failed"} /\ (MoveOn(p, "failed") \/ Become(p, Idle))
    BY <1>h DEF IngestStatus
  <2> QED
    BY <1>2, <1>g, <1>i, <2>1 DEF IngestStep
<1>j. CASE ShowTry(p)
  <2>1. d.at = "try" /\ (MoveOn(p, "mark") \/ MoveOn(p, "make") \/ Become(p, Idle))
    BY <1>j DEF ShowTry
  <2> QED
    BY <1>2, <1>g, <1>i, <2>1 DEF ShowStep
<1>k. CASE ShowMake(p)
  <2>1. d.op = "thumb" /\ (MoveOn(p, "mark") \/ Become(p, Idle))
    BY <1>k DEF ShowMake
  <2> QED
    BY <1>g, <1>i, <2>1 DEF ShowStep
<1> QED
  BY <1>a, <1>b, <1>c, <1>d, <1>e, <1>f, <1>h, <1>j, <1>k DEF Serve

-----------------------------------------------------------------------------
(* The table, the folders, the locks and the history stay what they are. *)
Tables ==
    /\ items \subseteq Item /\ gone \subseteq Item
    /\ status \in [Item -> Statuses]
    /\ writer \in Thread \cup {Nobody}
    /\ files \subseteq File /\ old \subseteq Item
    /\ lock \in [Item -> Thread \cup {Nobody}]
    /\ late \subseteq Item /\ condemned \subseteq Item /\ taken \subseteq Item

LEMMA RepairTables ==
  ASSUME HealthTypeInv, NEW p \in Repairers, Repair(p)
  PROVE  Tables'
<1> DEFINE d == doing[p]
<1>0. /\ Tables /\ p \in Thread /\ d \in Doing /\ CourseOf(p, d)
      /\ Media \subseteq Item
  BY HealthOK DEF HealthTypeInv, Thread, Tables, HealthOK
<1>1. \A k \in Kind, h \in Item : Home(k, h) \in File
  BY DEF Home, File
<1>2. d.at \in {"make", "tag"} /\ d.op = "repair" => d.item \in Item
  BY <1>0 DEF CourseOf
<1>3. d.at = "tag" => d.op = "repair"
  BY <1>0, OpOf DEF RepairStep
<1>k. ASSUME UNCHANGED <<table, writer, disk, lock, past>> PROVE Tables'
  BY <1>0, <1>k DEF Tables, table, disk, past
<1>l. Release(p) => lock' \in [Item -> Thread \cup {Nobody}]
  BY <1>0 DEF Tables, Release
<1>a. CASE AuditRows(p)
  <2>1. \A q \in Thread : doing[q].at \in {"store", "commit"} => doing[q].item \in Item
    BY OpOf DEF IngestStep
  <2>2. late' \subseteq Item
    BY <1>0, <1>a, <2>1 DEF AuditRows, Tables, Thread
  <2>3. condemned' \subseteq Item
    BY <1>0, <1>a DEF AuditRows, Tables, Failed
  <2>4. UNCHANGED <<table, writer, disk, lock, taken>>
    BY <1>a DEF AuditRows
  <2> QED
    BY <1>0, <2>2, <2>3, <2>4 DEF Tables, table, disk
<1>b. CASE \/ AuditScan(p) \/ ThumbRows(p) \/ TagRows(p) \/ TagEnd(p) \/ DerivedEnd(p) \/ AuditAfter(p)
  BY <1>b, <1>k DEF AuditScan, ThumbRows, TagRows, TagEnd, DerivedEnd, AuditAfter
<1>c. ASSUME NEW h \in Item, ThumbTake(p, h) \/ TagTake(p, h) PROVE Tables'
  <2>1. files' \subseteq files /\ UNCHANGED <<table, writer, old, past>>
    BY <1>c DEF ThumbTake, TagTake, Swept
  <2>2. lock' \in [Item -> Thread \cup {Nobody}]
    BY <1>0, <1>c DEF ThumbTake, TagTake, Take, Tables
  <2> QED
    BY <1>0, <2>1, <2>2 DEF Tables, table, past
<1>d. CASE ThumbMake(p)
  <2>1. d.item \in Item
    BY <1>2, <1>d DEF ThumbMake
  <2>2. files' \subseteq File /\ old' \subseteq Item /\ UNCHANGED <<table, writer, lock, past>>
    BY <1>0, <1>1, <1>d, <2>1 DEF ThumbMake, Made, Tables, Kind, disk
  <2> QED
    BY <1>0, <2>2 DEF Tables, table, past
<1>e. CASE ThumbSet(p) \/ ThumbSetFails(p)
  <2>1. writer' \in Thread \cup {Nobody} /\ Release(p) /\ UNCHANGED <<table, disk, past>>
    BY <1>0, <1>e DEF ThumbSet, ThumbSetFails, Tables
  <2> QED
    BY <1>0, <1>l, <2>1 DEF Tables, table, disk, past
<1>f. CASE ThumbCommit(p)
  <2>1. writer' \in Thread \cup {Nobody} /\ UNCHANGED <<items, gone, disk, lock, past>>
    BY <1>0, <1>f DEF ThumbCommit, Tables
  <2>2. status' \in [Item -> Statuses]
    BY <1>0, <1>f DEF ThumbCommit, Tables, Statuses
  <2> QED
    BY <1>0, <2>1, <2>2 DEF Tables, disk, past
<1>g. CASE TagMake(p)
  <2>1. d.item \in Item /\ Release(p) /\ UNCHANGED <<table, writer, old, past>>
    BY <1>2, <1>3, <1>g DEF TagMake
  <2>2. files' \subseteq File
    <3>1. CASE UNCHANGED files
      BY <1>0, <3>1 DEF Tables
    <3>2. ASSUME NEW G \in {{}, {d.item} \cap items},
                 files' = files \cup {Home("wd", d.item)} \cup {Home("note", g) : g \in G}
          PROVE  files' \subseteq File
      BY <1>0, <1>1, <2>1, <3>2 DEF Tables, Kind
    <3> QED
      BY <1>g, <3>1, <3>2 DEF TagMake
  <2> QED
    BY <1>0, <1>l, <2>1, <2>2 DEF Tables, table, past
<1>h. ASSUME NEW f \in File, Discard(p, f) PROVE Tables'
  <2>1. files' \subseteq files /\ UNCHANGED <<table, writer, old, lock, past>>
    BY <1>h DEF Discard
  <2> QED
    BY <1>0, <2>1 DEF Tables, table, past
<1>i. CASE Report(p)
  BY <1>i, <1>k DEF Report
<1> QED
  BY <1>a, <1>b, <1>c, <1>d, <1>e, <1>f, <1>g, <1>h, <1>i DEF Repair

LEMMA ServeTables ==
  ASSUME HealthTypeInv, NEW p \in Callers, Serve(p)
  PROVE  Tables'
<1> DEFINE d == doing[p]
<1>0. Tables /\ p \in Thread /\ Nobody \in Thread \cup {Nobody}
  BY DEF HealthTypeInv, Thread, Tables
<1>1. \A k \in Kind, h \in Item : Home(k, h) \in File
  BY DEF Home, File
<1>2. /\ d \in Doing /\ CourseOf(p, d)
      /\ d.at \in IngestStep \cup {"drop", "try", "mark"} => d.item \in Item
      /\ d.op = "thumb" => d.item \in Item
  BY <1>0, OpOf DEF CourseOf, HealthOp
<1>l. Release(p) => lock' \in [Item -> Thread \cup {Nobody}]
  BY <1>0 DEF Tables, Release
<1>a. ASSUME NEW h \in Item, IngestCopy(p, h) PROVE Tables'
  <2>1. files' \subseteq File /\ writer' \in Thread \cup {Nobody} /\ late' \subseteq Item
    BY <1>0, <1>1, <1>a DEF IngestCopy, Tables, Kind
  <2>2. UNCHANGED <<table, old, lock, condemned, taken>>
    BY <1>a DEF IngestCopy
  <2> QED
    BY <1>0, <2>1, <2>2 DEF Tables, table
<1>b. ASSUME NEW h \in Item, DeleteStage(p, h) PROVE Tables'
  <2>1. /\ files' \subseteq files /\ Take(p, h)
        /\ UNCHANGED <<table, writer, old, past>>
    BY <1>b DEF DeleteStage
  <2>2. lock' \in [Item -> Thread \cup {Nobody}]
    BY <1>0, <2>1 DEF Take, Tables
  <2> QED
    BY <1>0, <2>1, <2>2 DEF Tables, table, past
<1>c. ASSUME NEW h \in Item, Show(p, h) PROVE Tables'
  <2>1. UNCHANGED <<table, writer, disk, lock, past>>
    BY <1>c DEF Show
  <2> QED
    BY <1>0, <2>1 DEF Tables, table, disk, past
<1>d. CASE IngestStore(p)
  <2>1. d.item \in Item /\ UNCHANGED <<table, writer, old, lock, past>>
    BY <1>2, <1>d DEF IngestStore, IngestStep
  <2>2. PICK K \in {{"note"}, {"note", "wd"}} : files' = files \cup {Home(k, d.item) : k \in K}
    BY <1>d DEF IngestStore
  <2>3. files' \subseteq File
    BY <1>0, <1>1, <2>1, <2>2 DEF Tables, Kind
  <2> QED
    BY <1>0, <2>1, <2>3 DEF Tables, table, past
<1>e. CASE IngestCommit(p)
  <2>1. /\ d.item \in Item /\ items' = items \cup {d.item} /\ writer' = Nobody
        /\ UNCHANGED <<gone, disk, lock, past>>
        /\ status' = [status EXCEPT ![d.item] = IF d.item \in Media THEN "pending" ELSE "skipped"]
    BY <1>2, <1>e DEF IngestCommit, IngestStep
  <2>2. status' \in [Item -> Statuses]
    BY <1>0, <2>1 DEF Tables, Statuses
  <2> QED
    BY <1>0, <2>1, <2>2 DEF Tables, disk, past
<1>f. CASE IngestRaise(p)
  <2>1. /\ files' \subseteq files /\ writer' = Nobody /\ UNCHANGED <<table, old, lock, past>>
    BY <1>f DEF IngestRaise
  <2> QED
    BY <1>0, <2>1 DEF Tables, table, past
<1>g. CASE IngestThumb(p) \/ ShowMake(p)
  <2>1. d.item \in Item /\ UNCHANGED <<table, writer, past>> /\ (Made(d.item) \/ UNCHANGED disk)
    BY <1>2, <1>g DEF IngestThumb, ShowMake, IngestStep
  <2>2. files' \subseteq File /\ old' \subseteq Item
    BY <1>0, <1>1, <2>1 DEF Made, Tables, Kind, disk
  <2>3. lock' \in [Item -> Thread \cup {Nobody}]
    BY <1>0, <1>g, <1>l DEF IngestThumb, ShowMake, Tables
  <2> QED
    BY <1>0, <2>1, <2>2, <2>3 DEF Tables, table, past
<1>h. CASE IngestStatus(p) \/ ShowMark(p)
  <2>1. d.item \in Item /\ UNCHANGED <<items, gone, writer, disk, lock, past>>
    BY <1>2, <1>h DEF IngestStatus, ShowMark, IngestStep
  <2>2. status' \in {status} \cup {[status EXCEPT ![d.item] = s] : s \in {"ready", "failed"}}
    BY <1>h DEF IngestStatus, ShowMark
  <2>3. status' \in [Item -> Statuses]
    BY <1>0, <2>2 DEF Tables, Statuses
  <2> QED
    BY <1>0, <2>1, <2>3 DEF Tables, disk, past
<1>i. CASE DeleteDrop(p)
  <2>1. /\ d.item \in Item /\ items' = items \ {d.item} /\ gone' = gone \cup {d.item} /\ Release(p)
        /\ UNCHANGED <<status, writer, disk, past>>
    BY <1>2, <1>i DEF DeleteDrop
  <2> QED
    BY <1>0, <1>l, <2>1 DEF Tables, disk, past
<1>j. CASE DeleteFails(p)
  <2>1. files' = files \cup d.staged /\ d.staged \subseteq File /\ Release(p)
        /\ UNCHANGED <<table, writer, old, past>>
    BY <1>2, <1>j DEF DeleteFails, Doing
  <2> QED
    BY <1>0, <1>l, <2>1 DEF Tables, table, past
<1>k. CASE ShowTry(p)
  <2>1. d.item \in Item /\ UNCHANGED <<table, writer, disk, past>>
    BY <1>2, <1>k DEF ShowTry
  <2>2. lock' \in [Item -> Thread \cup {Nobody}]
    <3>1. UNCHANGED lock \/ Take(p, d.item)
      BY <1>k DEF ShowTry
    <3> QED
      BY <1>0, <2>1, <3>1 DEF Take, Tables
  <2> QED
    BY <1>0, <2>1, <2>2 DEF Tables, table, disk, past
<1> QED
  BY <1>a, <1>b, <1>c, <1>d, <1>e, <1>f, <1>g, <1>h, <1>i, <1>j, <1>k DEF Serve

LEMMA HealthTypeFirst == HealthInit => HealthTypeInv
<1> SUFFICES ASSUME HealthInit PROVE HealthTypeInv
  OBVIOUS
<1>1. /\ items \subseteq Item /\ gone \subseteq Item /\ status \in [Item -> Statuses]
      /\ writer \in Thread \cup {Nobody} /\ old \subseteq Item /\ lock \in [Item -> Thread \cup {Nobody}]
      /\ late \subseteq Item /\ condemned \subseteq Item /\ taken \subseteq Item
  BY HealthOK DEF HealthInit, Statuses, HealthOK
<1>2. files \subseteq File
  <2>1. \A k \in Kind, h \in items : Home(k, h) \in File
    BY <1>1 DEF Home, File
  <2> QED
    BY <2>1 DEF HealthInit, Kind
<1>3. doing \in [Thread -> Doing] /\ \A p \in Thread : CourseOf(p, doing[p])
  BY IdleOK DEF HealthInit
<1> QED
  BY <1>1, <1>2, <1>3 DEF HealthTypeInv

(* What the user does, and a crash. *)
LEMMA OutsideTables ==
  ASSUME HealthTypeInv, NEW h \in Item, Outside(h)
  PROVE  Tables' /\ doing' = doing
<1>1. UNCHANGED <<table, writer, lock, doing, late, condemned>>
  BY DEF Outside
<1>2. files' \subseteq File /\ old' \subseteq Item /\ taken' \subseteq Item
  <2>1. \A k \in Kind : Home(k, h) \in File /\ Astray(k, h) \in File
    BY DEF Home, Astray, File
  <2> QED
    BY <2>1 DEF HealthTypeInv, Outside
<1> QED
  BY <1>1, <1>2 DEF HealthTypeInv, Tables, table

LEMMA RestartTables ==
  ASSUME HealthTypeInv, Restart
  PROVE  Tables' /\ doing' = [p \in Thread |-> Idle]
<1>1. /\ UNCHANGED <<table, disk, late, condemned>> /\ writer' = Nobody
      /\ lock' = [h \in Item |-> Nobody] /\ doing' = [p \in Thread |-> Idle]
  BY DEF Restart
<1>2. taken' \subseteq Item
  <2>1. \A q \in Thread : doing[q].at = "drop" => doing[q].item \in Item
    BY OpOf
  <2> QED
    BY <2>1 DEF Restart, HealthTypeInv
<1> QED
  BY <1>1, <1>2 DEF HealthTypeInv, Tables, table, disk

LEMMA HealthTypeNext == HealthTypeInv /\ [HealthNext]_healthVars => HealthTypeInv'
<1> SUFFICES ASSUME HealthTypeInv, [HealthNext]_healthVars PROVE HealthTypeInv'
  OBVIOUS
<1>m. ASSUME NEW p \in Thread, NEW c \in Doing, CourseOf(p, c), Become(p, c)
      PROVE  doing' \in [Thread -> Doing] /\ \A q \in Thread : CourseOf(q, doing'[q])
  BY <1>m, BecomeOK
<1>t. ASSUME Tables', doing' \in [Thread -> Doing], \A q \in Thread : CourseOf(q, doing'[q])
      PROVE  HealthTypeInv'
  BY <1>t DEF Tables, HealthTypeInv
<1>1. ASSUME NEW p \in Repairers, Repair(p) PROVE HealthTypeInv'
  <2>1. p \in Thread /\ \E c \in Doing : CourseOf(p, c) /\ Become(p, c)
    BY <1>1, RepairMoves DEF Thread
  <2> QED
    BY <1>1, <1>m, <1>t, <2>1, RepairTables
<1>2. ASSUME NEW p \in Callers, Serve(p) PROVE HealthTypeInv'
  <2>1. p \in Thread /\ \E c \in Doing : CourseOf(p, c) /\ Become(p, c)
    BY <1>2, ServeMoves DEF Thread
  <2> QED
    BY <1>2, <1>m, <1>t, <2>1, ServeTables
<1>3. ASSUME NEW h \in Item, Outside(h) PROVE HealthTypeInv'
  BY <1>3, <1>t, OutsideTables DEF HealthTypeInv
<1>4. CASE Restart
  BY <1>4, <1>t, RestartTables, IdleOK
<1>5. CASE UNCHANGED healthVars
  BY <1>5 DEF HealthTypeInv, healthVars, table, disk, past
<1> QED
  BY <1>1, <1>2, <1>3, <1>4, <1>5 DEF HealthNext

(* Every thread of the health page is where its call can be, with what it
   holds there (vaults.py, thumbnails.py, media_lifecycle.py). *)
THEOREM HealthTypeCorrect == HealthSpec => []HealthTypeInv
<1>1. HealthInit => HealthTypeInv
  BY HealthTypeFirst
<1>2. HealthTypeInv /\ [HealthNext]_healthVars => HealthTypeInv'
  BY HealthTypeNext
<1> QED
  BY <1>1, <1>2, PTL DEF HealthSpec

-----------------------------------------------------------------------------
(* What repairs and the other calls never do. *)
LEMMA CourseFacts ==
  ASSUME NEW p \in Thread, NEW c \in Doing, CourseOf(p, c)
  PROVE  /\ p \in Repairers => ~Stores(c) /\ c.at \notin {"drop", "publish", "ready", "failed"}
         /\ p \in Callers => /\ c.op # "repair" /\ c.orphans = {} /\ c.todo = {} /\ c.made = {}
                             /\ c.at # "scan"
         /\ Stores(c) \/ c.at \in {"drop", "publish", "ready", "failed"} => p \in Callers /\ c.item \in Item
<1>1. c.op \in {"none", "repair", "ingest", "delete", "thumb"}
  BY DEF Doing, HealthOp
<1>2. Repairers \cap Callers = {} /\ Thread = Repairers \cup Callers
  BY HealthOK DEF HealthOK, Thread
<1> QED
  BY <1>1, <1>2 DEF CourseOf, Idle, Stores, HealthOp, RepairStep, IngestStep, ShowStep

(* One thread moves. *)
LEMMA OneMoves ==
  ASSUME HealthTypeInv, NEW p \in Thread, (p \in Repairers /\ Repair(p)) \/ (p \in Callers /\ Serve(p))
  PROVE  \A q \in Thread : q # p => doing'[q] = doing[q]
<1>1. \E c \in Doing : CourseOf(p, c) /\ Become(p, c)
  BY RepairMoves, ServeMoves
<1> QED
  BY <1>1, BecomeOK

Grows ==
    /\ late \subseteq late' /\ condemned \subseteq condemned' /\ taken \subseteq taken'
    /\ items \cup gone \subseteq items' \cup gone'

(* A thread that stands still stays sound, unless its files or its
   transaction are taken, or a repair hears nothing of a new item. *)
LEMMA OthersSound ==
  ASSUME HealthTypeInv, NEW q \in Thread, Valid(q), doing'[q] = doing[q], Grows,
         Stores(doing[q]) =>
            /\ writer' = writer /\ items' \cup gone' = items \cup gone
            /\ \A k \in {"asset", "note"} :
                  Has(k, doing[q].item) => Has(k, doing[q].item)' \/ doing[q].item \in late' \cup taken',
         doing[q].op = "repair" => \A h \in Item : Here(h)' => Here(h) \/ h \in late'
  PROVE  Valid(q)'
<1> DEFINE c == doing[q]
<1>0. c \in Doing /\ CourseOf(q, c)
  BY DEF HealthTypeInv
<1>1. StoreOf(q, c)'
  BY DEF Valid, StoreOf, Grows
<1>2. KnownOf(c)'
  BY DEF Valid, KnownOf, Grows
<1>3. c.at = "scan" \/ c.orphans # {} => c.op = "repair"
  BY <1>0, OpOf DEF CourseOf, RepairStep
<1>4. RowsOf(c)'
  BY <1>3 DEF Valid, RowsOf, Grows
<1>5. \A f \in c.orphans : f.item \in Item
  BY <1>0 DEF Doing, File
<1>6. OrphansOf(c)'
  <2> SUFFICES ASSUME NEW f \in c.orphans, f.home, Here(f.item)' PROVE (f.item \in late \/ Spare(f))'
    BY DEF OrphansOf
  <2>1. Here(f.item) \/ f.item \in late'
    BY <1>3, <1>5
  <2>2. Here(f.item) => f.item \in late \/ Spare(f)
    BY DEF Valid, OrphansOf
  <2> QED
    BY <2>1, <2>2 DEF Grows, Spare
<1> QED
  BY <1>1, <1>2, <1>4, <1>6 DEF Valid

(* What a repair leaves alone. *)
LEMMA RepairEffects ==
  ASSUME HealthTypeInv, HealthTypeInv', FilesInv, NEW p \in Repairers, Repair(p)
  PROVE  /\ Grows /\ items' = items /\ gone' = gone /\ taken' = taken
         /\ \A q \in Thread : Stores(doing[q]) => writer' = writer
         /\ \A h \in Item : Here(h)' => Here(h)
         /\ \A f \in files : f.home => f \in files' \/ f \in doing[p].orphans
<1>1. p \in Thread
  BY DEF Thread
<1>2. Grows /\ UNCHANGED <<items, gone, taken>>
  <2>1. CASE AuditRows(p)
    BY <2>1 DEF AuditRows, Grows, table
  <2>2. CASE AuditScan(p) \/ ThumbRows(p) \/ ThumbMake(p) \/ ThumbSet(p) \/ ThumbSetFails(p)
               \/ TagRows(p) \/ TagMake(p) \/ TagEnd(p) \/ DerivedEnd(p) \/ AuditAfter(p)
    BY <2>2 DEF AuditScan, ThumbRows, ThumbMake, ThumbSet, ThumbSetFails, TagRows, TagMake, TagEnd,
                DerivedEnd, AuditAfter, Grows, table, past
  <2>3. CASE ThumbCommit(p)
    BY <2>3 DEF ThumbCommit, Grows, past
  <2>4. CASE Report(p)
    BY <2>4 DEF Report, Grows, table, past
  <2>5. ASSUME NEW h \in Item, ThumbTake(p, h) \/ TagTake(p, h) PROVE Grows /\ UNCHANGED <<items, gone, taken>>
    BY <2>5 DEF ThumbTake, TagTake, Grows, table, past
  <2>6. ASSUME NEW f \in File, Discard(p, f) PROVE Grows /\ UNCHANGED <<items, gone, taken>>
    BY <2>6 DEF Discard, Grows, table, past
  <2> QED
    BY <2>1, <2>2, <2>3, <2>4, <2>5, <2>6 DEF Repair
<1>3. ASSUME NEW q \in Thread, Stores(doing[q]) PROVE writer' = writer
  <2>1. writer = q /\ q # p /\ q # Nobody
    <3>1. writer = q
      BY <1>3 DEF FilesInv, Valid, StoreOf
    <3>2. q # p
      BY <1>3, CourseFacts DEF HealthTypeInv
    <3>3. q # Nobody
      BY HealthOK DEF HealthOK
    <3> QED
      BY <3>1, <3>2, <3>3
  <2>2. CASE ThumbSet(p) \/ ThumbCommit(p)
    BY <2>1, <2>2 DEF ThumbSet, ThumbCommit
  <2>3. CASE \/ AuditRows(p) \/ AuditScan(p) \/ ThumbRows(p) \/ ThumbMake(p) \/ ThumbSetFails(p)
             \/ TagRows(p) \/ TagMake(p) \/ TagEnd(p) \/ DerivedEnd(p) \/ AuditAfter(p) \/ Report(p)
    BY <2>3 DEF AuditRows, AuditScan, ThumbRows, ThumbMake, ThumbSetFails, TagRows, TagMake, TagEnd,
                DerivedEnd, AuditAfter, Report
  <2>4. ASSUME NEW h \in Item, ThumbTake(p, h) \/ TagTake(p, h) PROVE writer' = writer
    BY <2>4 DEF ThumbTake, TagTake
  <2>5. ASSUME NEW f \in File, Discard(p, f) PROVE writer' = writer
    BY <2>5 DEF Discard
  <2> QED
    BY <2>2, <2>3, <2>4, <2>5 DEF Repair
<1>4. ASSUME NEW h \in Item, Here(h)' PROVE Here(h)
  <2>1. ~Stores(doing'[p])
    BY <1>1, CourseFacts DEF HealthTypeInv
  <2>2. \A q \in Thread : q # p => doing'[q] = doing[q]
    BY <1>1, OneMoves
  <2> QED
    BY <1>2, <1>4, <2>1, <2>2 DEF Here
<1>5. ASSUME NEW f \in files, f.home PROVE f \in files' \/ f \in doing[p].orphans
  <2>1. CASE AuditRows(p) \/ AuditScan(p) \/ ThumbRows(p) \/ ThumbSet(p) \/ ThumbSetFails(p) \/ ThumbCommit(p)
             \/ TagRows(p) \/ TagEnd(p) \/ DerivedEnd(p) \/ AuditAfter(p) \/ Report(p)
    BY <2>1 DEF AuditRows, AuditScan, ThumbRows, ThumbSet, ThumbSetFails, ThumbCommit, TagRows, TagEnd,
                DerivedEnd, AuditAfter, Report, disk
  <2>2. CASE ThumbMake(p) \/ TagMake(p)
    BY <2>2 DEF ThumbMake, TagMake, Made, disk
  <2>3. ASSUME NEW h \in Item, ThumbTake(p, h) \/ TagTake(p, h) PROVE f \in files'
    BY <1>5, <2>3 DEF ThumbTake, TagTake, Swept, Astray
  <2>4. ASSUME NEW g \in File, Discard(p, g) PROVE f \in files' \/ f \in doing[p].orphans
    BY <2>4 DEF Discard, Condemned
  <2> QED
    BY <2>1, <2>2, <2>3, <2>4 DEF Repair
<1> QED
  BY <1>2, <1>3, <1>4, <1>5

(* The repair itself knows the rows it works on, lists no file of an item
   that is here and not late but one that may be spared, and counts as made
   the thumbnails that are there. *)
LEMMA RepairSound ==
  ASSUME HealthTypeInv, HealthTypeInv', FilesInv, NEW p \in Repairers, Repair(p)
  PROVE  Valid(p)' /\ \A h \in doing'[p].made : h \in doing[p].made \/ Has("thumb", h)'
<1> DEFINE d == doing[p]
           c == doing'[p]
           Makes == \A h \in c.made : h \in d.made \/ Has("thumb", h)'
           Fine == Valid(p)' /\ Makes
<1>0. /\ p \in Thread /\ d \in Doing /\ c \in Doing /\ CourseOf(p, d) /\ CourseOf(p, c)
      /\ doing \in [Thread -> Doing] /\ items \subseteq Item
  BY DEF HealthTypeInv, Thread
<1>1. /\ KnownOf(d) /\ RowsOf(d) /\ OrphansOf(d)
  BY <1>0 DEF FilesInv, Valid
<1>2. Grows /\ items' = items /\ gone' = gone /\ \A h \in Item : Here(h)' => Here(h)
  BY RepairEffects
<1>3. ~Stores(c) /\ c.at \notin {"publish", "ready", "failed"}
  BY <1>0, CourseFacts
<1>4. ASSUME c.at # "scan",
             c.todo \cup c.made \subseteq items \cup gone, c.at = "make" => c.item \in items \cup gone,
             c.orphans \subseteq d.orphans, Makes
      PROVE  Fine
  <2>1. StoreOf(p, d)' /\ RowsOf(d)'
    BY <1>3, <1>4 DEF StoreOf, RowsOf
  <2>2. KnownOf(d)'
    BY <1>2, <1>3, <1>4 DEF KnownOf
  <2>3. OrphansOf(d)'
    <3> SUFFICES ASSUME NEW f \in c.orphans, f.home, Here(f.item)' PROVE (f.item \in late \/ Spare(f))'
      BY DEF OrphansOf
    <3>1. f \in d.orphans /\ f.item \in Item
      BY <1>0, <1>4 DEF Doing, File
    <3> QED
      BY <1>1, <1>2, <3>1 DEF OrphansOf, Grows, Spare
  <2> QED
    BY <1>4, <2>1, <2>2, <2>3 DEF Valid
<1>i. ASSUME Become(p, Idle) PROVE Fine
  <2>1. c = Idle
    BY <1>0, <1>i DEF Become
  <2> QED
    BY <1>4, <2>1 DEF Idle
<1>a. CASE AuditRows(p)
  <2> DEFINE r == [Idle EXCEPT !.op = "repair", !.at = "scan", !.rows = items, !.failed = Failed,
                               !.folder = 1]
  <2>1. c = r
    BY <1>0, <1>a DEF AuditRows, Become
  <2>2. c.at = "scan" /\ c.rows = items /\ c.failed = Failed /\ c.todo = {} /\ c.made = {} /\ c.orphans = {}
    BY <2>1 DEF Idle
  <2>3. condemned' = condemned \cup Failed
        /\ late' = late \cup {doing[q].item : q \in {q \in Callers : doing[q].at \in {"store", "commit"}}}
    BY <1>a DEF AuditRows
  <2>4. \A h \in Item : Here(h) => h \in items \cup late'
    <3>1. \A q \in Thread : Stores(doing[q]) => q \in Callers
      BY CourseFacts DEF HealthTypeInv
    <3> QED
      BY <2>3, <3>1 DEF Here, Stores
  <2>5. RowsOf(d)'
    BY <1>2, <2>2, <2>3, <2>4 DEF RowsOf
  <2>6. StoreOf(p, d)' /\ KnownOf(d)' /\ OrphansOf(d)'
    BY <1>3, <2>2 DEF StoreOf, KnownOf, OrphansOf
  <2> QED
    BY <2>2, <2>5, <2>6 DEF Valid
<1>b. CASE AuditScan(p)
  <2> DEFINE k == Folder[d.folder]
             found == {f \in files : f.kind = k} \ Expected(d.rows, d.failed)
  <2>1. /\ d.at = "scan" /\ c.orphans = d.orphans \cup found /\ UNCHANGED past
        /\ c.todo \subseteq d.todo /\ c.made \subseteq d.made
        /\ c.at = "rows" \/ (c.at = "scan" /\ c.rows = d.rows /\ c.failed = d.failed)
    <3>1. d.at = "scan" /\ UNCHANGED past
      BY <1>b DEF AuditScan
    <3>2. CASE k = "thumb"
      <4>1. c = [Idle EXCEPT !.op = "repair", !.at = "rows", !.orphans = d.orphans \cup found]
        BY <1>0, <1>b, <3>2 DEF AuditScan, Become
      <4> HIDE DEF found
      <4> QED
        BY <3>1, <4>1 DEF Idle
    <3>3. CASE k # "thumb"
      <4>1. c = [d EXCEPT !.orphans = @ \cup found, !.folder = @ + 1]
        BY <1>0, <1>b, <3>3 DEF AuditScan, Become
      <4> HIDE DEF found, k
      <4> QED
        BY <1>0, <3>1, <4>1 DEF Doing
    <3> QED
      BY <3>2, <3>3
  <2>2. ASSUME NEW f \in found, f.home, Here(f.item) PROVE f.item \in late \/ Spare(f)
    <3>1. f \in File /\ f.kind \in Kind /\ f.item \in Item
      BY DEF HealthTypeInv, File
    <3>2. f.item \in d.rows \cup late /\ d.failed \subseteq condemned
      BY <1>1, <2>1, <2>2, <3>1 DEF RowsOf
    <3>3. f = Home(f.kind, f.item)
      BY <2>2, <3>1 DEF File, Home
    <3>4. CASE f.item \in d.rows /\ f.kind \in {"asset", "note"}
      <4>1. f \in Expected(d.rows, d.failed)
        BY <3>3, <3>4 DEF Expected
      <4> QED
        BY <4>1
    <3>5. CASE f.item \in d.rows /\ f.kind = "thumb" /\ f.item \in Media \ d.failed
      <4>1. f \in Expected(d.rows, d.failed)
        BY <3>3, <3>5 DEF Expected
      <4> QED
        BY <4>1
    <3> QED
      BY <3>1, <3>2, <3>4, <3>5 DEF Spare, Kind
  <2>3. OrphansOf(d)'
    <3> SUFFICES ASSUME NEW f \in c.orphans, f.home, Here(f.item)' PROVE (f.item \in late \/ Spare(f))'
      BY DEF OrphansOf
    <3>1. f.item \in Item
      BY <1>0 DEF Doing, File
    <3>2. Here(f.item) /\ (f \in d.orphans \/ f \in found)
      BY <1>2, <2>1, <3>1
    <3>3. f.item \in late \/ Spare(f)
      BY <1>1, <2>2, <3>2 DEF OrphansOf
    <3> QED
      BY <3>3, <2>1 DEF Spare, past
  <2> HIDE DEF found
  <2>4. StoreOf(p, d)' /\ KnownOf(d)'
    <3>1. c.at # "make"
      BY <2>1
    <3> QED
      BY <1>1, <1>2, <1>3, <2>1, <3>1 DEF StoreOf, KnownOf
  <2>5. RowsOf(d)'
    BY <1>1, <1>2, <2>1 DEF RowsOf, past
  <2> QED
    BY <2>1, <2>3, <2>4, <2>5 DEF Valid
<1>c. CASE ThumbRows(p)
  <2>1. c = [d EXCEPT !.at = "thumbs", !.todo = items \cap Media, !.seen = <<items, status>>]
    BY <1>0, <1>c DEF ThumbRows, Become
  <2>2. c.at = "thumbs" /\ c.todo \subseteq items /\ c.made = d.made /\ c.orphans = d.orphans
    BY <1>0, <2>1 DEF Doing
  <2> QED
    BY <1>1, <1>4, <2>2 DEF KnownOf
<1>d. ASSUME NEW h \in Item, ThumbTake(p, h) \/ TagTake(p, h) PROVE Fine
  <2>1. PICK a \in {"make", "tag"} : \/ c = [d EXCEPT !.todo = @ \ {h}]
                                     \/ c = [d EXCEPT !.todo = @ \ {h}, !.item = h, !.at = a]
    BY <1>0, <1>d DEF ThumbTake, TagTake, Become
  <2>2. d.at \in {"thumbs", "tags"} /\ h \in d.todo
    BY <1>d DEF ThumbTake, TagTake
  <2>3. /\ c.todo \subseteq d.todo /\ c.made = d.made /\ c.orphans = d.orphans
        /\ c.at = d.at \/ (c.at = a /\ c.item = h)
    <3>1. CASE c = [d EXCEPT !.todo = @ \ {h}]
      BY <1>0, <3>1 DEF Doing
    <3>2. CASE c = [d EXCEPT !.todo = @ \ {h}, !.item = h, !.at = a]
      BY <1>0, <3>2 DEF Doing
    <3> QED
      BY <2>1, <3>1, <3>2
  <2> QED
    BY <1>1, <1>4, <2>2, <2>3 DEF KnownOf
<1>e. CASE ThumbMake(p)
  <2>1. d.op = "repair" /\ d.at = "make" /\ \/ c = [d EXCEPT !.at = "set", !.made = @ \cup {d.item}]
                                            \/ c = [d EXCEPT !.at = "set", !.unmade = @ \cup {d.item}]
    BY <1>0, <1>e DEF ThumbMake, Become
  <2>2. /\ c.at = "set" /\ c.todo = d.todo /\ c.made \subseteq d.made \cup {d.item} /\ c.orphans = d.orphans
    BY <1>0, <2>1 DEF Doing
  <2>3. Made(d.item) \/ c.made = d.made
    <3>1. CASE c = [d EXCEPT !.at = "set", !.made = @ \cup {d.item}] /\ Made(d.item)
      BY <3>1
    <3>2. CASE c = [d EXCEPT !.at = "set", !.unmade = @ \cup {d.item}]
      BY <1>0, <3>2 DEF Doing
    <3> QED
      BY <1>0, <1>e, <3>1, <3>2 DEF ThumbMake, Become
  <2>4. Makes
    BY <2>2, <2>3 DEF Made, Has
  <2>5. c.todo \cup c.made \subseteq items \cup gone
    BY <1>1, <2>1, <2>2 DEF KnownOf
  <2> QED
    BY <1>4, <2>2, <2>4, <2>5
<1>f. CASE ThumbSet(p)
  <2>1. c = [d EXCEPT !.at = "thumbs", !.item = Nobody]
    BY <1>0, <1>f DEF ThumbSet, Become
  <2>2. c.at = "thumbs" /\ c.todo = d.todo /\ c.made = d.made /\ c.orphans = d.orphans
    BY <1>0, <2>1 DEF Doing
  <2> QED
    BY <1>1, <1>4, <2>2 DEF KnownOf
<1>g. CASE ThumbSetFails(p) \/ Report(p)
  BY <1>g, <1>i DEF ThumbSetFails, Report
<1>h. CASE ThumbCommit(p)
  <2>1. c = [d EXCEPT !.at = "tagging", !.seen = <<>>, !.made = {}]
    BY <1>0, <1>h DEF ThumbCommit, Become
  <2>2. c.at = "tagging" /\ c.todo = d.todo /\ c.made = {} /\ c.orphans = d.orphans
    BY <1>0, <2>1 DEF Doing
  <2> QED
    BY <1>1, <1>4, <2>2 DEF KnownOf
<1>j. CASE TagRows(p)
  <2>1. c = [d EXCEPT !.at = "tags", !.todo = items \cap Media]
    BY <1>0, <1>j DEF TagRows, Become
  <2>2. c.at = "tags" /\ c.todo \subseteq items /\ c.made = d.made /\ c.orphans = d.orphans
    BY <1>0, <2>1 DEF Doing
  <2> QED
    BY <1>1, <1>4, <2>2 DEF KnownOf
<1>k. CASE TagMake(p)
  <2> DEFINE r == [d EXCEPT !.at = "tags", !.item = Nobody]
  <2>1. c = r \/ c = [r EXCEPT !.untagged = @ \cup {d.item}]
    BY <1>0, <1>k DEF TagMake, Become
  <2>2. r \in Doing /\ r.at = "tags" /\ r.todo = d.todo /\ r.made = d.made /\ r.orphans = d.orphans
    BY <1>0 DEF Doing, RepairStep
  <2> HIDE DEF r
  <2>3. c.at = "tags" /\ c.todo = d.todo /\ c.made = d.made /\ c.orphans = d.orphans
    BY <2>1, <2>2 DEF Doing
  <2> QED
    BY <1>1, <1>4, <2>3 DEF KnownOf
<1>l. CASE TagEnd(p) \/ DerivedEnd(p)
  <2>1. PICK a \in {"derived", "quarantine"} : c = [d EXCEPT !.at = a]
    BY <1>0, <1>l DEF TagEnd, DerivedEnd, MoveOn, Become
  <2>2. c.at = a /\ c.todo = d.todo /\ c.made = d.made /\ c.orphans = d.orphans
    BY <1>0, <2>1 DEF Doing
  <2> QED
    BY <1>1, <1>4, <2>2 DEF KnownOf
<1>m. CASE AuditAfter(p)
  <2>1. PICK I : c = [d EXCEPT !.at = "done", !.issues = I]
    BY <1>0, <1>m DEF AuditAfter, Become
  <2>2. c.at = "done" /\ c.todo = d.todo /\ c.made = d.made /\ c.orphans = d.orphans
    BY <1>0, <2>1 DEF Doing
  <2> QED
    BY <1>1, <1>4, <2>2 DEF KnownOf
<1>n. ASSUME NEW f \in File, Discard(p, f) PROVE Fine
  <2>1. c = [d EXCEPT !.orphans = @ \ {f}] /\ d.at \in {"derived", "quarantine"}
    BY <1>0, <1>n DEF Discard, Become
  <2>2. c.at = d.at /\ c.todo = d.todo /\ c.made = d.made /\ c.orphans \subseteq d.orphans
    BY <1>0, <2>1 DEF Doing
  <2> QED
    BY <1>1, <1>4, <2>1, <2>2 DEF KnownOf
<1> QED
  BY <1>a, <1>b, <1>c, <1>d, <1>e, <1>f, <1>g, <1>h, <1>j, <1>k, <1>l, <1>m, <1>n DEF Repair

(* Nothing of an item that is not late goes to a repair, but for what may be
   spared. *)
LEMMA RepairSpares ==
  ASSUME HealthTypeInv, HealthTypeInv', FilesInv, NEW p \in Repairers, Repair(p),
         NEW h \in Item \ late, Here(h), NEW k \in {"asset", "note", "thumb"},
         k = "thumb" => h \in Media \ condemned, Has(k, h)
  PROVE  Has(k, h)'
<1>1. Home(k, h).home /\ Home(k, h).item = h /\ Home(k, h).kind = k
  BY DEF Home
<1>2. Home(k, h) \in doing[p].orphans => h \in late \/ Spare(Home(k, h))
  BY <1>1 DEF FilesInv, Valid, OrphansOf, Thread
<1>3. ~Spare(Home(k, h))
  BY <1>1 DEF Spare
<1>4. Home(k, h) \in files' \/ Home(k, h) \in doing[p].orphans
  BY <1>1, RepairEffects DEF Has
<1> QED
  BY <1>2, <1>3, <1>4 DEF Has

LEMMA RepairReady ==
  ASSUME HealthTypeInv, HealthTypeInv', FilesInv, NEW p \in Repairers, Repair(p),
         NEW h \in Item, Ready(h)'
  PROVE  Ready(h) \/ Has("thumb", h)'
<1>1. /\ p \in Thread /\ doing[p] \in Doing
      /\ CourseOf(p, doing'[p]) /\ doing'[p] \in Doing
      /\ \A q \in Thread : q # p => doing'[q] = doing[q]
  BY OneMoves DEF HealthTypeInv, Thread
<1>2. CASE status'[h] = "ready"
  <2>1. CASE ThumbCommit(p)
    <3>1. status'[h] = CASE h \in doing[p].made -> "ready"
                         [] h \in doing[p].unmade -> "failed"
                         [] OTHER -> status[h]
      BY <2>1 DEF ThumbCommit
    <3> QED
      BY <1>1, <1>2, <3>1 DEF Ready
  <2>2. CASE \/ AuditRows(p) \/ AuditScan(p) \/ ThumbRows(p) \/ ThumbMake(p) \/ ThumbSet(p) \/ ThumbSetFails(p)
             \/ TagRows(p) \/ TagMake(p) \/ TagEnd(p) \/ DerivedEnd(p) \/ AuditAfter(p) \/ Report(p)
    BY <1>2, <2>2 DEF AuditRows, AuditScan, ThumbRows, ThumbMake, ThumbSet, ThumbSetFails, TagRows, TagMake,
                      TagEnd, DerivedEnd, AuditAfter, Report, table, Ready
  <2>3. CASE \E g \in Item : ThumbTake(p, g) \/ TagTake(p, g)
    BY <1>2, <2>3 DEF ThumbTake, TagTake, table, Ready
  <2>4. CASE \E f \in File : Discard(p, f)
    BY <1>2, <2>4 DEF Discard, table, Ready
  <2> QED
    BY <2>1, <2>2, <2>3, <2>4 DEF Repair
<1>3. ASSUME NEW q \in Thread, h \in doing'[q].made \/ (doing'[q].at = "ready" /\ doing'[q].item = h)
      PROVE  Ready(h) \/ Has("thumb", h)'
  <2>1. CASE q = p
    <3>1. doing'[p].at # "ready"
      BY <1>1, CourseFacts
    <3>2. h \in doing[p].made \/ Has("thumb", h)'
      BY <1>3, <2>1, <3>1, RepairSound
    <3> QED
      BY <1>1, <3>2 DEF Ready
  <2>2. CASE q # p
    BY <1>1, <1>3, <2>2 DEF Ready
  <2> QED
    BY <2>1, <2>2
<1> QED
  BY <1>2, <1>3 DEF Ready

LEMMA RepairKeepsFiles ==
  ASSUME HealthTypeInv, HealthTypeInv', FilesInv, NEW p \in Repairers, Repair(p)
  PROVE  FilesInv'
<1>1. /\ p \in Thread /\ \A q \in Thread : q # p => doing'[q] = doing[q]
      /\ doing[p] \in Doing /\ CourseOf(p, doing[p]) /\ items \subseteq Item /\ doing[p].at # "drop"
  BY OneMoves, CourseFacts DEF HealthTypeInv, Thread
<1>2. Grows /\ items' = items /\ gone' = gone /\ taken' = taken
  BY RepairEffects
<1>3. ASSUME NEW q \in Thread PROVE Valid(q)'
  <2>1. CASE q = p
    BY <2>1, RepairSound
  <2>2. CASE q # p
    <3>1. Valid(q) /\ doing'[q] = doing[q]
      BY <1>1, <2>2 DEF FilesInv
    <3>2. ASSUME Stores(doing[q])
          PROVE  /\ writer' = writer
                 /\ \A k \in {"asset", "note"} :
                       Has(k, doing[q].item) => Has(k, doing[q].item)' \/ doing[q].item \in late'
      <4>1. writer' = writer
        BY <3>2, RepairEffects
      <4>2. doing[q].item \in Item /\ Here(doing[q].item)
        BY <3>2, OpOf DEF Here, Stores, IngestStep
      <4>3. ASSUME NEW k \in {"asset", "note"}, Has(k, doing[q].item), doing[q].item \notin late'
            PROVE  Has(k, doing[q].item)'
        <5>1. \A h \in Item \ late : Here(h) /\ Has(k, h) => Has(k, h)'
          BY RepairSpares
        <5>2. doing[q].item \notin late
          BY <1>2, <4>3 DEF Grows
        <5> QED
          BY <3>1, <4>2, <4>3, <5>1, <5>2 DEF Has
      <4> QED
        BY <4>1, <4>3
    <3>3. \A h \in Item : Here(h)' => Here(h)
      BY RepairEffects
    <3> QED
      BY <1>2, <3>1, <3>2, <3>3, OthersSound
  <2> QED
    BY <2>1, <2>2
<1>4. RowsKept'
  <2> SUFFICES ASSUME NEW h \in items', h \notin (late \cup taken)'
               PROVE  (/\ Kept("asset", h) /\ Kept("note", h)
                       /\ h \in Media /\ Ready(h) /\ h \notin condemned => Kept("thumb", h))'
    BY DEF RowsKept
  <2>1. h \in items \cap Item /\ h \notin late \cup taken /\ Here(h)
    BY <1>1, <1>2 DEF Grows, Here
  <2>2. ASSUME NEW k \in {"asset", "note", "thumb"}, k = "thumb" => h \in Media \ condemned, Kept(k, h)
        PROVE  Kept(k, h)'
    <3>1. CASE Has(k, h)
      BY <2>1, <2>2, <3>1, RepairSpares DEF Kept
    <3>2. ASSUME NEW q \in Thread, doing[q].at = "drop" /\ doing[q].item = h /\ Home(k, h) \in doing[q].staged
          PROVE  Kept(k, h)'
      BY <1>1, <3>2 DEF Kept, Home
    <3> QED
      BY <2>2, <3>1, <3>2 DEF Kept
  <2>3. Kept("asset", h)' /\ Kept("note", h)'
    BY <2>1, <2>2 DEF FilesInv, RowsKept
  <2>4. ASSUME h \in Media, Ready(h)', h \notin condemned' PROVE Kept("thumb", h)'
    <3>1. Ready(h) \/ Has("thumb", h)'
      BY <2>1, <2>4, RepairReady
    <3>2. h \notin condemned
      BY <1>2, <2>4 DEF Grows
    <3>3. Ready(h) => Kept("thumb", h)
      BY <2>1, <2>4, <3>2 DEF FilesInv, RowsKept
    <3> QED
      BY <2>2, <2>4, <3>1, <3>2, <3>3 DEF Kept
  <2> QED
    BY <2>3, <2>4
<1> QED
  BY <1>3, <1>4 DEF FilesInv

(* The other calls, one at a time: what their steps have to leave alone. *)
LEMMA ServeStep ==
  ASSUME HealthTypeInv, HealthTypeInv', FilesInv, NEW p \in Callers, Serve(p),
         Grows, taken' = taken,
         \A q \in Thread \ {p} : Stores(doing[q]) =>
            /\ writer' = writer /\ items' \cup gone' = items \cup gone
            /\ \A k \in {"asset", "note"} : Home(k, doing[q].item) \in files => Home(k, doing[q].item) \in files',
         \A h \in Item : Here(h)' => Here(h) \/ ~Repairing \/ h \in late',
         StoreOf(p, doing[p])', KnownOf(doing[p])',
         \A h \in items' \ items : h \in late \cup taken \/ (Has("asset", h)' /\ Has("note", h)' /\ ~Ready(h)'),
         \A h \in items' \cap items, k \in Kind : Kept(k, h) => Kept(k, h)',
         \A h \in items : status'[h] = "ready" => Ready(h),
         doing'[p].at = "ready" => Has("thumb", doing[p].item)'
  PROVE  FilesInv'
<1>1. /\ p \in Thread /\ \A q \in Thread : q # p => doing'[q] = doing[q]
      /\ doing'[p] \in Doing /\ CourseOf(p, doing'[p]) /\ items \subseteq Item
      /\ doing[p] \in Doing /\ CourseOf(p, doing[p])
  BY OneMoves DEF HealthTypeInv, Thread
<1>2. doing'[p].orphans = {} /\ doing'[p].made = {} /\ doing'[p].at # "scan"
  BY <1>1, CourseFacts
<1>3. ASSUME NEW q \in Thread PROVE Valid(q)'
  <2>1. CASE q = p
    <3>1. RowsOf(doing[p])' /\ OrphansOf(doing[p])'
      BY <1>2 DEF RowsOf, OrphansOf
    <3> QED
      BY <2>1, <3>1 DEF Valid
  <2>2. CASE q # p
    <3>1. Valid(q) /\ doing'[q] = doing[q]
      BY <1>1, <2>2 DEF FilesInv
    <3>2. ASSUME Stores(doing[q])
          PROVE  /\ writer' = writer /\ items' \cup gone' = items \cup gone
                 /\ \A k \in {"asset", "note"} : Has(k, doing[q].item) => Has(k, doing[q].item)'
      BY <2>2, <3>1, <3>2 DEF Has
    <3>3. ASSUME doing[q].op = "repair" PROVE Repairing
      <4>1. q \in Repairers
        BY <3>3 DEF HealthTypeInv, CourseOf
      <4> QED
        BY <3>3, <4>1 DEF Repairing
    <3> QED
      BY <3>1, <3>2, <3>3, OthersSound
  <2> QED
    BY <2>1, <2>2
<1>4. RowsKept'
  <2> SUFFICES ASSUME NEW h \in items', h \notin (late \cup taken)'
               PROVE  (/\ Kept("asset", h) /\ Kept("note", h)
                       /\ h \in Media /\ Ready(h) /\ h \notin condemned => Kept("thumb", h))'
    BY DEF RowsKept
  <2>1. h \notin late \cup taken
    BY DEF Grows
  <2>2. CASE h \notin items
    BY <2>1, <2>2 DEF Kept
  <2>3. CASE h \in items
    <3>1. \A k \in {"asset", "note", "thumb"} : Kept(k, h) => Kept(k, h)'
      BY <2>3 DEF Kind
    <3>2. Kept("asset", h)' /\ Kept("note", h)'
      BY <2>1, <2>3, <3>1 DEF FilesInv, RowsKept
    <3>3. ASSUME h \in Media, Ready(h)', h \notin condemned' PROVE Kept("thumb", h)'
      <4>1. Ready(h) \/ Has("thumb", h)'
        <5>1. CASE status'[h] = "ready"
          BY <2>3, <5>1
        <5>2. ASSUME NEW q \in Thread, h \in doing'[q].made \/ (doing'[q].at = "ready" /\ doing'[q].item = h)
              PROVE  Ready(h) \/ Has("thumb", h)'
          <6>1. CASE q = p
            BY <1>2, <5>2, <6>1
          <6>2. CASE q # p
            BY <1>1, <5>2, <6>2 DEF Ready
          <6> QED
            BY <6>1, <6>2
        <5> QED
          BY <3>3, <5>1, <5>2 DEF Ready
      <4>2. h \notin condemned
        BY <3>3 DEF Grows
      <4>3. Ready(h) => Kept("thumb", h)
        BY <2>1, <2>3, <3>3, <4>2 DEF FilesInv, RowsKept
      <4> QED
        BY <3>1, <4>1, <4>3 DEF Kept
    <3> QED
      BY <3>2, <3>3
  <2> QED
    BY <2>2, <2>3
<1> QED
  BY <1>3, <1>4 DEF FilesInv

(* There is one thread that stores an item. *)
LEMMA OneStores ==
  ASSUME HealthTypeInv, FilesInv, NEW q \in Thread, Stores(doing[q])
  PROVE  writer = q /\ writer # Nobody /\ doing[q].item \in Item /\ doing[q].item \notin items \cup gone
<1>1. writer = q /\ doing[q].item \notin items \cup gone
  BY DEF FilesInv, Valid, StoreOf
<1>2. doing[q].item \in Item
  BY CourseFacts DEF HealthTypeInv
<1> QED
  BY <1>1, <1>2, HealthOK DEF HealthOK

LEMMA KeptStays ==
  ASSUME NEW p \in Thread, \A q \in Thread : q # p => doing'[q] = doing[q],
         NEW k, NEW h, doing[p].at # "drop" \/ doing[p].item # h, Has(k, h) => Has(k, h)', Kept(k, h)
  PROVE  Kept(k, h)'
<1>1. CASE Has(k, h)
  BY <1>1 DEF Kept
<1>2. ASSUME NEW q \in Thread, doing[q].at = "drop", doing[q].item = h, Home(k, h) \in doing[q].staged
      PROVE  Kept(k, h)'
  <2>1. doing'[q] = doing[q]
    BY <1>2
  <2> QED
    BY <1>2, <2>1 DEF Kept, Home
<1> QED
  BY <1>1, <1>2 DEF Kept

LEMMA ServeKeepsFiles ==
  ASSUME HealthTypeInv, HealthTypeInv', FilesInv, NEW p \in Callers, Serve(p)
  PROVE  FilesInv'
<1> DEFINE d == doing[p]
           c == doing'[p]
<1>0. /\ p \in Thread /\ d \in Doing /\ c \in Doing /\ CourseOf(p, d) /\ CourseOf(p, c)
      /\ doing \in [Thread -> Doing] /\ items \subseteq Item /\ gone \subseteq Item
      /\ status \in [Item -> Statuses]
      /\ \A q \in Thread : q # p => doing'[q] = doing[q]
  BY OneMoves DEF HealthTypeInv, Thread
<1>1. c.todo = {} /\ c.made = {} /\ c.op # "repair"
  BY <1>0, CourseFacts
<1>2. Valid(p)
  BY <1>0 DEF FilesInv
<1>3. \A h \in Item : Here(h)' =>
         \/ h \in items' \/ (Stores(c) /\ c.item = h) \/ Here(h)
  BY <1>0 DEF Here
<1>k. ASSUME c.at \in {"publish", "ready", "failed"} => c.item \in items' \cup gone'
      PROVE  KnownOf(d)'
  BY <1>1, <1>k DEF KnownOf
<1>s. ASSUME ~Stores(c) PROVE StoreOf(p, d)'
  BY <1>s DEF StoreOf
<1>a. ASSUME NEW h \in Item, IngestCopy(p, h) PROVE FilesInv'
  <2>1. /\ c.at = "store" /\ c.item = h /\ d = Idle
    BY <1>0, <1>a DEF IngestCopy, Become, Begin, CourseOf, Idle
  <2>2. /\ writer = Nobody /\ writer' = p /\ UNCHANGED <<items, gone, status, condemned, taken>>
        /\ h \notin items \cup gone /\ files' = files \cup {Home("asset", h)}
        /\ late' = IF Repairing THEN late \cup {h} ELSE late
    BY <1>a DEF IngestCopy, table
  <2>3. Grows
    BY <2>2 DEF Grows
  <2>4. \A q \in Thread : ~Stores(doing[q])
    BY <2>2, OneStores
  <2>5. \A g \in Item : Here(g)' => Here(g) \/ ~Repairing \/ g \in late'
    BY <1>3, <2>1, <2>2 DEF Here
  <2>6. StoreOf(p, d)'
    BY <2>1, <2>2 DEF StoreOf, Has
  <2>7. KnownOf(d)'
    BY <1>k, <2>1
  <2>8. \A g \in items, k \in Kind : Kept(k, g) => Kept(k, g)'
    BY <1>0, <2>1, <2>2, KeptStays DEF Has, Idle
  <2>9. c.at # "ready" /\ \A g \in items : status'[g] = "ready" => Ready(g)
    BY <2>1, <2>2 DEF Ready
  <2> QED
    BY <2>2, <2>3, <2>4, <2>5, <2>6, <2>7, <2>8, <2>9, ServeStep
<1>q. ASSUME UNCHANGED <<items, gone, past>> \/ (UNCHANGED <<items, gone, late, condemned, taken>>),
             writer' = writer, ~Stores(c), files \subseteq files', d.at # "drop",
             c.at \in {"publish", "ready", "failed"} => c.item \in items' \cup gone',
             \A g \in items : status'[g] = "ready" => Ready(g), c.at = "ready" => Has("thumb", d.item)'
      PROVE  FilesInv'
  <2>1. Grows /\ taken' = taken /\ items' = items /\ gone' = gone
    BY <1>q DEF Grows, past
  <2>2. \A g \in Item : Here(g)' => Here(g)
    BY <1>3, <1>q, <2>1 DEF Here
  <2>3. StoreOf(p, d)' /\ KnownOf(d)'
    BY <1>k, <1>q, <1>s
  <2>4. \A g \in items, k \in Kind : Kept(k, g) => Kept(k, g)'
    BY <1>0, <1>q, KeptStays DEF Has
  <2> QED
    BY <1>q, <2>1, <2>2, <2>3, <2>4, ServeStep
<1>b. CASE IngestStore(p)
  <2>1. PICK K \in {{"note"}, {"note", "wd"}} : files' = files \cup {Home(k, d.item) : k \in K}
    BY <1>b DEF IngestStore
  <2>2. d.at = "store" /\ UNCHANGED <<items, gone, status, writer, past>> /\ c = [d EXCEPT !.at = "commit"]
    BY <1>0, <1>b DEF IngestStore, MoveOn, Become, table
  <2>3. c.at = "commit" /\ c.item = d.item
    BY <1>0, <2>2 DEF Doing
  <2>4. Grows /\ taken' = taken
    BY <2>2 DEF Grows, past
  <2>5. \A g \in Item : Here(g)' => Here(g)
    BY <1>0, <1>3, <2>2, <2>3 DEF Here, Stores
  <2>6. StoreOf(p, d)'
    <3>1. StoreOf(p, d) /\ Home("note", d.item) \in files'
      BY <1>2, <2>1 DEF Valid
    <3> QED
      BY <2>1, <2>2, <2>3, <3>1 DEF StoreOf, Stores, Has, past
  <2>7. KnownOf(d)'
    BY <1>k, <2>3
  <2>8. \A g \in items, k \in Kind : Kept(k, g) => Kept(k, g)'
    <3>1. d.at # "drop" /\ files \subseteq files'
      BY <2>1, <2>2
    <3> QED
      BY <1>0, <3>1, KeptStays DEF Has
  <2>9. c.at # "ready" /\ \A g \in items : status'[g] = "ready" => Ready(g)
    BY <2>2, <2>3 DEF Ready
  <2> QED
    BY <2>1, <2>2, <2>4, <2>5, <2>6, <2>7, <2>8, <2>9, ServeStep
<1>c. CASE IngestCommit(p)
  <2>1. /\ d.at = "commit" /\ items' = items \cup {d.item} /\ UNCHANGED <<gone, disk, past>>
        /\ status' = [status EXCEPT ![d.item] = IF d.item \in Media THEN "pending" ELSE "skipped"]
        /\ c = [d EXCEPT !.at = "publish"] \/ c = Idle
    BY <1>0, <1>c DEF IngestCommit, MoveOn, Become
  <2>2. /\ StoreOf(p, d) /\ Stores(d) /\ d.item \in Item /\ d.item \notin items \cup gone /\ writer = p
    BY <1>0, <1>2, <2>1, OneStores DEF Valid, Stores
  <2>3. c.at \in {"publish", "idle"} /\ (c.at = "publish" => c.item = d.item)
    BY <1>0, <2>1 DEF Doing, Idle
  <2>4. Grows /\ taken' = taken
    BY <2>1 DEF Grows, past
  <2>5. \A q \in Thread \ {p} : ~Stores(doing[q])
    BY <2>2, OneStores
  <2>6. \A g \in Item : Here(g)' => Here(g)
    BY <1>0, <1>3, <2>1, <2>2, <2>3 DEF Here, Stores
  <2>7. StoreOf(p, d)' /\ KnownOf(d)'
    BY <1>k, <1>s, <2>1, <2>3 DEF Stores
  <2>8. ASSUME NEW g \in items' \ items, g \notin late \cup taken
        PROVE  Has("asset", g)' /\ Has("note", g)' /\ ~Ready(g)'
    <3>1. g = d.item
      BY <2>1, <2>8
    <3>2. Has("asset", d.item) /\ Has("note", d.item)
      BY <2>1, <2>2, <2>8, <3>1 DEF StoreOf
    <3>3. status'[g] # "ready"
      BY <1>0, <2>1, <2>2, <3>1
    <3>4. ASSUME NEW q \in Thread PROVE g \notin doing'[q].made /\ ~(doing'[q].at = "ready" /\ doing'[q].item = g)
      <4>1. CASE q = p
        BY <1>1, <2>3, <4>1
      <4>2. CASE q # p
        <5>1. KnownOf(doing[q]) /\ doing'[q] = doing[q]
          BY <1>0, <4>2 DEF FilesInv, Valid
        <5> QED
          BY <2>2, <3>1, <5>1 DEF KnownOf
      <4> QED
        BY <4>1, <4>2
    <3>5. ~Ready(g)'
      BY <3>3, <3>4 DEF Ready
    <3>6. Home("asset", g) \in files' /\ Home("note", g) \in files'
      BY <2>1, <3>1, <3>2 DEF Has, disk
    <3> QED
      BY <3>5, <3>6 DEF Has
  <2>9. \A g \in items, k \in Kind : Kept(k, g) => Kept(k, g)'
    BY <1>0, <2>1, KeptStays DEF Has, disk
  <2>10. c.at # "ready" /\ \A g \in items : status'[g] = "ready" => Ready(g)
    BY <1>0, <2>1, <2>2, <2>3 DEF Ready
  <2> QED
    BY <2>4, <2>5, <2>6, <2>7, <2>8, <2>9, <2>10, ServeStep
<1>d. CASE IngestRaise(p)
  <2>1. /\ Stores(d) /\ files' = files \ {Home("asset", d.item), Home("note", d.item)} /\ c = Idle
        /\ UNCHANGED <<items, gone, status, past>>
    BY <1>0, <1>d DEF IngestRaise, Become, Stores, table
  <2>2. d.item \notin items /\ d.at # "drop" /\ ~Stores(c) /\ c.at = "idle"
    BY <1>0, <2>1, OneStores DEF Stores, Idle
  <2>3. Grows /\ taken' = taken
    BY <2>1 DEF Grows, past
  <2>4. \A q \in Thread \ {p} : ~Stores(doing[q])
    BY <1>0, <2>1, OneStores
  <2>5. \A g \in Item : Here(g)' => Here(g)
    BY <1>3, <2>1, <2>2 DEF Here
  <2>6. StoreOf(p, d)' /\ KnownOf(d)'
    BY <1>k, <1>s, <2>2
  <2>7. \A g \in items, k \in Kind : Kept(k, g) => Kept(k, g)'
    <3>1. \A g \in items, k \in Kind : Has(k, g) => Has(k, g)'
      BY <2>1, <2>2 DEF Has, Home
    <3> QED
      BY <1>0, <2>2, <3>1, KeptStays
  <2>8. c.at # "ready" /\ \A g \in items : status'[g] = "ready" => Ready(g)
    BY <2>1, <2>2 DEF Ready
  <2> QED
    BY <2>1, <2>3, <2>4, <2>5, <2>6, <2>7, <2>8, ServeStep
<1>e. CASE IngestThumb(p)
  <2>1. /\ d.at = "publish" /\ UNCHANGED <<items, gone, status, writer, past>>
        /\ \/ Made(d.item) /\ c = [d EXCEPT !.at = "ready"]
           \/ UNCHANGED disk /\ c = [d EXCEPT !.at = "failed"]
    BY <1>0, <1>e DEF IngestThumb, MoveOn, Become, table
  <2>2. c.item = d.item /\ c.at \in {"ready", "failed"} /\ (c.at = "ready" => Made(d.item))
    BY <1>0, <2>1 DEF Doing
  <2>3. files \subseteq files' /\ (c.at = "ready" => Home("thumb", c.item) \in files')
    BY <2>1, <2>2 DEF Made, disk
  <2>4. c.item \in items' \cup gone'
    BY <1>2, <2>1, <2>2 DEF Valid, KnownOf
  <2>5. ~Stores(c) /\ d.at # "drop" /\ \A g \in items : status'[g] = "ready" => Ready(g)
    BY <2>1, <2>2 DEF Stores, Ready
  <2> QED
    BY <1>q, <2>1, <2>3, <2>4, <2>5 DEF Has
<1>f. CASE IngestStatus(p)
  <2>1. /\ d.at \in {"ready", "failed"} /\ UNCHANGED <<items, gone, writer, disk, past>>
        /\ status' = [status EXCEPT ![d.item] = d.at] \/ status' = status
        /\ c = [d EXCEPT !.at = "failed"] \/ c = Idle
    BY <1>0, <1>f DEF IngestStatus, MoveOn, Become
  <2>2. c.at \in {"failed", "idle"} /\ (c.at = "failed" => c.item = d.item)
    BY <1>0, <2>1 DEF Doing, Idle
  <2>3. c.at = "failed" => c.item \in items' \cup gone'
    BY <1>2, <2>1, <2>2 DEF Valid, KnownOf
  <2>4. \A g \in items : status'[g] = "ready" => Ready(g)
    BY <1>0, <2>1 DEF Ready
  <2> QED
    BY <1>q, <2>1, <2>2, <2>3, <2>4 DEF Stores, disk
<1>g. ASSUME NEW h \in Item, DeleteStage(p, h) PROVE FilesInv'
  <2> DEFINE S == {f \in files : f.item = h}
  <2>1. /\ d = Idle /\ h \in items /\ files' = files \ S /\ c.at = "drop" /\ c.item = h /\ c.staged = S
        /\ UNCHANGED <<items, gone, status, writer, late, condemned, taken>>
    BY <1>0, <1>g DEF DeleteStage, Become, Begin, CourseOf, Idle, table, past
  <2>2. \A k \in Kind, g \in Item : Home(k, g).item = g
    BY DEF Home
  <2>3. Grows
    BY <2>1 DEF Grows
  <2>4. ASSUME NEW q \in Thread \ {p}, Stores(doing[q])
        PROVE  \A k \in {"asset", "note"} : Home(k, doing[q].item) \in files => Home(k, doing[q].item) \in files'
    <3>1. doing[q].item # h
      BY <2>1, <2>4, OneStores
    <3> QED
      BY <2>1, <3>1 DEF Home
  <2>5. \A g \in Item : Here(g)' => Here(g)
    BY <1>3, <2>1 DEF Here, Stores
  <2>6. StoreOf(p, d)' /\ KnownOf(d)'
    BY <1>k, <1>s, <2>1 DEF Stores
  <2>7. ASSUME NEW g \in items, NEW k \in Kind, Kept(k, g) PROVE Kept(k, g)'
    <3>1. CASE g # h
      <4>1. Has(k, g) => Has(k, g)'
        BY <1>0, <2>1, <2>2, <3>1 DEF Has
      <4> QED
        BY <1>0, <2>1, <2>7, <4>1, KeptStays DEF Idle
    <3>2. CASE g = h /\ Has(k, g)
      <4>1. Home(k, h) \in S
        BY <2>2, <3>2 DEF Has
      <4>2. Home(k, h) \in doing'[p].staged /\ doing'[p].at = "drop" /\ doing'[p].item = h
        BY <2>1, <4>1
      <4> HIDE DEF S, c
      <4> QED
        BY <1>0, <3>2, <4>2 DEF Kept, Home
    <3>3. CASE ~Has(k, g)
      BY <1>0, <2>1, <2>7, <3>3, KeptStays DEF Idle
    <3> QED
      BY <3>1, <3>2, <3>3
  <2>8. c.at # "ready" /\ \A g \in items : status'[g] = "ready" => Ready(g)
    BY <2>1 DEF Ready
  <2> HIDE DEF S
  <2> QED
    BY <2>1, <2>3, <2>4, <2>5, <2>6, <2>7, <2>8, ServeStep
<1>h. CASE DeleteDrop(p)
  <2>1. /\ writer = Nobody /\ items' = items \ {d.item} /\ gone' = gone \cup {d.item} /\ c = Idle
        /\ UNCHANGED <<status, disk, past>>
    BY <1>0, <1>h DEF DeleteDrop, Become
  <2>2. Grows /\ taken' = taken /\ c.at = "idle" /\ ~Stores(c)
    BY <2>1 DEF Grows, past, Idle, Stores
  <2>3. \A q \in Thread : ~Stores(doing[q])
    BY <2>1, OneStores
  <2>4. \A g \in Item : Here(g)' => Here(g)
    BY <1>3, <2>1, <2>2 DEF Here
  <2>5. StoreOf(p, d)' /\ KnownOf(d)'
    BY <1>k, <1>s, <2>2
  <2>6. \A g \in items' \cap items, k \in Kind : Kept(k, g) => Kept(k, g)'
    <3>1. \A g, k : Has(k, g) => Has(k, g)'
      BY <2>1 DEF Has, disk
    <3> QED
      BY <1>0, <2>1, <3>1, KeptStays
  <2>7. \A g \in items : status'[g] = "ready" => Ready(g)
    BY <2>1 DEF Ready
  <2> QED
    BY <2>1, <2>2, <2>3, <2>4, <2>5, <2>6, <2>7, ServeStep
<1>i. CASE DeleteFails(p)
  <2>1. /\ files' = files \cup d.staged /\ c = Idle
        /\ UNCHANGED <<items, gone, status, writer, past>>
    BY <1>0, <1>i DEF DeleteFails, Become, table
  <2>2. Grows /\ taken' = taken /\ c.at = "idle" /\ ~Stores(c)
    BY <2>1 DEF Grows, past, Idle, Stores
  <2>4. \A g \in Item : Here(g)' => Here(g)
    BY <1>3, <2>1, <2>2 DEF Here
  <2>5. StoreOf(p, d)' /\ KnownOf(d)'
    BY <1>k, <1>s, <2>2
  <2>6. ASSUME NEW g \in items, NEW k \in Kind, Kept(k, g) PROVE Kept(k, g)'
    <3>1. CASE d.item # g \/ Has(k, g)'
      BY <1>0, <2>1, <2>6, <3>1, KeptStays DEF Has, Kept
    <3>2. CASE ~Has(k, g)'
      <4>1. Home(k, g) \notin files /\ Home(k, g) \notin d.staged
        BY <2>1, <3>2 DEF Has
      <4>2. PICK q \in Thread : doing[q].at = "drop" /\ doing[q].item = g /\ Home(k, g) \in doing[q].staged
        BY <2>6, <4>1 DEF Kept, Has
      <4>3. doing'[q] = doing[q]
        BY <1>0, <4>1, <4>2
      <4> QED
        BY <4>2, <4>3 DEF Kept, Home
    <3> QED
      BY <3>1, <3>2
  <2>7. \A g \in items : status'[g] = "ready" => Ready(g)
    BY <2>1 DEF Ready
  <2> QED
    BY <2>1, <2>2, <2>4, <2>5, <2>6, <2>7, ServeStep
<1>j. ASSUME NEW h \in Item, Show(p, h) PROVE FilesInv'
  <2>1. d = Idle /\ c.at = "try" /\ UNCHANGED <<items, gone, status, writer, disk, late, condemned, taken>>
    BY <1>0, <1>j DEF Show, Become, Begin, CourseOf, Idle, table, past
  <2> QED
    BY <1>q, <2>1 DEF Idle, Stores, Ready, disk
<1>l. CASE ShowTry(p)
  <2>1. /\ d.at = "try" /\ UNCHANGED <<items, gone, status, writer, disk, past>>
        /\ c = Idle \/ c = [d EXCEPT !.at = "mark"] \/ c = [d EXCEPT !.at = "make"]
    BY <1>0, <1>l DEF ShowTry, MoveOn, Become, table
  <2>2. c.at \in {"idle", "mark", "make"}
    BY <1>0, <2>1 DEF Doing, Idle
  <2> QED
    BY <1>q, <2>1, <2>2 DEF Stores, Ready, disk
<1>m. CASE ShowMake(p)
  <2>1. /\ d.at = "make" /\ UNCHANGED <<items, gone, status, writer, past>> /\ files \subseteq files'
        /\ c = Idle \/ c = [d EXCEPT !.at = "mark"]
    BY <1>0, <1>m DEF ShowMake, MoveOn, Become, Made, table, disk
  <2>2. c.at \in {"idle", "mark"}
    BY <1>0, <2>1 DEF Doing, Idle
  <2> QED
    BY <1>q, <2>1, <2>2 DEF Stores, Ready
<1>n. CASE ShowMark(p)
  <2>1. /\ d.at = "mark" /\ UNCHANGED <<items, gone, writer, disk, past>> /\ c = Idle
        /\ status' = status \/ status' = [status EXCEPT ![d.item] = "failed"]
    BY <1>0, <1>n DEF ShowMark, Become
  <2>2. \A g \in items : status'[g] = "ready" => Ready(g)
    BY <1>0, <2>1 DEF Ready
  <2> QED
    BY <1>q, <2>1, <2>2 DEF Stores, Idle, disk
<1> QED
  BY <1>a, <1>b, <1>c, <1>d, <1>e, <1>f, <1>g, <1>h, <1>i, <1>j, <1>l, <1>m, <1>n DEF Serve

(* What the user takes is written down, and what a crash leaves in the trash. *)
LEMMA OutsideKeepsFiles ==
  ASSUME HealthTypeInv, HealthTypeInv', FilesInv, NEW h \in Item, Outside(h)
  PROVE  FilesInv'
<1>1. /\ doing' = doing /\ writer' = writer /\ late' = late /\ condemned' = condemned
      /\ items' = items /\ gone' = gone /\ status' = status
  BY DEF Outside, table
<1>2. taken \subseteq taken' /\ \A f \in files : f \in files' \/ f.item \in taken'
  <2>1. CASE taken' = taken \cup {h} /\ \E k \in Kind : files' = files \ {Home(k, h)}
    BY <2>1 DEF Home
  <2>2. CASE taken' = taken /\ \E k \in Kind : files' = files \cup {Astray(k, h)}
    BY <2>2
  <2>3. CASE taken' = taken /\ files' = files
    BY <2>3
  <2> QED
    BY <2>1, <2>2, <2>3 DEF Outside
<1>3. Grows
  BY <1>1, <1>2 DEF Grows
<1>4. \A g : Here(g)' <=> Here(g)
  BY <1>1 DEF Here
<1>5. \A g, k : Has(k, g) => Has(k, g)' \/ g \in taken'
  BY <1>2 DEF Has, Home
<1>6. ASSUME NEW q \in Thread PROVE Valid(q)'
  <2>1. Valid(q) /\ doing'[q] = doing[q]
    BY <1>1 DEF FilesInv
  <2>2. \A k \in {"asset", "note"} :
           Has(k, doing[q].item) => Has(k, doing[q].item)' \/ doing[q].item \in late' \cup taken'
    BY <1>5, <2>1 DEF Has
  <2> QED
    BY <1>1, <1>3, <1>4, <2>1, <2>2, OthersSound
<1>7. RowsKept'
  <2> SUFFICES ASSUME NEW g \in items', g \notin (late \cup taken)'
               PROVE  (/\ Kept("asset", g) /\ Kept("note", g)
                       /\ g \in Media /\ Ready(g) /\ g \notin condemned => Kept("thumb", g))'
    BY DEF RowsKept
  <2>1. \A k : Kept(k, g) => Kept(k, g)'
    BY <1>1, <1>5 DEF Kept, Home
  <2>2. g \in items /\ g \notin late \cup taken
    BY <1>1, <1>2
  <2>3. Ready(g)' => Ready(g)
    BY <1>1 DEF Ready
  <2> QED
    BY <1>1, <2>1, <2>2, <2>3 DEF FilesInv, RowsKept
<1> QED
  BY <1>6, <1>7 DEF FilesInv

LEMMA RestartKeepsFiles ==
  ASSUME HealthTypeInv, FilesInv, Restart
  PROVE  FilesInv'
<1>1. /\ doing' = [p \in Thread |-> Idle] /\ late' = late /\ condemned' = condemned
      /\ items' = items /\ status' = status /\ files' = files
      /\ taken' = taken \cup {doing[p].item : p \in {q \in Thread : doing[q].at = "drop"}}
  BY DEF Restart, table, disk
<1>2. ASSUME NEW q \in Thread PROVE Valid(q)'
  <2>1. doing'[q] = Idle
    BY <1>1
  <2> QED
    BY <2>1 DEF Valid, StoreOf, KnownOf, RowsOf, OrphansOf, Idle, Stores
<1>3. RowsKept'
  <2> SUFFICES ASSUME NEW g \in items', g \notin (late \cup taken)'
               PROVE  (/\ Kept("asset", g) /\ Kept("note", g)
                       /\ g \in Media /\ Ready(g) /\ g \notin condemned => Kept("thumb", g))'
    BY DEF RowsKept
  <2>1. \A k : Kept(k, g) => Kept(k, g)'
    BY <1>1 DEF Kept, Has
  <2>2. g \in items /\ g \notin late \cup taken
    BY <1>1
  <2>3. Ready(g)' => Ready(g)
    BY <1>1 DEF Ready, Idle
  <2> QED
    BY <1>1, <2>1, <2>2, <2>3 DEF FilesInv, RowsKept
<1> QED
  BY <1>2, <1>3 DEF FilesInv

LEMMA FilesFirst == HealthInit => FilesInv
<1> SUFFICES ASSUME HealthInit PROVE FilesInv
  OBVIOUS
<1>1. \A p \in Thread : doing[p] = Idle
  BY DEF HealthInit
<1>2. \A p \in Thread : Valid(p)
  BY <1>1 DEF Valid, StoreOf, KnownOf, RowsOf, OrphansOf, Idle, Stores
<1>3. \A h \in items : /\ Home("asset", h) \in files /\ Home("note", h) \in files
                       /\ h \in Media => Home("thumb", h) \in files
  BY DEF HealthInit, Kind
<1>4. RowsKept
  BY <1>3 DEF RowsKept, Kept, Has
<1> QED
  BY <1>2, <1>4 DEF FilesInv

LEMMA FilesNext ==
  HealthTypeInv /\ HealthTypeInv' /\ FilesInv /\ [HealthNext]_healthVars => FilesInv'
<1> SUFFICES ASSUME HealthTypeInv, HealthTypeInv', FilesInv, [HealthNext]_healthVars PROVE FilesInv'
  OBVIOUS
<1>1. ASSUME NEW p \in Repairers, Repair(p) PROVE FilesInv'
  BY <1>1, RepairKeepsFiles
<1>2. ASSUME NEW p \in Callers, Serve(p) PROVE FilesInv'
  BY <1>2, ServeKeepsFiles
<1>3. ASSUME NEW h \in Item, Outside(h) PROVE FilesInv'
  BY <1>3, OutsideKeepsFiles
<1>4. CASE Restart
  BY <1>4, RestartKeepsFiles
<1>5. CASE UNCHANGED healthVars
  <2>1. /\ UNCHANGED <<items, gone, status, writer, files, doing, late, condemned, taken>>
    BY <1>5 DEF healthVars, table, disk, past
  <2>2. \A h : Here(h)' <=> Here(h)
    BY <2>1 DEF Here
  <2>3. \A p \in Thread : Valid(p)'
    BY <2>1, <2>2 DEF FilesInv, Valid, StoreOf, KnownOf, RowsOf, OrphansOf, Spare, Has
  <2>4. RowsKept'
    BY <2>1 DEF FilesInv, RowsKept, Kept, Has, Ready
  <2> QED
    BY <2>3, <2>4 DEF FilesInv
<1> QED
  BY <1>1, <1>2, <1>3, <1>4, <1>5 DEF HealthNext

(* Whatever the repair unlinks and moves away without a lock, an item that
   was in the table when the audit read it keeps its asset, its note and the
   thumbnail the table calls ready (repair_vault in vaults.py). *)
THEOREM RepairSparesFiles == HealthSpec => []FilesSpared
<1>1. HealthInit => HealthTypeInv /\ FilesInv
  BY HealthTypeFirst, FilesFirst
<1>2. HealthTypeInv /\ FilesInv /\ [HealthNext]_healthVars => (HealthTypeInv /\ FilesInv)'
  BY HealthTypeNext, FilesNext
<1>3. HealthTypeInv /\ FilesInv => FilesSpared
  <2> SUFFICES ASSUME HealthTypeInv, FilesInv, NEW h \in items \ (late \cup taken), ~InHand(h)
               PROVE  /\ Has("asset", h) /\ Has("note", h)
                      /\ h \in Media /\ status[h] = "ready" /\ h \notin condemned => Has("thumb", h)
    BY DEF FilesSpared
  <2>1. \A q \in Thread : doing[q].at = "drop" => q \in Callers
    BY CourseFacts DEF HealthTypeInv
  <2>2. \A k : Kept(k, h) => Has(k, h)
    BY <2>1 DEF Kept, InHand
  <2> QED
    BY <2>2 DEF FilesInv, RowsKept, Ready
<1> QED
  BY <1>1, <1>2, <1>3, PTL DEF HealthSpec

-----------------------------------------------------------------------------
(* What a repair has established of an item stands while the item's row and
   files do. *)
SameItem(h) ==
    /\ h \in items' <=> h \in items
    /\ status'[h] = status[h]
    /\ \A f : f.item = h => (f \in files' <=> f \in files)

LEMMA CourseStands ==
  ASSUME NEW c \in Doing, NEW h \in Item, SameItem(h), condemned \subseteq condemned', Course(c, h)
  PROVE  Course(c, h)'
<1>1. \A k : Has(k, h)' <=> Has(k, h)
  BY DEF SameItem, Has, Home
<1>2. \A f : f.item = h => (Wanted(f)' <=> Wanted(f))
  BY DEF SameItem, Wanted
<1>3. Listed(c, h) => Listed(c, h)'
  BY <1>2 DEF SameItem, Listed
<1>4. \A f \in files' : f.item = h => f \in files
  BY DEF SameItem
<1>5. h \in items' <=> h \in items
  BY DEF SameItem
<1>6. status'[h] = status[h]
  BY DEF SameItem
<1>7. Given(c, h) => Given(c, h)'
  BY <1>1, <1>5, <1>6 DEF Given
<1>8. \A f : f.item = h /\ Excused(c, f) => Excused(c, f)'
  BY <1>1 DEF SameItem, Excused
<1> QED
  BY <1>1, <1>2, <1>3, <1>4, <1>5, <1>6, <1>7, <1>8 DEF Course

(* What nobody else has changed since the audit is the same after a step. *)
LEMMA UntouchedSame ==
  ASSUME NEW p \in Thread \cup {Nobody}, Touch(p), NEW q \in Repairers, q # p,
         doing[q].op = "repair", doing'[q].op = "repair", NEW h \in Item \ touched'[q]
  PROVE  h \notin touched[q] /\ SameItem(h)
<1>1. touched'[q] = touched[q] \cup Changed
  BY DEF Touch
<1>2. h \notin Changed
  BY <1>1
<1>3. FilesOf(h, files') = FilesOf(h, files)
  BY <1>2 DEF Changed
<1> QED
  BY <1>1, <1>2, <1>3 DEF Changed, FilesOf, SameItem

(* The files the table wants are the files the audit expects of an item whose
   row it has read, unless the thumbnail had failed. *)
LEMMA ExpectedWanted ==
  ASSUME NEW H, NEW F, NEW f \in File, f.item \in H <=> f.item \in items, f.item \notin F
  PROVE  f \in Expected(H, F) <=> Wanted(f)
<1>1. f.kind \in {"asset", "note", "wd", "thumb"} /\ f.home \in BOOLEAN
  BY DEF File, Kind
<1>2. f.home => f = Home(f.kind, f.item)
  BY <1>1 DEF File, Home
<1>3. \A k, h : Home(k, h).kind = k /\ Home(k, h).item = h /\ Home(k, h).home
  BY DEF Home
<1>4. Wanted(f) => f \in Expected(H, F)
  <2> SUFFICES ASSUME Wanted(f) PROVE f \in Expected(H, F)
    OBVIOUS
  <2>1. f.item \in H /\ f = Home(f.kind, f.item) /\ (f.kind \in {"wd", "thumb"} => f.item \in Media)
    BY <1>2 DEF Wanted, Derived
  <2>2. CASE f.kind \in {"asset", "note"}
    BY <2>1, <2>2 DEF Expected
  <2>3. CASE f.kind = "wd"
    BY <2>1, <2>3 DEF Expected
  <2>4. CASE f.kind = "thumb"
    BY <2>1, <2>4 DEF Expected
  <2> QED
    BY <1>1, <2>2, <2>3, <2>4
<1>5. f \in Expected(H, F) => Wanted(f)
  <2>1. ASSUME NEW k \in {"asset", "note"}, NEW h \in H, f = Home(k, h) PROVE Wanted(f)
    BY <1>3, <2>1 DEF Wanted, Derived
  <2>2. ASSUME NEW h \in H \cap Media, f = Home("wd", h) \/ f = Home("thumb", h) PROVE Wanted(f)
    BY <1>3, <2>2 DEF Wanted, Derived
  <2> QED
    BY <2>1, <2>2 DEF Expected
<1> QED
  BY <1>4, <1>5

(* Of what the table wants, the audit leaves out failed thumbnails only. *)
LEMMA ExpectedOrFailed ==
  ASSUME NEW H, NEW F, NEW f \in File, f.item \in H <=> f.item \in items
  PROVE  /\ f \in Expected(H, F) => Wanted(f)
         /\ Wanted(f) /\ f \notin Expected(H, F) => f = Home("thumb", f.item) /\ f.item \in F
         /\ \A h \in F : Home("thumb", h) \notin Expected(H, F)
<1>1. f \in Expected(H, {}) <=> Wanted(f)
  BY ExpectedWanted
<1>2. \A k, h : Home(k, h).kind = k /\ Home(k, h).item = h
  BY DEF Home
<1>3. f \in Expected(H, F) => f \in Expected(H, {})
  BY DEF Expected
<1>4. f \in Expected(H, {}) /\ f \notin Expected(H, F) => f = Home("thumb", f.item) /\ f.item \in F
  BY <1>2 DEF Expected
<1>5. \A h \in F : Home("thumb", h) \notin Expected(H, F)
  BY <1>2 DEF Expected
<1> QED
  BY <1>1, <1>3, <1>4, <1>5

(* The audit: what a folder holds that the table does not want is listed. *)
LEMMA AuditCourse ==
  ASSUME HealthTypeInv, HealthTypeInv', NEW p \in Repairers, AuditScan(p),
         NEW h \in Item, Course(doing[p], h)
  PROVE  Course(doing[p], h)'
<1> DEFINE d == doing[p]
           c == doing'[p]
           k == Folder[d.folder]
           found == {f \in files : f.kind = k} \ Expected(d.rows, d.failed)
<1>0. /\ p \in Thread /\ d \in Doing /\ CourseOf(p, d) /\ doing \in [Thread -> Doing] /\ files \subseteq File
  BY DEF HealthTypeInv, Thread
<1>1. /\ d.at = "scan" /\ d.folder \in 1..4 /\ UNCHANGED <<items, status, files, condemned>>
  BY <1>0, OpOf DEF AuditScan, CourseOf, RepairStep, table, disk, past
<1>2. /\ (h \in d.rows <=> h \in items) /\ (h \in d.failed <=> h \in items /\ status[h] = "failed")
      /\ h \in d.failed => h \in condemned
      /\ \A f \in d.orphans : f.item = h => ~Wanted(f) \/ (f = Home("thumb", h) /\ h \in condemned)
      /\ \A f \in files : f.item = h /\ (\E i \in 1..(d.folder - 1) : Folder[i] = f.kind)
            => Wanted(f) \/ f \in d.orphans
  BY <1>1 DEF Course
<1>3. \A f \in files : f.item = h /\ f.kind = k =>
         /\ f \in found \/ Wanted(f)
         /\ f \in found => ~Wanted(f) \/ (f = Home("thumb", h) /\ h \in condemned)
         /\ f = Home("thumb", h) /\ h \in d.failed => f \in found
  BY <1>0, <1>2, ExpectedOrFailed
<1>4. \A f \in d.orphans \cup found : f.item = h => ~Wanted(f) \/ (f = Home("thumb", h) /\ h \in condemned)
  BY <1>2, <1>3
<1>5. \A f \in files : f.item = h /\ (\E i \in 1..d.folder : Folder[i] = f.kind)
         => Wanted(f) \/ f \in d.orphans \cup found
  <2> SUFFICES ASSUME NEW f \in files, f.item = h, NEW i \in 1..d.folder, Folder[i] = f.kind
               PROVE  Wanted(f) \/ f \in d.orphans \cup found
    OBVIOUS
  <2>1. i \in 1..(d.folder - 1) \/ i = d.folder
    BY <1>1
  <2> QED
    BY <1>2, <1>3, <2>1
<1>6. \A f \in files : Wanted(f)' <=> Wanted(f)
  BY <1>1 DEF Wanted
<1>w. \A f \in d.orphans \cup found : Wanted(f)' <=> Wanted(f)
  BY <1>1 DEF Wanted
<1>7. CASE k = "thumb"
  <2>1. c = [Idle EXCEPT !.op = "repair", !.at = "rows", !.orphans = d.orphans \cup found]
    BY <1>0, <1>7 DEF AuditScan, Become
  <2> HIDE DEF found, k
  <2>2. c.at = "rows" /\ c.orphans = d.orphans \cup found /\ c.todo = {}
    BY <2>1 DEF Idle
  <2>5. Given(d, h)'
    <3>1. Has("thumb", h) /\ h \in d.failed => Home("thumb", h) \in found
      <4>1. Home("thumb", h).kind = "thumb" /\ Home("thumb", h).item = h
        BY DEF Home
      <4> QED
        BY <1>3, <1>7, <4>1 DEF Has
    <3> QED
      BY <1>1, <1>2, <2>2, <3>1 DEF Given, Has
  <2>3. \A f \in files : f.item = h => Wanted(f) \/ f \in c.orphans
    <3>1. d.folder = 4
      BY <1>1, <1>7 DEF k, Folder
    <3>2. \A f \in files : \E i \in 1..4 : Folder[i] = f.kind
      <4>1. \A f \in files : f.kind \in {"asset", "note", "wd", "thumb"}
        BY <1>0 DEF File, Kind
      <4>2. Folder[1] = "asset" /\ Folder[2] = "note" /\ Folder[3] = "wd" /\ Folder[4] = "thumb"
        BY DEF Folder
      <4> QED
        BY <4>1, <4>2
    <3> QED
      BY <1>5, <2>2, <3>1, <3>2
  <2>4. Listed(d, h)'
    BY <1>1, <1>6, <2>3 DEF Listed
  <2> QED
    BY <1>1, <1>4, <1>w, <2>2, <2>4, <2>5 DEF Course
<1>8. CASE k # "thumb"
  <2>1. c = [d EXCEPT !.orphans = @ \cup found, !.folder = @ + 1]
    BY <1>0, <1>8 DEF AuditScan, Become
  <2> HIDE DEF found, k
  <2>2. /\ c.at = "scan" /\ c.orphans = d.orphans \cup found /\ c.todo = d.todo
        /\ c.rows = d.rows /\ c.failed = d.failed /\ c.folder = d.folder + 1
    BY <1>0, <1>1, <2>1 DEF Doing
  <2>3. c.folder - 1 = d.folder
    BY <1>1, <2>2
  <2>4. h \in d.todo => h \in items \cap Media
    BY DEF Course
  <2> QED
    BY <1>1, <1>2, <1>4, <1>5, <1>6, <1>w, <2>2, <2>3, <2>4 DEF Course
<1> QED
  BY <1>7, <1>8

(* Every step of a repair adds to what it has established of an item nobody
   else works on. *)
LEMMA RepairCourse ==
  ASSUME HealthTypeInv, HealthTypeInv', NEW p \in Repairers, Repair(p), doing'[p].op = "repair",
         NEW h \in Item, doing[p].op = "repair" => Course(doing[p], h)
  PROVE  Course(doing[p], h)'
<1> DEFINE d == doing[p]
           c == doing'[p]
<1>0. /\ p \in Thread /\ d \in Doing /\ c \in Doing /\ CourseOf(p, d) /\ CourseOf(p, c)
      /\ doing \in [Thread -> Doing] /\ files \subseteq File /\ items \subseteq Item
      /\ status \in [Item -> Statuses]
  BY DEF HealthTypeInv, Thread
<1>1. d.at \in RepairStep \ {"make"} => d.op = "repair"
  BY <1>0, OpOf
<1>2. \A k, g : Home(k, g).kind = k /\ Home(k, g).item = g /\ Home(k, g).home /\ ~Astray(k, g).home
  BY DEF Home, Astray
<1>i. ~Become(p, Idle)
  BY <1>0 DEF Become, Idle
<1>s. d.op = "repair" => Course(d, h)
  OBVIOUS
<1>a. CASE AuditRows(p)
  <2> DEFINE r == [Idle EXCEPT !.op = "repair", !.at = "scan", !.rows = items, !.failed = Failed,
                               !.folder = 1]
  <2>1. c = r
    BY <1>0, <1>a DEF AuditRows, Become
  <2>2. /\ c.at = "scan" /\ c.rows = items /\ c.failed = Failed /\ c.todo = {}
        /\ c.orphans = {} /\ c.folder = 1
    BY <2>1 DEF Idle
  <2>3. UNCHANGED <<items, status, files>> /\ condemned' = condemned \cup Failed
    BY <1>a DEF AuditRows, table, disk
  <2>4. h \in Failed <=> h \in items /\ status[h] = "failed"
    BY DEF Failed
  <2>5. \A i \in 1..(c.folder - 1) : FALSE
    BY <2>2
  <2> QED
    BY <2>2, <2>3, <2>4, <2>5 DEF Course
<1>b. CASE AuditScan(p)
  <2>1. d.op = "repair"
    BY <1>1, <1>b DEF AuditScan, RepairStep
  <2> QED
    BY <1>b, <1>s, <2>1, AuditCourse
<1>c. CASE ThumbRows(p)
  <2>1. /\ c = [d EXCEPT !.at = "thumbs", !.todo = items \cap Media, !.seen = <<items, status>>]
        /\ d.at = "rows" /\ UNCHANGED <<items, status, files>> /\ Course(d, h)
    BY <1>0, <1>1, <1>c, <1>s DEF ThumbRows, Become, RepairStep, table, disk
  <2>2. /\ c.at = "thumbs" /\ c.todo = items \cap Media /\ c.orphans = d.orphans /\ c.unmade = d.unmade
        /\ c.made = d.made
    BY <1>0, <2>1 DEF Doing
  <2>q. condemned' = condemned
    BY <1>c DEF ThumbRows, past
  <2> QED
    BY <2>q, <2>1, <2>2 DEF Course, Given, Listed, Wanted, Has
<1>d. ASSUME NEW g \in Item, ThumbTake(p, g) PROVE Course(d, h)'
  <2>1. /\ \/ c = [d EXCEPT !.todo = @ \ {g}] /\ (~Has("asset", g) \/ Has("thumb", g))
           \/ c = [d EXCEPT !.todo = @ \ {g}, !.item = g, !.at = "make"]
        /\ d.at = "thumbs" /\ g \in d.todo /\ UNCHANGED <<items, status>> /\ Course(d, h)
        /\ files' = files \ {Astray("thumb", g)}
    BY <1>0, <1>1, <1>d, <1>s DEF ThumbTake, Become, RepairStep, table, Fresh, Swept
  <2>2. /\ c.todo = d.todo \ {g} /\ c.orphans = d.orphans /\ c.unmade = d.unmade /\ c.made = d.made
        /\ \/ c.at = "thumbs" /\ (~Has("asset", g) \/ Has("thumb", g))
           \/ c.at = "make" /\ c.item = g
    <3>1. CASE c = [d EXCEPT !.todo = @ \ {g}] /\ (~Has("asset", g) \/ Has("thumb", g))
      BY <1>0, <2>1, <3>1 DEF Doing
    <3>2. CASE c = [d EXCEPT !.todo = @ \ {g}, !.item = g, !.at = "make"]
      BY <1>0, <3>2 DEF Doing
    <3> QED
      BY <2>1, <3>1, <3>2
  <2>3. \A k, e : Has(k, e)' <=> Has(k, e)
    BY <1>2, <2>1 DEF Has
  <2>4. Listed(d, h)'
    <3>1. Listed(d, h)
      BY <2>1 DEF Course
    <3> QED
      BY <2>1, <2>2, <3>1 DEF Listed, Wanted
  <2>q. condemned' = condemned
    BY <1>d DEF ThumbTake, past
  <2> QED
    BY <2>q, <2>1, <2>2, <2>3, <2>4 DEF Course, Given, Wanted
<1>e. CASE ThumbMake(p)
  <2>1. /\ \/ c = [d EXCEPT !.at = "set", !.made = @ \cup {d.item}] /\ files' = files \cup {Home("thumb", d.item)}
           \/ c = [d EXCEPT !.at = "set", !.unmade = @ \cup {d.item}] /\ files' = files
        /\ d.op = "repair" /\ d.at = "make" /\ UNCHANGED <<items, status>> /\ Course(d, h)
    BY <1>0, <1>e, <1>s DEF ThumbMake, Become, table, Made, disk
  <2>2. /\ c.at = "set" /\ c.item = d.item /\ c.todo = d.todo /\ c.orphans = d.orphans
        /\ d.unmade \subseteq c.unmade /\ c.unmade \subseteq d.unmade \cup {d.item}
        /\ files \subseteq files' /\ files' \subseteq files \cup {Home("thumb", d.item)}
        /\ d.item \in c.unmade \/ (Home("thumb", d.item) \in files' /\ d.item \in c.made)
        /\ d.made \subseteq c.made
    <3>1. CASE c = [d EXCEPT !.at = "set", !.made = @ \cup {d.item}] /\ files' = files \cup {Home("thumb", d.item)}
      BY <1>0, <3>1 DEF Doing
    <3>2. CASE c = [d EXCEPT !.at = "set", !.unmade = @ \cup {d.item}] /\ files' = files
      BY <1>0, <3>2 DEF Doing
    <3> QED
      BY <2>1, <3>1, <3>2
  <2>3. d.item = h => h \in items \cap Media
    BY <2>1 DEF Course
  <2>4. Home("thumb", d.item).item = h => Wanted(Home("thumb", d.item))
    BY <1>2, <2>3 DEF Wanted
  <2>5. Listed(d, h)'
    <3>1. Listed(d, h)
      BY <2>1 DEF Course
    <3> QED
      BY <2>1, <2>2, <2>4, <3>1 DEF Listed, Wanted
  <2>6. /\ Has("asset", h)' <=> Has("asset", h)
        /\ Has("thumb", h) => Has("thumb", h)'
        /\ d.item = h => Has("thumb", h)' \/ h \in c.unmade
        /\ d.item # h => (Has("thumb", h)' <=> Has("thumb", h))
    BY <1>2, <2>2 DEF Has
  <2>q. condemned' = condemned
    BY <1>e DEF ThumbMake, past
  <2> QED
    BY <2>q, <2>1, <2>2, <2>3, <2>5, <2>6 DEF Course, Given, Wanted
<1>f. CASE ThumbSet(p)
  <2>1. /\ c = [d EXCEPT !.at = "thumbs", !.item = Nobody] /\ d.at = "set"
        /\ UNCHANGED <<items, status, files>> /\ Course(d, h)
    BY <1>0, <1>f, <1>s DEF ThumbSet, Become, table, disk
  <2>2. c.at = "thumbs" /\ c.todo = d.todo /\ c.orphans = d.orphans /\ c.unmade = d.unmade /\ c.made = d.made
    BY <1>0, <2>1 DEF Doing
  <2>q. condemned' = condemned
    BY <1>f DEF ThumbSet, past
  <2> QED
    BY <2>q, <2>1, <2>2 DEF Course, Given, Listed, Wanted, Has
<1>g. CASE ThumbSetFails(p) \/ Report(p)
  BY <1>g, <1>i DEF ThumbSetFails, Report
<1>h. CASE ThumbCommit(p)
  <2>1. /\ c = [d EXCEPT !.at = "tagging", !.seen = <<>>, !.made = {}] /\ d.at = "thumbs" /\ d.todo = {}
        /\ status' = [e \in Item |-> CASE e \in d.made -> "ready"
                                       [] e \in d.unmade -> "failed"
                                       [] OTHER -> status[e]]
        /\ UNCHANGED <<items, files>> /\ Course(d, h)
    BY <1>0, <1>1, <1>h, <1>s DEF ThumbCommit, Become, RepairStep, disk
  <2>2. c.at = "tagging" /\ c.todo = {} /\ c.orphans = d.orphans /\ c.unmade = d.unmade
    BY <1>0, <2>1 DEF Doing
  <2>3. h \in items /\ status'[h] = "failed" =>
           h \in d.unmade \/ (Has("thumb", h) => Home("thumb", h) \in d.orphans)
    BY <2>1 DEF Course, Given
  <2>q. condemned' = condemned
    BY <1>h DEF ThumbCommit, past
  <2> QED
    BY <2>q, <2>1, <2>2, <2>3 DEF Course, Given, Listed, Wanted, Has
<1>j. CASE TagRows(p)
  <2>1. /\ c = [d EXCEPT !.at = "tags", !.todo = items \cap Media] /\ d.at = "tagging"
        /\ UNCHANGED <<items, status, files>> /\ Course(d, h)
    BY <1>0, <1>1, <1>j, <1>s DEF TagRows, Become, RepairStep, table, disk
  <2>2. c.at = "tags" /\ c.todo = items \cap Media /\ c.orphans = d.orphans /\ c.unmade = d.unmade
    BY <1>0, <2>1 DEF Doing
  <2>q. condemned' = condemned
    BY <1>j DEF TagRows, past
  <2> QED
    BY <2>q, <2>1, <2>2 DEF Course, Given, Listed, Wanted, Has
<1>d2. ASSUME NEW g \in Item, TagTake(p, g) PROVE Course(d, h)'
  <2>1. /\ \/ c = [d EXCEPT !.todo = @ \ {g}] /\ (~Has("asset", g) \/ Has("wd", g))
           \/ c = [d EXCEPT !.todo = @ \ {g}, !.item = g, !.at = "tag"]
        /\ d.at = "tags" /\ g \in d.todo /\ UNCHANGED <<items, status>> /\ Course(d, h)
        /\ files' = files \ {Astray("wd", g)}
    BY <1>0, <1>1, <1>d2, <1>s DEF TagTake, Become, RepairStep, table, Swept
  <2>2. /\ c.todo = d.todo \ {g} /\ c.orphans = d.orphans /\ c.unmade = d.unmade /\ c.untagged = d.untagged
        /\ \/ c.at = "tags" /\ (~Has("asset", g) \/ Has("wd", g))
           \/ c.at = "tag" /\ c.item = g
    <3>1. CASE c = [d EXCEPT !.todo = @ \ {g}] /\ (~Has("asset", g) \/ Has("wd", g))
      BY <1>0, <2>1, <3>1 DEF Doing
    <3>2. CASE c = [d EXCEPT !.todo = @ \ {g}, !.item = g, !.at = "tag"]
      BY <1>0, <3>2 DEF Doing
    <3> QED
      BY <2>1, <3>1, <3>2
  <2>3. \A k, e : Has(k, e)' <=> Has(k, e)
    BY <1>2, <2>1 DEF Has
  <2>4. Listed(d, h)'
    <3>1. Listed(d, h)
      BY <2>1 DEF Course
    <3> QED
      BY <2>1, <2>2, <3>1 DEF Listed, Wanted
  <2>q. condemned' = condemned
    BY <1>d2 DEF TagTake, past
  <2> QED
    BY <2>q, <2>1, <2>2, <2>3, <2>4 DEF Course, Given, Wanted
<1>k. CASE TagMake(p)
  <2> DEFINE r == [d EXCEPT !.at = "tags", !.item = Nobody]
             b == [r EXCEPT !.untagged = @ \cup {d.item}]
  <2>1. d.at = "tag" /\ UNCHANGED <<items, status>> /\ Course(d, h)
    BY <1>0, <1>1, <1>k, <1>s DEF TagMake, RepairStep, table
  <2>2. r \in Doing /\ r.at = "tags" /\ r.todo = d.todo /\ r.orphans = d.orphans /\ r.unmade = d.unmade
        /\ r.untagged = d.untagged
    BY <1>0 DEF Doing, RepairStep
  <2>3. \/ c = b /\ files' = files
        \/ c = r /\ \E G \in {{}, {d.item} \cap items} :
                       files' = files \cup {Home("wd", d.item)} \cup {Home("note", g) : g \in G}
    BY <1>0, <1>k DEF TagMake, Become
  <2> HIDE DEF r
  <2>4. b.at = "tags" /\ b.todo = r.todo /\ b.orphans = r.orphans /\ b.unmade = r.unmade
        /\ b.untagged = r.untagged \cup {d.item}
    BY <2>2 DEF Doing
  <2> HIDE DEF b
  <2>5. /\ c.at = "tags" /\ c.todo = d.todo /\ c.orphans = d.orphans /\ c.unmade = d.unmade
        /\ d.untagged \subseteq c.untagged /\ files \subseteq files'
        /\ d.item \in c.untagged \/ Home("wd", d.item) \in files'
        /\ \A f \in files' \ files : f = Home("wd", d.item) \/ f = Home("note", d.item)
    <3>1. CASE c = b /\ files' = files
      BY <2>2, <2>4, <3>1
    <3>2. ASSUME c = r, NEW G \in {{}, {d.item} \cap items},
                 files' = files \cup {Home("wd", d.item)} \cup {Home("note", g) : g \in G}
          PROVE  /\ c.at = "tags" /\ c.todo = d.todo /\ c.orphans = d.orphans /\ c.unmade = d.unmade
                 /\ d.untagged \subseteq c.untagged /\ files \subseteq files'
                 /\ d.item \in c.untagged \/ Home("wd", d.item) \in files'
                 /\ \A f \in files' \ files : f = Home("wd", d.item) \/ f = Home("note", d.item)
      BY <2>2, <3>2
    <3> QED
      BY <2>3, <3>1, <3>2
  <2>6. d.item = h => h \in items \cap Media
    BY <2>1 DEF Course
  <2>7. \A f \in files' \ files : f.item = h => Wanted(f)
    BY <1>2, <2>5, <2>6 DEF Wanted
  <2>8. Listed(d, h)'
    <3>1. Listed(d, h)
      BY <2>1 DEF Course
    <3> QED
      BY <2>1, <2>5, <2>7, <3>1 DEF Listed, Wanted
  <2>9. /\ Has("asset", h)' <=> Has("asset", h)
        /\ Has("thumb", h)' <=> Has("thumb", h)
        /\ Has("wd", h) => Has("wd", h)'
        /\ d.item = h => Has("wd", h)' \/ h \in c.untagged
    BY <1>2, <2>5 DEF Has
  <2>q. condemned' = condemned
    BY <1>k DEF TagMake, past
  <2> QED
    BY <2>q, <2>1, <2>5, <2>6, <2>8, <2>9 DEF Course, Given, Wanted
<1>l. CASE TagEnd(p) \/ DerivedEnd(p)
  <2>1. PICK a \in {"derived", "quarantine"} :
           /\ c = [d EXCEPT !.at = a] /\ UNCHANGED <<items, status, files>> /\ Course(d, h)
           /\ \/ a = "derived" /\ d.at = "tags" /\ d.todo = {}
              \/ a = "quarantine" /\ d.at = "derived"
    BY <1>0, <1>1, <1>l, <1>s DEF TagEnd, DerivedEnd, MoveOn, Become, RepairStep, table, disk
  <2>2. c.at = a /\ c.todo = d.todo /\ c.orphans = d.orphans /\ c.unmade = d.unmade /\ c.untagged = d.untagged
    BY <1>0, <2>1 DEF Doing
  <2>q. condemned' = condemned
    BY <1>l DEF TagEnd, DerivedEnd, past
  <2> QED
    BY <2>q, <2>1, <2>2 DEF Course, Given, Listed, Wanted, Has
<1>m. CASE AuditAfter(p)
  <2>1. /\ c = [d EXCEPT !.at = "done", !.issues = Issues] /\ d.at = "quarantine" /\ d.orphans = {}
        /\ UNCHANGED <<items, status, files>> /\ Course(d, h)
    BY <1>0, <1>1, <1>m, <1>s DEF AuditAfter, Become, RepairStep, table, disk
  <2>2. /\ c.at = "done" /\ c.todo = d.todo /\ c.orphans = d.orphans /\ c.unmade = d.unmade
        /\ c.untagged = d.untagged /\ c.issues = Issues
    BY <1>0, <2>1 DEF Doing
  <2>q. condemned' = condemned
    BY <1>m DEF AuditAfter, past
  <2>3. ASSUME NEW f \in Issues, f.item = h PROVE Excused(d, f)'
    <3>1. h \in Failed <=> h \in items /\ status[h] = "failed"
      BY DEF Failed
    <3>2. f \in File
      <4>1. \A k \in Kind, g \in items : Home(k, g) \in File
        BY <1>0 DEF Home, File
      <4>2. Expected(items, Failed) \subseteq File
        BY <4>1 DEF Expected, Kind
      <4> QED
        BY <1>0, <4>2 DEF Issues
    <3>3. /\ f \in Expected(items, Failed) => Wanted(f)
          /\ Wanted(f) /\ f \notin Expected(items, Failed) => f = Home("thumb", h) /\ h \in Failed
      BY <2>3, <3>2, ExpectedOrFailed
    <3>4. CASE f \in files
      <4>1. Wanted(f) /\ f \notin Expected(items, Failed)
        BY <2>1, <2>3, <3>4 DEF Course, Listed, Issues
      <4>2. f = Home("thumb", h) /\ h \in items /\ status[h] = "failed" /\ Has("thumb", h)
        BY <3>1, <3>3, <3>4, <4>1 DEF Has
      <4>3. h \in d.unmade
        BY <2>1, <4>2 DEF Course, Given
      <4> QED
        BY <2>2, <2>3, <4>2, <4>3 DEF Excused
    <3>5. CASE f \notin files
      <4>1. f \in Expected(items, Failed) /\ Wanted(f) /\ f.kind \in {"wd", "thumb"}
        BY <3>3, <3>5 DEF Issues, Derived
      <4>2. h \in items \cap Media /\ f = Home(f.kind, h)
        BY <2>3, <3>2, <4>1 DEF Wanted, Derived, File, Home
      <4>3. ~Has(f.kind, h)
        BY <3>5, <4>2 DEF Has
      <4>4. ~Has("asset", h) \/ (f.kind = "wd" /\ h \in d.untagged) \/ (f.kind = "thumb" /\ h \in d.unmade \cup condemned)
        BY <2>1, <4>1, <4>2, <4>3 DEF Course
      <4> QED
        BY <2>q, <2>1, <2>2, <2>3, <3>5, <4>2, <4>4 DEF Excused, Has
    <3> QED
      BY <3>4, <3>5
  <2> HIDE DEF Issues
  <2> QED
    BY <2>q, <2>1, <2>2, <2>3 DEF Course, Given, Listed, Wanted, Has
<1>n. ASSUME NEW f \in File, Discard(p, f) PROVE Course(d, h)'
  <2>1. /\ c = [d EXCEPT !.orphans = @ \ {f}] /\ d.at \in {"derived", "quarantine"} /\ f \in d.orphans
        /\ UNCHANGED <<items, status>> /\ files' = files \ {f} /\ Course(d, h)
    BY <1>0, <1>1, <1>n, <1>s DEF Discard, Condemned, Become, RepairStep, table
  <2>2. /\ c.at = d.at /\ c.todo = d.todo /\ c.orphans = d.orphans \ {f} /\ c.unmade = d.unmade
        /\ c.untagged = d.untagged
    BY <1>0, <2>1 DEF Doing
  <2>3. f.item = h => ~Wanted(f) \/ (f = Home("thumb", h) /\ h \in condemned)
    BY <2>1 DEF Course
  <2>4. Listed(d, h)'
    <3>1. Listed(d, h)
      BY <2>1 DEF Course
    <3> QED
      BY <2>1, <2>2, <3>1 DEF Listed, Wanted
  <2>5. /\ Has("asset", h)' => Has("asset", h)
        /\ h \in items \cap Media => (Has("thumb", h) => Has("thumb", h)' \/ h \in condemned) /\ (Has("wd", h) => Has("wd", h)')
        /\ Has("thumb", h)' => Has("thumb", h) /\ f # Home("thumb", h)
    <3>1. h \in items \cap Media => Wanted(Home("thumb", h)) /\ Wanted(Home("wd", h))
      BY <1>2 DEF Wanted
    <3> QED
      BY <1>2, <2>1, <2>3, <3>1 DEF Has
  <2>q. condemned' = condemned
    BY <1>n DEF Discard, past
  <2> QED
    BY <2>q, <2>1, <2>2, <2>4, <2>5 DEF Course, Given, Wanted
<1> QED
  BY <1>a, <1>b, <1>c, <1>d, <1>d2, <1>e, <1>f, <1>g, <1>h, <1>j, <1>k, <1>l, <1>m, <1>n DEF Repair

LEMMA CondemnedGrows == [HealthNext]_healthVars => condemned \subseteq condemned'
<1> SUFFICES ASSUME [HealthNext]_healthVars PROVE condemned \subseteq condemned'
  OBVIOUS
<1>1. ASSUME NEW p \in Repairers, Repair(p) PROVE condemned \subseteq condemned'
  BY <1>1 DEF Repair, AuditRows, AuditScan, ThumbRows, ThumbMake, ThumbSet, ThumbSetFails, ThumbCommit,
              TagRows, TagMake, TagEnd, DerivedEnd, AuditAfter, Report, ThumbTake, TagTake, Discard, past
<1>2. ASSUME NEW p \in Callers, Serve(p) PROVE condemned \subseteq condemned'
  BY <1>2 DEF Serve, IngestCopy, IngestStore, IngestCommit, IngestRaise, IngestThumb, IngestStatus,
              DeleteStage, DeleteDrop, DeleteFails, Show, ShowTry, ShowMake, ShowMark, past
<1>3. ASSUME NEW h \in Item, Outside(h) PROVE condemned \subseteq condemned'
  BY <1>3 DEF Outside
<1>4. CASE Restart
  BY <1>4 DEF Restart
<1>5. CASE UNCHANGED healthVars
  BY <1>5 DEF healthVars, past
<1> QED
  BY <1>1, <1>2, <1>3, <1>4, <1>5 DEF HealthNext

(* What a repair has established stands, whatever others do to other items. *)
LEMMA HealNext ==
  HealthTypeInv /\ HealthTypeInv' /\ HealInv /\ [HealthNext]_healthVars => HealInv'
<1> SUFFICES ASSUME HealthTypeInv, HealthTypeInv', HealInv, [HealthNext]_healthVars,
                    NEW p \in Repairers, doing'[p].op = "repair", NEW h \in Item \ touched'[p]
             PROVE  Course(doing[p], h)'
  BY DEF HealInv
<1>0. /\ p \in Thread /\ p # Nobody /\ Nobody \notin Thread
      /\ \A q \in Thread : doing[q] \in Doing /\ CourseOf(q, doing[q])
  BY HealthOK DEF HealthTypeInv, Thread, HealthOK
<1>c. condemned \subseteq condemned'
  BY CondemnedGrows
<1>s. ASSUME doing'[p] = doing[p], h \notin touched[p], SameItem(h) PROVE Course(doing[p], h)'
  <2>1. Course(doing[p], h) /\ doing[p] \in Doing
    BY <1>0, <1>s DEF HealInv
  <2> DEFINE c == doing[p]
  <2>2. Course(c, h)'
    BY <1>c, <1>s, <2>1, CourseStands
  <2> QED
    BY <2>2
<1>o. ASSUME NEW q \in Thread \cup {Nobody}, q # p, Touch(q), doing'[p] = doing[p] PROVE Course(doing[p], h)'
  BY <1>o, <1>s, UntouchedSame
<1>1. ASSUME NEW q \in Repairers, Repair(q), Touch(q) PROVE Course(doing[p], h)'
  <2>1. CASE q = p
    <3>1. doing[p].op = "repair" => h \notin touched[p]
      BY <1>1, <2>1 DEF Touch
    <3> QED
      BY <1>1, <2>1, <3>1, RepairCourse DEF HealInv
  <2>2. CASE q # p
    BY <1>0, <1>1, <1>o, <2>2, OneMoves DEF Thread
  <2> QED
    BY <2>1, <2>2
<1>2. ASSUME NEW q \in Callers, Serve(q), Touch(q) PROVE Course(doing[p], h)'
  <2>1. q \in Thread /\ q # p
    BY HealthOK DEF Thread, HealthOK
  <2> QED
    BY <1>0, <1>2, <1>o, <2>1, OneMoves
<1>3. ASSUME NEW g \in Item, Outside(g), Touch(Nobody) PROVE Course(doing[p], h)'
  BY <1>0, <1>3, <1>o DEF Outside
<1>4. CASE Restart
  BY <1>0, <1>4 DEF Restart, Idle
<1>5. CASE UNCHANGED healthVars
  BY <1>5, <1>s DEF healthVars, table, disk, SameItem
<1> QED
  BY <1>1, <1>2, <1>3, <1>4, <1>5 DEF HealthNext

(* A full repair leaves nothing that it says it can repair of an item whose
   row and files nobody else has changed since its audit, but what could not
   be made, however many repairs, calls and hands are at work (repair_vault in
   vaults.py, repair_missing_thumbnails in thumbnails.py). *)
THEOREM RepairsHeal == HealthSpec => []RepairHeals
<1>1. HealthInit => HealthTypeInv /\ HealInv
  <2>1. HealthInit => HealInv
    BY DEF HealthInit, HealInv, Thread, Idle
  <2> QED
    BY <2>1, HealthTypeFirst
<1>2. HealthTypeInv /\ HealInv /\ [HealthNext]_healthVars => (HealthTypeInv /\ HealInv)'
  BY HealthTypeNext, HealNext
<1>3. HealthTypeInv /\ HealInv => RepairHeals
  <2> SUFFICES ASSUME HealthTypeInv, HealInv, NEW p \in Repairers, doing[p].at = "done",
                      NEW f \in doing[p].issues, f.item \notin touched[p]
               PROVE  Excused(doing[p], f)
    BY DEF RepairHeals, Excused
  <2>1. p \in Thread /\ doing[p] \in Doing /\ doing[p].op = "repair"
    BY OpOf DEF HealthTypeInv, Thread, RepairStep
  <2>2. f.item \in Item
    BY <2>1 DEF Doing, File
  <2>3. Course(doing[p], f.item)
    BY <2>1, <2>2 DEF HealInv
  <2> QED
    BY <2>3 DEF Course
<1> QED
  BY <1>1, <1>2, <1>3, PTL DEF HealthSpec
=============================================================================
