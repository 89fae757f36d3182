---------------------------- MODULE VaultRegistry ----------------------------
(***************************************************************************)
(* The vaults of a workspace: their roots on disk, the workspace config    *)
(* that registers them and names the active one (backend/vaults.py,        *)
(* config_repository.py), and the runtime context that the requests use    *)
(* (api/runtime.py, runtime_activation.py).                                *)
(*                                                                         *)
(* create, set_active and delete run under the transition lock, take a     *)
(* snapshot and put it back after any exception.  rename, import and       *)
(* restore read and write the config without that lock.  merge is a create *)
(* and, if it fails later, a delete.  The vaults' contents are not         *)
(* modelled: a tree is known by who made it.                               *)
(***************************************************************************)
EXTENDS Naturals, FiniteSets

CONSTANTS
    Id,        \* ids, each standing for the root data/vaults/<id>
    Default,   \* the vault there is at first
    Proc,      \* request threads
    None,
    Ops,       \* operations of this instance
    MaxCalls,  \* bound: calls
    MaxCrashes \* bound: process crashes

Locked == {"create", "merge", "activate", "delete", "undo"}
Package == {"import", "restore"}
Op == Locked \cup Package \cup {"rename"}
Name == {"first", "renamed"}

ASSUME VaultOK ==
    /\ IsFiniteSet(Id) /\ Default \in Id /\ Ops \subseteq Op \ {"undo"}
    /\ None \notin Id \cup Proc \cup Name /\ Default \notin Proc
    /\ MaxCalls \in Nat /\ MaxCrashes \in Nat

VARIABLES
    config, \* the workspace config: vaults, the name of each registered one, and active
    root,   \* the tree that stands at each root: who made it, or None
    ctx,    \* the active vault of the runtime context
    holder, \* _WORKSPACE_SWITCH_LOCK
    th,     \* the call of each thread
    calls, crashes,
    hurt,   \* history: ids whose tree an accident took (see the properties)
    lost,   \* history: a config was written over one it was not made from
    stale   \* history: a rollback activated a context left meanwhile

vars == <<config, root, ctx, holder, th, calls, crashes, hurt, lost, stale>>

-----------------------------------------------------------------------------
(***************************************************************************)
(* A call: at is where it stands, from the context it found when it came,  *)
(* base the config it has read (and the snapshot it may put back), etag    *)
(* the config its write is bound to, tree what it has moved aside, made    *)
(* whether it has put a tree at the root, wrote whether it has replaced    *)
(* the config.                                                             *)
(***************************************************************************)
Config == [vaults : [Id -> Name \cup {None}], active : Id]
Place == {"lock", "check", "act", "write", "replace", "list", "rollback", "purge",
          "adopt", "open", "copy"}
Call == [op : Op, at : Place, id : Id, from : Id, base : Config, etag : Config,
         tree : Proc \cup {Default, None}, made : BOOLEAN, wrote : BOOLEAN]

ASSUME CallOK == None \notin Call

Registered(c) == {i \in Id : c.vaults[i] # None}
SameVaults(c, d) == Registered(c) = Registered(d) /\ c.active = d.active

Init ==
    /\ config = [vaults |-> [i \in Id |-> IF i = Default THEN "first" ELSE None],
                 active |-> Default]
    /\ root = [i \in Id |-> IF i = Default THEN Default ELSE None]
    /\ ctx = Default /\ holder = None
    /\ th = [p \in Proc |-> None]
    /\ calls = 0 /\ crashes = 0
    /\ hurt = {} /\ lost = FALSE /\ stale = FALSE

At(p, place) == th[p] # None /\ th[p].at = place
LockedAt(p, place) == At(p, place) /\ th[p].op \in Locked
Go(p, place) == th' = [th EXCEPT ![p].at = place]
Quiet == UNCHANGED <<calls, crashes>>
Unhurt == UNCHANGED <<hurt, lost, stale>>

(* A call ends; a merge goes on after its create, whose tree is complete. *)
Over(p) == IF th[p].op = "merge" /\ th[p].at = "list"
           THEN [th EXCEPT ![p].at = "adopt", ![p].made = FALSE] ELSE [th EXCEPT ![p] = None]

(* A second package of the same kind is refused. *)
MayStart(op) == op \in Package => \A q \in Proc : th[q] # None => th[q].op # op

Arrive(p) ==
    /\ th[p] = None /\ calls < MaxCalls
    /\ \E op \in Ops, id \in Id :
          /\ MayStart(op)
          /\ th' = [th EXCEPT ![p] =
                [op |-> op, at |-> IF op \in Locked THEN "lock" ELSE "check", id |-> id,
                 from |-> ctx, base |-> config, etag |-> config, tree |-> None, made |-> FALSE, wrote |-> FALSE]]
    /\ calls' = calls + 1
    /\ UNCHANGED <<config, root, ctx, holder, crashes>> /\ Unhurt

-----------------------------------------------------------------------------
(***************************************************************************)
(* Under the transition lock.                                              *)
(***************************************************************************)
LockTaken == TRUE
LockFree == holder = None

(* The lock, the snapshot and the read of the config. *)
Enter(p) ==
    /\ At(p, "lock") /\ LockFree
    /\ holder' = p
    /\ th' = [th EXCEPT ![p].at = "check", ![p].base = config]
    /\ UNCHANGED <<config, root, ctx>> /\ Quiet /\ Unhurt

(* The preflight finds a run in progress: nothing is done, nothing undone. *)
Blocked(p) ==
    /\ At(p, "lock") /\ LockFree
    /\ IF th[p].op = "undo" THEN Go(p, "purge") ELSE th' = [th EXCEPT ![p] = None]
    /\ UNCHANGED <<config, root, ctx, holder>> /\ Quiet /\ Unhurt

Deletable(c, id) == id \in Registered(c)
Removable(c, id) == id \in Registered(c) /\ id # c.active

Passes(c) ==
    CASE c.op \in {"create", "merge"} -> c.id \notin Registered(c.base) /\ root[c.id] = None
      [] c.op = "activate" -> c.id \in Registered(c.base) /\ root[c.id] # None
      [] c.op \in {"delete", "undo"} -> Removable(c.base, c.id)

(* The checks; a refusal is an exception like any other.  A delete has not *)
(* been confirmed, a layout or a hydration fails: also an exception.       *)
Check(p) ==
    /\ LockedAt(p, "check")
    /\ \/ Passes(th[p]) /\ Go(p, "act")
       \/ Go(p, "rollback")
    /\ UNCHANGED <<config, root, ctx, holder>> /\ Quiet /\ Unhurt

(* The staged tree is promoted, unless another came first. *)
Promote(p) ==
    /\ At(p, "act") /\ th[p].op \in {"create", "merge"}
    /\ IF root[th[p].id] = None
       THEN /\ root' = [root EXCEPT ![th[p].id] = p]
            /\ th' = [th EXCEPT ![p].at = "write", ![p].made = TRUE]
       ELSE Go(p, "rollback") /\ UNCHANGED root
    /\ UNCHANGED <<config, ctx, holder>> /\ Quiet /\ Unhurt

(* The candidate context is made current, then hydrated, which may fail. *)
Activate(p) ==
    /\ At(p, "act") /\ th[p].op = "activate"
    /\ ctx' = th[p].id
    /\ \E next \in {"write", "rollback"} : Go(p, next)
    /\ UNCHANGED <<config, root, holder>> /\ Quiet /\ Unhurt

(* The root is moved aside, if there is one. *)
MoveAside(p) ==
    /\ At(p, "act") /\ th[p].op \in {"delete", "undo"}
    /\ th' = [th EXCEPT ![p].at = "write", ![p].tree = root[th[p].id]]
    /\ root' = [root EXCEPT ![th[p].id] = None]
    /\ UNCHANGED <<config, ctx, holder>> /\ Quiet /\ Unhurt

-----------------------------------------------------------------------------
(***************************************************************************)
(* _write_config: the config is read again for its etag and replaced if it *)
(* still has it; what it is replaced by was made from an earlier read.     *)
(***************************************************************************)
Candidate(c) ==
    CASE c.op \in {"create", "merge"} \cup Package -> [c.base EXCEPT !.vaults[c.id] = "first"]
      [] c.op = "rename" -> [c.base EXCEPT !.vaults[c.id] = "renamed"]
      [] c.op = "activate" -> [c.base EXCEPT !.active = c.id]
      [] c.op \in {"delete", "undo"} -> [c.base EXCEPT !.vaults[c.id] = None]

(* What the config is, as far as the call knows. *)
Written(c) == IF c.wrote THEN Candidate(c) ELSE c.base

ReadEtag(p) ==
    /\ At(p, "write")
    /\ th' = [th EXCEPT ![p].at = "replace", ![p].etag = config]
    /\ UNCHANGED <<config, root, ctx, holder>> /\ Quiet /\ Unhurt

Replace(p) ==
    /\ At(p, "replace") /\ config = th[p].etag
    /\ config' = Candidate(th[p])
    /\ lost' = (lost \/ ~SameVaults(config, th[p].base))
    /\ IF th[p].op \in Locked
       THEN th' = [th EXCEPT ![p].at = "list", ![p].wrote = TRUE]
       ELSE th' = [th EXCEPT ![p] = None]
    /\ UNCHANGED <<root, ctx, holder, hurt, stale>> /\ Quiet

(* The config has changed since, or cannot be written. *)
WriteFails(p) ==
    /\ At(p, "replace")
    /\ CASE th[p].op \in Locked -> Go(p, "rollback")
         [] th[p].op \in Package -> Go(p, "purge")
         [] th[p].op = "rename" -> th' = [th EXCEPT ![p] = None]
    /\ UNCHANGED <<config, root, ctx, holder>> /\ Quiet /\ Unhurt

(* A tree moved aside is removed, or left where it is; the answer lists    *)
(* the vaults, which may fail when all is done.                            *)
Answer(p) ==
    /\ LockedAt(p, "list")
    /\ th' = Over(p) /\ holder' = None
    /\ UNCHANGED <<config, root, ctx>> /\ Quiet /\ Unhurt

AnswerFails(p) ==
    /\ LockedAt(p, "list")
    /\ th' = [th EXCEPT ![p].at = "rollback", ![p].tree = None]
    /\ hurt' = IF th[p].op \in {"delete", "undo"} THEN hurt \cup {th[p].id} ELSE hurt
    /\ UNCHANGED <<config, root, ctx, holder, lost, stale>> /\ Quiet

(* The exception handlers: the tree made is removed, the tree moved aside  *)
(* put back if its place is free; the config as it was read is written     *)
(* whatever it is now, and the context found at arrival is activated.      *)
RootKept(c) == root
RootBack(c) ==
    CASE c.op \in {"create", "merge"} /\ c.made -> [root EXCEPT ![c.id] = None]
      [] c.op \in {"delete", "undo"} /\ c.tree # None /\ root[c.id] = None
           -> [root EXCEPT ![c.id] = c.tree]
      [] OTHER -> root

ContextKept(c) == ctx
ContextBack(c) == c.from

Rollback(p) ==
    /\ LockedAt(p, "rollback")
    /\ root' = RootBack(th[p])
    /\ config' = th[p].base
    /\ ctx' = ContextBack(th[p])
    /\ holder' = None
    /\ lost' = (lost \/ ~SameVaults(config, Written(th[p])))
    /\ stale' = (stale \/ th[p].from # th[p].base.active)
    /\ IF th[p].op = "undo" THEN Go(p, "purge") ELSE th' = [th EXCEPT ![p] = None]
    /\ hurt' = IF th[p].tree # None /\ root[th[p].id] # None THEN hurt \cup {th[p].id} ELSE hurt
    /\ Quiet

-----------------------------------------------------------------------------
(***************************************************************************)
(* Without the lock.                                                       *)
(***************************************************************************)
ReadForRename(p) ==
    /\ At(p, "check") /\ th[p].op = "rename"
    /\ th' = IF th[p].id \in Registered(config)
             THEN [th EXCEPT ![p].at = "write", ![p].base = config]
             ELSE [th EXCEPT ![p] = None]
    /\ UNCHANGED <<config, root, ctx, holder>> /\ Quiet /\ Unhurt

(* import and restore: the checks, the extraction, the move into place. *)
TargetFree(p) == th[p].id \notin Registered(config) /\ root[th[p].id] = None

ReadForImport(p) ==
    /\ At(p, "check") /\ th[p].op \in Package
    /\ th' = IF TargetFree(p) THEN [th EXCEPT ![p].at = "act", ![p].base = config]
             ELSE [th EXCEPT ![p] = None]
    /\ UNCHANGED <<config, root, ctx, holder>> /\ Quiet /\ Unhurt

MoveIn(p) ==
    /\ At(p, "act") /\ th[p].op \in Package
    /\ root[th[p].id] = None
    /\ root' = [root EXCEPT ![th[p].id] = p]
    /\ th' = [th EXCEPT ![p].at = "write", ![p].made = TRUE]
    /\ UNCHANGED <<config, ctx, holder>> /\ Quiet /\ Unhurt

ImportFails(p) ==
    /\ At(p, "act") /\ th[p].op \in Package
    /\ Go(p, "purge")
    /\ UNCHANGED <<config, root, ctx, holder>> /\ Quiet /\ Unhurt

(* The handler of a failed import, and of a failed merge that could not    *)
(* be deleted: whatever stands at the root is removed.                     *)
Foreign(p, i) == root[i] # None /\ (root[i] # p \/ i \in Registered(config))

Purge(p) ==
    /\ At(p, "purge")
    /\ root' = [root EXCEPT ![th[p].id] = None]
    /\ hurt' = IF Foreign(p, th[p].id) THEN hurt \cup {th[p].id} ELSE hurt
    /\ th' = [th EXCEPT ![p] = None]
    /\ UNCHANGED <<config, ctx, holder, lost, stale>> /\ Quiet

(* A merge goes on without the lock: it looks its new vault up,            *)
FindTarget(p) ==
    /\ At(p, "adopt") /\ th[p].id \in Registered(config)
    /\ Go(p, "open")
    /\ UNCHANGED <<config, root, ctx, holder>> /\ Quiet /\ Unhurt

(* opens its database and copies the items of its sources, and each of     *)
(* these steps makes the directory again if the vault was deleted          *)
(* meanwhile;                                                              *)
CopyInto(p) ==
    /\ At(p, "open") \/ At(p, "copy")
    /\ root' = [root EXCEPT ![th[p].id] = IF @ = None THEN p ELSE @]
    /\ hurt' = IF root[th[p].id] = None THEN hurt \cup {th[p].id} ELSE hurt
    /\ Go(p, "copy")
    /\ UNCHANGED <<config, ctx, holder, lost, stale>> /\ Quiet

Adopt(p) ==
    /\ At(p, "copy")
    /\ th' = [th EXCEPT ![p] = None]
    /\ UNCHANGED <<config, root, ctx, holder>> /\ Quiet /\ Unhurt

(* or it fails and deletes what it has made. *)
AdoptFails(p) ==
    /\ At(p, "adopt") \/ At(p, "open") \/ At(p, "copy")
    /\ th' = [th EXCEPT ![p].op = "undo", ![p].at = "lock", ![p].from = ctx,
                        ![p].tree = None, ![p].made = FALSE,
                        ![p].wrote = FALSE]
    /\ UNCHANGED <<config, root, ctx, holder>> /\ Quiet /\ Unhurt

(* The process dies and is started again on the config as it is. *)
Crash ==
    /\ crashes < MaxCrashes
    /\ crashes' = crashes + 1
    /\ th' = [p \in Proc |-> None] /\ holder' = None
    /\ ctx' = config.active
    /\ hurt' = hurt \cup {th[p].id : p \in {q \in Proc : th[q] # None /\ (th[q].made \/ th[q].tree # None)}}
    /\ UNCHANGED <<config, root, calls, lost, stale>>

Next ==
    \/ \E p \in Proc :
          \/ Arrive(p) \/ Enter(p) \/ Blocked(p) \/ Check(p) \/ Promote(p) \/ Activate(p)
          \/ MoveAside(p) \/ ReadEtag(p) \/ Replace(p) \/ WriteFails(p) \/ Answer(p)
          \/ AnswerFails(p) \/ Rollback(p) \/ ReadForRename(p) \/ ReadForImport(p)
          \/ MoveIn(p) \/ ImportFails(p) \/ Purge(p) \/ FindTarget(p) \/ CopyInto(p)
          \/ Adopt(p) \/ AdoptFails(p)
    \/ Crash

Spec == Init /\ [][Next]_vars

-----------------------------------------------------------------------------
(***************************************************************************)
(* What may go wrong is named.  hurt: the answer of a delete failed after  *)
(* its tree was removed, the handler of a failed import or merge removed a *)
(* tree that was not its own or was registered, a merge made the directory *)
(* of a vault again that was deleted while it copied, a delete could not   *)
(* put its tree back, or the process died.  lost: a call wrote a config    *)
(* made from an outdated one, which only rename, import and restore can    *)
(* bring about.  stale: a rollback activated the context its call had      *)
(* found on arrival, before it waited for the lock and another switched.   *)
(***************************************************************************)
InFlight(i) == \E p \in Proc : th[p] # None /\ th[p].id = i /\ (th[p].made \/ th[p].tree # None)

(* The config always names a registered vault as the active one, and the   *)
(* transition lock is held by the one call that is between its checks and  *)
(* its answer or rollback.                                                 *)
VaultTypeOK ==
    /\ config \in Config /\ config.active \in Registered(config)
    /\ root \in [Id -> Proc \cup {Default, None}] /\ ctx \in Id
    /\ \A p \in Proc : th[p] # None => th[p] \in Call
    /\ {p \in Proc : \E a \in {"check", "act", "write", "replace", "list", "rollback"} : LockedAt(p, a)}
         = IF holder = None THEN {} ELSE {holder}

(* Every registered vault has its files: no failed delete and no failed    *)
(* create leaves a vault that the page lists and cannot open.  And no tree *)
(* stands where no vault is registered: it would make its name unusable,   *)
(* for create and import refuse a root that exists.                        *)
RootsMatch ==
    ~lost => \A i \in Id : (root[i] # None) = (i \in Registered(config))
                             \/ i \in hurt \/ InFlight(i)

(* Between transitions the requests work in the vault that the config      *)
(* names, whatever failed before.                                          *)
ContextFollows == holder = None => ctx = config.active \/ lost \/ stale

(* The vault the requests work in has its files at every moment: it is     *)
(* not deleted under them, by whatever order of switches and deletes.      *)
ActiveRooted == ~lost /\ ~stale => root[ctx] # None \/ ctx \in hurt
=============================================================================
