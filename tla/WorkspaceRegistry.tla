-------------------------- MODULE WorkspaceRegistry --------------------------
(***************************************************************************)
(* The workspaces of a data home: the registry that names them and the     *)
(* active one (backend/workspaces.py, config_repository.py), their files   *)
(* on disk, and which of them the requests work in (api/runtime.py).       *)
(*                                                                         *)
(* A load and the vault calls run under the transition lock, with a        *)
(* snapshot of the registry, of LMZ_CONFIG_PATH and of the context that is *)
(* put back after a failure.  Creating, relocating and deleting a          *)
(* workspace read the registry and write it back without that lock; a      *)
(* delete stages the files aside, writes the registry and then purges.     *)
(***************************************************************************)
EXTENDS Naturals, FiniteSets

CONSTANTS
    Ws,        \* workspace ids
    Default,   \* the workspace the data home is created with
    Place,     \* directories a workspace may have, each with its config path
    Home,      \* the place of Default
    Env,       \* values of LMZ_CONFIG_PATH at the start of the process
    Proc,      \* request threads
    None,
    Ops,       \* operations of this instance
    MaxCalls,  \* bound: calls
    MaxCrashes \* bound: process crashes

Locked == {"load", "vault", "relocate vault"}
Op == Locked \cup {"create", "relocate", "delete"}
Mode == {"unregister", "generated", "all"}

(* config.yaml, the ownership marker, and the rest of the directory. *)
Part == {"config", "marker", "rest"}

ASSUME WorkspaceOK ==
    /\ Default \in Ws /\ Home \in Place /\ Ops \subseteq Op
    /\ Env \subseteq Place \cup {None} /\ Env # {}
    /\ None \notin Ws \cup Place \cup Proc
    /\ MaxCalls \in Nat /\ MaxCrashes \in Nat

VARIABLES
    registry, \* where each registered workspace is, and which is active
    tree,     \* the parts that stand at each place
    left,     \* the parts in staging directories that were left behind
    ctx,      \* the place of the runtime context, or None
    env,      \* LMZ_CONFIG_PATH
    holder,   \* _WORKSPACE_SWITCH_LOCK
    th,       \* the call of each thread
    calls, crashes,
    lost,     \* history: a registry was written over one it was not made from
    stale,    \* history: a vault call brought back a context left meanwhile
    apart,    \* history: the active entry was changed under the context
    torn      \* history: places purged under an entry that names them

disk == <<tree, left>>
run == <<ctx, env, holder>>
bounds == <<calls, crashes>>
history == <<lost, stale, apart, torn>>
vars == <<registry, disk, run, th, bounds, history>>

-----------------------------------------------------------------------------
(***************************************************************************)
(* A call: base is the registry it has read, etag the one its write is     *)
(* bound to, from and env the context and the override it may put back,    *)
(* flag whether a create also activates or finds no directory, and bin     *)
(* what a delete has staged.                                               *)
(***************************************************************************)
Registry == [entry : [Ws -> Place \cup {None}], active : Ws]
Stand == {"lock", "act", "check", "mark", "move", "etag", "replace", "rollback", "undo", "purge"}
Call == [op : Op, at : Stand, id : Ws, place : Place, mode : Mode,
         fresh : BOOLEAN, activate : BOOLEAN, bin : SUBSET Part,
         from : Place \cup {None}, env : Place \cup {None}, base : Registry \cup {None}, etag : Registry \cup {None}]

ASSUME CallOK == None \notin Call

Registered(r) == {w \in Ws : r.entry[w] # None}
ActivePlace(r) == r.entry[r.active]

Init ==
    /\ registry = [entry |-> [w \in Ws |-> IF w = Default THEN Home ELSE None],
                   active |-> Default]
    /\ tree \in {t \in [Place -> {{}, {"rest"}, {"config", "rest"}}] :
                    \A pl \in Place : "config" \in t[pl] <=> pl = Home}
    /\ left = [pl \in Place |-> {}]
    /\ env \in Env /\ ctx = IF env = Home THEN Home ELSE None
    /\ holder = None
    /\ th = [p \in Proc |-> None]
    /\ calls = 0 /\ crashes = 0
    /\ lost = FALSE /\ stale = FALSE /\ apart = FALSE /\ torn = {}

At(p, op, stand) == th[p] # None /\ th[p].op = op /\ th[p].at = stand
LockedAt(p, stand) == th[p] # None /\ th[p].op \in Locked /\ th[p].at = stand
Go(p, stand) == th' = [th EXCEPT ![p].at = stand]
End(p) == th' = [th EXCEPT ![p] = None]

Arrive(p) ==
    /\ th[p] = None /\ calls < MaxCalls
    /\ \E op \in Ops, id \in Ws, place \in Place, mode \in Mode, activate \in BOOLEAN :
          /\ op \in {"vault", "relocate vault"} => ctx # None
          /\ th' = [th EXCEPT ![p] =
                [op |-> op, at |-> IF op \in Locked THEN "lock" ELSE "check",
                 id |-> IF op \in {"vault", "relocate vault"} THEN Default ELSE id,
                 place |-> IF op \in {"create", "relocate"} THEN place ELSE Home,
                 mode |-> IF op = "delete" THEN mode ELSE "all",
                 activate |-> op = "create" /\ activate,
                 fresh |-> FALSE, bin |-> {}, env |-> None,
                 from |-> IF op = "vault" THEN ctx ELSE None, base |-> None, etag |-> None]]
    /\ calls' = calls + 1
    /\ UNCHANGED <<registry, disk, run, crashes, history>>

(* A request without a context builds the one LMZ_CONFIG_PATH names. *)
Override ==
    /\ ctx = None /\ env # None /\ "config" \in tree[env]
    /\ ctx' = env
    /\ UNCHANGED <<registry, disk, env, holder, th, bounds, history>>

-----------------------------------------------------------------------------
(***************************************************************************)
(* Under the transition lock.  A vault call works in the workspace whose   *)
(* context it found when it came; a load and a vault's relocation look     *)
(* under the lock.                                                         *)
(***************************************************************************)
Enter(p) ==
    /\ LockedAt(p, "lock") /\ holder = None
    /\ LET place == CASE th[p].op = "load" -> registry.entry[th[p].id]
                       [] th[p].op = "vault" -> th[p].from
                       [] th[p].op = "relocate vault" -> ctx
       IN IF IF place = None THEN TRUE ELSE "config" \notin tree[place]
          THEN End(p) /\ UNCHANGED holder
          ELSE /\ holder' = p
               /\ th' = [th EXCEPT ![p].at = "act", ![p].base = registry, ![p].env = env,
                                   ![p].from = IF th[p].op = "vault" THEN @ ELSE ctx,
                                   ![p].place = place]
    /\ UNCHANGED <<registry, disk, ctx, env, bounds, history>>

(* The preflight finds a run in progress. *)
Blocked(p) ==
    /\ LockedAt(p, "lock") /\ holder = None
    /\ End(p)
    /\ UNCHANGED <<registry, disk, run, bounds, history>>

(* The candidate cannot be built: nothing has been changed yet. *)
BuildFails(p) ==
    /\ At(p, "load", "act")
    /\ End(p) /\ holder' = None
    /\ UNCHANGED <<registry, disk, ctx, env, bounds, history>>

(* The candidate context is made current; its services may fail to follow. *)
Activate(p) ==
    /\ LockedAt(p, "act")
    /\ "config" \in tree[th[p].place]
    /\ ctx' = th[p].place
    /\ stale' = (stale \/ (th[p].op = "vault" /\ ctx # th[p].from))
    /\ \E stand \in {"etag", "rollback"} : Go(p, stand)
    /\ UNCHANGED <<registry, disk, env, holder, bounds, lost, apart, torn>>

(* A vault call that activates nothing is done, or fails. *)
VaultDone(p) ==
    /\ At(p, "vault", "act") \/ At(p, "vault", "etag")
    /\ End(p) /\ holder' = None
    /\ UNCHANGED <<registry, disk, ctx, env, bounds, history>>

VaultFails(p) ==
    /\ th[p] # None /\ th[p].op \in {"vault", "relocate vault"}
    /\ th[p].at \in {"act", "etag"}
    /\ Go(p, "rollback")
    /\ UNCHANGED <<registry, disk, run, bounds, history>>

(* The handlers put the registry back as they read it, blindly, if they    *)
(* can, and then the override and the context.  Those of a vault call      *)
(* write the config first, as they found it, also where a delete has taken *)
(* it in the meantime.                                                     *)
ContextKept(c) == ctx
ContextBack(c) == c.from

Rollback(p) ==
    /\ LockedAt(p, "rollback")
    /\ \/ UNCHANGED tree
       \/ th[p].op # "load" /\ tree' = [tree EXCEPT ![th[p].place] = @ \cup {"config"}]
    /\ \/ /\ registry' = th[p].base
          /\ lost' = (lost \/ registry # th[p].base)
       \/ UNCHANGED <<registry, lost>>
    /\ env' = th[p].env
    /\ ctx' = ContextBack(th[p])
    /\ stale' = (stale \/ (th[p].op = "vault" /\ th[p].from # ctx))
    /\ End(p) /\ holder' = None
    /\ UNCHANGED <<left, bounds, apart, torn>>

-----------------------------------------------------------------------------
(***************************************************************************)
(* save_workspace_registry: the registry is read again for its etag and    *)
(* replaced if it still has it.  The relocation of a vault makes the       *)
(* workspace of its context the active one, if one is registered.          *)
(***************************************************************************)
Matching(c) == {w \in Registered(c.base) : c.base.entry[w] = c.place}

Candidates(c) ==
    CASE c.op = "load" -> {[c.base EXCEPT !.active = c.id]}
      [] c.op = "relocate vault" -> {[c.base EXCEPT !.active = w] : w \in Matching(c)}
      [] c.op = "relocate" -> {[c.base EXCEPT !.entry[c.id] = c.place]}
      [] c.op = "create" -> {[entry |-> [c.base.entry EXCEPT ![c.id] = c.place],
                              active |-> IF c.activate THEN c.id ELSE c.base.active]}
      [] c.op = "delete" -> {[c.base EXCEPT !.entry[c.id] = None]}
      [] OTHER -> {}

Saving(c) == c.at = "etag" /\ Candidates(c) # {}

ReadEtag(p) ==
    /\ th[p] # None /\ Saving(th[p])
    /\ th' = [th EXCEPT ![p].at = "replace", ![p].etag = registry]
    /\ UNCHANGED <<registry, disk, run, bounds, history>>

(* A vault of a workspace that is not registered was relocated. *)
Unmatched(p) ==
    /\ At(p, "relocate vault", "etag") /\ Matching(th[p]) = {}
    /\ End(p) /\ holder' = None /\ env' = None
    /\ apart' = TRUE
    /\ UNCHANGED <<registry, disk, ctx, bounds, lost, stale, torn>>

Replace(p) ==
    /\ th[p] # None /\ th[p].at = "replace" /\ registry = th[p].etag
    /\ registry' \in Candidates(th[p])
    /\ lost' = (lost \/ registry # th[p].base)
    /\ IF th[p].op \in Locked
       THEN holder' = None /\ env' = None /\ apart' = FALSE
       ELSE /\ UNCHANGED <<holder, env>>
            /\ apart' = (apart \/ ActivePlace(registry') # ActivePlace(registry))
    /\ torn' = IF th[p].op \in {"create", "relocate"} /\ "config" \notin tree[th[p].place]
               THEN torn \cup {th[p].place} ELSE torn
    /\ IF th[p].op = "delete" THEN Go(p, "purge") ELSE End(p)
    /\ UNCHANGED <<disk, ctx, bounds, stale>>

(* The registry has changed since, or cannot be written. *)
WriteFails(p) ==
    /\ th[p] # None /\ th[p].at = "replace"
    /\ CASE th[p].op \in Locked -> Go(p, "rollback")
         [] th[p].op = "delete" -> registry = th[p].etag /\ Go(p, "undo")
         [] OTHER -> End(p)
    /\ UNCHANGED <<registry, disk, run, bounds, history>>

(* A delete does not expect the conflict: SettingsConflictError is neither *)
(* an OSError nor a ValueError, and what was staged stays staged.          *)
DeleteConflicts(p) ==
    /\ At(p, "delete", "replace") /\ registry # th[p].etag
    /\ left' = [left EXCEPT ![th[p].place] = @ \cup th[p].bin]
    /\ End(p)
    /\ UNCHANGED <<registry, tree, run, bounds, history>>

-----------------------------------------------------------------------------
(***************************************************************************)
(* setup_lmz_workspace and register_workspace.                             *)
(***************************************************************************)

(* The directories and the config, unless there is one. *)
SetUp(p) ==
    /\ At(p, "create", "check")
    /\ tree' = [tree EXCEPT ![th[p].place] = @ \cup {"config", "rest"}]
    /\ th' = [th EXCEPT ![p].at = "mark", ![p].fresh = (tree[th[p].place] = {})]
    /\ UNCHANGED <<registry, left, run, bounds, history>>

(* The marker is for a directory that did not exist before.  Registering a *)
(* name again overwrites the entry of its id.                              *)
Mark(p) ==
    /\ At(p, "create", "mark")
    /\ tree' = IF th[p].fresh THEN [tree EXCEPT ![th[p].place] = @ \cup {"marker"}] ELSE tree
    /\ IF "config" \in tree[th[p].place]
       THEN th' = [th EXCEPT ![p].at = "etag", ![p].base = registry]
       ELSE End(p)
    /\ UNCHANGED <<registry, left, run, bounds, history>>

(* relocate_workspace. *)
Relocate(p) ==
    /\ At(p, "relocate", "check")
    /\ IF th[p].id \in Registered(registry) /\ "config" \in tree[th[p].place]
       THEN th' = [th EXCEPT ![p].at = "etag", ![p].base = registry]
       ELSE End(p)
    /\ UNCHANGED <<registry, disk, run, bounds, history>>

-----------------------------------------------------------------------------
(***************************************************************************)
(* delete_workspace.                                                       *)
(***************************************************************************)
Deletable(id) == id \in Registered(registry) /\ id # registry.active
Removable(id) == Deletable(id) /\ id # Default

Owned(mode, place) ==
    CASE mode = "unregister" -> TRUE
      [] mode = "generated" -> "config" \in tree[place]
      [] mode = "all" -> "marker" \in tree[place]

CheckDelete(p) ==
    /\ At(p, "delete", "check")
    /\ LET c == th[p] IN
       IF Removable(c.id) /\ Owned(c.mode, registry.entry[c.id])
       THEN th' = [th EXCEPT ![p].at = IF c.mode = "unregister" THEN "etag" ELSE "move",
                             ![p].base = registry, ![p].place = registry.entry[c.id]]
       ELSE End(p)
    /\ UNCHANGED <<registry, disk, run, bounds, history>>

(* What is still to be staged: generated files one by one, or all at once. *)
Plan(c) ==
    CASE c.mode = "all" -> IF c.bin = {} THEN {tree[c.place]} \ {{}} ELSE {}
      [] c.mode = "generated" -> {{q} : q \in tree[c.place] \ {"rest"}}

Stage(p) ==
    /\ At(p, "delete", "move")
    /\ \E parts \in Plan(th[p]) :
          /\ tree' = [tree EXCEPT ![th[p].place] = @ \ parts]
          /\ th' = [th EXCEPT ![p].bin = @ \cup parts]
    /\ UNCHANGED <<registry, left, run, bounds, history>>

Staged(p) ==
    /\ At(p, "delete", "move")
    /\ Plan(th[p]) = {} /\ (th[p].mode = "all" => th[p].bin # {})
    /\ Go(p, "etag")
    /\ UNCHANGED <<registry, disk, run, bounds, history>>

StageFails(p) ==
    /\ At(p, "delete", "move")
    /\ Go(p, "undo")
    /\ UNCHANGED <<registry, disk, run, bounds, history>>

(* What was staged is put back, as far as it can be; a directory cannot be *)
(* put over another.  The staging directory goes only if all came back.    *)
DiscardAlways(c, back) == {}
Discard(c, back) == c.bin \ back

Undo(p) ==
    /\ At(p, "delete", "undo")
    /\ \E back \in SUBSET th[p].bin :
          /\ th[p].mode = "all" => back = {} \/ (back = th[p].bin /\ tree[th[p].place] = {})
          /\ tree' = [tree EXCEPT ![th[p].place] = @ \cup back]
          /\ left' = [left EXCEPT ![th[p].place] = @ \cup Discard(th[p], back)]
    /\ End(p)
    /\ UNCHANGED <<registry, run, bounds, history>>

(* What was staged is purged, as far as it can be. *)
Purge(p) ==
    /\ At(p, "delete", "purge")
    /\ \E kept \in SUBSET th[p].bin :
          left' = [left EXCEPT ![th[p].place] = @ \cup kept]
    /\ torn' = IF \E w \in Ws : registry.entry[w] = th[p].place
               THEN torn \cup {th[p].place} ELSE torn
    /\ End(p)
    /\ UNCHANGED <<registry, tree, run, bounds, lost, stale, apart>>

-----------------------------------------------------------------------------
(* The process dies; it starts in the workspace that LMZ_CONFIG_PATH names *)
(* or in none.                                                             *)
Crash ==
    /\ crashes < MaxCrashes
    /\ crashes' = crashes + 1
    /\ left' = [pl \in Place |-> left[pl] \cup
                  UNION {th[p].bin : p \in {q \in Proc : th[q] # None /\ th[q].place = pl}}]
    /\ th' = [p \in Proc |-> None] /\ holder' = None
    /\ env' \in Env
    /\ ctx' = IF env' # None /\ "config" \in tree[env'] THEN env' ELSE None
    /\ apart' = FALSE
    /\ UNCHANGED <<registry, tree, calls, lost, stale, torn>>

Next ==
    \/ \E p \in Proc :
          \/ Arrive(p) \/ Enter(p) \/ Blocked(p) \/ BuildFails(p) \/ Activate(p)
          \/ VaultDone(p) \/ VaultFails(p) \/ Rollback(p)
          \/ ReadEtag(p) \/ Unmatched(p) \/ Replace(p) \/ WriteFails(p)
          \/ DeleteConflicts(p)
          \/ SetUp(p) \/ Mark(p) \/ Relocate(p)
          \/ CheckDelete(p) \/ Stage(p) \/ Staged(p) \/ StageFails(p) \/ Undo(p) \/ Purge(p)
    \/ Override
    \/ Crash

Spec == Init /\ [][Next]_vars

-----------------------------------------------------------------------------
(***************************************************************************)
(* What may go wrong is named.  lost: the unlocked calls write a registry  *)
(* made from an outdated one, and a rollback puts an old one back.  stale: *)
(* a vault call brought back the context it had found on arrival.  apart:  *)
(* a create with set_active, a relocation or a second registration changed *)
(* the active entry, which takes effect at the next load; or the vault of  *)
(* an unregistered workspace was relocated.  torn: two entries named one   *)
(* directory and one of them was deleted, or a new entry was written for   *)
(* files that a delete had taken since they were looked for.               *)
(***************************************************************************)
InBins(pl) == UNION {th[p].bin : p \in {q \in Proc : th[q] # None /\ th[q].place = pl}}

(* The registry always names a registered workspace as the active one and  *)
(* keeps the default one, whatever calls overwrite each other; the lock is *)
(* held by the one call between its entry and its end.                     *)
WorkspacesTypeOK ==
    /\ registry \in Registry /\ {Default, registry.active} \subseteq Registered(registry)
    /\ tree \in [Place -> SUBSET Part] /\ left \in [Place -> SUBSET Part]
    /\ {ctx, env} \subseteq Place \cup {None}
    /\ \A p \in Proc : th[p] # None => th[p] \in Call
    /\ {p \in Proc : th[p] # None /\ th[p].op \in Locked /\ th[p].at # "lock"}
         = IF holder = None THEN {} ELSE {holder}

(* A workspace that the registry lists still has its config: in its place, *)
(* being staged, or in a staging directory that was left for the user.  A  *)
(* delete that fails, is refused or dies destroys nothing.                 *)
FilesKept ==
    ~lost => \A w \in Registered(registry) :
        LET pl == registry.entry[w]
        IN "config" \in tree[pl] \cup InBins(pl) \cup left[pl] \/ pl \in torn

(* Between transitions the requests work in the active workspace, unless   *)
(* LMZ_CONFIG_PATH overrides it or none is loaded, whatever load or vault  *)
(* call failed before.                                                     *)
ContextFollows ==
    holder = None /\ ctx # None /\ env = None =>
        ctx = ActivePlace(registry) \/ lost \/ stale \/ apart
=============================================================================
