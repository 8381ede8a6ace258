----------------------------- MODULE Workspaces -----------------------------
(* The workspaces of portals (portalWorkspaces.ts, portalIdentity.ts,       *)
(* portalMigration.ts, PortalWorkspace.tsx): a record for each portal and   *)
(* the key its author signs with, in local storage; a replica for each, in  *)
(* the store of replicas; and the one replica of the time before there were *)
(* workspaces, which the user may import into one that is empty.            *)
(*                                                                          *)
(* The last of mounts is the workspace on the screen.  Another is mounted   *)
(* in its place when another portal is opened, and what the earlier one     *)
(* awaits then still ends.  Of a replica it is told whether it has entries  *)
(* of its portal, "own", and those of the old replica, "old".               *)
EXTENDS Naturals, FiniteSets, SequencesExt, Lists

CONSTANTS Scopes, None,
          MaxWorkspaces,  \* MAX_PORTAL_WORKSPACES
          MaxKeys,        \* bound on the keys drawn for a portal
          MaxMounts,      \* bound on the workspaces with something under way
          MaxJobs,        \* bound on what is under way
          Careless        \* may the user ask before the workspace is loaded, or
                          \* import beside something else, or the import not be saved?

WorkspacesAssumption ==
  /\ None \notin Scopes
  /\ MaxWorkspaces \in Nat \ {0} /\ MaxKeys \in Nat \ {0} /\ MaxMounts \in Nat \ {0}
  /\ MaxJobs \in Nat \ {0} /\ Careless \in BOOLEAN

VARIABLES
  disk,       \* fly.portal.workspaces.v1: of each record its portal, the last
              \* used first
  keys,       \* the author key of each portal: the keys drawn for it, the last
              \* one being the one stored
  store,      \* the replicas kept
  old,        \* whether the old replica is under its key in local storage
  dismissed,  \* fly.portal.migration.dismissed.v1
  mounts

vars == <<disk, keys, store, old, dismissed, mounts>>

Jobs == {"sync", "publish", "import"}
Idle == [j \in Jobs |-> None]

Init == /\ disk = <<>>
        /\ keys = [s \in Scopes |-> 0] /\ store = [s \in Scopes |-> {}]
        /\ old = TRUE /\ dismissed = FALSE /\ mounts = <<>>
-----------------------------------------------------------------------------
(* The list of records.                                                     *)

Shortened(list) == SubSeq(list, 1, IF Len(list) < MaxWorkspaces THEN Len(list) ELSE MaxWorkspaces)
UpsertWorkspace(list, s) == Shortened(<<s>> \o Kept(list, Scopes \ {s}))

(* rememberWorkspace, in the workspace with number n, which is m by then:   *)
(* the record is put first in the list it was rendered with, which is then  *)
(* stored.  For a workspace that is not on the screen React may call the    *)
(* update, or not.                                                          *)
Remember(n, m) ==
  LET list == UpsertWorkspace(m.list, m.scope)
  IN \/ disk' = list /\ mounts' = [mounts EXCEPT ![n] = [m EXCEPT !.list = list]]
     \/ n < Len(mounts) /\ disk' = disk /\ mounts' = [mounts EXCEPT ![n] = m]
-----------------------------------------------------------------------------
(* A workspace is opened and loaded.                                        *)

Current == mounts[Len(mounts)]
AtCurrent(m) == mounts' = [mounts EXCEPT ![Len(mounts)] = m]

Busy(m) == m.jobs # Idle
UnderWay == {nj \in (DOMAIN mounts) \X Jobs : mounts[nj[1]].jobs[nj[2]] # None}
Importing == \E n \in DOMAIN mounts : mounts[n].jobs["import"] # None
MayAsk == mounts # <<>> /\ (Current.loaded \/ Careless)
MayBegin(job) == /\ MayAsk /\ Current.jobs[job] = None
                 /\ Cardinality(UnderWay) < MaxJobs
                 /\ Careless \/ ~Importing
                 /\ Careless \/ job # "import" \/ UnderWay = {}

Open(s) ==
  LET others == Kept(mounts, {m \in Elems(mounts) : Busy(m)})
  IN /\ mounts # <<>> => Current.scope # s
     /\ Careless \/ ~Importing
     /\ Len(others) < MaxMounts
     /\ mounts' = Append(others, [scope |-> s, list |-> disk, loaded |-> FALSE, key |-> 0,
                                  replica |-> {}, offer |-> FALSE, jobs |-> Idle])
     /\ UNCHANGED <<disk, keys, store, old, dismissed>>

(* The effect on the portal, after its await.                               *)
Load ==
  /\ mounts # <<>> /\ ~Current.loaded
  /\ LET s    == Current.scope
         list == IF Contains(disk, s) THEN disk ELSE UpsertWorkspace(disk, s)
     IN /\ disk' = list
        /\ AtCurrent([Current EXCEPT
             !.loaded = TRUE, !.list = list, !.key = keys[s], !.replica = store[s],
             !.offer = store[s] = {} /\ ~dismissed /\ old])
  /\ UNCHANGED <<keys, store, old, dismissed>>
-----------------------------------------------------------------------------
(* What the user does in the workspace on the screen.                       *)

AlwaysCreates(m) == m.scope \in Scopes \* mutant: an existing key is not used
NeedsKey(m) == m.key = 0

(* ensureIdentity: the key in the state of the workspace, or a new one,     *)
(* which replaces the stored one.                                           *)
EnsureIdentity(jobs) ==
  LET m == Current
      k == keys[m.scope] + 1
  IN IF NeedsKey(m)
     THEN /\ k <= MaxKeys /\ keys' = [keys EXCEPT ![m.scope] = k]
          /\ Remember(Len(mounts), [m EXCEPT !.key = k, !.jobs = jobs])
     ELSE AtCurrent([m EXCEPT !.jobs = jobs]) /\ UNCHANGED <<disk, keys>>

CreateIdentity ==
  /\ MayAsk /\ Current.key = 0
  /\ EnsureIdentity(Current.jobs)
  /\ UNCHANGED <<store, old, dismissed>>

Begun(job) == [Current.jobs EXCEPT ![job] = [step |-> "asking", base |-> Current.replica]]

Publish ==
  /\ MayBegin("publish")
  /\ EnsureIdentity(Begun("publish"))
  /\ UNCHANGED <<store, old, dismissed>>

Sync ==
  /\ MayBegin("sync")
  /\ AtCurrent([Current EXCEPT !.jobs = Begun("sync")])
  /\ UNCHANGED <<disk, keys, store, old, dismissed>>

ToggleFollow ==
  /\ mounts # <<>>
  /\ Remember(Len(mounts), Current)
  /\ UNCHANGED <<keys, store, old, dismissed>>

(* migrateLegacyReplica, as far as its await.  Into a workspace that has    *)
(* something nothing is imported.                                           *)
ImportLegacy ==
  /\ MayBegin("import") /\ Current.offer
  /\ IF old /\ Current.replica = {}
     THEN AtCurrent([Current EXCEPT !.jobs["import"] = [step |-> "saving", base |-> {}]])
     ELSE AtCurrent([Current EXCEPT !.offer = FALSE])
  /\ UNCHANGED <<disk, keys, store, old, dismissed>>

DismissLegacy ==
  /\ mounts # <<>> /\ Current.offer
  /\ dismissed' = TRUE /\ AtCurrent([Current EXCEPT !.offer = FALSE])
  /\ UNCHANGED <<disk, keys, store, old>>

(* resetAuthorLog, of an author of the portal.                              *)
ResetAuthor ==
  /\ MayAsk /\ "own" \in Current.replica /\ (Careless \/ ~Importing)
  /\ AtCurrent([Current EXCEPT !.replica = @ \ {"own"}])
  /\ store' = [store EXCEPT ![Current.scope] = Current.replica \ {"own"}]
  /\ UNCHANGED <<disk, keys, old, dismissed>>
-----------------------------------------------------------------------------
(* How what is under way ends, in any workspace.                            *)

(* The provider answered: the replica is the one of the click with what was *)
(* fetched or published.                                                    *)
Answered(n, job) ==
  LET t == mounts[n].jobs[job]
  IN /\ t # None /\ t.step = "asking"
     /\ mounts' = [mounts EXCEPT
          ![n].replica = t.base \cup {"own"},
          ![n].jobs[job] = [step |-> "saving", base |-> t.base \cup {"own"}]]
     /\ UNCHANGED <<disk, keys, store, old, dismissed>>

Fails(n, job) ==
  /\ mounts[n].jobs[job] # None /\ mounts[n].jobs[job].step = "asking"
  /\ mounts' = [mounts EXCEPT ![n].jobs[job] = None]
  /\ UNCHANGED <<disk, keys, store, old, dismissed>>

(* The store may refuse a replica without anyone being told.                *)
Stored(n, job, ok) ==
  store' = IF ok THEN [store EXCEPT ![mounts[n].scope] = mounts[n].jobs[job].base] ELSE store

Saved(n, job, ok) ==
  /\ job # "import" /\ mounts[n].jobs[job] # None /\ mounts[n].jobs[job].step = "saving"
  /\ Stored(n, job, ok)
  /\ Remember(n, [mounts[n] EXCEPT !.jobs[job] = None, !.offer = @ /\ job # "sync"])
  /\ UNCHANGED <<keys, old, dismissed>>

Imported(n, ok) ==
  LET m == mounts[n]
  IN /\ m.jobs["import"] # None /\ (ok \/ Careless)
     /\ store' = IF ok THEN [store EXCEPT ![m.scope] = {"old"}] ELSE store
     /\ old' = FALSE /\ dismissed' = TRUE
     /\ mounts' = [mounts EXCEPT ![n].replica = {"old"}, ![n].offer = FALSE,
                                 ![n].jobs["import"] = None]
     /\ UNCHANGED <<disk, keys>>

Restart ==
  /\ mounts # <<>> /\ mounts' = <<>>
  /\ UNCHANGED <<disk, keys, store, old, dismissed>>

Next ==
  \/ \E s \in Scopes : Open(s)
  \/ Load \/ CreateIdentity \/ Publish \/ Sync \/ ToggleFollow
  \/ ImportLegacy \/ DismissLegacy \/ ResetAuthor \/ Restart
  \/ \E n \in DOMAIN mounts :
       \/ \E job \in Jobs : Answered(n, job) \/ Fails(n, job) \/ Saved(n, job, TRUE)
                            \/ Saved(n, job, FALSE)
       \/ Imported(n, TRUE) \/ Imported(n, FALSE)

Spec == Init /\ [][Next]_vars
-----------------------------------------------------------------------------
TypeOK ==
  /\ Len(disk) <= MaxWorkspaces
  /\ disk \in Seq(Scopes) /\ IsInjective(disk) /\ keys \in [Scopes -> 0..MaxKeys]
  /\ store \in [Scopes -> SUBSET {"own", "old"}]
  /\ old \in BOOLEAN /\ dismissed \in BOOLEAN

(* A portal has one author: what the workspace on the screen signs with is  *)
(* the key in storage, whatever earlier mounts of it still do, and unless   *)
(* the user is Careless no second one is ever drawn.                        *)
OneAuthor ==
  /\ mounts # <<>> /\ Current.key # 0 => Current.key = keys[Current.scope]
  /\ Careless \/ \A s \in Scopes : keys[s] <= 1

(* The old replica is under its key or in the workspace it was imported     *)
(* into, which no sync or publishing begun before takes out again, unless   *)
(* the user is Careless.                                                    *)
OldKept == Careless \/ old \/ \E s \in Scopes : "old" \in store[s]

NothingReplaced == OneAuthor /\ OldKept
=============================================================================
