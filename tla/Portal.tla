------------------------------- MODULE Portal -------------------------------
(***************************************************************************)
(* Portal replication, end to end:                                          *)
(*   - the provider's object and log store (services/portal-provider), with *)
(*     the continuity rule of crates/portal-data's Log;                     *)
(*   - publishing (web/src/adapters/driven/portalWriteIo.ts): POST /obj,    *)
(*     then POST /log-entry, either of which may fail, be refused, or be    *)
(*     carried out although its answer never arrives;                       *)
(*   - the sync of a replica (portalSyncIo.ts, domain/portalSync.ts): heads,*)
(*     logs in parallel, then the missing objects author by author;         *)
(*   - the workspace that runs both on one replica (PortalWorkspace.tsx)    *)
(*     and saves it (application/portalStore.ts).                           *)
(*                                                                          *)
(* Every user has one device with one saved replica and one author key, and *)
(* any number of mounted views of the workspace.  A log entry is the object *)
(* it names; its seq is its place in the log.  A request the client gave up *)
(* on may still reach the provider (late).                                  *)
(***************************************************************************)
EXTENDS SequencesExt

CONSTANTS Users,       \* devices, and the author key each of them holds
          Views,       \* mounts of PortalWorkspace
          Owner,       \* Owner[v]: the device view v runs on
          Posts,       \* Posts[v]: the objects published from view v
          Syncing,     \* views that sync
          Resetting,   \* views whose user resets rejected author logs
          MaxKept,     \* MAX_KEPT_OBJECTS
          MaxTries,    \* bound: attempts to publish one object
          PowerLoss,   \* may the provider's machine lose power?
          None

Objects == UNION {Posts[v] : v \in Views}

ASSUME PortalAssumption ==
  /\ Owner \in [Views -> Users]
  /\ Posts \in [Views -> SUBSET Objects]
  /\ Syncing \subseteq Views /\ Resetting \subseteq Views
  /\ MaxKept \in Nat /\ MaxTries \in Nat
  /\ PowerLoss \in BOOLEAN /\ None \notin Objects

VARIABLES
  log, objects,        \* the provider's log_entries and objects tables
  diskLog, diskObjects,\* what of them a WAL checkpoint has made durable
  late,                \* posts still under way after their sender gave up
  mount,               \* mount[v]: the life of view v
  shownLog, shownObj,  \* the replica in view v's state
  storeLog, storeObj,  \* the replica saved on device u
  saves,               \* saves[v]: replicas to be saved, in order
  issues,              \* issues[v]: authors the last sync rejected
  syncPc,              \* where v's sync stands
  nextLog, nextObj,    \* the replica it builds, from the one it started with
  peer,                \* heads the provider advertised to it
  asked,               \* authors whose log reply it waits for
  ready,               \* authors whose entries are to be merged
  batch,               \* the entries it got
  failed,              \* authors it could not sync
  pubPc, pubObj,       \* where v's publishing stands, and the object
  baseLog, baseObj,    \* the replica it started with
  answer,              \* the provider's answer to its current request
  tries,               \* tries[o]: attempts to publish o
  signed,              \* every history some author has signed (history variable)
  acked                \* <<v, o>>: the view told its user o is published (history)

provider == <<log, objects, diskLog, diskObjects>>
syncVars == <<syncPc, nextLog, nextObj, peer, asked, ready, batch, failed>>
pubVars  == <<pubPc, pubObj, baseLog, baseObj, answer>>
viewVars == <<mount, shownLog, shownObj, issues>>
store    == <<storeLog, storeObj>>
ghosts   == <<tries, signed, acked>>
vars == <<provider, late, viewVars, store, saves, syncVars, pubVars, ghosts>>

-----------------------------------------------------------------------------
(* Replicas.  A replica is a log per author and a set of objects.          *)

NoLogs == [u \in Users |-> <<>>]

Held(logs) == UNION {ToSet(logs[u]) : u \in Users}

(* The authors of D lose their logs, and the objects only they refer to.   *)
DropLogs(logs, D) == [u \in Users |-> IF u \in D THEN <<>> ELSE logs[u]]
DropObjects(logs, objs, D) ==
  objs \ ((UNION {ToSet(logs[u]) : u \in D}) \ Held(DropLogs(logs, D)))

(* trimReplica: the shortest logs go first, one by one, while there are too *)
(* many objects and more than one author left.                             *)
TrimDrops(logs, objs) ==
  LET authors == {u \in Users : logs[u] # <<>>}
      Count(D) == Cardinality(DropObjects(logs, objs, D))
  IN {D \in SUBSET authors :
        /\ \A d \in D, k \in authors \ D : Len(logs[d]) <= Len(logs[k])
        /\ Count(D) <= MaxKept \/ Cardinality(authors \ D) <= 1
        /\ D # {} => \E d \in D : /\ \A e \in D : Len(logs[e]) <= Len(logs[d])
                                  /\ Count(D \ {d}) > MaxKept}

Mounted(v) == mount[v] \in {"loading", "open"}

Init ==
  /\ log = NoLogs /\ objects = {}
  /\ diskLog = NoLogs /\ diskObjects = {}
  /\ late = {}
  /\ mount = [v \in Views |-> "closed"]
  /\ shownLog = [v \in Views |-> NoLogs] /\ shownObj = [v \in Views |-> {}]
  /\ storeLog = [u \in Users |-> NoLogs] /\ storeObj = [u \in Users |-> {}]
  /\ saves = [v \in Views |-> <<>>]
  /\ issues = [v \in Views |-> {}]
  /\ syncPc = [v \in Views |-> "idle"]
  /\ nextLog = [v \in Views |-> NoLogs] /\ nextObj = [v \in Views |-> {}]
  /\ peer = [v \in Views |-> [u \in Users |-> 0]]
  /\ asked = [v \in Views |-> {}] /\ ready = [v \in Views |-> {}]
  /\ batch = [v \in Views |-> NoLogs]
  /\ failed = [v \in Views |-> {}]
  /\ pubPc = [v \in Views |-> "idle"] /\ pubObj = [v \in Views |-> None]
  /\ baseLog = [v \in Views |-> NoLogs] /\ baseObj = [v \in Views |-> {}]
  /\ answer = [v \in Views |-> "none"]
  /\ tries = [o \in Objects |-> 0]
  /\ signed = [u \in Users |-> {<<>>}]
  /\ acked = {}

-----------------------------------------------------------------------------
(* The provider: store.rs, behind the handlers of service.rs.  Each handler *)
(* runs under the store's lock, so each is one step.                        *)

(* Log::append, through append_log_entry: the object is stored and the seq  *)
(* the author signed - the length of the history h before its last entry -  *)
(* is the next one.                                                         *)
Appendable(u, h) == Last(h) \in objects /\ Len(log[u]) = Len(h) - 1

WholeLog(u, n) == log[u]
LogSince(u, n) == SubSeq(log[u], n + 1, Len(log[u]))

Heads == [u \in Users |-> Len(log[u])]

StoreObject(o) == objects' = objects \cup {o}

AppendEntry(u, h) == log' = [log EXCEPT ![u] = Append(@, Last(h))]

(* The answer to v's POST /obj.  Refused: no proof of work or over budget.  *)
PutObject(v) ==
  /\ pubPc[v] = "obj" /\ answer[v] = "none"
  /\ \/ /\ StoreObject(pubObj[v])
        /\ answer' = [answer EXCEPT ![v] = "ok"]
     \/ /\ answer' = [answer EXCEPT ![v] = "no"]
        /\ UNCHANGED objects
  /\ UNCHANGED <<log, diskLog, diskObjects, late, viewVars, store, saves,
                 syncVars, pubPc, pubObj, baseLog, baseObj, ghosts>>

(* The history v's user signs by publishing: its log as v showed it, and    *)
(* the new object.                                                          *)
Signs(v) == Append(baseLog[v][Owner[v]], pubObj[v])

AnswersUnappended(v) ==
  /\ pubPc[v] = "entry" /\ answer[v] = "none"
  /\ answer' = [answer EXCEPT ![v] = "ok"]
  /\ UNCHANGED <<provider, late, viewVars, store, saves, syncVars, pubPc, pubObj,
                 baseLog, baseObj, ghosts>>

PutEntry(v) ==
  /\ pubPc[v] = "entry" /\ answer[v] = "none"
  /\ \/ /\ Appendable(Owner[v], Signs(v))
        /\ AppendEntry(Owner[v], Signs(v))
        /\ answer' = [answer EXCEPT ![v] = "ok"]
     \/ /\ answer' = [answer EXCEPT ![v] = "no"]
        /\ UNCHANGED log
  /\ UNCHANGED <<objects, diskLog, diskObjects, late, viewVars, store, saves,
                 syncVars, pubPc, pubObj, baseLog, baseObj, ghosts>>

(* A post whose sender has given up arrives; nobody waits for the answer.   *)
LatePost ==
  \E m \in late :
    /\ late' = late \ {m}
    /\ \/ /\ m[1] = "obj"
          /\ StoreObject(Last(m[3]))
          /\ UNCHANGED log
       \/ /\ m[1] = "entry" /\ Appendable(m[2], m[3])
          /\ AppendEntry(m[2], m[3])
          /\ UNCHANGED objects
       \/ UNCHANGED <<log, objects>>
    /\ UNCHANGED <<diskLog, diskObjects, viewVars, store, saves, syncVars,
                   pubVars, ghosts>>

(* SQLite in WAL mode with synchronous=NORMAL: commits are durable at the   *)
(* next checkpoint only, and a power loss takes back those after the last.  *)
Checkpoint ==
  /\ PowerLoss
  /\ diskLog' = log /\ diskObjects' = objects
  /\ UNCHANGED <<log, objects, late, viewVars, store, saves, syncVars,
                 pubVars, ghosts>>

LosePower ==
  /\ PowerLoss
  /\ log' = diskLog /\ objects' = diskObjects
  /\ UNCHANGED <<diskLog, diskObjects, late, viewVars, store, saves, syncVars,
                 pubVars, ghosts>>

-----------------------------------------------------------------------------
(* Publishing: publishContent, publishPortalContent, applyPortalBundle.     *)

StaysPublishing(v) ==
  /\ pubObj' = [pubObj EXCEPT ![v] = None]
  /\ baseLog' = [baseLog EXCEPT ![v] = NoLogs]
  /\ baseObj' = [baseObj EXCEPT ![v] = {}]
  /\ answer' = [answer EXCEPT ![v] = "none"]
  /\ UNCHANGED pubPc

PublishIdle(v) ==
  /\ pubPc' = [pubPc EXCEPT ![v] = "idle"]
  /\ pubObj' = [pubObj EXCEPT ![v] = None]
  /\ baseLog' = [baseLog EXCEPT ![v] = NoLogs]
  /\ baseObj' = [baseObj EXCEPT ![v] = {}]
  /\ answer' = [answer EXCEPT ![v] = "none"]

(* The replica is the one of the render the button was pressed in; the seq  *)
(* to sign is its length (nextPortalSeq).                                   *)
PublishStart(v) ==
  /\ Mounted(v) /\ pubPc[v] = "idle"
  /\ \E o \in Posts[v] :
       /\ tries[o] < MaxTries
       /\ tries' = [tries EXCEPT ![o] = @ + 1]
       /\ pubObj' = [pubObj EXCEPT ![v] = o]
       /\ signed' = [signed EXCEPT ![Owner[v]] =
                       @ \cup {Append(shownLog[v][Owner[v]], o)}]
  /\ pubPc' = [pubPc EXCEPT ![v] = "obj"]
  /\ baseLog' = [baseLog EXCEPT ![v] = shownLog[v]]
  /\ baseObj' = [baseObj EXCEPT ![v] = shownObj[v]]
  /\ UNCHANGED <<provider, late, viewVars, store, saves, syncVars, answer, acked>>

ObjectStored(v) ==
  /\ pubPc[v] = "obj" /\ answer[v] = "ok"
  /\ pubPc' = [pubPc EXCEPT ![v] = "entry"]
  /\ answer' = [answer EXCEPT ![v] = "none"]
  /\ UNCHANGED <<provider, late, viewVars, store, saves, syncVars,
                 pubObj, baseLog, baseObj, ghosts>>

Show(v, logs, objs) ==
  /\ shownLog' = IF Mounted(v) THEN [shownLog EXCEPT ![v] = logs] ELSE shownLog
  /\ shownObj' = IF Mounted(v) THEN [shownObj EXCEPT ![v] = objs] ELSE shownObj

SaveLater(v, job, logs, objs) ==
  saves' = [saves EXCEPT ![v] = Append(@, [job |-> job, logs |-> logs, objs |-> objs])]

(* applyPortalBundle: the bundle on top of the replica publishing started   *)
(* with, which replaces whatever the view shows by now.                     *)
Published(v) ==
  /\ pubPc[v] = "entry" /\ answer[v] = "ok"
  /\ LET logs == [baseLog[v] EXCEPT ![Owner[v]] = Append(@, pubObj[v])]
         objs == baseObj[v] \cup {pubObj[v]}
     IN /\ Show(v, logs, objs)
        /\ SaveLater(v, "publish", logs, objs)
  /\ acked' = acked \cup {<<v, pubObj[v]>>}
  /\ pubPc' = [pubPc EXCEPT ![v] = "saving"]
  /\ UNCHANGED <<provider, late, mount, issues, store, syncVars, pubObj, baseLog,
                 baseObj, answer, tries, signed>>

PublishRefused(v) ==
  /\ pubPc[v] \in {"obj", "entry"} /\ answer[v] = "no"
  /\ PublishIdle(v)
  /\ UNCHANGED <<provider, late, viewVars, store, saves, syncVars, ghosts>>

(* No answer in time, whether or not the request was carried out, or the    *)
(* answer lost; the request itself may still arrive.                        *)
PublishTimesOut(v) ==
  /\ pubPc[v] \in {"obj", "entry"}
  /\ \/ /\ answer[v] = "none"
        /\ late' = late \cup {<<pubPc[v], Owner[v], Signs(v)>>}
     \/ UNCHANGED late
  /\ PublishIdle(v)
  /\ UNCHANGED <<provider, viewVars, store, saves, syncVars, ghosts>>

-----------------------------------------------------------------------------
(* Sync: onSync, syncPortalReplica, mergePortalEntries.                     *)

SyncIdle(v) ==
  /\ syncPc' = [syncPc EXCEPT ![v] = "idle"]
  /\ nextLog' = [nextLog EXCEPT ![v] = NoLogs]
  /\ nextObj' = [nextObj EXCEPT ![v] = {}]
  /\ peer' = [peer EXCEPT ![v] = [u \in Users |-> 0]]
  /\ failed' = [failed EXCEPT ![v] = {}]

SyncStart(v) ==
  /\ v \in Syncing
  /\ Mounted(v) /\ syncPc[v] = "idle"
  /\ syncPc' = [syncPc EXCEPT ![v] = "heads"]
  /\ nextLog' = [nextLog EXCEPT ![v] = shownLog[v]]
  /\ nextObj' = [nextObj EXCEPT ![v] = shownObj[v]]
  /\ UNCHANGED <<provider, late, viewVars, store, saves, peer, asked, ready,
                 batch, failed, pubVars, ghosts>>

(* diffPortalWants: the authors the provider is ahead of the replica with.  *)
Wants(logs, heads) == {u \in Users : heads[u] > Len(logs[u])}

(* GET /heads answered: the logs wanted are asked for, all at once.         *)
GetHeads(v) ==
  /\ syncPc[v] = "heads"
  /\ peer' = [peer EXCEPT ![v] = Heads]
  /\ asked' = [asked EXCEPT ![v] = Wants(nextLog[v], Heads)]
  /\ syncPc' = [syncPc EXCEPT ![v] = "logs"]
  /\ UNCHANGED <<provider, late, viewVars, store, saves, nextLog, nextObj,
                 ready, batch, failed, pubVars, ghosts>>

(* No answer, or one that parsePortalHeadsReply refuses.                    *)
SyncFails(v) ==
  /\ syncPc[v] = "heads"
  /\ SyncIdle(v)
  /\ UNCHANGED <<provider, late, viewVars, store, saves, asked, ready, batch,
                 pubVars, ghosts>>

(* GET /log/<u>?since=<entries held>; the log may be longer by now than the *)
(* head advertised.                                                         *)
GetLog(v, u) ==
  /\ syncPc[v] = "logs" /\ u \in asked[v]
  /\ asked' = [asked EXCEPT ![v] = @ \ {u}]
  /\ \/ /\ batch' = [batch EXCEPT ![v][u] =
                      LogSince(u, Len(nextLog[v][u]))]
        /\ ready' = [ready EXCEPT ![v] = @ \cup {u}]
        /\ UNCHANGED failed
     \/ /\ failed' = [failed EXCEPT ![v] = @ \cup {u}]
        /\ UNCHANGED <<batch, ready>>
  /\ UNCHANGED <<provider, late, viewVars, store, saves, syncPc, nextLog, nextObj,
                 peer, pubVars, ghosts>>

LogsFailUnreported(v) ==
  /\ syncPc[v] = "logs" /\ asked[v] # {}
  /\ failed' = [failed EXCEPT ![v] = @ \cup asked[v]]
  /\ asked' = [asked EXCEPT ![v] = {}]
  /\ ready' = [ready EXCEPT ![v] = {}]
  /\ batch' = [batch EXCEPT ![v] = NoLogs]
  /\ UNCHANGED <<provider, late, viewVars, store, saves, syncPc, nextLog, nextObj,
                 peer, pubVars, ghosts>>

(* One lost log reply rejects the parallel call, and with it every author.  *)
LogsFail(v) ==
  /\ syncPc[v] = "logs" /\ asked[v] # {}
  /\ failed' = [failed EXCEPT ![v] = @ \cup asked[v] \cup ready[v]]
  /\ asked' = [asked EXCEPT ![v] = {}]
  /\ ready' = [ready EXCEPT ![v] = {}]
  /\ batch' = [batch EXCEPT ![v] = NoLogs]
  /\ UNCHANGED <<provider, late, viewVars, store, saves, syncPc, nextLog, nextObj,
                 peer, pubVars, ghosts>>

(* mergePortalEntries: the entries continue the staged log at its length.   *)
Replaced(logs, u, entries) == [logs EXCEPT ![u] = entries]
Merge(logs, u, entries) == [logs EXCEPT ![u] = @ \o entries]

MergesWithoutObjects(v, u) ==
  /\ syncPc[v] = "logs" /\ asked[v] = {} /\ u \in ready[v]
  /\ ready' = [ready EXCEPT ![v] = @ \ {u}]
  /\ batch' = [batch EXCEPT ![v][u] = <<>>]
  /\ nextLog' = [nextLog EXCEPT ![v] = Merge(@, u, batch[v][u])]
  /\ \E fetched \in SUBSET (ToSet(batch[v][u]) \cap objects) :
       nextObj' = [nextObj EXCEPT ![v] = @ \cup fetched]
  /\ UNCHANGED <<provider, late, viewVars, store, saves, syncPc, peer, asked,
                 failed, pubVars, ghosts>>

(* The objects of u's new entries that the replica lacks are fetched, all   *)
(* of them or the author is given up; then its entries are merged.          *)
GetObjects(v, u) ==
  /\ syncPc[v] = "logs" /\ asked[v] = {} /\ u \in ready[v]
  /\ ready' = [ready EXCEPT ![v] = @ \ {u}]
  /\ batch' = [batch EXCEPT ![v][u] = <<>>]
  /\ LET missing == ToSet(batch[v][u]) \ nextObj[v]
     IN \/ /\ missing \subseteq objects
           /\ nextLog' = [nextLog EXCEPT ![v] = Merge(@, u, batch[v][u])]
           /\ nextObj' = [nextObj EXCEPT ![v] = @ \cup missing]
           /\ UNCHANGED failed
        \/ /\ missing # {}
           /\ failed' = [failed EXCEPT ![v] = @ \cup {u}]
           /\ UNCHANGED <<nextLog, nextObj>>
  /\ UNCHANGED <<provider, late, viewVars, store, saves, syncPc, peer, asked,
                 pubVars, ghosts>>

(* onSync shows the result - it replaces whatever the view shows by now -   *)
(* and saves it.                                                            *)
Synced(v) ==
  /\ syncPc[v] = "logs" /\ asked[v] = {} /\ ready[v] = {}
  /\ syncPc' = [syncPc EXCEPT ![v] = "saving"]
  /\ Show(v, nextLog[v], nextObj[v])
  /\ SaveLater(v, "sync", nextLog[v], nextObj[v])
  /\ issues' = IF Mounted(v) THEN [issues EXCEPT ![v] = failed[v]] ELSE issues
  /\ UNCHANGED <<provider, late, mount, store, nextLog, nextObj, peer, asked,
                 ready, batch, failed, pubVars, ghosts>>

-----------------------------------------------------------------------------
(* The workspace: loading, saving, resetting an author, leaving, reloading. *)

Mount(v) ==
  /\ mount[v] = "closed" /\ syncPc[v] = "idle" /\ pubPc[v] = "idle" /\ saves[v] = <<>>
  /\ mount' = [mount EXCEPT ![v] = "loading"]
  /\ UNCHANGED <<provider, late, shownLog, shownObj, issues, store, saves,
                 syncVars, pubVars, ghosts>>

Load(v) ==
  /\ mount[v] = "loading"
  /\ mount' = [mount EXCEPT ![v] = "open"]
  /\ shownLog' = [shownLog EXCEPT ![v] = storeLog[Owner[v]]]
  /\ shownObj' = [shownObj EXCEPT ![v] = storeObj[Owner[v]]]
  /\ UNCHANGED <<provider, late, issues, store, saves, syncVars, pubVars, ghosts>>

SaveKeepsBusy(v) ==
  /\ saves[v] # <<>>
  /\ storeLog' = [storeLog EXCEPT ![Owner[v]] = Head(saves[v]).logs]
  /\ storeObj' = [storeObj EXCEPT ![Owner[v]] = Head(saves[v]).objs]
  /\ saves' = [saves EXCEPT ![v] = Tail(@)]
  /\ UNCHANGED <<provider, late, viewVars, syncVars, pubVars, ghosts>>

(* The next replica is put, trimmed - or not, and the error swallowed - and *)
(* the operation it ends is over.                                           *)
Save(v) ==
  /\ saves[v] # <<>>
  /\ LET s == Head(saves[v]) IN
       /\ \/ \E D \in TrimDrops(s.logs, s.objs) :
               /\ storeLog' = [storeLog EXCEPT ![Owner[v]] = DropLogs(s.logs, D)]
               /\ storeObj' = [storeObj EXCEPT ![Owner[v]] = DropObjects(s.logs, s.objs, D)]
          \/ UNCHANGED store
       /\ IF s.job = "sync"
          THEN SyncIdle(v)
          ELSE UNCHANGED <<syncPc, nextLog, nextObj, peer, failed>>
       /\ IF s.job = "publish" THEN PublishIdle(v) ELSE UNCHANGED pubVars
  /\ saves' = [saves EXCEPT ![v] = Tail(@)]
  /\ UNCHANGED <<provider, late, viewVars, asked, ready, batch, ghosts>>

ResetAuthor(v, u) ==
  /\ v \in Resetting
  /\ Mounted(v) /\ u \in issues[v]
  /\ LET logs == DropLogs(shownLog[v], {u})
         objs == DropObjects(shownLog[v], shownObj[v], {u})
     IN /\ Show(v, logs, objs)
        /\ SaveLater(v, "reset", logs, objs)
  /\ issues' = [issues EXCEPT ![v] = @ \ {u}]
  /\ UNCHANGED <<provider, late, mount, store, syncVars, pubVars, ghosts>>

(* Unmounting clears the view; what it has under way goes on.               *)
Unmount(v) ==
  /\ Mounted(v)
  /\ mount' = [mount EXCEPT ![v] = "closed"]
  /\ shownLog' = [shownLog EXCEPT ![v] = NoLogs]
  /\ shownObj' = [shownObj EXCEPT ![v] = {}]
  /\ issues' = [issues EXCEPT ![v] = {}]
  /\ UNCHANGED <<provider, late, store, saves, syncVars, pubVars, ghosts>>

(* The page is reloaded: everything but the store is gone, and requests     *)
(* already sent may still arrive.                                           *)
Reload(u) ==
  LET mine == {v \in Views : Owner[v] = u}
      Reset(f, x) == [v \in Views |-> IF v \in mine THEN x ELSE f[v]]
  IN /\ mount' = Reset(mount, "closed")
     /\ shownLog' = Reset(shownLog, NoLogs) /\ shownObj' = Reset(shownObj, {})
     /\ issues' = Reset(issues, {})
     /\ saves' = Reset(saves, <<>>)
     /\ syncPc' = Reset(syncPc, "idle")
     /\ nextLog' = Reset(nextLog, NoLogs) /\ nextObj' = Reset(nextObj, {})
     /\ peer' = Reset(peer, [w \in Users |-> 0])
     /\ asked' = Reset(asked, {}) /\ ready' = Reset(ready, {})
     /\ batch' = Reset(batch, NoLogs) /\ failed' = Reset(failed, {})
     /\ late' = late \cup {<<pubPc[v], u, Signs(v)>> :
                  v \in {w \in mine : pubPc[w] \in {"obj", "entry"} /\ answer[w] = "none"}}
     /\ pubPc' = Reset(pubPc, "idle") /\ pubObj' = Reset(pubObj, None)
     /\ baseLog' = Reset(baseLog, NoLogs) /\ baseObj' = Reset(baseObj, {})
     /\ answer' = Reset(answer, "none")
     /\ UNCHANGED <<provider, store, ghosts>>

-----------------------------------------------------------------------------
Next ==
  \/ /\ UNCHANGED viewVars        \* the provider on its own
     /\ LatePost \/ Checkpoint \/ LosePower
  \/ \E u \in Users : Reload(u)
  \/ \E v \in Views :
       \/ PublishStart(v) \/ PutObject(v) \/ ObjectStored(v) \/ PutEntry(v)
       \/ Published(v) \/ PublishRefused(v) \/ PublishTimesOut(v)
       \/ SyncStart(v) \/ GetHeads(v) \/ SyncFails(v) \/ LogsFail(v) \/ Synced(v)
       \/ \E u \in Users : GetLog(v, u) \/ GetObjects(v, u) \/ ResetAuthor(v, u)
       \/ Mount(v) \/ Load(v) \/ Save(v) \/ Unmount(v)

(* Every request ends - answered, refused or timed out - and what the page  *)
(* does next runs; nobody has to press anything, and no post must arrive.   *)
Fairness ==
  \A v \in Views :
    /\ WF_vars(ObjectStored(v)) /\ WF_vars(Published(v))
    /\ WF_vars(PublishRefused(v)) /\ WF_vars(PublishTimesOut(v))
    /\ WF_vars(SyncFails(v)) /\ WF_vars(LogsFail(v)) /\ WF_vars(Synced(v))
    /\ \A u \in Users : WF_vars(GetObjects(v, u))
    /\ WF_vars(Save(v)) /\ WF_vars(Load(v))

Spec == Init /\ [][Next]_vars
FairSpec == Spec /\ Fairness

-----------------------------------------------------------------------------
Copies == ({"shown"} \X Views) \cup ({"saved"} \X Users)
CopyOf(c) == IF c[1] = "shown" THEN shownLog[c[2]] ELSE storeLog[c[2]]

Logs == [Users -> Seq(Objects)]

Saved == [job : {"sync", "publish", "reset"}, logs : Logs, objs : SUBSET Objects]

TypeProvider ==
  /\ log \in Logs /\ diskLog \in Logs
  /\ objects \subseteq Objects /\ diskObjects \subseteq Objects
  /\ late \subseteq {"obj", "entry"} \X Users \X (Seq(Objects) \ {<<>>})

TypeViews ==
  /\ mount \in [Views -> {"closed", "loading", "open"}]
  /\ shownLog \in [Views -> Logs] /\ shownObj \in [Views -> SUBSET Objects]
  /\ issues \in [Views -> SUBSET Users]

TypeStore ==
  /\ storeLog \in [Users -> Logs] /\ storeObj \in [Users -> SUBSET Objects]
  /\ saves \in [Views -> Seq(Saved)]

TypeSync ==
  /\ syncPc \in [Views -> {"idle", "heads", "logs", "saving"}]
  /\ nextLog \in [Views -> Logs] /\ nextObj \in [Views -> SUBSET Objects]
  /\ peer \in [Views -> [Users -> Nat]]
  /\ asked \in [Views -> SUBSET Users] /\ ready \in [Views -> SUBSET Users]
  /\ batch \in [Views -> Logs] /\ failed \in [Views -> SUBSET Users]

TypePub ==
  /\ pubPc \in [Views -> {"idle", "obj", "entry", "saving"}]
  /\ pubObj \in [Views -> Objects \cup {None}]
  /\ baseLog \in [Views -> Logs] /\ baseObj \in [Views -> SUBSET Objects]
  /\ answer \in [Views -> {"none", "ok", "no"}]
  /\ \A v \in Views : pubPc[v] = "idle" <=> pubObj[v] = None

TypeGhosts ==
  /\ tries \in [Objects -> Nat]
  /\ signed \in [Users -> SUBSET Seq(Objects)]
  /\ acked \subseteq Views \X Objects

(* Every variable keeps its type: replicas are a log per author and a set   *)
(* of objects, each operation of a view is in one of its states, and there  *)
(* is an object being published exactly while something is.                 *)
TypeOK ==
  TypeProvider /\ TypeViews /\ TypeStore /\ TypeSync /\ TypePub /\ TypeGhosts

(* Two replicas, or a replica and the provider, agree as far as they go.    *)
Begins(logs) == \A u \in Users : IsPrefix(logs[u], log[u])

ShownBegin == \A v \in Views : Begins(shownLog[v])
StoreBegin == \A u \in Users : Begins(storeLog[u])
SyncBegin  == \A v \in Views : Begins(nextLog[v])
BaseBegin  == \A v \in Views : Begins(baseLog[v])
SavesBegin == \A v \in Views : \A i \in DOMAIN saves[v] : Begins(saves[v][i].logs)
BatchFits  == \A v \in Views : \A u \in ready[v] :
                 IsPrefix(nextLog[v][u] \o batch[v][u], log[u])
SyncClear  == \A v \in Views : syncPc[v] # "logs" => ready[v] = {} /\ asked[v] = {}
AnswerTrue == \A v \in Views : pubPc[v] = "entry" /\ answer[v] = "ok" =>
                 IsPrefix(Signs(v), log[Owner[v]])

ReplicasFit ==
  /\ ShownBegin /\ StoreBegin /\ SyncBegin /\ BaseBegin /\ SavesBegin
  /\ BatchFits /\ SyncClear /\ AnswerTrue

(* The result of a sync is queued to be saved at most once per view, and    *)
(* while it is, the sync is not over.                                       *)
OneSyncSave ==
  \A v \in Views : \A i \in DOMAIN saves[v] : saves[v][i].job = "sync" =>
     /\ syncPc[v] = "saving"
     /\ \A j \in DOMAIN saves[v] : saves[v][j].job = "sync" => i = j

(* What is in flight agrees with the provider too.  The logs of a replica   *)
(* begin the provider's, wherever the replica is: shown, saved, about to be *)
(* saved, or held by a sync or a publishing under way; the entries a sync   *)
(* has yet to merge fit between; and where the provider has agreed to an    *)
(* entry, its log begins with the history it was signed on.                 *)
InFlightConsistent == ReplicasFit /\ OneSyncSave

(* Whatever overlaps - syncs and publishing of one view or of two, late     *)
(* posts, reloads - a replica shown or saved holds, of every author, a      *)
(* beginning of the provider's log.                                         *)
Consistent ==
  \A c \in Copies, u \in Users : IsPrefix(CopyOf(c)[u], log[u])

(* No replica puts an entry behind others than those its author signed it   *)
(* after ("Forks are never merged", portalSync.ts).                         *)
NoForkMerged == \A c \in Copies, u \in Users : CopyOf(c)[u] \in signed[u]

(* The same of the provider's logs too: as long as the provider keeps what  *)
(* it accepted, retries and late posts never build a history nobody signed. *)
HistoryAsSigned == NoForkMerged /\ \A u \in Users : log[u] \in signed[u]

(* Every entry anybody holds comes with its object: an object is stored     *)
(* before the entry that names it, fetched before it is merged, and kept by *)
(* trimming and resetting as long as an entry needs it.                     *)
NoDangling ==
  /\ Held(log) \subseteq objects
  /\ \A v \in Views : Held(shownLog[v]) \subseteq shownObj[v]
  /\ \A u \in Users : Held(storeLog[u]) \subseteq storeObj[u]

(* Why NoDangling holds: every replica on the way from one place to another *)
(* is complete as well, and so is what the provider has made durable.       *)
Complete(logs, objs) == Held(logs) \subseteq objs

ProviderComplete == Complete(log, objects) /\ Complete(diskLog, diskObjects)
ShownComplete == \A v \in Views : Complete(shownLog[v], shownObj[v])
StoreComplete == \A u \in Users : Complete(storeLog[u], storeObj[u])
SyncHasAll == \A v \in Views : Complete(nextLog[v], nextObj[v])
BaseComplete == \A v \in Views : Complete(baseLog[v], baseObj[v])
SavesComplete == \A v \in Views : \A i \in DOMAIN saves[v] :
                   Complete(saves[v][i].logs, saves[v][i].objs)
AllComplete ==
  /\ ProviderComplete /\ ShownComplete /\ StoreComplete
  /\ SyncHasAll /\ BaseComplete /\ SavesComplete

(* What a user was told is published is in the provider's log.              *)
AckedStored == \A a \in acked : a[2] \in ToSet(log[Owner[a[1]]])

(* What the provider accepted is what was signed, and what it was told to   *)
(* have accepted stays.                                                     *)
AcceptedAsSigned == HistoryAsSigned /\ AckedStored

(* Why it is: a history is signed on a beginning of the provider's log, and *)
(* stays one signed while it is under way; with a history its beginnings    *)
(* are signed; so what is appended is the history, and every copy one too.  *)
HistoriesSigned ==
  \A u \in Users : /\ log[u] \in signed[u]
                   /\ \A h \in signed[u] : \A n \in 0..Len(h) : SubSeq(h, 1, n) \in signed[u]
PublishesSigned ==
  \A v \in Views : pubPc[v] \in {"obj", "entry"} => Signs(v) \in signed[Owner[v]]
LateSigned ==
  \A m \in late : m[3] \in signed[m[2]] /\ IsPrefix(Front(m[3]), log[m[2]])
SignedInv == HistoriesSigned /\ PublishesSigned /\ LateSigned /\ AckedStored

(* A finished sync has every author it did not report as failed at least up *)
(* to the head the provider advertised to it.                               *)
SyncComplete ==
  \A v \in Views : syncPc[v] = "saving" =>
     \A u \in Users \ failed[v] : Len(nextLog[v][u]) >= peer[v][u]

(* Why it does: what was advertised is there to be had, and an author not   *)
(* reported as failed is still to be answered, or to be merged far enough,  *)
(* or is there already.                                                     *)
Reached(v, u) == Len(nextLog[v][u]) >= peer[v][u]
Reaches(v, u) == \/ u \in asked[v]
                 \/ u \in ready[v] /\ Len(nextLog[v][u]) + Len(batch[v][u]) >= peer[v][u]
                 \/ Reached(v, u)
SyncInv ==
  \A v \in Views, u \in Users :
    /\ peer[v][u] <= Len(log[u])
    /\ syncPc[v] = "logs" /\ u \notin failed[v] => Reaches(v, u)
    /\ syncPc[v] = "saving" /\ u \notin failed[v] => Reached(v, u)

(* The portal implements the abstract log.                                  *)
Abstract == INSTANCE PortalLog WITH
              Authors <- Users, Entries <- Objects, history <- log,
              copies <- [c \in Copies |-> CopyOf(c)]

ImplementsLog == Abstract!Spec

(* A sync and a publishing always end, so neither button stays disabled.    *)
OperationsEnd ==
  \A v \in Views : /\ syncPc[v] # "idle" ~> syncPc[v] = "idle"
                  /\ pubPc[v] # "idle" ~> pubPc[v] = "idle"

(* applyPortalBundle: "Add a successfully published bundle to the local     *)
(* replica" - so an open view keeps showing what its user published.        *)
OwnPostsStay ==
  [][\A v \in Views : mount[v] = "open" /\ mount'[v] = "open" =>
       ToSet(shownLog[v][Owner[v]]) \subseteq ToSet(shownLog'[v][Owner[v]])]_vars
=============================================================================
