---------------------------- MODULE PortalProofs ----------------------------
(***************************************************************************)
(* What is proved about Portal for any users, views, objects and bounds:    *)
(*   TypeCorrect          every variable keeps its type;                    *)
(*   NothingForks         the inductive invariant, InFlightConsistent;      *)
(*   ReplicasConsistent   the safety property it implies;                   *)
(*   PortalImplementsLog  the refinement of PortalLog;                      *)
(*   NothingDangles       every entry held comes with its object            *)
(*                        (NoDangling);                                     *)
(*   SyncsComplete        a finished sync has every author it did not       *)
(*                        report (SyncComplete);                            *)
(*   SignedAccepted       the provider holds what was signed and keeps what *)
(*                        it acknowledged (AcceptedAsSigned).               *)
(* All but TypeCorrect and NothingDangles assume that the provider keeps    *)
(* what it accepted.                                                        *)
(***************************************************************************)
EXTENDS Portal, TLAPS, SequenceTheorems

(* Prefixes, entry by entry.                                                *)

LEMMA PrefixDef ==
  ASSUME NEW S, NEW s \in Seq(S), NEW t \in Seq(S)
  PROVE  IsPrefix(s, t) <=> /\ Len(s) <= Len(t)
                            /\ \A i \in 1..Len(s) : s[i] = t[i]
<1>1. ASSUME Len(s) <= Len(t)
      PROVE  /\ SubSeq(s, 1, Len(s)) \in Seq(S) /\ Len(SubSeq(s, 1, Len(s))) = Len(s)
             /\ SubSeq(t, 1, Len(s)) \in Seq(S) /\ Len(SubSeq(t, 1, Len(s))) = Len(s)
             /\ \A i \in 1..Len(s) : SubSeq(s, 1, Len(s))[i] = s[i]
             /\ \A i \in 1..Len(s) : SubSeq(t, 1, Len(s))[i] = t[i]
  BY <1>1
<1>2. CASE Len(s) <= Len(t) /\ \A i \in 1..Len(s) : s[i] = t[i]
  <2>1. SubSeq(s, 1, Len(s)) = SubSeq(t, 1, Len(s))
    BY <1>1, <1>2, SeqEqual
  <2> QED BY <2>1, <1>2 DEF IsPrefix
<1>3. CASE IsPrefix(s, t)
  BY <1>1, <1>3 DEF IsPrefix
<1> QED BY <1>2, <1>3

LEMMA PrefixEmpty ==
  ASSUME NEW S, NEW t \in Seq(S) PROVE IsPrefix(<<>>, t)
<1> DEFINE s == <<>>
<1>1. s \in Seq(S) /\ Len(s) = 0 /\ Len(t) \in Nat
  OBVIOUS
<1> HIDE DEF s
<1>2. Len(s) <= Len(t) /\ \A i \in 1..Len(s) : s[i] = t[i]
  BY <1>1
<1>3. IsPrefix(s, t)
  BY <1>1, <1>2, PrefixDef
<1> QED BY <1>3 DEF s

LEMMA PrefixAppend ==
  ASSUME NEW S, NEW s \in Seq(S), NEW t \in Seq(S), NEW e \in S, IsPrefix(s, t)
  PROVE  IsPrefix(s, Append(t, e))
<1> DEFINE u == Append(t, e)
<1>1. u \in Seq(S) /\ Len(u) = Len(t) + 1 /\ \A i \in 1..Len(t) : u[i] = t[i]
  OBVIOUS
<1>2. Len(s) \in Nat /\ Len(t) \in Nat /\ Len(s) <= Len(t)
      /\ \A i \in 1..Len(s) : s[i] = t[i]
  BY PrefixDef
<1> HIDE DEF u
<1>3. Len(s) <= Len(u) /\ \A i \in 1..Len(s) : s[i] = u[i]
  BY <1>1, <1>2
<1>4. IsPrefix(s, u)
  BY <1>1, <1>3, PrefixDef
<1> QED BY <1>4 DEF u

LEMMA PrefixSame ==
  ASSUME NEW S, NEW s \in Seq(S), NEW t \in Seq(S), IsPrefix(s, t), Len(s) = Len(t)
  PROVE  s = t
BY PrefixDef, SeqEqual

LEMMA PrefixRest ==
  ASSUME NEW S, NEW s \in Seq(S), NEW t \in Seq(S), IsPrefix(s, t)
  PROVE  s \o SubSeq(t, Len(s) + 1, Len(t)) = t
<1> DEFINE r == SubSeq(t, Len(s) + 1, Len(t))
<1>0. Len(s) \in Nat /\ Len(t) \in Nat /\ Len(s) <= Len(t)
  BY PrefixDef
<1>1. r \in Seq(S) /\ Len(r) = Len(t) - Len(s)
      /\ \A i \in 1..Len(r) : r[i] = t[Len(s) + i]
  BY <1>0
<1>2. s \o r \in Seq(S) /\ Len(s \o r) = Len(t)
  BY <1>0, <1>1
<1>3. ASSUME NEW i \in 1..Len(t) PROVE (s \o r)[i] = t[i]
  BY <1>0, <1>1, PrefixDef
<1> QED BY <1>2, <1>3, SeqEqual

-----------------------------------------------------------------------------
(* Types: facts about replicas, then one lemma per action.                  *)

LEMMA LogsFacts ==
  /\ NoLogs \in Logs
  /\ \A l \in Logs, u \in Users : l[u] \in Seq(Objects)
  /\ \A l \in Logs, u \in Users, o \in Objects :
       [l EXCEPT ![u] = Append(@, o)] \in Logs
  /\ \A l \in Logs, u \in Users, s \in Seq(Objects) :
       [l EXCEPT ![u] = s] \in Logs /\ Merge(l, u, s) \in Logs
  /\ \A l \in Logs : \A D : DropLogs(l, D) \in Logs
  /\ \A l, o, D : DropObjects(l, o, D) \subseteq o
BY DEF NoLogs, Logs, Merge, DropLogs, DropObjects

LEMMA SignsType ==
  ASSUME TypeOK, NEW v \in Views, pubPc[v] # "idle"
  PROVE  /\ pubObj[v] \in Objects
         /\ Signs(v) \in Seq(Objects) \ {<<>>}
         /\ Last(Signs(v)) = pubObj[v]
<1>1. pubObj[v] \in Objects /\ Owner[v] \in Users
  BY PortalAssumption DEF TypeOK, TypePub
<1>2. baseLog[v][Owner[v]] \in Seq(Objects)
  BY <1>1, LogsFacts DEF TypeOK, TypePub
<1> QED BY <1>1, <1>2 DEF Signs, Last

LEMMA LateType ==
  ASSUME TypeOK, NEW m \in late
  PROVE  m[2] \in Users /\ m[3] \in Seq(Objects) /\ m[3] # <<>> /\ Last(m[3]) \in Objects
BY DEF TypeOK, TypeProvider, Last

LEMMA PostsType ==
  ASSUME NEW v \in Views, NEW o \in Posts[v] PROVE o \in Objects /\ o # None
BY PortalAssumption DEF Objects

LEMMA ShowType ==
  ASSUME TypeOK, NEW v \in Views, NEW logs \in Logs, NEW objs \in SUBSET Objects,
         Show(v, logs, objs)
  PROVE  shownLog' \in [Views -> Logs] /\ shownObj' \in [Views -> SUBSET Objects]
<1>1. CASE Mounted(v)
  <2>1. shownLog' = [shownLog EXCEPT ![v] = logs] /\ shownObj' = [shownObj EXCEPT ![v] = objs]
    BY <1>1 DEF Show
  <2>2. shownLog' \in [Views -> Logs]
    BY <2>1 DEF TypeOK, TypeViews
  <2>3. shownObj' \in [Views -> SUBSET Objects]
    BY <2>1 DEF TypeOK, TypeViews
  <2> QED BY <2>2, <2>3
<1>2. CASE ~Mounted(v)
  BY <1>2 DEF Show, TypeOK, TypeViews
<1> QED BY <1>1, <1>2

LEMMA SaveLaterType ==
  ASSUME TypeOK, NEW v \in Views, NEW job \in {"sync", "publish", "reset"},
         NEW logs \in Logs, NEW objs \in SUBSET Objects, SaveLater(v, job, logs, objs)
  PROVE  saves' \in [Views -> Seq(Saved)]
<1> DEFINE r == [job |-> job, logs |-> logs, objs |-> objs]
<1>1. r \in Saved
  BY DEF Saved
<1>2. saves' = [saves EXCEPT ![v] = Append(@, r)]
  BY DEF SaveLater
<1> HIDE DEF r
<1>3. Append(saves[v], r) \in Seq(Saved)
  BY <1>1 DEF TypeOK, TypeStore
<1> QED BY <1>2, <1>3 DEF TypeOK, TypeStore

LEMMA HeadOfSaves ==
  ASSUME TypeOK, NEW v \in Views, saves[v] # <<>>
  PROVE  /\ Head(saves[v]) \in Saved
         /\ Head(saves[v]).logs \in Logs
         /\ Head(saves[v]).objs \in SUBSET Objects
<1>1. Head(saves[v]) \in Saved
  BY DEF TypeOK, TypeStore
<1> QED BY <1>1 DEF Saved

LEMMA BundleType ==
  ASSUME TypeOK, NEW v \in Views, pubPc[v] # "idle"
  PROVE  /\ [baseLog[v] EXCEPT ![Owner[v]] = Append(@, pubObj[v])] \in Logs
         /\ baseObj[v] \cup {pubObj[v]} \in SUBSET Objects
<1>1. baseLog[v] \in Logs /\ pubObj[v] \in Objects /\ Owner[v] \in Users
  BY SignsType, PortalAssumption DEF TypeOK, TypePub
<1>2. [baseLog[v] EXCEPT ![Owner[v]] = Append(@, pubObj[v])] \in Logs
  BY <1>1, LogsFacts
<1>3. baseObj[v] \cup {pubObj[v]} \in SUBSET Objects
  BY <1>1 DEF TypeOK, TypePub
<1> QED BY <1>2, <1>3

LEMMA PutObjectType ==
  ASSUME TypeOK, NEW v \in Views, PutObject(v) PROVE TypeOK'
<1>1. TypeProvider'
  <2>1. (log \in Logs)'
    BY PortalAssumption, LogsFacts DEF TypeOK, TypeProvider, PutObject, StoreObject, provider
  <2>2. (diskLog \in Logs)'
    BY PortalAssumption, LogsFacts DEF TypeOK, TypeProvider, PutObject, StoreObject, provider
  <2>3. (objects \subseteq Objects)'
    BY SignsType
      DEF TypeOK, TypeProvider, PutObject, StoreObject
  <2>4. (diskObjects \subseteq Objects)'
    BY PortalAssumption, LogsFacts DEF TypeOK, TypeProvider, PutObject, StoreObject, provider
  <2>5. (late \subseteq {"obj", "entry"} \X Users \X (Seq(Objects) \ {<<>>}))'
    BY PortalAssumption, LogsFacts DEF TypeOK, TypeProvider, PutObject, StoreObject, provider
  <2> QED BY <2>1, <2>2, <2>3, <2>4, <2>5 DEF TypeProvider
<1>2. TypePub'
  <2>1. (pubPc \in [Views -> {"idle", "obj", "entry", "saving"}])'
    BY PortalAssumption, LogsFacts DEF TypeOK, TypePub, PutObject, StoreObject, pubVars
  <2>2. (pubObj \in [Views -> Objects \cup {None}])'
    BY PortalAssumption, LogsFacts DEF TypeOK, TypePub, PutObject, StoreObject, pubVars
  <2>3. (baseLog \in [Views -> Logs])'
    BY PortalAssumption, LogsFacts DEF TypeOK, TypePub, PutObject, StoreObject, pubVars
  <2>4. (baseObj \in [Views -> SUBSET Objects])'
    BY PortalAssumption, LogsFacts DEF TypeOK, TypePub, PutObject, StoreObject, pubVars
  <2>5. (answer \in [Views -> {"none", "ok", "no"}])'
    BY PortalAssumption, LogsFacts DEF TypeOK, TypePub, PutObject, StoreObject, pubVars
  <2>6. (\A w \in Views : pubPc[w] = "idle" <=> pubObj[w] = None)'
    BY PortalAssumption, LogsFacts DEF TypeOK, TypePub, PutObject, StoreObject, pubVars
  <2> QED BY <2>1, <2>2, <2>3, <2>4, <2>5, <2>6 DEF TypePub
<1>3. (TypeViews /\ TypeStore /\ TypeSync /\ TypeGhosts)'
  BY DEF TypeOK, TypeViews, TypeStore, TypeSync, TypeGhosts, PutObject, viewVars, store, syncVars, ghosts
<1> QED BY <1>1, <1>2, <1>3 DEF TypeOK

LEMMA PutEntryType ==
  ASSUME TypeOK, NEW v \in Views, PutEntry(v) PROVE TypeOK'
<1>1. TypeProvider'
  <2>1. (log \in Logs)'
    <3>1. log' = log \/ log' = [log EXCEPT ![Owner[v]] = Append(@, Last(Signs(v)))]
      BY DEF PutEntry, AppendEntry
    <3>2. Owner[v] \in Users /\ Last(Signs(v)) \in Objects
      BY SignsType, PortalAssumption DEF PutEntry
    <3> QED BY <3>1, <3>2, LogsFacts DEF TypeOK, TypeProvider
  <2>2. (diskLog \in Logs)'
    BY PortalAssumption, LogsFacts DEF TypeOK, TypeProvider, PutEntry, AppendEntry, provider
  <2>3. (objects \subseteq Objects)'
    BY PortalAssumption, LogsFacts DEF TypeOK, TypeProvider, PutEntry, AppendEntry, provider
  <2>4. (diskObjects \subseteq Objects)'
    BY PortalAssumption, LogsFacts DEF TypeOK, TypeProvider, PutEntry, AppendEntry, provider
  <2>5. (late \subseteq {"obj", "entry"} \X Users \X (Seq(Objects) \ {<<>>}))'
    BY PortalAssumption, LogsFacts DEF TypeOK, TypeProvider, PutEntry, AppendEntry, provider
  <2> QED BY <2>1, <2>2, <2>3, <2>4, <2>5 DEF TypeProvider
<1>2. TypePub'
  <2>1. (pubPc \in [Views -> {"idle", "obj", "entry", "saving"}])'
    BY PortalAssumption, LogsFacts DEF TypeOK, TypePub, PutEntry, AppendEntry, pubVars
  <2>2. (pubObj \in [Views -> Objects \cup {None}])'
    BY PortalAssumption, LogsFacts DEF TypeOK, TypePub, PutEntry, AppendEntry, pubVars
  <2>3. (baseLog \in [Views -> Logs])'
    BY PortalAssumption, LogsFacts DEF TypeOK, TypePub, PutEntry, AppendEntry, pubVars
  <2>4. (baseObj \in [Views -> SUBSET Objects])'
    BY PortalAssumption, LogsFacts DEF TypeOK, TypePub, PutEntry, AppendEntry, pubVars
  <2>5. (answer \in [Views -> {"none", "ok", "no"}])'
    BY PortalAssumption, LogsFacts DEF TypeOK, TypePub, PutEntry, AppendEntry, pubVars
  <2>6. (\A w \in Views : pubPc[w] = "idle" <=> pubObj[w] = None)'
    BY PortalAssumption, LogsFacts DEF TypeOK, TypePub, PutEntry, AppendEntry, pubVars
  <2> QED BY <2>1, <2>2, <2>3, <2>4, <2>5, <2>6 DEF TypePub
<1>3. (TypeViews /\ TypeStore /\ TypeSync /\ TypeGhosts)'
  BY DEF TypeOK, TypeViews, TypeStore, TypeSync, TypeGhosts, PutEntry, viewVars, store, syncVars, ghosts
<1> QED BY <1>1, <1>2, <1>3 DEF TypeOK

LEMMA LatePostType ==
  ASSUME TypeOK, LatePost PROVE TypeOK'
<1>1. TypeProvider'
  <2>1. (log \in Logs)'
    BY LateType, LogsFacts
      DEF TypeOK, TypeProvider, LatePost, AppendEntry
  <2>2. (diskLog \in Logs)'
    BY PortalAssumption, LogsFacts DEF TypeOK, TypeProvider, LatePost, StoreObject, AppendEntry, provider
  <2>3. (objects \subseteq Objects)'
    BY LateType
      DEF TypeOK, TypeProvider, LatePost, StoreObject
  <2>4. (diskObjects \subseteq Objects)'
    BY PortalAssumption, LogsFacts DEF TypeOK, TypeProvider, LatePost, StoreObject, AppendEntry, provider
  <2>5. (late \subseteq {"obj", "entry"} \X Users \X (Seq(Objects) \ {<<>>}))'
    BY PortalAssumption, LogsFacts DEF TypeOK, TypeProvider, LatePost, StoreObject, AppendEntry, provider
  <2> QED BY <2>1, <2>2, <2>3, <2>4, <2>5 DEF TypeProvider
<1>2. (TypeViews /\ TypeStore /\ TypeSync /\ TypePub /\ TypeGhosts)'
  BY DEF TypeOK, TypeViews, TypeStore, TypeSync, TypePub, TypeGhosts, LatePost, viewVars, store, syncVars, pubVars, ghosts
<1> QED BY <1>1, <1>2 DEF TypeOK

LEMMA CheckpointType ==
  ASSUME TypeOK, Checkpoint PROVE TypeOK'
<1>1. TypeProvider'
  <2>1. (log \in Logs)'
    BY PortalAssumption, LogsFacts DEF TypeOK, TypeProvider, Checkpoint, provider
  <2>2. (diskLog \in Logs)'
    BY PortalAssumption, LogsFacts DEF TypeOK, TypeProvider, Checkpoint, provider
  <2>3. (objects \subseteq Objects)'
    BY PortalAssumption, LogsFacts DEF TypeOK, TypeProvider, Checkpoint, provider
  <2>4. (diskObjects \subseteq Objects)'
    BY PortalAssumption, LogsFacts DEF TypeOK, TypeProvider, Checkpoint, provider
  <2>5. (late \subseteq {"obj", "entry"} \X Users \X (Seq(Objects) \ {<<>>}))'
    BY PortalAssumption, LogsFacts DEF TypeOK, TypeProvider, Checkpoint, provider
  <2> QED BY <2>1, <2>2, <2>3, <2>4, <2>5 DEF TypeProvider
<1>2. (TypeViews /\ TypeStore /\ TypeSync /\ TypePub /\ TypeGhosts)'
  BY DEF TypeOK, TypeViews, TypeStore, TypeSync, TypePub, TypeGhosts, Checkpoint, viewVars, store, syncVars, pubVars, ghosts
<1> QED BY <1>1, <1>2 DEF TypeOK

LEMMA LosePowerType ==
  ASSUME TypeOK, LosePower PROVE TypeOK'
<1>1. TypeProvider'
  <2>1. (log \in Logs)'
    BY PortalAssumption, LogsFacts DEF TypeOK, TypeProvider, LosePower, provider
  <2>2. (diskLog \in Logs)'
    BY PortalAssumption, LogsFacts DEF TypeOK, TypeProvider, LosePower, provider
  <2>3. (objects \subseteq Objects)'
    BY PortalAssumption, LogsFacts DEF TypeOK, TypeProvider, LosePower, provider
  <2>4. (diskObjects \subseteq Objects)'
    BY PortalAssumption, LogsFacts DEF TypeOK, TypeProvider, LosePower, provider
  <2>5. (late \subseteq {"obj", "entry"} \X Users \X (Seq(Objects) \ {<<>>}))'
    BY PortalAssumption, LogsFacts DEF TypeOK, TypeProvider, LosePower, provider
  <2> QED BY <2>1, <2>2, <2>3, <2>4, <2>5 DEF TypeProvider
<1>2. (TypeViews /\ TypeStore /\ TypeSync /\ TypePub /\ TypeGhosts)'
  BY DEF TypeOK, TypeViews, TypeStore, TypeSync, TypePub, TypeGhosts, LosePower, viewVars, store, syncVars, pubVars, ghosts
<1> QED BY <1>1, <1>2 DEF TypeOK

LEMMA PublishStartType ==
  ASSUME TypeOK, NEW v \in Views, PublishStart(v) PROVE TypeOK'
<1>1. TypePub'
  <2>1. (pubPc \in [Views -> {"idle", "obj", "entry", "saving"}])'
    BY PortalAssumption, LogsFacts DEF TypeOK, TypePub, PublishStart, pubVars
  <2>2. (pubObj \in [Views -> Objects \cup {None}])'
    BY PostsType
      DEF TypeOK, TypePub, PublishStart
  <2>3. (baseLog \in [Views -> Logs])'
    BY PortalAssumption
      DEF TypeOK, TypePub, TypeViews, PublishStart
  <2>4. (baseObj \in [Views -> SUBSET Objects])'
    BY PortalAssumption
      DEF TypeOK, TypePub, TypeViews, PublishStart
  <2>5. (answer \in [Views -> {"none", "ok", "no"}])'
    BY PortalAssumption, LogsFacts DEF TypeOK, TypePub, PublishStart, pubVars
  <2>6. (\A w \in Views : pubPc[w] = "idle" <=> pubObj[w] = None)'
    BY PostsType
      DEF TypeOK, TypePub, PublishStart
  <2> QED BY <2>1, <2>2, <2>3, <2>4, <2>5, <2>6 DEF TypePub
<1>2. TypeGhosts'
  <2>1. (tries \in [Objects -> Nat])'
    BY PortalAssumption, LogsFacts DEF TypeOK, TypeGhosts, PublishStart, ghosts
  <2>2. (signed \in [Users -> SUBSET Seq(Objects)])'
    <3>1. PICK o \in Posts[v] : signed' = [signed EXCEPT ![Owner[v]] =
                                     @ \cup {Append(shownLog[v][Owner[v]], o)}]
      BY DEF PublishStart
    <3>2. Owner[v] \in Users /\ shownLog[v] \in Logs
      BY PortalAssumption DEF TypeOK, TypeViews
    <3>3. Append(shownLog[v][Owner[v]], o) \in Seq(Objects)
      BY <3>2, PostsType, LogsFacts
    <3> QED BY <3>1, <3>2, <3>3 DEF TypeOK, TypeGhosts
  <2>3. (acked \subseteq Views \X Objects)'
    BY PortalAssumption, LogsFacts DEF TypeOK, TypeGhosts, PublishStart, ghosts
  <2> QED BY <2>1, <2>2, <2>3 DEF TypeGhosts
<1>3. (TypeProvider /\ TypeViews /\ TypeStore /\ TypeSync)'
  BY DEF TypeOK, TypeProvider, TypeViews, TypeStore, TypeSync, PublishStart, provider, viewVars, store, syncVars
<1> QED BY <1>1, <1>2, <1>3 DEF TypeOK

LEMMA ObjectStoredType ==
  ASSUME TypeOK, NEW v \in Views, ObjectStored(v) PROVE TypeOK'
<1>1. TypePub'
  <2>1. (pubPc \in [Views -> {"idle", "obj", "entry", "saving"}])'
    BY PortalAssumption, LogsFacts DEF TypeOK, TypePub, ObjectStored, pubVars
  <2>2. (pubObj \in [Views -> Objects \cup {None}])'
    BY PortalAssumption, LogsFacts DEF TypeOK, TypePub, ObjectStored, pubVars
  <2>3. (baseLog \in [Views -> Logs])'
    BY PortalAssumption, LogsFacts DEF TypeOK, TypePub, ObjectStored, pubVars
  <2>4. (baseObj \in [Views -> SUBSET Objects])'
    BY PortalAssumption, LogsFacts DEF TypeOK, TypePub, ObjectStored, pubVars
  <2>5. (answer \in [Views -> {"none", "ok", "no"}])'
    BY PortalAssumption, LogsFacts DEF TypeOK, TypePub, ObjectStored, pubVars
  <2>6. (\A w \in Views : pubPc[w] = "idle" <=> pubObj[w] = None)'
    BY PortalAssumption, LogsFacts DEF TypeOK, TypePub, ObjectStored, pubVars
  <2> QED BY <2>1, <2>2, <2>3, <2>4, <2>5, <2>6 DEF TypePub
<1>2. (TypeProvider /\ TypeViews /\ TypeStore /\ TypeSync /\ TypeGhosts)'
  BY DEF TypeOK, TypeProvider, TypeViews, TypeStore, TypeSync, TypeGhosts, ObjectStored, provider, viewVars, store, syncVars, ghosts
<1> QED BY <1>1, <1>2 DEF TypeOK

LEMMA PublishedType ==
  ASSUME TypeOK, NEW v \in Views, Published(v) PROVE TypeOK'
<1>1. TypeViews'
  <2>1. (mount \in [Views -> {"closed", "loading", "open"}])'
    BY PortalAssumption, LogsFacts DEF TypeOK, TypeViews, Published, Show, SaveLater, viewVars
  <2>2. (shownLog \in [Views -> Logs])'
    BY BundleType, ShowType
      DEF TypeOK, Published
  <2>3. (shownObj \in [Views -> SUBSET Objects])'
    BY BundleType, ShowType
      DEF TypeOK, Published
  <2>4. (issues \in [Views -> SUBSET Users])'
    BY PortalAssumption, LogsFacts DEF TypeOK, TypeViews, Published, Show, SaveLater, viewVars
  <2> QED BY <2>1, <2>2, <2>3, <2>4 DEF TypeViews
<1>2. TypeStore'
  <2>1. (storeLog \in [Users -> Logs])'
    BY PortalAssumption, LogsFacts DEF TypeOK, TypeStore, Published, Show, SaveLater, store
  <2>2. (storeObj \in [Users -> SUBSET Objects])'
    BY PortalAssumption, LogsFacts DEF TypeOK, TypeStore, Published, Show, SaveLater, store
  <2>3. (saves \in [Views -> Seq(Saved)])'
    BY BundleType, SaveLaterType
      DEF TypeOK, Published
  <2> QED BY <2>1, <2>2, <2>3 DEF TypeStore
<1>3. TypePub'
  <2>1. (pubPc \in [Views -> {"idle", "obj", "entry", "saving"}])'
    BY PortalAssumption, LogsFacts DEF TypeOK, TypePub, Published, Show, SaveLater, pubVars
  <2>2. (pubObj \in [Views -> Objects \cup {None}])'
    BY PortalAssumption, LogsFacts DEF TypeOK, TypePub, Published, Show, SaveLater, pubVars
  <2>3. (baseLog \in [Views -> Logs])'
    BY PortalAssumption, LogsFacts DEF TypeOK, TypePub, Published, Show, SaveLater, pubVars
  <2>4. (baseObj \in [Views -> SUBSET Objects])'
    BY PortalAssumption, LogsFacts DEF TypeOK, TypePub, Published, Show, SaveLater, pubVars
  <2>5. (answer \in [Views -> {"none", "ok", "no"}])'
    BY PortalAssumption, LogsFacts DEF TypeOK, TypePub, Published, Show, SaveLater, pubVars
  <2>6. (\A w \in Views : pubPc[w] = "idle" <=> pubObj[w] = None)'
    BY PortalAssumption, LogsFacts DEF TypeOK, TypePub, Published, Show, SaveLater, pubVars
  <2> QED BY <2>1, <2>2, <2>3, <2>4, <2>5, <2>6 DEF TypePub
<1>4. TypeGhosts'
  <2>1. (tries \in [Objects -> Nat])'
    BY PortalAssumption, LogsFacts DEF TypeOK, TypeGhosts, Published, Show, SaveLater, ghosts
  <2>2. (signed \in [Users -> SUBSET Seq(Objects)])'
    BY PortalAssumption, LogsFacts DEF TypeOK, TypeGhosts, Published, Show, SaveLater, ghosts
  <2>3. (acked \subseteq Views \X Objects)'
    BY SignsType
      DEF TypeOK, TypeGhosts, Published
  <2> QED BY <2>1, <2>2, <2>3 DEF TypeGhosts
<1>5. (TypeProvider /\ TypeSync)'
  BY DEF TypeOK, TypeProvider, TypeSync, Published, provider, syncVars
<1> QED BY <1>1, <1>2, <1>3, <1>4, <1>5 DEF TypeOK

LEMMA PublishRefusedType ==
  ASSUME TypeOK, NEW v \in Views, PublishRefused(v) PROVE TypeOK'
<1>1. TypePub'
  <2>1. (pubPc \in [Views -> {"idle", "obj", "entry", "saving"}])'
    BY PortalAssumption, LogsFacts DEF TypeOK, TypePub, PublishRefused, PublishIdle, pubVars
  <2>2. (pubObj \in [Views -> Objects \cup {None}])'
    BY PortalAssumption, LogsFacts DEF TypeOK, TypePub, PublishRefused, PublishIdle, pubVars
  <2>3. (baseLog \in [Views -> Logs])'
    BY PortalAssumption, LogsFacts DEF TypeOK, TypePub, PublishRefused, PublishIdle, pubVars
  <2>4. (baseObj \in [Views -> SUBSET Objects])'
    BY PortalAssumption, LogsFacts DEF TypeOK, TypePub, PublishRefused, PublishIdle, pubVars
  <2>5. (answer \in [Views -> {"none", "ok", "no"}])'
    BY PortalAssumption, LogsFacts DEF TypeOK, TypePub, PublishRefused, PublishIdle, pubVars
  <2>6. (\A w \in Views : pubPc[w] = "idle" <=> pubObj[w] = None)'
    BY PortalAssumption, LogsFacts DEF TypeOK, TypePub, PublishRefused, PublishIdle, pubVars
  <2> QED BY <2>1, <2>2, <2>3, <2>4, <2>5, <2>6 DEF TypePub
<1>2. (TypeProvider /\ TypeViews /\ TypeStore /\ TypeSync /\ TypeGhosts)'
  BY DEF TypeOK, TypeProvider, TypeViews, TypeStore, TypeSync, TypeGhosts, PublishRefused, provider, viewVars, store, syncVars, ghosts
<1> QED BY <1>1, <1>2 DEF TypeOK

LEMMA PublishTimesOutType ==
  ASSUME TypeOK, NEW v \in Views, PublishTimesOut(v) PROVE TypeOK'
<1>1. TypeProvider'
  <2>1. (log \in Logs)'
    BY PortalAssumption, LogsFacts DEF TypeOK, TypeProvider, PublishTimesOut, PublishIdle, provider
  <2>2. (diskLog \in Logs)'
    BY PortalAssumption, LogsFacts DEF TypeOK, TypeProvider, PublishTimesOut, PublishIdle, provider
  <2>3. (objects \subseteq Objects)'
    BY PortalAssumption, LogsFacts DEF TypeOK, TypeProvider, PublishTimesOut, PublishIdle, provider
  <2>4. (diskObjects \subseteq Objects)'
    BY PortalAssumption, LogsFacts DEF TypeOK, TypeProvider, PublishTimesOut, PublishIdle, provider
  <2>5. (late \subseteq {"obj", "entry"} \X Users \X (Seq(Objects) \ {<<>>}))'
    BY SignsType, PortalAssumption
      DEF TypeOK, TypeProvider, PublishTimesOut
  <2> QED BY <2>1, <2>2, <2>3, <2>4, <2>5 DEF TypeProvider
<1>2. TypePub'
  <2>1. (pubPc \in [Views -> {"idle", "obj", "entry", "saving"}])'
    BY PortalAssumption, LogsFacts DEF TypeOK, TypePub, PublishTimesOut, PublishIdle, pubVars
  <2>2. (pubObj \in [Views -> Objects \cup {None}])'
    BY PortalAssumption, LogsFacts DEF TypeOK, TypePub, PublishTimesOut, PublishIdle, pubVars
  <2>3. (baseLog \in [Views -> Logs])'
    BY PortalAssumption, LogsFacts DEF TypeOK, TypePub, PublishTimesOut, PublishIdle, pubVars
  <2>4. (baseObj \in [Views -> SUBSET Objects])'
    BY PortalAssumption, LogsFacts DEF TypeOK, TypePub, PublishTimesOut, PublishIdle, pubVars
  <2>5. (answer \in [Views -> {"none", "ok", "no"}])'
    BY PortalAssumption, LogsFacts DEF TypeOK, TypePub, PublishTimesOut, PublishIdle, pubVars
  <2>6. (\A w \in Views : pubPc[w] = "idle" <=> pubObj[w] = None)'
    BY PortalAssumption, LogsFacts DEF TypeOK, TypePub, PublishTimesOut, PublishIdle, pubVars
  <2> QED BY <2>1, <2>2, <2>3, <2>4, <2>5, <2>6 DEF TypePub
<1>3. (TypeViews /\ TypeStore /\ TypeSync /\ TypeGhosts)'
  BY DEF TypeOK, TypeViews, TypeStore, TypeSync, TypeGhosts, PublishTimesOut, viewVars, store, syncVars, ghosts
<1> QED BY <1>1, <1>2, <1>3 DEF TypeOK

LEMMA SyncStartType ==
  ASSUME TypeOK, NEW v \in Views, SyncStart(v) PROVE TypeOK'
<1>1. TypeSync'
  <2>1. (syncPc \in [Views -> {"idle", "heads", "logs", "saving"}])'
    BY PortalAssumption, LogsFacts DEF TypeOK, TypeSync, SyncStart, syncVars
  <2>2. (nextLog \in [Views -> Logs])'
    BY PortalAssumption
      DEF TypeOK, TypeSync, TypeViews, SyncStart
  <2>3. (nextObj \in [Views -> SUBSET Objects])'
    BY PortalAssumption
      DEF TypeOK, TypeSync, TypeViews, SyncStart
  <2>4. (peer \in [Views -> [Users -> Nat]])'
    BY PortalAssumption, LogsFacts DEF TypeOK, TypeSync, SyncStart, syncVars
  <2>5. (asked \in [Views -> SUBSET Users])'
    BY PortalAssumption, LogsFacts DEF TypeOK, TypeSync, SyncStart, syncVars
  <2>6. (ready \in [Views -> SUBSET Users])'
    BY PortalAssumption, LogsFacts DEF TypeOK, TypeSync, SyncStart, syncVars
  <2>7. (batch \in [Views -> Logs])'
    BY PortalAssumption, LogsFacts DEF TypeOK, TypeSync, SyncStart, syncVars
  <2>8. (failed \in [Views -> SUBSET Users])'
    BY PortalAssumption, LogsFacts DEF TypeOK, TypeSync, SyncStart, syncVars
  <2> QED BY <2>1, <2>2, <2>3, <2>4, <2>5, <2>6, <2>7, <2>8 DEF TypeSync
<1>2. (TypeProvider /\ TypeViews /\ TypeStore /\ TypePub /\ TypeGhosts)'
  BY DEF TypeOK, TypeProvider, TypeViews, TypeStore, TypePub, TypeGhosts, SyncStart, provider, viewVars, store, pubVars, ghosts
<1> QED BY <1>1, <1>2 DEF TypeOK

LEMMA GetHeadsType ==
  ASSUME TypeOK, NEW v \in Views, GetHeads(v) PROVE TypeOK'
<1>1. TypeSync'
  <2>1. (syncPc \in [Views -> {"idle", "heads", "logs", "saving"}])'
    BY PortalAssumption, LogsFacts DEF TypeOK, TypeSync, GetHeads, Wants, syncVars
  <2>2. (nextLog \in [Views -> Logs])'
    BY PortalAssumption, LogsFacts DEF TypeOK, TypeSync, GetHeads, Wants, syncVars
  <2>3. (nextObj \in [Views -> SUBSET Objects])'
    BY PortalAssumption, LogsFacts DEF TypeOK, TypeSync, GetHeads, Wants, syncVars
  <2>4. (peer \in [Views -> [Users -> Nat]])'
    <3>1. Heads \in [Users -> Nat]
      BY LogsFacts DEF TypeOK, TypeProvider, Heads
    <3> QED BY <3>1 DEF TypeOK, TypeSync, GetHeads
  <2>5. (asked \in [Views -> SUBSET Users])'
    BY PortalAssumption, LogsFacts DEF TypeOK, TypeSync, GetHeads, Wants, syncVars
  <2>6. (ready \in [Views -> SUBSET Users])'
    BY PortalAssumption, LogsFacts DEF TypeOK, TypeSync, GetHeads, Wants, syncVars
  <2>7. (batch \in [Views -> Logs])'
    BY PortalAssumption, LogsFacts DEF TypeOK, TypeSync, GetHeads, Wants, syncVars
  <2>8. (failed \in [Views -> SUBSET Users])'
    BY PortalAssumption, LogsFacts DEF TypeOK, TypeSync, GetHeads, Wants, syncVars
  <2> QED BY <2>1, <2>2, <2>3, <2>4, <2>5, <2>6, <2>7, <2>8 DEF TypeSync
<1>2. (TypeProvider /\ TypeViews /\ TypeStore /\ TypePub /\ TypeGhosts)'
  BY DEF TypeOK, TypeProvider, TypeViews, TypeStore, TypePub, TypeGhosts, GetHeads, provider, viewVars, store, pubVars, ghosts
<1> QED BY <1>1, <1>2 DEF TypeOK

LEMMA SyncFailsType ==
  ASSUME TypeOK, NEW v \in Views, SyncFails(v) PROVE TypeOK'
<1>1. TypeSync'
  <2>1. (syncPc \in [Views -> {"idle", "heads", "logs", "saving"}])'
    BY PortalAssumption, LogsFacts DEF TypeOK, TypeSync, SyncFails, SyncIdle, syncVars
  <2>2. (nextLog \in [Views -> Logs])'
    BY PortalAssumption, LogsFacts DEF TypeOK, TypeSync, SyncFails, SyncIdle, syncVars
  <2>3. (nextObj \in [Views -> SUBSET Objects])'
    BY PortalAssumption, LogsFacts DEF TypeOK, TypeSync, SyncFails, SyncIdle, syncVars
  <2>4. (peer \in [Views -> [Users -> Nat]])'
    BY PortalAssumption, LogsFacts DEF TypeOK, TypeSync, SyncFails, SyncIdle, syncVars
  <2>5. (asked \in [Views -> SUBSET Users])'
    BY PortalAssumption, LogsFacts DEF TypeOK, TypeSync, SyncFails, SyncIdle, syncVars
  <2>6. (ready \in [Views -> SUBSET Users])'
    BY PortalAssumption, LogsFacts DEF TypeOK, TypeSync, SyncFails, SyncIdle, syncVars
  <2>7. (batch \in [Views -> Logs])'
    BY PortalAssumption, LogsFacts DEF TypeOK, TypeSync, SyncFails, SyncIdle, syncVars
  <2>8. (failed \in [Views -> SUBSET Users])'
    BY PortalAssumption, LogsFacts DEF TypeOK, TypeSync, SyncFails, SyncIdle, syncVars
  <2> QED BY <2>1, <2>2, <2>3, <2>4, <2>5, <2>6, <2>7, <2>8 DEF TypeSync
<1>2. (TypeProvider /\ TypeViews /\ TypeStore /\ TypePub /\ TypeGhosts)'
  BY DEF TypeOK, TypeProvider, TypeViews, TypeStore, TypePub, TypeGhosts, SyncFails, provider, viewVars, store, pubVars, ghosts
<1> QED BY <1>1, <1>2 DEF TypeOK

LEMMA GetLogType ==
  ASSUME TypeOK, NEW v \in Views, NEW u \in Users, GetLog(v, u) PROVE TypeOK'
<1>1. TypeSync'
  <2>1. (syncPc \in [Views -> {"idle", "heads", "logs", "saving"}])'
    BY PortalAssumption, LogsFacts DEF TypeOK, TypeSync, GetLog, syncVars
  <2>2. (nextLog \in [Views -> Logs])'
    BY PortalAssumption, LogsFacts DEF TypeOK, TypeSync, GetLog, syncVars
  <2>3. (nextObj \in [Views -> SUBSET Objects])'
    BY PortalAssumption, LogsFacts DEF TypeOK, TypeSync, GetLog, syncVars
  <2>4. (peer \in [Views -> [Users -> Nat]])'
    BY PortalAssumption, LogsFacts DEF TypeOK, TypeSync, GetLog, syncVars
  <2>5. (asked \in [Views -> SUBSET Users])'
    BY PortalAssumption, LogsFacts DEF TypeOK, TypeSync, GetLog, syncVars
  <2>6. (ready \in [Views -> SUBSET Users])'
    <3>1. ready' = ready \/ ready' = [ready EXCEPT ![v] = @ \cup {u}]
      BY DEF GetLog
    <3>2. ready \in [Views -> SUBSET Users]
      BY DEF TypeOK, TypeSync
    <3> QED BY <3>1, <3>2
  <2>7. (batch \in [Views -> Logs])'
    <3>1. log[u] \in Seq(Objects) /\ nextLog[v][u] \in Seq(Objects) /\ batch[v] \in Logs
      BY LogsFacts DEF TypeOK, TypeProvider, TypeSync
    <3>2. LogSince(u, Len(nextLog[v][u])) \in Seq(Objects)
      BY <3>1 DEF LogSince
    <3>3. [batch[v] EXCEPT ![u] = LogSince(u, Len(nextLog[v][u]))] \in Logs
      BY <3>1, <3>2, LogsFacts
    <3> QED BY <3>3 DEF TypeOK, TypeSync, GetLog
  <2>8. (failed \in [Views -> SUBSET Users])'
    <3>1. failed' = failed \/ failed' = [failed EXCEPT ![v] = @ \cup {u}]
      BY DEF GetLog
    <3>2. failed \in [Views -> SUBSET Users]
      BY DEF TypeOK, TypeSync
    <3> QED BY <3>1, <3>2
  <2> QED BY <2>1, <2>2, <2>3, <2>4, <2>5, <2>6, <2>7, <2>8 DEF TypeSync
<1>2. (TypeProvider /\ TypeViews /\ TypeStore /\ TypePub /\ TypeGhosts)'
  BY DEF TypeOK, TypeProvider, TypeViews, TypeStore, TypePub, TypeGhosts, GetLog, provider, viewVars, store, pubVars, ghosts
<1> QED BY <1>1, <1>2 DEF TypeOK

LEMMA LogsFailType ==
  ASSUME TypeOK, NEW v \in Views, LogsFail(v) PROVE TypeOK'
<1>1. TypeSync'
  <2>1. (syncPc \in [Views -> {"idle", "heads", "logs", "saving"}])'
    BY PortalAssumption, LogsFacts DEF TypeOK, TypeSync, LogsFail, syncVars
  <2>2. (nextLog \in [Views -> Logs])'
    BY PortalAssumption, LogsFacts DEF TypeOK, TypeSync, LogsFail, syncVars
  <2>3. (nextObj \in [Views -> SUBSET Objects])'
    BY PortalAssumption, LogsFacts DEF TypeOK, TypeSync, LogsFail, syncVars
  <2>4. (peer \in [Views -> [Users -> Nat]])'
    BY PortalAssumption, LogsFacts DEF TypeOK, TypeSync, LogsFail, syncVars
  <2>5. (asked \in [Views -> SUBSET Users])'
    BY PortalAssumption, LogsFacts DEF TypeOK, TypeSync, LogsFail, syncVars
  <2>6. (ready \in [Views -> SUBSET Users])'
    BY PortalAssumption, LogsFacts DEF TypeOK, TypeSync, LogsFail, syncVars
  <2>7. (batch \in [Views -> Logs])'
    BY PortalAssumption, LogsFacts DEF TypeOK, TypeSync, LogsFail, syncVars
  <2>8. (failed \in [Views -> SUBSET Users])'
    BY PortalAssumption, LogsFacts DEF TypeOK, TypeSync, LogsFail, syncVars
  <2> QED BY <2>1, <2>2, <2>3, <2>4, <2>5, <2>6, <2>7, <2>8 DEF TypeSync
<1>2. (TypeProvider /\ TypeViews /\ TypeStore /\ TypePub /\ TypeGhosts)'
  BY DEF TypeOK, TypeProvider, TypeViews, TypeStore, TypePub, TypeGhosts, LogsFail, provider, viewVars, store, pubVars, ghosts
<1> QED BY <1>1, <1>2 DEF TypeOK

LEMMA GetObjectsType ==
  ASSUME TypeOK, NEW v \in Views, NEW u \in Users, GetObjects(v, u) PROVE TypeOK'
<1>1. TypeSync'
  <2>1. (syncPc \in [Views -> {"idle", "heads", "logs", "saving"}])'
    BY PortalAssumption, LogsFacts DEF TypeOK, TypeSync, GetObjects, Merge, syncVars
  <2>2. (nextLog \in [Views -> Logs])'
    <3>1. nextLog[v] \in Logs /\ batch[v][u] \in Seq(Objects)
      BY LogsFacts DEF TypeOK, TypeSync
    <3>2. Merge(nextLog[v], u, batch[v][u]) \in Logs
      BY <3>1, LogsFacts
    <3>3. \/ nextLog' = [nextLog EXCEPT ![v] = Merge(@, u, batch[v][u])]
          \/ nextLog' = nextLog
      BY DEF GetObjects
    <3> QED BY <3>2, <3>3 DEF TypeOK, TypeSync
  <2>3. (nextObj \in [Views -> SUBSET Objects])'
    <3>1. \/ /\ ToSet(batch[v][u]) \ nextObj[v] \subseteq objects
             /\ nextObj' = [nextObj EXCEPT ![v] = @ \cup (ToSet(batch[v][u]) \ nextObj[v])]
          \/ nextObj' = nextObj
      BY DEF GetObjects
    <3> QED BY <3>1 DEF TypeOK, TypeSync, TypeProvider
  <2>4. (peer \in [Views -> [Users -> Nat]])'
    BY PortalAssumption, LogsFacts DEF TypeOK, TypeSync, GetObjects, Merge, syncVars
  <2>5. (asked \in [Views -> SUBSET Users])'
    BY PortalAssumption, LogsFacts DEF TypeOK, TypeSync, GetObjects, Merge, syncVars
  <2>6. (ready \in [Views -> SUBSET Users])'
    BY PortalAssumption, LogsFacts DEF TypeOK, TypeSync, GetObjects, Merge, syncVars
  <2>7. (batch \in [Views -> Logs])'
    <3>1. batch[v] \in Logs /\ <<>> \in Seq(Objects)
      BY DEF TypeOK, TypeSync
    <3>2. [batch[v] EXCEPT ![u] = <<>>] \in Logs
      BY <3>1, LogsFacts
    <3> QED BY <3>2 DEF TypeOK, TypeSync, GetObjects
  <2>8. (failed \in [Views -> SUBSET Users])'
    <3>1. failed' = [failed EXCEPT ![v] = @ \cup {u}] \/ failed' = failed
      BY DEF GetObjects
    <3>2. failed \in [Views -> SUBSET Users]
      BY DEF TypeOK, TypeSync
    <3> QED BY <3>1, <3>2
  <2> QED BY <2>1, <2>2, <2>3, <2>4, <2>5, <2>6, <2>7, <2>8 DEF TypeSync
<1>2. (TypeProvider /\ TypeViews /\ TypeStore /\ TypePub /\ TypeGhosts)'
  BY DEF TypeOK, TypeProvider, TypeViews, TypeStore, TypePub, TypeGhosts, GetObjects, provider, viewVars, store, pubVars, ghosts
<1> QED BY <1>1, <1>2 DEF TypeOK

LEMMA SyncedType ==
  ASSUME TypeOK, NEW v \in Views, Synced(v) PROVE TypeOK'
<1>1. TypeViews'
  <2>1. (mount \in [Views -> {"closed", "loading", "open"}])'
    BY PortalAssumption, LogsFacts DEF TypeOK, TypeViews, Synced, Show, SaveLater, viewVars
  <2>2. (shownLog \in [Views -> Logs])'
    BY ShowType
      DEF TypeOK, TypeSync, Synced
  <2>3. (shownObj \in [Views -> SUBSET Objects])'
    BY ShowType
      DEF TypeOK, TypeSync, Synced
  <2>4. (issues \in [Views -> SUBSET Users])'
    BY PortalAssumption
      DEF TypeOK, TypeSync, TypeViews, Synced
  <2> QED BY <2>1, <2>2, <2>3, <2>4 DEF TypeViews
<1>2. TypeStore'
  <2>1. (storeLog \in [Users -> Logs])'
    BY PortalAssumption, LogsFacts DEF TypeOK, TypeStore, Synced, Show, SaveLater, store
  <2>2. (storeObj \in [Users -> SUBSET Objects])'
    BY PortalAssumption, LogsFacts DEF TypeOK, TypeStore, Synced, Show, SaveLater, store
  <2>3. (saves \in [Views -> Seq(Saved)])'
    BY SaveLaterType
      DEF TypeOK, TypeSync, Synced
  <2> QED BY <2>1, <2>2, <2>3 DEF TypeStore
<1>3. TypeSync'
  <2>1. (syncPc \in [Views -> {"idle", "heads", "logs", "saving"}])'
    BY PortalAssumption, LogsFacts DEF TypeOK, TypeSync, Synced, Show, SaveLater, syncVars
  <2>2. (nextLog \in [Views -> Logs])'
    BY PortalAssumption, LogsFacts DEF TypeOK, TypeSync, Synced, Show, SaveLater, syncVars
  <2>3. (nextObj \in [Views -> SUBSET Objects])'
    BY PortalAssumption, LogsFacts DEF TypeOK, TypeSync, Synced, Show, SaveLater, syncVars
  <2>4. (peer \in [Views -> [Users -> Nat]])'
    BY PortalAssumption, LogsFacts DEF TypeOK, TypeSync, Synced, Show, SaveLater, syncVars
  <2>5. (asked \in [Views -> SUBSET Users])'
    BY PortalAssumption, LogsFacts DEF TypeOK, TypeSync, Synced, Show, SaveLater, syncVars
  <2>6. (ready \in [Views -> SUBSET Users])'
    BY PortalAssumption, LogsFacts DEF TypeOK, TypeSync, Synced, Show, SaveLater, syncVars
  <2>7. (batch \in [Views -> Logs])'
    BY PortalAssumption, LogsFacts DEF TypeOK, TypeSync, Synced, Show, SaveLater, syncVars
  <2>8. (failed \in [Views -> SUBSET Users])'
    BY PortalAssumption, LogsFacts DEF TypeOK, TypeSync, Synced, Show, SaveLater, syncVars
  <2> QED BY <2>1, <2>2, <2>3, <2>4, <2>5, <2>6, <2>7, <2>8 DEF TypeSync
<1>4. (TypeProvider /\ TypePub /\ TypeGhosts)'
  BY DEF TypeOK, TypeProvider, TypePub, TypeGhosts, Synced, provider, pubVars, ghosts
<1> QED BY <1>1, <1>2, <1>3, <1>4 DEF TypeOK

LEMMA MountType ==
  ASSUME TypeOK, NEW v \in Views, Mount(v) PROVE TypeOK'
<1>1. TypeViews'
  <2>1. (mount \in [Views -> {"closed", "loading", "open"}])'
    BY PortalAssumption, LogsFacts DEF TypeOK, TypeViews, Mount, viewVars
  <2>2. (shownLog \in [Views -> Logs])'
    BY PortalAssumption, LogsFacts DEF TypeOK, TypeViews, Mount, viewVars
  <2>3. (shownObj \in [Views -> SUBSET Objects])'
    BY PortalAssumption, LogsFacts DEF TypeOK, TypeViews, Mount, viewVars
  <2>4. (issues \in [Views -> SUBSET Users])'
    BY PortalAssumption, LogsFacts DEF TypeOK, TypeViews, Mount, viewVars
  <2> QED BY <2>1, <2>2, <2>3, <2>4 DEF TypeViews
<1>2. (TypeProvider /\ TypeStore /\ TypeSync /\ TypePub /\ TypeGhosts)'
  BY DEF TypeOK, TypeProvider, TypeStore, TypeSync, TypePub, TypeGhosts, Mount, provider, store, syncVars, pubVars, ghosts
<1> QED BY <1>1, <1>2 DEF TypeOK

LEMMA LoadType ==
  ASSUME TypeOK, NEW v \in Views, Load(v) PROVE TypeOK'
<1>1. TypeViews'
  <2>1. (mount \in [Views -> {"closed", "loading", "open"}])'
    BY PortalAssumption, LogsFacts DEF TypeOK, TypeViews, Load, viewVars
  <2>2. (shownLog \in [Views -> Logs])'
    BY PortalAssumption
      DEF TypeOK, TypeStore, TypeViews, Load
  <2>3. (shownObj \in [Views -> SUBSET Objects])'
    BY PortalAssumption
      DEF TypeOK, TypeStore, TypeViews, Load
  <2>4. (issues \in [Views -> SUBSET Users])'
    BY PortalAssumption, LogsFacts DEF TypeOK, TypeViews, Load, viewVars
  <2> QED BY <2>1, <2>2, <2>3, <2>4 DEF TypeViews
<1>2. (TypeProvider /\ TypeStore /\ TypeSync /\ TypePub /\ TypeGhosts)'
  BY DEF TypeOK, TypeProvider, TypeStore, TypeSync, TypePub, TypeGhosts, Load, provider, store, syncVars, pubVars, ghosts
<1> QED BY <1>1, <1>2 DEF TypeOK

LEMMA IdleType ==
  ASSUME TypePub, NEW v \in Views, PublishIdle(v) PROVE TypePub'
<1>1. /\ pubPc' = [pubPc EXCEPT ![v] = "idle"]
      /\ pubObj' = [pubObj EXCEPT ![v] = None]
      /\ baseLog' = [baseLog EXCEPT ![v] = NoLogs]
      /\ baseObj' = [baseObj EXCEPT ![v] = {}]
      /\ answer' = [answer EXCEPT ![v] = "none"]
  BY DEF PublishIdle
<1>2. (pubPc \in [Views -> {"idle", "obj", "entry", "saving"}])'
  BY <1>1 DEF TypePub
<1>3. (pubObj \in [Views -> Objects \cup {None}])'
  BY <1>1 DEF TypePub
<1>4. (baseLog \in [Views -> Logs])'
  BY <1>1, LogsFacts DEF TypePub
<1>5. (baseObj \in [Views -> SUBSET Objects])'
  BY <1>1 DEF TypePub
<1>6. (answer \in [Views -> {"none", "ok", "no"}])'
  BY <1>1 DEF TypePub
<1>7. (\A w \in Views : pubPc[w] = "idle" <=> pubObj[w] = None)'
  BY <1>1 DEF TypePub
<1> QED BY <1>2, <1>3, <1>4, <1>5, <1>6, <1>7 DEF TypePub

LEMMA SaveType ==
  ASSUME TypeOK, NEW v \in Views, Save(v) PROVE TypeOK'
<1>1. TypeStore'
  <2>1. (storeLog \in [Users -> Logs])'
    <3>1. Owner[v] \in Users /\ Head(saves[v]).logs \in Logs
      BY HeadOfSaves, PortalAssumption DEF Save
    <3>2. storeLog' = storeLog \/ \E D \in SUBSET Users :
            storeLog' = [storeLog EXCEPT ![Owner[v]] = DropLogs(Head(saves[v]).logs, D)]
      BY DEF Save, TrimDrops, store
    <3> QED BY <3>1, <3>2, LogsFacts DEF TypeOK, TypeStore
  <2>2. (storeObj \in [Users -> SUBSET Objects])'
    <3>1. Owner[v] \in Users /\ Head(saves[v]).objs \in SUBSET Objects
      BY HeadOfSaves, PortalAssumption DEF Save
    <3>2. storeObj' = storeObj \/ \E D : storeObj' = [storeObj EXCEPT ![Owner[v]] =
                      DropObjects(Head(saves[v]).logs, Head(saves[v]).objs, D)]
      BY DEF Save, store
    <3> QED BY <3>1, <3>2, LogsFacts DEF TypeOK, TypeStore
  <2>3. (saves \in [Views -> Seq(Saved)])'
    BY PortalAssumption, LogsFacts DEF TypeOK, TypeStore, Save, SyncIdle, PublishIdle, store
  <2> QED BY <2>1, <2>2, <2>3 DEF TypeStore
<1>2. TypeSync'
  <2>9. /\ UNCHANGED <<asked, ready, batch>>
        /\ UNCHANGED <<syncPc, nextLog, nextObj, peer, failed>> \/ SyncIdle(v)
    BY DEF Save
  <2>10. TypeSync /\ NoLogs \in Logs
    BY LogsFacts DEF TypeOK
  <2>1. (syncPc \in [Views -> {"idle", "heads", "logs", "saving"}])'
    BY <2>9, <2>10 DEF TypeSync, SyncIdle
  <2>2. (nextLog \in [Views -> Logs])'
    BY <2>9, <2>10 DEF TypeSync, SyncIdle
  <2>3. (nextObj \in [Views -> SUBSET Objects])'
    BY <2>9, <2>10 DEF TypeSync, SyncIdle
  <2>4. (peer \in [Views -> [Users -> Nat]])'
    <3>1. peer' = peer \/ peer' = [peer EXCEPT ![v] = [u \in Users |-> 0]]
      BY DEF Save, SyncIdle
    <3>2. peer \in [Views -> [Users -> Nat]]
      BY DEF TypeOK, TypeSync
    <3> QED BY <3>1, <3>2
  <2>5. (asked \in [Views -> SUBSET Users])'
    BY <2>9, <2>10 DEF TypeSync, SyncIdle
  <2>6. (ready \in [Views -> SUBSET Users])'
    BY <2>9, <2>10 DEF TypeSync, SyncIdle
  <2>7. (batch \in [Views -> Logs])'
    BY <2>9, <2>10 DEF TypeSync, SyncIdle
  <2>8. (failed \in [Views -> SUBSET Users])'
    BY <2>9, <2>10 DEF TypeSync, SyncIdle
  <2> QED BY <2>1, <2>2, <2>3, <2>4, <2>5, <2>6, <2>7, <2>8 DEF TypeSync
<1>3. TypePub'
  <2>1. UNCHANGED pubVars \/ PublishIdle(v)
    BY DEF Save
  <2>2. TypePub
    BY DEF TypeOK
  <2>3. CASE UNCHANGED pubVars
    BY <2>2, <2>3 DEF TypePub, pubVars
  <2>4. CASE PublishIdle(v)
    BY <2>2, <2>4, IdleType
  <2> QED BY <2>1, <2>3, <2>4
<1>4. (TypeProvider /\ TypeViews /\ TypeGhosts)'
  BY DEF TypeOK, TypeProvider, TypeViews, TypeGhosts, Save, provider, viewVars, ghosts
<1> QED BY <1>1, <1>2, <1>3, <1>4 DEF TypeOK

LEMMA ResetAuthorType ==
  ASSUME TypeOK, NEW v \in Views, NEW u \in Users, ResetAuthor(v, u) PROVE TypeOK'
<1>1. TypeViews'
  <2>1. (mount \in [Views -> {"closed", "loading", "open"}])'
    BY PortalAssumption, LogsFacts DEF TypeOK, TypeViews, ResetAuthor, Show, SaveLater, viewVars
  <2>2. (shownLog \in [Views -> Logs])'
    BY PortalAssumption, LogsFacts DEF TypeOK, TypeViews, ResetAuthor, Show, SaveLater, viewVars
  <2>3. (shownObj \in [Views -> SUBSET Objects])'
    BY PortalAssumption, LogsFacts DEF TypeOK, TypeViews, ResetAuthor, Show, SaveLater, viewVars
  <2>4. (issues \in [Views -> SUBSET Users])'
    BY PortalAssumption, LogsFacts DEF TypeOK, TypeViews, ResetAuthor, Show, SaveLater, viewVars
  <2> QED BY <2>1, <2>2, <2>3, <2>4 DEF TypeViews
<1>2. TypeStore'
  <2>1. (storeLog \in [Users -> Logs])'
    BY PortalAssumption, LogsFacts DEF TypeOK, TypeStore, ResetAuthor, Show, SaveLater, store
  <2>2. (storeObj \in [Users -> SUBSET Objects])'
    BY PortalAssumption, LogsFacts DEF TypeOK, TypeStore, ResetAuthor, Show, SaveLater, store
  <2>3. (saves \in [Views -> Seq(Saved)])'
    <3>1. DropLogs(shownLog[v], {u}) \in Logs
      BY LogsFacts DEF TypeOK, TypeViews
    <3>2. DropObjects(shownLog[v], shownObj[v], {u}) \in SUBSET Objects
      BY LogsFacts DEF TypeOK, TypeViews
    <3> QED BY <3>1, <3>2, SaveLaterType DEF ResetAuthor
  <2> QED BY <2>1, <2>2, <2>3 DEF TypeStore
<1>3. (TypeProvider /\ TypeSync /\ TypePub /\ TypeGhosts)'
  BY DEF TypeOK, TypeProvider, TypeSync, TypePub, TypeGhosts, ResetAuthor, provider, syncVars, pubVars, ghosts
<1> QED BY <1>1, <1>2, <1>3 DEF TypeOK

LEMMA UnmountType ==
  ASSUME TypeOK, NEW v \in Views, Unmount(v) PROVE TypeOK'
<1>1. TypeViews'
  <2>1. (mount \in [Views -> {"closed", "loading", "open"}])'
    BY PortalAssumption, LogsFacts DEF TypeOK, TypeViews, Unmount, viewVars
  <2>2. (shownLog \in [Views -> Logs])'
    BY PortalAssumption, LogsFacts DEF TypeOK, TypeViews, Unmount, viewVars
  <2>3. (shownObj \in [Views -> SUBSET Objects])'
    BY PortalAssumption, LogsFacts DEF TypeOK, TypeViews, Unmount, viewVars
  <2>4. (issues \in [Views -> SUBSET Users])'
    BY PortalAssumption, LogsFacts DEF TypeOK, TypeViews, Unmount, viewVars
  <2> QED BY <2>1, <2>2, <2>3, <2>4 DEF TypeViews
<1>2. (TypeProvider /\ TypeStore /\ TypeSync /\ TypePub /\ TypeGhosts)'
  BY DEF TypeOK, TypeProvider, TypeStore, TypeSync, TypePub, TypeGhosts, Unmount, provider, store, syncVars, pubVars, ghosts
<1> QED BY <1>1, <1>2 DEF TypeOK

LEMMA ReloadType ==
  ASSUME TypeOK, NEW u \in Users, Reload(u) PROVE TypeOK'
<1>1. TypeProvider'
  <2>1. (log \in Logs)'
    BY PortalAssumption, LogsFacts DEF TypeOK, TypeProvider, Reload, provider
  <2>2. (diskLog \in Logs)'
    BY PortalAssumption, LogsFacts DEF TypeOK, TypeProvider, Reload, provider
  <2>3. (objects \subseteq Objects)'
    BY PortalAssumption, LogsFacts DEF TypeOK, TypeProvider, Reload, provider
  <2>4. (diskObjects \subseteq Objects)'
    BY PortalAssumption, LogsFacts DEF TypeOK, TypeProvider, Reload, provider
  <2>5. (late \subseteq {"obj", "entry"} \X Users \X (Seq(Objects) \ {<<>>}))'
    <3>1. \A v \in Views : pubPc[v] \in {"obj", "entry"} => Signs(v) \in Seq(Objects) \ {<<>>}
      BY SignsType
    <3> QED BY <3>1 DEF TypeOK, TypeProvider, Reload
  <2> QED BY <2>1, <2>2, <2>3, <2>4, <2>5 DEF TypeProvider
<1>2. TypeViews'
  <2>1. (mount \in [Views -> {"closed", "loading", "open"}])'
    BY PortalAssumption, LogsFacts DEF TypeOK, TypeViews, Reload, viewVars
  <2>2. (shownLog \in [Views -> Logs])'
    BY PortalAssumption, LogsFacts DEF TypeOK, TypeViews, Reload, viewVars
  <2>3. (shownObj \in [Views -> SUBSET Objects])'
    BY PortalAssumption, LogsFacts DEF TypeOK, TypeViews, Reload, viewVars
  <2>4. (issues \in [Views -> SUBSET Users])'
    BY PortalAssumption, LogsFacts DEF TypeOK, TypeViews, Reload, viewVars
  <2> QED BY <2>1, <2>2, <2>3, <2>4 DEF TypeViews
<1>3. TypeStore'
  <2>1. (storeLog \in [Users -> Logs])'
    BY PortalAssumption, LogsFacts DEF TypeOK, TypeStore, Reload, store
  <2>2. (storeObj \in [Users -> SUBSET Objects])'
    BY PortalAssumption, LogsFacts DEF TypeOK, TypeStore, Reload, store
  <2>3. (saves \in [Views -> Seq(Saved)])'
    BY PortalAssumption, LogsFacts DEF TypeOK, TypeStore, Reload, store
  <2> QED BY <2>1, <2>2, <2>3 DEF TypeStore
<1>4. TypeSync'
  <2>1. (syncPc \in [Views -> {"idle", "heads", "logs", "saving"}])'
    BY PortalAssumption, LogsFacts DEF TypeOK, TypeSync, Reload, syncVars
  <2>2. (nextLog \in [Views -> Logs])'
    BY PortalAssumption, LogsFacts DEF TypeOK, TypeSync, Reload, syncVars
  <2>3. (nextObj \in [Views -> SUBSET Objects])'
    BY PortalAssumption, LogsFacts DEF TypeOK, TypeSync, Reload, syncVars
  <2>4. (peer \in [Views -> [Users -> Nat]])'
    BY PortalAssumption, LogsFacts DEF TypeOK, TypeSync, Reload, syncVars
  <2>5. (asked \in [Views -> SUBSET Users])'
    BY PortalAssumption, LogsFacts DEF TypeOK, TypeSync, Reload, syncVars
  <2>6. (ready \in [Views -> SUBSET Users])'
    BY PortalAssumption, LogsFacts DEF TypeOK, TypeSync, Reload, syncVars
  <2>7. (batch \in [Views -> Logs])'
    BY PortalAssumption, LogsFacts DEF TypeOK, TypeSync, Reload, syncVars
  <2>8. (failed \in [Views -> SUBSET Users])'
    BY PortalAssumption, LogsFacts DEF TypeOK, TypeSync, Reload, syncVars
  <2> QED BY <2>1, <2>2, <2>3, <2>4, <2>5, <2>6, <2>7, <2>8 DEF TypeSync
<1>5. TypePub'
  <2>1. (pubPc \in [Views -> {"idle", "obj", "entry", "saving"}])'
    BY PortalAssumption, LogsFacts DEF TypeOK, TypePub, Reload, pubVars
  <2>2. (pubObj \in [Views -> Objects \cup {None}])'
    BY PortalAssumption, LogsFacts DEF TypeOK, TypePub, Reload, pubVars
  <2>3. (baseLog \in [Views -> Logs])'
    BY PortalAssumption, LogsFacts DEF TypeOK, TypePub, Reload, pubVars
  <2>4. (baseObj \in [Views -> SUBSET Objects])'
    BY PortalAssumption, LogsFacts DEF TypeOK, TypePub, Reload, pubVars
  <2>5. (answer \in [Views -> {"none", "ok", "no"}])'
    BY PortalAssumption, LogsFacts DEF TypeOK, TypePub, Reload, pubVars
  <2>6. (\A w \in Views : pubPc[w] = "idle" <=> pubObj[w] = None)'
    BY PortalAssumption, LogsFacts DEF TypeOK, TypePub, Reload, pubVars
  <2> QED BY <2>1, <2>2, <2>3, <2>4, <2>5, <2>6 DEF TypePub
<1>6. (TypeGhosts)'
  BY DEF TypeOK, TypeGhosts, Reload, ghosts
<1> QED BY <1>1, <1>2, <1>3, <1>4, <1>5, <1>6 DEF TypeOK

LEMMA InitType == Init => TypeOK
<1> SUFFICES ASSUME Init PROVE TypeOK
  OBVIOUS
<1>1. TypeProvider /\ TypeViews
  BY LogsFacts DEF Init, TypeProvider, TypeViews
<1>2. TypeStore
  BY LogsFacts DEF Init, TypeStore
<1>3. TypeSync
  BY LogsFacts DEF Init, TypeSync
<1>4. TypePub
  BY LogsFacts DEF Init, TypePub
<1>5. TypeGhosts
  <2>1. <<>> \in Seq(Objects)
    OBVIOUS
  <2> QED BY <2>1 DEF Init, TypeGhosts
<1> QED BY <1>1, <1>2, <1>3, <1>4, <1>5 DEF TypeOK

LEMMA NextType == TypeOK /\ [Next]_vars => TypeOK'
<1> SUFFICES ASSUME TypeOK, [Next]_vars PROVE TypeOK'
  OBVIOUS
<1>1. CASE LatePost \/ Checkpoint \/ LosePower \/ \E u \in Users : Reload(u)
  BY <1>1, LatePostType, CheckpointType, LosePowerType, ReloadType
<1>2. ASSUME NEW v \in Views,
             \/ PublishStart(v) \/ PutObject(v) \/ ObjectStored(v) \/ PutEntry(v)
             \/ Published(v) \/ PublishRefused(v) \/ PublishTimesOut(v)
      PROVE  TypeOK'
  BY <1>2, PublishStartType, PutObjectType, ObjectStoredType, PutEntryType,
     PublishedType, PublishRefusedType, PublishTimesOutType
<1>3. ASSUME NEW v \in Views,
             \/ SyncStart(v) \/ GetHeads(v) \/ SyncFails(v) \/ LogsFail(v) \/ Synced(v)
             \/ \E u \in Users : GetLog(v, u) \/ GetObjects(v, u) \/ ResetAuthor(v, u)
      PROVE  TypeOK'
  BY <1>3, SyncStartType, GetHeadsType, SyncFailsType, LogsFailType, SyncedType,
     GetLogType, GetObjectsType, ResetAuthorType
<1>4. ASSUME NEW v \in Views, Mount(v) \/ Load(v) \/ Save(v) \/ Unmount(v)
      PROVE  TypeOK'
  BY <1>4, MountType, LoadType, SaveType, UnmountType
<1>5. CASE UNCHANGED vars
  <2>1. /\ UNCHANGED <<provider, late>> /\ UNCHANGED viewVars /\ UNCHANGED store
        /\ UNCHANGED saves /\ UNCHANGED syncVars /\ UNCHANGED pubVars /\ UNCHANGED ghosts
    BY <1>5 DEF vars
  <2>2. (TypeProvider /\ TypeViews /\ TypeStore)'
    BY <2>1 DEF TypeOK, TypeProvider, TypeViews, TypeStore, provider, viewVars, store
  <2>3. (TypeSync /\ TypePub /\ TypeGhosts)'
    BY <2>1 DEF TypeOK, TypeSync, TypePub, TypeGhosts, syncVars, pubVars, ghosts
  <2> QED BY <2>2, <2>3 DEF TypeOK
<1> QED BY <1>1, <1>2, <1>3, <1>4, <1>5 DEF Next

(* Every variable keeps its type, whatever overlaps, is lost or comes late: *)
(* in particular a post that arrives late still names an object.            *)
THEOREM TypeCorrect == Spec => []TypeOK
BY InitType, NextType, PTL DEF Spec

-----------------------------------------------------------------------------
(* Consistency.  The invariant is InFlightConsistent, and a provider that   *)
(* keeps what it accepted (~PowerLoss) is assumed throughout.               *)

Grows(u) == log'[u] = log[u] \/ \E o \in Objects : log'[u] = Append(log[u], o)

(* A provider's log that grew still begins with whatever it began with.     *)
LEMMA StillBegins ==
  ASSUME TypeOK, NEW u \in Users, Grows(u), NEW s \in Seq(Objects), IsPrefix(s, log[u])
  PROVE  IsPrefix(s, log'[u])
<1>1. log[u] \in Seq(Objects)
  BY LogsFacts DEF TypeOK, TypeProvider
<1> QED BY <1>1, PrefixAppend DEF Grows

LEMMA GrowsAll ==
  ASSUME TypeOK, ReplicasFit, \A u \in Users : Grows(u),
         UNCHANGED <<shownLog, storeLog, saves>>
  PROVE  ShownBegin' /\ StoreBegin' /\ SavesBegin'
<1>1. ASSUME NEW l \in Logs, Begins(l) PROVE \A u \in Users : IsPrefix(l[u], log'[u])
  BY <1>1, LogsFacts, StillBegins DEF Begins
<1>2. \A v \in Views : shownLog[v] \in Logs
  BY DEF TypeOK, TypeViews
<1>3. \A u \in Users : storeLog[u] \in Logs
  BY DEF TypeOK, TypeStore
<1>4. ASSUME NEW v \in Views, NEW i \in DOMAIN saves[v] PROVE saves[v][i].logs \in Logs
  <2>1. saves[v][i] \in Saved
    BY DEF TypeOK, TypeStore
  <2> QED BY <2>1 DEF Saved
<1>5. ShownBegin'
  BY <1>1, <1>2 DEF ReplicasFit, ShownBegin, Begins
<1>6. StoreBegin'
  BY <1>1, <1>3 DEF ReplicasFit, StoreBegin, Begins
<1>7. SavesBegin'
  BY <1>1, <1>4 DEF ReplicasFit, SavesBegin, Begins
<1> QED BY <1>5, <1>6, <1>7

LEMMA GrowsSync ==
  ASSUME TypeOK, ReplicasFit, \A u \in Users : Grows(u),
         UNCHANGED syncVars, UNCHANGED baseLog
  PROVE  SyncBegin' /\ BaseBegin' /\ BatchFits' /\ SyncClear'
<1>1. ASSUME NEW l \in Logs, Begins(l) PROVE \A u \in Users : IsPrefix(l[u], log'[u])
  BY <1>1, LogsFacts, StillBegins DEF Begins
<1>2. \A v \in Views : nextLog[v] \in Logs /\ baseLog[v] \in Logs /\ batch[v] \in Logs
  BY DEF TypeOK, TypeSync, TypePub
<1>3. SyncBegin'
  BY <1>1, <1>2 DEF ReplicasFit, SyncBegin, Begins, syncVars
<1>4. BaseBegin'
  BY <1>1, <1>2 DEF ReplicasFit, BaseBegin, Begins
<1>5. BatchFits'
  <2>1. ASSUME NEW v \in Views, NEW u \in ready[v]
        PROVE  IsPrefix(nextLog[v][u] \o batch[v][u], log'[u])
    <3>1. u \in Users /\ nextLog[v][u] \in Seq(Objects) /\ batch[v][u] \in Seq(Objects)
      BY <1>2, LogsFacts DEF TypeOK, TypeSync
    <3>2. nextLog[v][u] \o batch[v][u] \in Seq(Objects)
      BY <3>1
    <3>3. IsPrefix(nextLog[v][u] \o batch[v][u], log[u])
      BY DEF ReplicasFit, BatchFits
    <3> QED BY <3>1, <3>2, <3>3, StillBegins
  <2> QED BY <2>1 DEF BatchFits, syncVars
<1>6. SyncClear'
  BY DEF ReplicasFit, SyncClear, syncVars
<1> QED BY <1>3, <1>4, <1>5, <1>6

LEMMA GrowsAnswer ==
  ASSUME TypeOK, ReplicasFit, \A u \in Users : Grows(u), NEW v \in Views,
         pubPc[v] = "entry", answer[v] = "ok"
  PROVE  IsPrefix(Signs(v), log'[Owner[v]])
<1>1. Signs(v) \in Seq(Objects) /\ Owner[v] \in Users
  BY SignsType, PortalAssumption
<1> QED BY <1>1, StillBegins DEF ReplicasFit, AnswerTrue

(* An entry the provider appends ends the history it was signed on.         *)
LEMMA AppendedHistory ==
  ASSUME TypeOK, ReplicasFit, NEW v \in Views, pubPc[v] = "entry",
         Appendable(Owner[v], Signs(v)), AppendEntry(Owner[v], Signs(v))
  PROVE  IsPrefix(Signs(v), log'[Owner[v]])
<1> DEFINE u == Owner[v]
           b == baseLog[v][u]
<1>1. u \in Users /\ pubObj[v] \in Objects
  BY SignsType, PortalAssumption
<1>2. b \in Seq(Objects) /\ log[u] \in Seq(Objects)
  BY <1>1, LogsFacts DEF TypeOK, TypeProvider, TypePub
<1>3. Len(log[u]) = Len(b)
  BY <1>1, <1>2 DEF Appendable, Signs
<1>4. IsPrefix(b, log[u])
  BY <1>1 DEF ReplicasFit, BaseBegin, Begins
<1>5. b = log[u]
  BY <1>2, <1>3, <1>4, PrefixSame
<1>6. Last(Signs(v)) = pubObj[v]
  BY SignsType
<1>7. log'[u] = Append(log[u], pubObj[v])
  BY <1>1, <1>6 DEF AppendEntry, TypeOK, TypeProvider, Logs
<1>8. log'[u] = Signs(v)
  BY <1>5, <1>7 DEF Signs
<1>9. Signs(v) \in Seq(Objects)
  BY SignsType
<1>10. \A s \in Seq(Objects) : IsPrefix(s, s)
  BY PrefixDef
<1> QED BY <1>8, <1>9, <1>10

(* Steps that leave the provider's log alone disturb only the parts whose   *)
(* variables they change.                                                   *)
LEMMA KeepsShown ==
  ASSUME ReplicasFit, UNCHANGED <<log, shownLog>> PROVE ShownBegin'
BY DEF ReplicasFit, ShownBegin, Begins

LEMMA KeepsStore ==
  ASSUME ReplicasFit, UNCHANGED <<log, storeLog>> PROVE StoreBegin'
BY DEF ReplicasFit, StoreBegin, Begins

LEMMA KeepsSaves ==
  ASSUME ReplicasFit, UNCHANGED <<log, saves>> PROVE SavesBegin'
BY DEF ReplicasFit, SavesBegin, Begins

LEMMA KeepsSync ==
  ASSUME ReplicasFit, UNCHANGED <<log, syncPc, nextLog, asked, ready, batch>>
  PROVE  SyncBegin' /\ BatchFits' /\ SyncClear'
BY DEF ReplicasFit, SyncBegin, BatchFits, SyncClear, Begins

LEMMA KeepsPub ==
  ASSUME ReplicasFit, UNCHANGED <<log, pubPc, pubObj, baseLog, answer>>
  PROVE  BaseBegin' /\ AnswerTrue'
BY DEF ReplicasFit, BaseBegin, AnswerTrue, Begins, Signs

LEMMA EmptyBegins == TypeOK => Begins(NoLogs)
<1> SUFFICES ASSUME TypeOK, NEW u \in Users PROVE IsPrefix(NoLogs[u], log[u])
  BY DEF Begins
<1>1. log[u] \in Seq(Objects) /\ NoLogs[u] = <<>>
  BY LogsFacts DEF TypeOK, TypeProvider, NoLogs
<1> QED BY <1>1, PrefixEmpty

LEMMA DroppedBegins ==
  ASSUME TypeOK, NEW l \in Logs, Begins(l), NEW D PROVE Begins(DropLogs(l, D))
BY EmptyBegins DEF Begins, DropLogs, NoLogs

(* Showing or queueing a consistent replica.                                *)
LEMMA ShowBegins ==
  ASSUME TypeOK, ReplicasFit, NEW v \in Views, NEW l \in Logs, NEW objs,
         Begins(l), Show(v, l, objs), UNCHANGED log
  PROVE  ShownBegin'
<1>1. \A w \in Views : shownLog'[w] = shownLog[w] \/ shownLog'[w] = l
  BY DEF Show, TypeOK, TypeViews
<1> QED BY <1>1 DEF ReplicasFit, ShownBegin, Begins

LEMMA SaveLaterBegins ==
  ASSUME TypeOK, ReplicasFit, NEW v \in Views, NEW job, NEW l, NEW objs,
         Begins(l), SaveLater(v, job, l, objs), UNCHANGED log
  PROVE  SavesBegin'
<1> DEFINE r == [job |-> job, logs |-> l, objs |-> objs]
<1>1. saves' = [saves EXCEPT ![v] = Append(@, r)] /\ r.logs = l
  BY DEF SaveLater
<1> HIDE DEF r
<1>2. ASSUME NEW w \in Views, NEW i \in DOMAIN saves'[w] PROVE Begins(saves'[w][i].logs)
  <2>1. saves[w] \in Seq(Saved)
    BY DEF TypeOK, TypeStore
  <2>2. CASE w = v
    <3>1. saves'[w] = Append(saves[w], r)
      BY <1>1, <2>2 DEF TypeOK, TypeStore
    <3>2. (i \in DOMAIN saves[w] /\ saves'[w][i] = saves[w][i]) \/ saves'[w][i] = r
      BY <2>1, <3>1
    <3> QED BY <1>1, <3>2 DEF ReplicasFit, SavesBegin
  <2>3. CASE w # v
    <3>1. saves'[w] = saves[w]
      BY <1>1, <2>3 DEF TypeOK, TypeStore
    <3> QED BY <3>1 DEF ReplicasFit, SavesBegin
  <2> QED BY <2>2, <2>3
<1> QED BY <1>2 DEF SavesBegin, Begins

LEMMA TailBegins ==
  ASSUME TypeOK, ReplicasFit, NEW v \in Views, saves[v] # <<>>,
         saves' = [saves EXCEPT ![v] = Tail(@)], UNCHANGED log
  PROVE  SavesBegin' /\ Begins(Head(saves[v]).logs)
<1>1. saves[v] \in Seq(Saved)
  BY DEF TypeOK, TypeStore
<1>2. \A i \in DOMAIN Tail(saves[v]) :
        i + 1 \in DOMAIN saves[v] /\ Tail(saves[v])[i] = saves[v][i + 1]
  BY <1>1
<1>3. 1 \in DOMAIN saves[v] /\ Head(saves[v]) = saves[v][1]
  BY <1>1
<1>4. ASSUME NEW w \in Views, NEW i \in DOMAIN saves'[w] PROVE Begins(saves'[w][i].logs)
  <2>1. CASE w = v
    BY <1>2, <2>1 DEF ReplicasFit, SavesBegin, TypeOK, TypeStore
  <2>2. CASE w # v
    BY <2>2 DEF ReplicasFit, SavesBegin, TypeOK, TypeStore
  <2> QED BY <2>1, <2>2
<1>5. SavesBegin'
  BY <1>4 DEF SavesBegin, Begins
<1> QED BY <1>3, <1>5 DEF ReplicasFit, SavesBegin

LEMMA PubIdleBegins ==
  ASSUME TypeOK, ReplicasFit, NEW v \in Views, PublishIdle(v), UNCHANGED log
  PROVE  BaseBegin' /\ AnswerTrue'
<1>1. \A w \in Views : baseLog'[w] = baseLog[w] \/ baseLog'[w] = NoLogs
  BY DEF PublishIdle, TypeOK, TypePub
<1>2. BaseBegin'
  BY <1>1, EmptyBegins DEF ReplicasFit, BaseBegin, Begins
<1>3. AnswerTrue'
  <2>1. pubPc'[v] = "idle"
    BY DEF PublishIdle, TypeOK, TypePub
  <2>2. ASSUME NEW w \in Views, w # v
        PROVE  /\ pubPc'[w] = pubPc[w] /\ answer'[w] = answer[w]
               /\ pubObj'[w] = pubObj[w] /\ baseLog'[w] = baseLog[w]
    BY <2>2 DEF PublishIdle, TypeOK, TypePub
  <2> QED BY <2>1, <2>2 DEF ReplicasFit, AnswerTrue, Signs
<1> QED BY <1>2, <1>3

LEMMA SyncIdleBegins ==
  ASSUME TypeOK, ReplicasFit, NEW v \in Views, syncPc[v] # "logs", SyncIdle(v),
         UNCHANGED <<log, asked, ready, batch>>
  PROVE  SyncBegin' /\ BatchFits' /\ SyncClear'
<1>1. nextLog'[v] = NoLogs /\ \A w \in Views : w # v => nextLog'[w] = nextLog[w]
  BY DEF SyncIdle, TypeOK, TypeSync
<1>2. ready[v] = {} /\ asked[v] = {}
  BY DEF ReplicasFit, SyncClear
<1>3. SyncBegin'
  BY <1>1, EmptyBegins DEF ReplicasFit, SyncBegin, Begins
<1>4. BatchFits'
  BY <1>1, <1>2 DEF ReplicasFit, BatchFits
<1>5. SyncClear'
  BY <1>2 DEF ReplicasFit, SyncClear, SyncIdle, TypeOK, TypeSync
<1> QED BY <1>3, <1>4, <1>5

(* One lemma per action that changes a part of the invariant.               *)
LEMMA PutObjectBegins ==
  ASSUME TypeOK, ReplicasFit, NEW v \in Views, PutObject(v) PROVE ReplicasFit'
<1>1. UNCHANGED <<log, shownLog, storeLog, saves, syncPc, nextLog, asked, ready, batch>>
  BY DEF PutObject, viewVars, store, syncVars
<1>2. BaseBegin' /\ AnswerTrue'
  BY DEF PutObject, ReplicasFit, BaseBegin, AnswerTrue, Begins, Signs, TypeOK, TypePub
<1> QED BY <1>1, <1>2, KeepsShown, KeepsStore, KeepsSaves, KeepsSync DEF ReplicasFit

LEMMA PutEntryBegins ==
  ASSUME TypeOK, ReplicasFit, NEW v \in Views, PutEntry(v) PROVE ReplicasFit'
<1>1. \A u \in Users : Grows(u)
  <2>1. Last(Signs(v)) \in Objects
    BY SignsType DEF PutEntry
  <2> QED BY <2>1 DEF PutEntry, AppendEntry, Grows, TypeOK, TypeProvider, Logs
<1>2. UNCHANGED <<shownLog, storeLog, saves, syncVars, baseLog, pubPc, pubObj>>
  BY DEF PutEntry, viewVars, store
<1>3. /\ ShownBegin' /\ StoreBegin' /\ SavesBegin'
      /\ SyncBegin' /\ BaseBegin' /\ BatchFits' /\ SyncClear'
  BY <1>1, <1>2, GrowsAll, GrowsSync
<1>4. AnswerTrue'
  <2>1. ASSUME NEW w \in Views, pubPc[w] = "entry", answer'[w] = "ok"
        PROVE  IsPrefix(Signs(w), log'[Owner[w]])
    <3>1. CASE answer[w] = "ok"
      BY <1>1, <2>1, <3>1, GrowsAnswer
    <3>2. CASE answer[w] # "ok"
      <4>1. w = v /\ Appendable(Owner[v], Signs(v)) /\ AppendEntry(Owner[v], Signs(v))
        BY <2>1, <3>2 DEF PutEntry, TypeOK, TypePub
      <4> QED BY <2>1, <4>1, AppendedHistory
    <3> QED BY <3>1, <3>2
  <2> QED BY <1>2, <2>1 DEF AnswerTrue, Signs
<1> QED BY <1>3, <1>4 DEF ReplicasFit

LEMMA LatePostBegins ==
  ASSUME TypeOK, ReplicasFit, LatePost PROVE ReplicasFit'
<1>1. \A u \in Users : Grows(u)
  <2>1. PICK m \in late : log' = log \/ AppendEntry(m[2], m[3])
    BY DEF LatePost
  <2>2. m[2] \in Users /\ Last(m[3]) \in Objects
    BY LateType
  <2> QED BY <2>1, <2>2 DEF AppendEntry, Grows, TypeOK, TypeProvider, Logs
<1>2. UNCHANGED <<shownLog, storeLog, saves, syncVars, baseLog, pubPc, pubObj, answer>>
  BY DEF LatePost, viewVars, store, pubVars
<1>3. /\ ShownBegin' /\ StoreBegin' /\ SavesBegin'
      /\ SyncBegin' /\ BaseBegin' /\ BatchFits' /\ SyncClear'
  BY <1>1, <1>2, GrowsAll, GrowsSync
<1>4. AnswerTrue'
  BY <1>1, <1>2, GrowsAnswer DEF AnswerTrue, Signs
<1> QED BY <1>3, <1>4 DEF ReplicasFit

LEMMA PublishStartBegins ==
  ASSUME TypeOK, ReplicasFit, NEW v \in Views, PublishStart(v)
  PROVE  ReplicasFit'
<1>1. UNCHANGED <<log, shownLog, storeLog, saves, syncPc, nextLog, asked, ready, batch>>
  BY DEF PublishStart, provider, viewVars, store, syncVars
<1>2. BaseBegin'
  BY <1>1 DEF PublishStart, ReplicasFit, BaseBegin, ShownBegin, Begins, TypeOK, TypePub
<1>3. AnswerTrue'
  <2>1. pubPc'[v] = "obj"
    BY DEF PublishStart, TypeOK, TypePub
  <2>2. ASSUME NEW w \in Views, w # v
        PROVE  /\ pubPc'[w] = pubPc[w] /\ answer'[w] = answer[w]
               /\ pubObj'[w] = pubObj[w] /\ baseLog'[w] = baseLog[w]
    BY <2>2 DEF PublishStart, TypeOK, TypePub
  <2> QED BY <1>1, <2>1, <2>2 DEF ReplicasFit, AnswerTrue, Signs
<1> QED BY <1>1, <1>2, <1>3, KeepsShown, KeepsStore, KeepsSaves, KeepsSync
          DEF ReplicasFit

LEMMA ObjectStoredBegins ==
  ASSUME TypeOK, ReplicasFit, NEW v \in Views, ObjectStored(v)
  PROVE  ReplicasFit'
<1>1. UNCHANGED <<log, shownLog, storeLog, saves, syncPc, nextLog, asked, ready, batch>>
  BY DEF ObjectStored, provider, viewVars, store, syncVars
<1>2. BaseBegin' /\ AnswerTrue'
  BY DEF ObjectStored, provider, ReplicasFit, BaseBegin, AnswerTrue, Begins,
         Signs, TypeOK, TypePub
<1> QED BY <1>1, <1>2, KeepsShown, KeepsStore, KeepsSaves, KeepsSync DEF ReplicasFit

LEMMA PublishedBegins ==
  ASSUME TypeOK, ReplicasFit, NEW v \in Views, Published(v) PROVE ReplicasFit'
<1> DEFINE u == Owner[v]
           l == [baseLog[v] EXCEPT ![u] = Append(@, pubObj[v])]
<1>1. UNCHANGED <<log, storeLog, syncPc, nextLog, asked, ready, batch,
                  pubObj, baseLog, answer>>
  BY DEF Published, provider, store, syncVars
<1>2. baseLog[v] \in Logs /\ u \in Users /\ l \in Logs
  BY BundleType, PortalAssumption DEF Published, TypeOK, TypePub
<1>3. Begins(l)
  <2>1. l[u] = Signs(v) /\ \A w \in Users : w # u => l[w] = baseLog[v][w]
    BY <1>2 DEF Signs, Logs
  <2> QED BY <2>1 DEF Published, ReplicasFit, AnswerTrue, BaseBegin, Begins
<1>4. ShownBegin' /\ SavesBegin'
  <2>1. Show(v, l, baseObj[v] \cup {pubObj[v]})
        /\ SaveLater(v, "publish", l, baseObj[v] \cup {pubObj[v]})
    BY DEF Published
  <2> QED BY <1>1, <1>2, <1>3, <2>1, ShowBegins, SaveLaterBegins
<1>5. BaseBegin'
  BY <1>1 DEF ReplicasFit, BaseBegin, Begins
<1>6. AnswerTrue'
  BY <1>1 DEF Published, ReplicasFit, AnswerTrue, Signs, TypeOK, TypePub
<1> QED BY <1>1, <1>4, <1>5, <1>6, KeepsStore, KeepsSync DEF ReplicasFit

LEMMA PublishEndsBegins ==
  ASSUME TypeOK, ReplicasFit, NEW v \in Views,
         PublishRefused(v) \/ PublishTimesOut(v)
  PROVE  ReplicasFit'
<1>1. /\ UNCHANGED <<log, shownLog, storeLog, saves, syncPc, nextLog, asked, ready, batch>>
      /\ PublishIdle(v)
  BY DEF PublishRefused, PublishTimesOut, provider, viewVars, store, syncVars
<1> QED BY <1>1, PubIdleBegins, KeepsShown, KeepsStore, KeepsSaves, KeepsSync
          DEF ReplicasFit

LEMMA SyncStartBegins ==
  ASSUME TypeOK, ReplicasFit, NEW v \in Views, SyncStart(v) PROVE ReplicasFit'
<1>1. UNCHANGED <<log, shownLog, storeLog, saves, pubPc, pubObj, baseLog, answer>>
  BY DEF SyncStart, provider, viewVars, store, pubVars
<1>2. ready[v] = {} /\ asked[v] = {} /\ UNCHANGED <<asked, ready, batch>>
  BY DEF SyncStart, ReplicasFit, SyncClear
<1>3. SyncBegin'
  BY <1>1 DEF SyncStart, ReplicasFit, SyncBegin, ShownBegin, Begins, TypeOK, TypeSync
<1>4. BatchFits'
  BY <1>1, <1>2 DEF SyncStart, ReplicasFit, BatchFits, TypeOK, TypeSync
<1>5. SyncClear'
  BY <1>2 DEF SyncStart, ReplicasFit, SyncClear, TypeOK, TypeSync
<1> QED BY <1>1, <1>3, <1>4, <1>5, KeepsShown, KeepsStore, KeepsSaves, KeepsPub
          DEF ReplicasFit

LEMMA GetHeadsBegins ==
  ASSUME TypeOK, ReplicasFit, NEW v \in Views, GetHeads(v) PROVE ReplicasFit'
<1>1. UNCHANGED <<log, shownLog, storeLog, saves, pubPc, pubObj, baseLog, answer,
                  nextLog, ready, batch>>
  BY DEF GetHeads, provider, viewVars, store, pubVars
<1>2. SyncBegin' /\ BatchFits'
  BY <1>1 DEF ReplicasFit, SyncBegin, BatchFits, Begins
<1>3. SyncClear'
  BY <1>1 DEF GetHeads, ReplicasFit, SyncClear, TypeOK, TypeSync
<1> QED BY <1>1, <1>2, <1>3, KeepsShown, KeepsStore, KeepsSaves, KeepsPub
          DEF ReplicasFit

LEMMA SyncFailsBegins ==
  ASSUME TypeOK, ReplicasFit, NEW v \in Views, SyncFails(v) PROVE ReplicasFit'
<1>1. /\ UNCHANGED <<log, shownLog, storeLog, saves, pubPc, pubObj, baseLog, answer>>
      /\ UNCHANGED <<asked, ready, batch>>
      /\ syncPc[v] # "logs" /\ SyncIdle(v)
  BY DEF SyncFails, provider, viewVars, store, pubVars
<1> QED BY <1>1, SyncIdleBegins, KeepsShown, KeepsStore, KeepsSaves, KeepsPub
          DEF ReplicasFit

(* The entries asked for from the length of a prefix complete it.           *)
LEMMA GetLogBegins ==
  ASSUME TypeOK, ReplicasFit, NEW v \in Views, NEW u \in Users, GetLog(v, u)
  PROVE  ReplicasFit'
<1>1. UNCHANGED <<log, shownLog, storeLog, saves, pubPc, pubObj, baseLog, answer,
                  syncPc, nextLog>>
  BY DEF GetLog, provider, viewVars, store, pubVars
<1>2. SyncBegin'
  BY <1>1 DEF ReplicasFit, SyncBegin, Begins
<1>3. SyncClear'
  BY <1>1 DEF GetLog, ReplicasFit, SyncClear, TypeOK, TypeSync
<1>4. BatchFits'
  <2>1. CASE UNCHANGED <<batch, ready>>
    BY <1>1, <2>1 DEF ReplicasFit, BatchFits
  <2>2. CASE /\ batch' = [batch EXCEPT ![v][u] = LogSince(u, Len(nextLog[v][u]))]
             /\ ready' = [ready EXCEPT ![v] = @ \cup {u}]
    <3>1. nextLog[v][u] \in Seq(Objects) /\ log[u] \in Seq(Objects)
      BY LogsFacts DEF TypeOK, TypeSync, TypeProvider
    <3>2. IsPrefix(nextLog[v][u], log[u])
      BY DEF ReplicasFit, SyncBegin, Begins
    <3>3. nextLog[v][u] \o LogSince(u, Len(nextLog[v][u])) = log[u]
      BY <3>1, <3>2, PrefixRest DEF LogSince
    <3>4. IsPrefix(log[u], log[u])
      BY <3>1, PrefixDef
    <3>5. batch'[v][u] = LogSince(u, Len(nextLog[v][u]))
      BY <2>2 DEF TypeOK, TypeSync, Logs
    <3>6. ASSUME NEW w \in Views, NEW x \in Users, x \in ready'[w], ~(w = v /\ x = u)
          PROVE  x \in ready[w] /\ batch'[w][x] = batch[w][x]
      BY <2>2, <3>6 DEF TypeOK, TypeSync, Logs
    <3>7. \A w \in Views : ready'[w] \subseteq Users
      BY <2>2 DEF TypeOK, TypeSync
    <3>8. ASSUME NEW w \in Views, NEW x \in ready'[w]
          PROVE  IsPrefix(nextLog[w][x] \o batch'[w][x], log[x])
      <4>1. CASE w = v /\ x = u
        BY <3>3, <3>4, <3>5, <4>1
      <4>2. CASE ~(w = v /\ x = u)
        <5>1. x \in ready[w] /\ batch'[w][x] = batch[w][x]
          BY <3>6, <3>7, <4>2
        <5> QED BY <5>1 DEF ReplicasFit, BatchFits
      <4> QED BY <4>1, <4>2
    <3> QED BY <1>1, <3>8 DEF BatchFits
  <2> QED BY <2>1, <2>2 DEF GetLog
<1> QED BY <1>1, <1>2, <1>3, <1>4, KeepsShown, KeepsStore, KeepsSaves, KeepsPub
          DEF ReplicasFit

LEMMA LogsFailBegins ==
  ASSUME TypeOK, ReplicasFit, NEW v \in Views, LogsFail(v) PROVE ReplicasFit'
<1>1. UNCHANGED <<log, shownLog, storeLog, saves, pubPc, pubObj, baseLog, answer,
                  syncPc, nextLog>>
  BY DEF LogsFail, provider, viewVars, store, pubVars
<1>2. SyncBegin'
  BY <1>1 DEF ReplicasFit, SyncBegin, Begins
<1>3. /\ ready'[v] = {} /\ asked'[v] = {}
      /\ \A w \in Views : w # v => /\ ready'[w] = ready[w] /\ asked'[w] = asked[w]
                                   /\ batch'[w] = batch[w]
  BY DEF LogsFail, TypeOK, TypeSync
<1>4. BatchFits' /\ SyncClear'
  BY <1>1, <1>3 DEF ReplicasFit, BatchFits, SyncClear
<1> QED BY <1>1, <1>2, <1>4, KeepsShown, KeepsStore, KeepsSaves, KeepsPub
          DEF ReplicasFit

LEMMA GetObjectsBegins ==
  ASSUME TypeOK, ReplicasFit, NEW v \in Views, NEW u \in Users, GetObjects(v, u)
  PROVE  ReplicasFit'
<1>1. UNCHANGED <<log, shownLog, storeLog, saves, pubPc, pubObj, baseLog, answer,
                  syncPc, asked>>
  BY DEF GetObjects, provider, viewVars, store, pubVars
<1>2. /\ u \in ready[v] /\ ready' = [ready EXCEPT ![v] = @ \ {u}]
      /\ batch' = [batch EXCEPT ![v][u] = <<>>]
      /\ \/ nextLog' = [nextLog EXCEPT ![v] = Merge(@, u, batch[v][u])]
         \/ nextLog' = nextLog
  BY DEF GetObjects
<1>2m. \A l \in Logs : \A e : /\ Merge(l, u, e)[u] = l[u] \o e
                              /\ \A x \in Users : x # u => Merge(l, u, e)[x] = l[x]
  BY DEF Merge, Logs
<1>2n. /\ nextLog[v] \in Logs
       /\ nextLog'[v] = nextLog[v] \/ nextLog'[v] = Merge(nextLog[v], u, batch[v][u])
       /\ \A w \in Views : w # v => nextLog'[w] = nextLog[w]
  BY <1>2 DEF TypeOK, TypeSync
<1>2b. \A w \in Views, x \in Users : ~(w = v /\ x = u) => batch'[w][x] = batch[w][x]
  BY <1>2 DEF TypeOK, TypeSync, Logs
<1>2c. \A x \in Users : x # u => nextLog'[v][x] = nextLog[v][x]
  BY <1>2m, <1>2n
<1>3. \A w \in Views, x \in Users : ~(w = v /\ x = u) =>
        nextLog'[w][x] = nextLog[w][x] /\ batch'[w][x] = batch[w][x]
  BY <1>2n, <1>2b, <1>2c
<1>2d. Merge(nextLog[v], u, batch[v][u])[u] = nextLog[v][u] \o batch[v][u]
  BY <1>2m, <1>2n
<1>4. nextLog'[v][u] = nextLog[v][u] \/ nextLog'[v][u] = nextLog[v][u] \o batch[v][u]
  BY <1>2n, <1>2d
<1>5. IsPrefix(nextLog'[v][u], log[u])
  BY <1>2, <1>4 DEF ReplicasFit, SyncBegin, BatchFits, Begins
<1>6. SyncBegin'
  BY <1>1, <1>3, <1>5 DEF ReplicasFit, SyncBegin, Begins
<1>7. \A w \in Views : \A x \in ready'[w] : x \in Users /\ x \in ready[w] /\ ~(w = v /\ x = u)
  BY <1>2 DEF TypeOK, TypeSync
<1>8. BatchFits'
  BY <1>1, <1>3, <1>7 DEF ReplicasFit, BatchFits
<1>9. SyncClear'
  BY <1>1, <1>7 DEF ReplicasFit, SyncClear
<1> QED BY <1>1, <1>6, <1>8, <1>9, KeepsShown, KeepsStore, KeepsSaves, KeepsPub
          DEF ReplicasFit

LEMMA SyncedBegins ==
  ASSUME TypeOK, ReplicasFit, NEW v \in Views, Synced(v) PROVE ReplicasFit'
<1>1. UNCHANGED <<log, storeLog, pubPc, pubObj, baseLog, answer, nextLog, asked,
                  ready, batch>>
  BY DEF Synced, provider, store, pubVars
<1>2. nextLog[v] \in Logs /\ Begins(nextLog[v])
  BY DEF ReplicasFit, SyncBegin, TypeOK, TypeSync
<1>3. ShownBegin' /\ SavesBegin'
  BY <1>1, <1>2, ShowBegins, SaveLaterBegins DEF Synced
<1>4. SyncBegin' /\ BatchFits'
  BY <1>1 DEF ReplicasFit, SyncBegin, BatchFits, Begins
<1>5. SyncClear'
  BY <1>1 DEF Synced, ReplicasFit, SyncClear, TypeOK, TypeSync
<1> QED BY <1>1, <1>3, <1>4, <1>5, KeepsStore, KeepsPub DEF ReplicasFit

LEMMA MountBegins ==
  ASSUME TypeOK, ReplicasFit, NEW v \in Views, Mount(v) \/ Load(v) \/ Unmount(v)
  PROVE  ReplicasFit'
<1>1. UNCHANGED <<log, storeLog, saves, syncPc, nextLog, asked, ready, batch,
                  pubPc, pubObj, baseLog, answer>>
  BY DEF Mount, Load, Unmount, provider, store, syncVars, pubVars
<1>2. \/ shownLog' = shownLog
      \/ shownLog' = [shownLog EXCEPT ![v] = storeLog[Owner[v]]]
      \/ shownLog' = [shownLog EXCEPT ![v] = NoLogs]
  BY DEF Mount, Load, Unmount
<1>3. Begins(storeLog[Owner[v]]) /\ Begins(NoLogs)
  BY EmptyBegins, PortalAssumption DEF ReplicasFit, StoreBegin
<1>4. \A w \in Views : \/ shownLog'[w] = shownLog[w]
                       \/ shownLog'[w] = storeLog[Owner[v]]
                       \/ shownLog'[w] = NoLogs
  BY <1>2 DEF TypeOK, TypeViews
<1>5. ShownBegin'
  BY <1>1, <1>3, <1>4 DEF ReplicasFit, ShownBegin, Begins
<1> QED BY <1>1, <1>5, KeepsStore, KeepsSaves, KeepsSync, KeepsPub DEF ReplicasFit

LEMMA SaveBegins ==
  ASSUME TypeOK, ReplicasFit, OneSyncSave, NEW v \in Views, Save(v)
  PROVE  ReplicasFit'
<1> DEFINE s == Head(saves[v])
           u == Owner[v]
<1>1. /\ UNCHANGED <<log, shownLog, asked, ready, batch>>
      /\ saves[v] # <<>> /\ saves' = [saves EXCEPT ![v] = Tail(@)]
  BY DEF Save, provider, viewVars
<1>2. SavesBegin' /\ Begins(s.logs) /\ s.logs \in Logs /\ u \in Users
  BY <1>1, TailBegins, HeadOfSaves, PortalAssumption
<1>3. StoreBegin'
  <2>1. storeLog' = storeLog \/ \E D : storeLog' = [storeLog EXCEPT ![u] = DropLogs(s.logs, D)]
    BY DEF Save, store
  <2>2. ASSUME NEW D PROVE Begins(DropLogs(s.logs, D))
    BY <1>2, DroppedBegins
  <2>3. \A w \in Users : storeLog'[w] = storeLog[w] \/ \E D : storeLog'[w] = DropLogs(s.logs, D)
    BY <1>2, <2>1 DEF TypeOK, TypeStore
  <2> QED BY <1>1, <2>2, <2>3 DEF ReplicasFit, StoreBegin, Begins
<1>4. SyncBegin' /\ BatchFits' /\ SyncClear'
  <2>1. CASE UNCHANGED <<syncPc, nextLog>>
    BY <1>1, <2>1, KeepsSync
  <2>2. CASE s.job = "sync" /\ SyncIdle(v)
    <3>1. 1 \in DOMAIN saves[v] /\ s = saves[v][1]
      BY <1>1 DEF TypeOK, TypeStore
    <3>2. syncPc[v] # "logs"
      BY <2>2, <3>1 DEF OneSyncSave
    <3> QED BY <1>1, <2>2, <3>2, SyncIdleBegins
  <2> QED BY <2>1, <2>2 DEF Save
<1>5. BaseBegin' /\ AnswerTrue'
  <2>1. CASE UNCHANGED pubVars
    BY <1>1, <2>1, KeepsPub DEF pubVars
  <2>2. CASE PublishIdle(v)
    BY <1>1, <2>2, PubIdleBegins
  <2> QED BY <2>1, <2>2 DEF Save
<1> QED BY <1>1, <1>2, <1>3, <1>4, <1>5, KeepsShown DEF ReplicasFit

LEMMA ResetAuthorBegins ==
  ASSUME TypeOK, ReplicasFit, NEW v \in Views, NEW u \in Users, ResetAuthor(v, u)
  PROVE  ReplicasFit'
<1>1. UNCHANGED <<log, storeLog, syncPc, nextLog, asked, ready, batch,
                  pubPc, pubObj, baseLog, answer>>
  BY DEF ResetAuthor, provider, store, syncVars, pubVars
<1>2. shownLog[v] \in Logs /\ Begins(shownLog[v])
  BY DEF ReplicasFit, ShownBegin, TypeOK, TypeViews
<1>3. DropLogs(shownLog[v], {u}) \in Logs /\ Begins(DropLogs(shownLog[v], {u}))
  BY <1>2, DroppedBegins, LogsFacts
<1>4. ShownBegin' /\ SavesBegin'
  BY <1>1, <1>3, ShowBegins, SaveLaterBegins DEF ResetAuthor
<1> QED BY <1>1, <1>4, KeepsStore, KeepsSync, KeepsPub DEF ReplicasFit

LEMMA ReloadBegins ==
  ASSUME TypeOK, ReplicasFit, NEW u \in Users, Reload(u) PROVE ReplicasFit'
<1>1. UNCHANGED <<log, storeLog>>
  BY DEF Reload, provider, store
<1>2. ASSUME NEW v \in Views, Owner[v] = u
      PROVE  /\ shownLog'[v] = NoLogs /\ nextLog'[v] = NoLogs /\ baseLog'[v] = NoLogs
             /\ saves'[v] = <<>> /\ syncPc'[v] = "idle" /\ pubPc'[v] = "idle"
             /\ ready'[v] = {} /\ asked'[v] = {}
  BY <1>2 DEF Reload
<1>3. ASSUME NEW v \in Views, Owner[v] # u
      PROVE  /\ shownLog'[v] = shownLog[v] /\ nextLog'[v] = nextLog[v]
             /\ baseLog'[v] = baseLog[v] /\ saves'[v] = saves[v]
             /\ syncPc'[v] = syncPc[v] /\ pubPc'[v] = pubPc[v] /\ pubObj'[v] = pubObj[v]
             /\ ready'[v] = ready[v] /\ asked'[v] = asked[v] /\ batch'[v] = batch[v]
             /\ answer'[v] = answer[v]
  BY <1>3 DEF Reload
<1>4. ShownBegin' /\ StoreBegin'
  BY <1>1, <1>2, <1>3, EmptyBegins DEF ReplicasFit, ShownBegin, StoreBegin, Begins
<1>5. SyncBegin' /\ BaseBegin'
  BY <1>1, <1>2, <1>3, EmptyBegins DEF ReplicasFit, SyncBegin, BaseBegin, Begins
<1>6. SavesBegin'
  BY <1>1, <1>2, <1>3 DEF ReplicasFit, SavesBegin, Begins
<1>7. BatchFits' /\ SyncClear'
  BY <1>1, <1>2, <1>3 DEF ReplicasFit, BatchFits, SyncClear
<1>8. AnswerTrue'
  BY <1>1, <1>2, <1>3 DEF ReplicasFit, AnswerTrue, Signs
<1> QED BY <1>4, <1>5, <1>6, <1>7, <1>8 DEF ReplicasFit

LEMMA FitStep ==
  ASSUME ~PowerLoss
  PROVE  TypeOK /\ ReplicasFit /\ OneSyncSave /\ [Next]_vars => ReplicasFit'
<1> SUFFICES ASSUME TypeOK, ReplicasFit, OneSyncSave, [Next]_vars PROVE ReplicasFit'
  OBVIOUS
<1>1. CASE LatePost \/ Checkpoint \/ LosePower \/ \E u \in Users : Reload(u)
  BY <1>1, LatePostBegins, ReloadBegins DEF Checkpoint, LosePower
<1>2. ASSUME NEW v \in Views,
             \/ PublishStart(v) \/ PutObject(v) \/ ObjectStored(v) \/ PutEntry(v)
             \/ Published(v) \/ PublishRefused(v) \/ PublishTimesOut(v)
      PROVE  ReplicasFit'
  BY <1>2, PublishStartBegins, PutObjectBegins, ObjectStoredBegins, PutEntryBegins,
     PublishedBegins, PublishEndsBegins
<1>3. ASSUME NEW v \in Views,
             \/ SyncStart(v) \/ GetHeads(v) \/ SyncFails(v) \/ LogsFail(v) \/ Synced(v)
             \/ \E u \in Users : GetLog(v, u) \/ GetObjects(v, u) \/ ResetAuthor(v, u)
      PROVE  ReplicasFit'
  BY <1>3, SyncStartBegins, GetHeadsBegins, SyncFailsBegins, LogsFailBegins, SyncedBegins,
     GetLogBegins, GetObjectsBegins, ResetAuthorBegins
<1>4. ASSUME NEW v \in Views, Mount(v) \/ Load(v) \/ Save(v) \/ Unmount(v)
      PROVE  ReplicasFit'
  BY <1>4, MountBegins, SaveBegins
<1>5. CASE UNCHANGED vars
  <2>1. UNCHANGED <<log, shownLog, storeLog, saves, syncPc, nextLog, asked, ready, batch,
                    pubPc, pubObj, baseLog, answer>>
    BY <1>5 DEF vars, provider, viewVars, store, syncVars, pubVars
  <2> QED BY <2>1, KeepsShown, KeepsStore, KeepsSaves, KeepsSync, KeepsPub DEF ReplicasFit
<1> QED BY <1>1, <1>2, <1>3, <1>4, <1>5 DEF Next

-----------------------------------------------------------------------------
LEMMA QueuedOther ==
  ASSUME TypeOK, OneSyncSave, NEW v \in Views, NEW job, job # "sync", NEW l, NEW objs,
         SaveLater(v, job, l, objs), UNCHANGED syncPc
  PROVE  OneSyncSave'
<1> DEFINE r == [job |-> job, logs |-> l, objs |-> objs]
<1>1. saves' = [saves EXCEPT ![v] = Append(@, r)] /\ r.job # "sync"
  BY DEF SaveLater
<1> HIDE DEF r
<1>2. ASSUME NEW w \in Views, NEW i \in DOMAIN saves'[w], saves'[w][i].job = "sync"
      PROVE  i \in DOMAIN saves[w] /\ saves[w][i].job = "sync"
  <2>1. saves[w] \in Seq(Saved)
    BY DEF TypeOK, TypeStore
  <2>2. CASE w = v
    <3>1. saves'[w] = Append(saves[w], r)
      BY <1>1, <2>2 DEF TypeOK, TypeStore
    <3>2. (i \in DOMAIN saves[w] /\ saves'[w][i] = saves[w][i]) \/ saves'[w][i] = r
      BY <2>1, <3>1
    <3> QED BY <1>1, <1>2, <3>2
  <2>3. CASE w # v
    BY <1>1, <1>2, <2>3 DEF TypeOK, TypeStore
  <2> QED BY <2>2, <2>3
<1> QED BY <1>2 DEF OneSyncSave

LEMMA NoSyncSaves ==
  ASSUME OneSyncSave, NEW v \in Views, syncPc[v] # "saving", NEW i \in DOMAIN saves[v]
  PROVE  saves[v][i].job # "sync"
BY DEF OneSyncSave

LEMMA SyncMoves ==
  ASSUME TypeOK, OneSyncSave, NEW v \in Views, SyncStart(v) \/ GetHeads(v) \/ SyncFails(v)
  PROVE  OneSyncSave'
<1>1. saves' = saves /\ syncPc[v] # "saving"
  BY DEF SyncStart, GetHeads, SyncFails
<1>2. \A w \in Views : w # v => syncPc'[w] = syncPc[w]
  BY DEF SyncStart, GetHeads, SyncFails, SyncIdle, TypeOK, TypeSync
<1> QED BY <1>1, <1>2, NoSyncSaves DEF OneSyncSave

LEMMA SyncedQueues ==
  ASSUME TypeOK, OneSyncSave, NEW v \in Views, Synced(v) PROVE OneSyncSave'
<1> DEFINE r == [job |-> "sync", logs |-> nextLog[v], objs |-> nextObj[v]]
<1>1. /\ saves' = [saves EXCEPT ![v] = Append(@, r)]
      /\ syncPc[v] # "saving" /\ syncPc' = [syncPc EXCEPT ![v] = "saving"]
  BY DEF Synced, SaveLater
<1> HIDE DEF r
<1>2. \A w \in Views : w # v => saves'[w] = saves[w] /\ syncPc'[w] = syncPc[w]
  BY <1>1 DEF TypeOK, TypeSync, TypeStore
<1>3. syncPc'[v] = "saving" /\ saves'[v] = Append(saves[v], r) /\ saves[v] \in Seq(Saved)
  BY <1>1 DEF TypeOK, TypeSync, TypeStore
<1>4. \A i \in DOMAIN saves'[v] :
        (i \in DOMAIN saves[v] /\ saves'[v][i] = saves[v][i]) \/ i = Len(saves[v]) + 1
  BY <1>3
<1>5. \A i \in DOMAIN saves'[v] : saves'[v][i].job = "sync" => i = Len(saves[v]) + 1
  BY <1>1, <1>4, NoSyncSaves
<1>6. ASSUME NEW w \in Views, NEW i \in DOMAIN saves'[w], saves'[w][i].job = "sync"
      PROVE  /\ syncPc'[w] = "saving"
             /\ \A j \in DOMAIN saves'[w] : saves'[w][j].job = "sync" => i = j
  <2>1. CASE w = v
    BY <1>3, <1>5, <1>6, <2>1
  <2>2. CASE w # v
    BY <1>2, <1>6, <2>2 DEF OneSyncSave
  <2> QED BY <2>1, <2>2
<1> QED BY <1>6 DEF OneSyncSave

LEMMA SaveDequeues ==
  ASSUME TypeOK, OneSyncSave, NEW v \in Views, Save(v) PROVE OneSyncSave'
<1>1. /\ saves[v] # <<>> /\ saves' = [saves EXCEPT ![v] = Tail(@)]
      /\ \/ Head(saves[v]).job = "sync" /\ SyncIdle(v)
         \/ Head(saves[v]).job # "sync" /\ UNCHANGED syncPc
  BY DEF Save
<1>2. saves[v] \in Seq(Saved) /\ saves'[v] = Tail(saves[v])
  BY <1>1 DEF TypeOK, TypeStore
<1>2h. 1 \in DOMAIN saves[v] /\ Head(saves[v]) = saves[v][1]
  BY <1>1, <1>2
<1>2t. \A i \in DOMAIN Tail(saves[v]) : /\ i \in Nat /\ i + 1 \in DOMAIN saves[v]
                                       /\ Tail(saves[v])[i] = saves[v][i + 1]
  BY <1>1, <1>2
<1>3. /\ 1 \in DOMAIN saves[v] /\ Head(saves[v]) = saves[v][1]
      /\ \A i \in DOMAIN saves'[v] : /\ i \in Nat /\ i + 1 \in DOMAIN saves[v] /\ i + 1 # 1
                                     /\ saves'[v][i] = saves[v][i + 1]
  <2>1. \A i \in Nat : i \in DOMAIN saves'[v] => i + 1 # 1
    BY <1>2
  <2> QED BY <1>2, <1>2h, <1>2t, <2>1
<1>4. \A w \in Views : w # v => saves'[w] = saves[w] /\ syncPc'[w] = syncPc[w]
  BY <1>1 DEF SyncIdle, TypeOK, TypeStore, TypeSync
<1>5. CASE Head(saves[v]).job = "sync"
  <2>1. \A i \in DOMAIN saves'[v] : saves'[v][i].job # "sync"
    BY <1>3, <1>5 DEF OneSyncSave
  <2> QED BY <1>4, <2>1 DEF OneSyncSave
<1>6. CASE Head(saves[v]).job # "sync"
  <2>1. syncPc' = syncPc
    BY <1>1, <1>6
  <2>2. ASSUME NEW i \in DOMAIN saves'[v], saves'[v][i].job = "sync"
        PROVE  /\ syncPc[v] = "saving"
               /\ \A j \in DOMAIN saves'[v] : saves'[v][j].job = "sync" => i = j
    <3>1. /\ syncPc[v] = "saving"
          /\ \A j \in DOMAIN saves[v] : saves[v][j].job = "sync" => i + 1 = j
      BY <1>3, <2>2 DEF OneSyncSave
    <3> QED BY <1>3, <3>1
  <2> QED BY <1>4, <2>1, <2>2 DEF OneSyncSave
<1> QED BY <1>5, <1>6

LEMMA OneSyncSaveStep == TypeOK /\ OneSyncSave /\ [Next]_vars => OneSyncSave'
<1> SUFFICES ASSUME TypeOK, OneSyncSave, [Next]_vars PROVE OneSyncSave'
  OBVIOUS
<1>0. ASSUME UNCHANGED <<saves, syncPc>> PROVE OneSyncSave'
  BY <1>0 DEF OneSyncSave
<1>1. CASE LatePost \/ Checkpoint \/ LosePower
  BY <1>0, <1>1 DEF LatePost, Checkpoint, LosePower, syncVars
<1>2. ASSUME NEW u \in Users, Reload(u) PROVE OneSyncSave'
  <2>1. \A v \in Views : Owner[v] = u => saves'[v] = <<>>
    BY <1>2 DEF Reload
  <2>2. \A v \in Views : Owner[v] # u => saves'[v] = saves[v] /\ syncPc'[v] = syncPc[v]
    BY <1>2 DEF Reload
  <2> QED BY <2>1, <2>2 DEF OneSyncSave
<1>3. ASSUME NEW v \in Views,
             \/ PublishStart(v) \/ PutObject(v) \/ ObjectStored(v) \/ PutEntry(v)
             \/ PublishRefused(v) \/ PublishTimesOut(v)
      PROVE  OneSyncSave'
  BY <1>0, <1>3 DEF PublishStart, PutObject, ObjectStored, PutEntry, PublishRefused,
                    PublishTimesOut, syncVars
<1>4. ASSUME NEW v \in Views, Published(v) PROVE OneSyncSave'
  <2>1. UNCHANGED syncPc
    BY <1>4 DEF Published, syncVars
  <2> QED BY <1>4, <2>1, QueuedOther DEF Published
<1>5. ASSUME NEW v \in Views, NEW u \in Users, ResetAuthor(v, u) PROVE OneSyncSave'
  <2>1. UNCHANGED syncPc
    BY <1>5 DEF ResetAuthor, syncVars
  <2> QED BY <1>5, <2>1, QueuedOther DEF ResetAuthor
<1>6. ASSUME NEW v \in Views,
             LogsFail(v) \/ \E u \in Users : GetLog(v, u) \/ GetObjects(v, u)
      PROVE  OneSyncSave'
  BY <1>0, <1>6 DEF LogsFail, GetLog, GetObjects
<1>7. ASSUME NEW v \in Views, Mount(v) \/ Load(v) \/ Unmount(v) PROVE OneSyncSave'
  BY <1>0, <1>7 DEF Mount, Load, Unmount, syncVars
<1>8. CASE UNCHANGED vars
  BY <1>0, <1>8 DEF vars, syncVars
<1> QED BY <1>1, <1>2, <1>3, <1>4, <1>5, <1>6, <1>7, <1>8, SyncMoves, SyncedQueues,
           SaveDequeues DEF Next

LEMMA InitFits == Init => InFlightConsistent
<1> SUFFICES ASSUME Init PROVE InFlightConsistent
  OBVIOUS
<1>1. Begins(NoLogs)
  BY EmptyBegins, InitType
<1>2. ShownBegin /\ StoreBegin /\ SyncBegin /\ BaseBegin
  BY <1>1 DEF Init, ShownBegin, StoreBegin, SyncBegin, BaseBegin
<1>3. SavesBegin /\ OneSyncSave
  BY DEF Init, SavesBegin, OneSyncSave
<1>4. BatchFits /\ SyncClear /\ AnswerTrue
  BY DEF Init, BatchFits, SyncClear, AnswerTrue
<1> QED BY <1>2, <1>3, <1>4 DEF InFlightConsistent, ReplicasFit

(* As long as the provider keeps what it accepted, everything held or in    *)
(* flight agrees with its logs.                                             *)
THEOREM NothingForks ==
  ASSUME ~PowerLoss PROVE Spec => [](TypeOK /\ InFlightConsistent)
<1>1. TypeOK /\ InFlightConsistent /\ [Next]_vars => (TypeOK /\ InFlightConsistent)'
  BY NextType, FitStep, OneSyncSaveStep DEF InFlightConsistent
<1> QED BY <1>1, InitType, InitFits, PTL DEF Spec

(* So every replica shown or saved is a beginning of the provider's logs,   *)
(* whatever syncs, publishing, late posts and reloads overlap.              *)
THEOREM ReplicasConsistent == ASSUME ~PowerLoss PROVE Spec => []Consistent
<1>1. InFlightConsistent => Consistent
  BY DEF InFlightConsistent, ReplicasFit, ShownBegin, StoreBegin, Begins, Consistent,
         Copies, CopyOf
<1> QED BY <1>1, NothingForks, PTL

LEMMA CopiesType ==
  TypeOK => /\ [c \in Copies |-> CopyOf(c)] \in [Copies -> Logs]
            /\ \A c \in Copies : CopyOf(c) \in Logs
<1> SUFFICES ASSUME TypeOK, NEW c \in Copies PROVE CopyOf(c) \in Logs
  OBVIOUS
<1> QED BY DEF Copies, CopyOf, TypeOK, TypeViews, TypeStore

(* Only a request to publish an entry, in time or late, changes the logs.   *)
LEMMA OnlyPostsAppend ==
  ASSUME ~PowerLoss, Next, log' # log PROVE LatePost \/ \E v \in Views : PutEntry(v)
<1>1. ~Checkpoint /\ ~LosePower
  BY DEF Checkpoint, LosePower
<1>2. ASSUME NEW u \in Users, Reload(u) PROVE FALSE
  BY <1>2 DEF Reload, provider
<1>3. ASSUME NEW v \in Views,
             \/ PublishStart(v) \/ PutObject(v) \/ ObjectStored(v) \/ Published(v)
             \/ PublishRefused(v) \/ PublishTimesOut(v)
      PROVE  FALSE
  BY <1>3 DEF PublishStart, PutObject, ObjectStored, Published, PublishRefused,
              PublishTimesOut, provider
<1>4. ASSUME NEW v \in Views,
             \/ SyncStart(v) \/ GetHeads(v) \/ SyncFails(v) \/ LogsFail(v) \/ Synced(v)
             \/ \E u \in Users : GetLog(v, u) \/ GetObjects(v, u) \/ ResetAuthor(v, u)
      PROVE  FALSE
  BY <1>4 DEF SyncStart, GetHeads, SyncFails, LogsFail, Synced, GetLog, GetObjects,
              ResetAuthor, provider
<1>5. ASSUME NEW v \in Views, Mount(v) \/ Load(v) \/ Save(v) \/ Unmount(v) PROVE FALSE
  BY <1>5 DEF Mount, Load, Save, Unmount, provider
<1> QED BY <1>1, <1>2, <1>3, <1>4, <1>5 DEF Next

(* A step that changes the provider's logs appends one entry to one of them,*)
(* and no replica shown or saved changes with it.                           *)
LEMMA AppendsOne ==
  ASSUME ~PowerLoss, TypeOK, Next, log' # log
  PROVE  /\ \E u \in Users, o \in Objects : log' = [log EXCEPT ![u] = Append(@, o)]
         /\ UNCHANGED <<shownLog, storeLog>>
<1>1. CASE LatePost
  <2>1. PICK m \in late : AppendEntry(m[2], m[3])
    BY <1>1 DEF LatePost
  <2>2. m[2] \in Users /\ Last(m[3]) \in Objects
    BY LateType
  <2> QED BY <1>1, <2>1, <2>2 DEF AppendEntry, LatePost, viewVars, store
<1>2. ASSUME NEW v \in Views, PutEntry(v)
      PROVE  /\ \E u \in Users, o \in Objects : log' = [log EXCEPT ![u] = Append(@, o)]
             /\ UNCHANGED <<shownLog, storeLog>>
  <2>1. Owner[v] \in Users /\ Last(Signs(v)) \in Objects
    BY <1>2, SignsType, PortalAssumption DEF PutEntry
  <2>2. AppendEntry(Owner[v], Signs(v)) /\ UNCHANGED <<shownLog, storeLog>>
    BY <1>2 DEF PutEntry, viewVars, store
  <2> QED BY <2>1, <2>2 DEF AppendEntry
<1>3. LatePost \/ \E v \in Views : PutEntry(v)
  BY OnlyPostsAppend
<1> QED BY <1>1, <1>2, <1>3

(* The portal implements the abstract log: an author's history only grows,  *)
(* and every copy of it is always one of its beginnings.                    *)
THEOREM PortalImplementsLog == ASSUME ~PowerLoss PROVE Spec => ImplementsLog
<1> DEFINE copies == [c \in Copies |-> CopyOf(c)]
<1>1. Init => Abstract!Init
  <2> SUFFICES ASSUME Init PROVE Abstract!Init
    OBVIOUS
  <2>1. \A c \in Copies : CopyOf(c) = NoLogs
    BY DEF Init, Copies, CopyOf
  <2>2. copies = [c \in Copies |-> [u \in Users |-> <<>>]]
    BY <2>1 DEF NoLogs
  <2> QED BY <2>2 DEF Abstract!Init, Init, NoLogs
<1>2. ASSUME TypeOK /\ InFlightConsistent, TypeOK' /\ InFlightConsistent', [Next]_vars
      PROVE  [Abstract!Next]_(Abstract!vars)
  <2>1. CASE log' = log
    <3>1. copies' \in [Copies -> [Users -> Seq(Objects)]]
      BY <1>2, CopiesType DEF Logs, Copies, CopyOf, TypeOK, TypeViews, TypeStore
    <3>2. \A c \in Copies, u \in Users : IsPrefix(copies'[c][u], log[u])
      BY <1>2, <2>1 DEF InFlightConsistent, ReplicasFit, ShownBegin, StoreBegin, Begins,
                        Copies, CopyOf
    <3>3. Abstract!Refresh
      <4>1. \A s, t : Abstract!IsPrefix(s, t) <=> IsPrefix(s, t)
        BY DEF Abstract!IsPrefix, IsPrefix
      <4> QED BY <2>1, <3>1, <3>2, <4>1 DEF Abstract!Refresh
    <3> QED BY <3>3 DEF Abstract!Next
  <2>2. CASE log' # log
    <3>1. Next
      BY <1>2, <2>2 DEF vars, provider
    <3>2. /\ \E u \in Users, o \in Objects : log' = [log EXCEPT ![u] = Append(@, o)]
          /\ UNCHANGED <<shownLog, storeLog>>
      BY <1>2, <2>2, <3>1, AppendsOne
    <3>3. copies' = copies
      BY <3>2 DEF CopyOf, Copies
    <3>4. \E u \in Users : Abstract!Publish(u)
      BY <3>2, <3>3 DEF Abstract!Publish
    <3> QED BY <3>4 DEF Abstract!Next
  <2> QED BY <2>1, <2>2
<1> QED BY <1>1, <1>2, NothingForks, PTL DEF Spec, ImplementsLog, Abstract!Spec

-----------------------------------------------------------------------------
(* What the portal promises.                                               *)

(* What is held of a log that is extended.                                  *)
LEMMA ToSetAppend ==
  ASSUME NEW S, NEW s \in Seq(S), NEW e \in S
  PROVE  ToSet(Append(s, e)) = ToSet(s) \cup {e}
<1>1. /\ Append(s, e) \in Seq(S) /\ Len(Append(s, e)) = Len(s) + 1 /\ Len(s) \in Nat
      /\ Append(s, e)[Len(s) + 1] = e
      /\ \A i \in 1..Len(s) : Append(s, e)[i] = s[i]
  OBVIOUS
<1>2. DOMAIN s = 1..Len(s) /\ DOMAIN Append(s, e) = 1..(Len(s) + 1)
  BY <1>1
<1>3. 1..(Len(s) + 1) = (1..Len(s)) \cup {Len(s) + 1}
  BY <1>1
<1> QED BY <1>1, <1>2, <1>3 DEF ToSet

LEMMA ToSetConcat ==
  ASSUME NEW S, NEW s \in Seq(S), NEW t \in Seq(S)
  PROVE  ToSet(s \o t) \subseteq ToSet(s) \cup ToSet(t)
<1> DEFINE w == s \o t
<1>1. /\ w \in Seq(S) /\ Len(w) = Len(s) + Len(t) /\ Len(s) \in Nat /\ Len(t) \in Nat
      /\ \A i \in 1..Len(w) : w[i] = IF i <= Len(s) THEN s[i] ELSE t[i - Len(s)]
  OBVIOUS
<1> HIDE DEF w
<1>2. ASSUME NEW i \in DOMAIN w PROVE w[i] \in ToSet(s) \cup ToSet(t)
  <2>1. i \in 1..Len(w)
    BY <1>1
  <2>2. CASE i <= Len(s)
    <3>1. i \in DOMAIN s /\ w[i] = s[i]
      BY <1>1, <2>1, <2>2
    <3> QED BY <3>1 DEF ToSet
  <2>3. CASE ~(i <= Len(s))
    <3>1. i - Len(s) \in DOMAIN t /\ w[i] = t[i - Len(s)]
      BY <1>1, <2>1, <2>3
    <3> QED BY <3>1 DEF ToSet
  <2> QED BY <2>2, <2>3
<1>3. ToSet(w) \subseteq ToSet(s) \cup ToSet(t)
  BY <1>2 DEF ToSet
<1> QED BY <1>3 DEF w

-----------------------------------------------------------------------------
(* Complete replicas, and what the operations on replicas make of them.     *)
LEMMA CompleteEmpty == ASSUME NEW objs PROVE Complete(NoLogs, objs)
BY DEF Complete, Held, NoLogs, ToSet

LEMMA CompleteGrows ==
  ASSUME NEW l, NEW objs, NEW more, Complete(l, objs), objs \subseteq more
  PROVE  Complete(l, more)
BY DEF Complete

LEMMA CompleteAppend ==
  ASSUME NEW l \in Logs, NEW u \in Users, NEW o \in Objects, NEW objs, NEW more,
         Complete(l, objs), objs \subseteq more, o \in more
  PROVE  Complete([l EXCEPT ![u] = Append(@, o)], more)
<1> DEFINE k == [l EXCEPT ![u] = Append(@, o)]
<1>1. \A w \in Users : l[w] \in Seq(Objects)
  BY LogsFacts
<1>2. k[u] = Append(l[u], o) /\ \A w \in Users : w # u => k[w] = l[w]
  BY DEF Logs
<1>3. ToSet(k[u]) = ToSet(l[u]) \cup {o}
  BY <1>1, <1>2, ToSetAppend
<1> HIDE DEF k
<1>4. \A w \in Users : ToSet(k[w]) \subseteq ToSet(l[w]) \cup {o}
  BY <1>2, <1>3
<1>5. \A w \in Users : ToSet(l[w]) \subseteq objs
  BY DEF Complete, Held
<1>6. \A w \in Users : ToSet(k[w]) \subseteq more
  BY <1>4, <1>5
<1>7. Complete(k, more)
  BY <1>6 DEF Complete, Held
<1> QED BY <1>7 DEF k

LEMMA CompleteMerge ==
  ASSUME NEW l \in Logs, NEW u \in Users, NEW s \in Seq(Objects), NEW objs, NEW more,
         Complete(l, objs), objs \subseteq more, ToSet(s) \subseteq more
  PROVE  Complete(Merge(l, u, s), more)
<1> DEFINE k == Merge(l, u, s)
<1>1. \A w \in Users : l[w] \in Seq(Objects)
  BY LogsFacts
<1>2. k[u] = l[u] \o s /\ \A w \in Users : w # u => k[w] = l[w]
  BY DEF Logs, Merge
<1>3. ToSet(k[u]) \subseteq ToSet(l[u]) \cup ToSet(s)
  BY <1>1, <1>2, ToSetConcat
<1> HIDE DEF k
<1>5. \A w \in Users : ToSet(l[w]) \subseteq objs
  BY DEF Complete, Held
<1>6. \A w \in Users : ToSet(k[w]) \subseteq more
  BY <1>2, <1>3, <1>5
<1>7. Complete(k, more)
  BY <1>6 DEF Complete, Held
<1> QED BY <1>7 DEF k

(* Trimming and resetting keep the objects the other authors' entries need. *)
LEMMA CompleteDrop ==
  ASSUME NEW l, NEW objs, NEW D, Complete(l, objs)
  PROVE  Complete(DropLogs(l, D), DropObjects(l, objs, D))
<1> DEFINE k == DropLogs(l, D)
<1>1. \A u \in Users : k[u] = l[u] \/ k[u] = <<>>
  BY DEF DropLogs
<1>2. ToSet(<<>>) = {}
  BY DEF ToSet
<1> HIDE DEF k
<1>3. Held(k) \subseteq Held(l)
  BY <1>1, <1>2 DEF Held
<1>4. PICK lost : DropObjects(l, objs, D) = objs \ (lost \ Held(k))
  <2> WITNESS (UNION {ToSet(l[u]) : u \in D})
  <2> QED BY DEF DropObjects, k
<1>5. Held(k) \subseteq objs \ (lost \ Held(k))
  BY <1>3 DEF Complete
<1> QED BY <1>4, <1>5 DEF k, Complete

-----------------------------------------------------------------------------
(* Every copy of every log comes with its objects.                          *)
LEMMA CompleteInit == Init => AllComplete
<1> SUFFICES ASSUME Init PROVE AllComplete
  OBVIOUS
<1>1. ProviderComplete
  BY CompleteEmpty DEF Init, ProviderComplete
<1>2. ShownComplete /\ StoreComplete /\ SyncHasAll /\ BaseComplete
  BY CompleteEmpty DEF Init, ShownComplete, StoreComplete, SyncHasAll, BaseComplete
<1>3. SavesComplete
  BY DEF Init, SavesComplete
<1> QED BY <1>1, <1>2, <1>3 DEF AllComplete

LEMMA ShowComplete ==
  ASSUME TypeOK, ShownComplete, NEW v \in Views, NEW l, NEW objs,
         Complete(l, objs), Show(v, l, objs)
  PROVE  ShownComplete'
<1>1. CASE Mounted(v)
  <2>1. shownLog' = [shownLog EXCEPT ![v] = l] /\ shownObj' = [shownObj EXCEPT ![v] = objs]
    BY <1>1 DEF Show
  <2>2. \A w \in Views : \/ shownLog'[w] = shownLog[w] /\ shownObj'[w] = shownObj[w]
                         \/ shownLog'[w] = l /\ shownObj'[w] = objs
    BY <2>1 DEF TypeOK, TypeViews
  <2> QED BY <2>2 DEF ShownComplete, Complete, Held
<1>2. CASE ~Mounted(v)
  <2>1. UNCHANGED <<shownLog, shownObj>>
    BY <1>2 DEF Show
  <2> QED BY <2>1 DEF ShownComplete, Complete, Held
<1> QED BY <1>1, <1>2

LEMMA SaveLaterComplete ==
  ASSUME TypeOK, SavesComplete, NEW v \in Views, NEW job, NEW l, NEW objs,
         Complete(l, objs), SaveLater(v, job, l, objs)
  PROVE  SavesComplete'
<1> DEFINE r == [job |-> job, logs |-> l, objs |-> objs]
<1>1. saves' = [saves EXCEPT ![v] = Append(@, r)] /\ r.logs = l /\ r.objs = objs
  BY DEF SaveLater
<1> HIDE DEF r
<1>2. ASSUME NEW w \in Views, NEW i \in DOMAIN saves'[w]
      PROVE  Complete(saves'[w][i].logs, saves'[w][i].objs)
  <2>1. saves[w] \in Seq(Saved)
    BY DEF TypeOK, TypeStore
  <2>2. CASE w # v
    <3>1. saves'[w] = saves[w]
      BY <1>1, <2>2 DEF TypeOK, TypeStore
    <3> QED BY <1>2, <3>1 DEF SavesComplete
  <2>3. CASE w = v
    <3>1. saves'[w] = Append(saves[w], r)
      BY <1>1, <2>3 DEF TypeOK, TypeStore
    <3>2. (i \in DOMAIN saves[w] /\ saves'[w][i] = saves[w][i]) \/ saves'[w][i] = r
      BY <1>2, <2>1, <3>1
    <3> QED BY <1>1, <3>2 DEF SavesComplete
  <2> QED BY <2>2, <2>3
<1> QED BY <1>2 DEF SavesComplete, Complete, Held

(* Nothing but a bigger set of objects, or an appended entry whose object   *)
(* is there, changes what the provider holds; a power loss takes entries    *)
(* and objects back together.                                               *)
LEMMA StoredComplete ==
  ASSUME TypeOK, ProviderComplete, UNCHANGED <<log, diskLog, diskObjects>>,
         objects \subseteq objects'
  PROVE  ProviderComplete'
<1>1. Complete(log, objects')
  BY CompleteGrows DEF ProviderComplete
<1>2. Complete(diskLog, diskObjects)
  BY DEF ProviderComplete
<1> QED BY <1>1, <1>2 DEF ProviderComplete

LEMMA AppendedComplete ==
  ASSUME TypeOK, ProviderComplete, NEW u \in Users, NEW h \in Seq(Objects), h # <<>>,
         Appendable(u, h), AppendEntry(u, h),
         UNCHANGED <<objects, diskLog, diskObjects>>
  PROVE  ProviderComplete'
<1>1. log \in Logs /\ Last(h) \in objects /\ Last(h) \in Objects
  BY DEF TypeOK, TypeProvider, Appendable
<1>2. Complete([log EXCEPT ![u] = Append(@, Last(h))], objects)
  BY <1>1, CompleteAppend DEF ProviderComplete
<1>3. log' = [log EXCEPT ![u] = Append(@, Last(h))]
  BY DEF AppendEntry
<1>4. Complete(log', objects') /\ Complete(diskLog, diskObjects)
  BY <1>2, <1>3 DEF ProviderComplete
<1> QED BY <1>4 DEF ProviderComplete

LEMMA ProviderStep ==
  TypeOK /\ ProviderComplete /\ [Next]_vars => ProviderComplete'
<1> SUFFICES ASSUME TypeOK, ProviderComplete, [Next]_vars PROVE ProviderComplete'
  OBVIOUS
<1>a. ASSUME UNCHANGED provider PROVE ProviderComplete'
  <2>1. UNCHANGED <<log, objects, diskLog, diskObjects>>
    BY <1>a DEF provider
  <2> QED BY <2>1, StoredComplete
<1>1. ASSUME NEW v \in Views, PutObject(v) PROVE ProviderComplete'
  <2>1. UNCHANGED <<log, diskLog, diskObjects>> /\ objects \subseteq objects'
    BY <1>1 DEF PutObject, StoreObject
  <2> QED BY <2>1, StoredComplete
<1>2. ASSUME NEW v \in Views, PutEntry(v) PROVE ProviderComplete'
  <2>1. UNCHANGED <<objects, diskLog, diskObjects>>
    BY <1>2 DEF PutEntry
  <2>2. Owner[v] \in Users /\ Signs(v) \in Seq(Objects) /\ Signs(v) # <<>>
    BY <1>2, SignsType, PortalAssumption DEF PutEntry
  <2>3. CASE Appendable(Owner[v], Signs(v)) /\ AppendEntry(Owner[v], Signs(v))
    BY <2>1, <2>2, <2>3, AppendedComplete
  <2>4. CASE UNCHANGED log
    BY <2>1, <2>4, StoredComplete
  <2> QED BY <1>2, <2>3, <2>4 DEF PutEntry
<1>3. CASE LatePost
  <2>1. PICK m \in late :
          /\ \/ m[1] = "obj" /\ StoreObject(Last(m[3])) /\ UNCHANGED log
             \/ /\ m[1] = "entry" /\ Appendable(m[2], m[3]) /\ AppendEntry(m[2], m[3])
                /\ UNCHANGED objects
             \/ UNCHANGED <<log, objects>>
          /\ UNCHANGED <<diskLog, diskObjects>>
    BY <1>3 DEF LatePost
  <2>2. m[2] \in Users /\ m[3] \in Seq(Objects) /\ m[3] # <<>>
    BY LateType
  <2>3. CASE Appendable(m[2], m[3]) /\ AppendEntry(m[2], m[3]) /\ UNCHANGED objects
    BY <2>1, <2>2, <2>3, AppendedComplete
  <2>4. CASE objects \subseteq objects' /\ UNCHANGED log
    BY <2>1, <2>4, StoredComplete
  <2> QED BY <2>1, <2>3, <2>4 DEF StoreObject
<1>4. CASE Checkpoint \/ LosePower
  BY <1>4 DEF Checkpoint, LosePower, ProviderComplete, Complete, Held
<1>5. ASSUME NEW u \in Users, Reload(u) PROVE ProviderComplete'
  BY <1>5, <1>a DEF Reload
<1>6. ASSUME NEW v \in Views,
             \/ PublishStart(v) \/ ObjectStored(v) \/ Published(v)
             \/ PublishRefused(v) \/ PublishTimesOut(v)
      PROVE  ProviderComplete'
  BY <1>6, <1>a DEF PublishStart, ObjectStored, Published, PublishRefused, PublishTimesOut
<1>7. ASSUME NEW v \in Views,
             \/ SyncStart(v) \/ GetHeads(v) \/ SyncFails(v) \/ LogsFail(v) \/ Synced(v)
             \/ \E u \in Users : GetLog(v, u) \/ GetObjects(v, u) \/ ResetAuthor(v, u)
      PROVE  ProviderComplete'
  BY <1>7, <1>a DEF SyncStart, GetHeads, SyncFails, LogsFail, Synced, GetLog, GetObjects,
                    ResetAuthor
<1>8. ASSUME NEW v \in Views, Mount(v) \/ Load(v) \/ Save(v) \/ Unmount(v)
      PROVE  ProviderComplete'
  BY <1>8, <1>a DEF Mount, Load, Save, Unmount
<1>9. CASE UNCHANGED vars
  BY <1>9, <1>a DEF vars
<1> QED BY <1>1, <1>2, <1>3, <1>4, <1>5, <1>6, <1>7, <1>8, <1>9 DEF Next

(* The replicas of the views and devices, changed by one step each.         *)
LEMMA KeptComplete ==
  /\ ShownComplete /\ UNCHANGED <<shownLog, shownObj>> => ShownComplete'
  /\ StoreComplete /\ UNCHANGED <<storeLog, storeObj>> => StoreComplete'
  /\ SyncHasAll /\ UNCHANGED <<nextLog, nextObj>> => SyncHasAll'
  /\ BaseComplete /\ UNCHANGED <<baseLog, baseObj>> => BaseComplete'
  /\ SavesComplete /\ UNCHANGED saves => SavesComplete'
<1>1. ShownComplete /\ UNCHANGED <<shownLog, shownObj>> => ShownComplete'
  BY DEF ShownComplete, Complete, Held
<1>2. StoreComplete /\ UNCHANGED <<storeLog, storeObj>> => StoreComplete'
  BY DEF StoreComplete, Complete, Held
<1>3. SyncHasAll /\ UNCHANGED <<nextLog, nextObj>> => SyncHasAll'
  BY DEF SyncHasAll, Complete, Held
<1>4. BaseComplete /\ UNCHANGED <<baseLog, baseObj>> => BaseComplete'
  BY DEF BaseComplete, Complete, Held
<1>5. SavesComplete /\ UNCHANGED saves => SavesComplete'
  BY DEF SavesComplete, Complete, Held
<1> QED BY <1>1, <1>2, <1>3, <1>4, <1>5

LEMMA PubIdleComplete ==
  ASSUME TypeOK, BaseComplete, NEW v \in Views, PublishIdle(v) PROVE BaseComplete'
<1>1. \A w \in Views : \/ baseLog'[w] = NoLogs
                       \/ baseLog'[w] = baseLog[w] /\ baseObj'[w] = baseObj[w]
  BY DEF PublishIdle, TypeOK, TypePub
<1>2. \A w \in Views : Complete(baseLog'[w], baseObj'[w])
  BY <1>1, CompleteEmpty DEF BaseComplete
<1> QED BY <1>2 DEF BaseComplete, Complete, Held

LEMMA SyncIdleComplete ==
  ASSUME TypeOK, SyncHasAll, NEW v \in Views, SyncIdle(v) PROVE SyncHasAll'
<1>1. \A w \in Views : \/ nextLog'[w] = NoLogs
                       \/ nextLog'[w] = nextLog[w] /\ nextObj'[w] = nextObj[w]
  BY DEF SyncIdle, TypeOK, TypeSync
<1>2. \A w \in Views : Complete(nextLog'[w], nextObj'[w])
  BY <1>1, CompleteEmpty DEF SyncHasAll
<1> QED BY <1>2 DEF SyncHasAll, Complete, Held

Replicas == ShownComplete /\ StoreComplete /\ SyncHasAll /\ BaseComplete /\ SavesComplete

LEMMA PublishesComplete ==
  ASSUME TypeOK, AllComplete, NEW v \in Views,
         \/ PublishStart(v) \/ PutObject(v) \/ ObjectStored(v) \/ PutEntry(v)
         \/ Published(v) \/ PublishRefused(v) \/ PublishTimesOut(v)
  PROVE  Replicas'
<1> USE DEF AllComplete, Replicas, viewVars, store, syncVars
<1>1. CASE PutObject(v) \/ ObjectStored(v) \/ PutEntry(v)
  BY <1>1, KeptComplete DEF PutObject, ObjectStored, PutEntry
<1>2. CASE PublishStart(v)
  <2>1. UNCHANGED <<shownLog, shownObj, storeLog, storeObj, nextLog, nextObj, saves>>
    BY <1>2 DEF PublishStart
  <2>2. /\ baseLog' = [baseLog EXCEPT ![v] = shownLog[v]]
        /\ baseObj' = [baseObj EXCEPT ![v] = shownObj[v]]
    BY <1>2 DEF PublishStart
  <2>3. \A w \in Views : \/ baseLog'[w] = baseLog[w] /\ baseObj'[w] = baseObj[w]
                         \/ baseLog'[w] = shownLog[w] /\ baseObj'[w] = shownObj[w]
    BY <2>2 DEF TypeOK, TypePub
  <2>4. BaseComplete'
    BY <2>3 DEF BaseComplete, ShownComplete, Complete, Held
  <2> QED BY <2>1, <2>4, KeptComplete
<1>3. CASE Published(v)
  <2> DEFINE logs == [baseLog[v] EXCEPT ![Owner[v]] = Append(@, pubObj[v])]
             objs == baseObj[v] \cup {pubObj[v]}
  <2>1. /\ Show(v, logs, objs) /\ SaveLater(v, "publish", logs, objs) /\ pubPc[v] # "idle"
        /\ UNCHANGED <<storeLog, storeObj, nextLog, nextObj, baseLog, baseObj>>
    BY <1>3 DEF Published
  <2>2. baseLog[v] \in Logs /\ pubObj[v] \in Objects /\ Owner[v] \in Users
    BY <2>1, SignsType, PortalAssumption DEF TypeOK, TypePub
  <2>3. Complete(baseLog[v], baseObj[v])
    BY DEF BaseComplete
  <2>4. Complete(logs, objs)
    <3>1. baseObj[v] \subseteq objs /\ pubObj[v] \in objs
      OBVIOUS
    <3> HIDE DEF objs
    <3> QED BY <2>2, <2>3, <3>1, CompleteAppend
  <2> HIDE DEF logs, objs
  <2>5. ShownComplete' /\ SavesComplete'
    BY <2>1, <2>4, ShowComplete, SaveLaterComplete
  <2> QED BY <2>1, <2>5, KeptComplete
<1>4. CASE PublishRefused(v) \/ PublishTimesOut(v)
  <2>1. /\ UNCHANGED <<shownLog, shownObj, storeLog, storeObj, nextLog, nextObj, saves>>
        /\ PublishIdle(v)
    BY <1>4 DEF PublishRefused, PublishTimesOut
  <2> QED BY <2>1, KeptComplete, PubIdleComplete
<1> QED BY <1>1, <1>2, <1>3, <1>4

LEMMA SyncsHaveAll ==
  ASSUME TypeOK, AllComplete, NEW v \in Views,
         \/ SyncStart(v) \/ GetHeads(v) \/ SyncFails(v) \/ LogsFail(v) \/ Synced(v)
         \/ \E u \in Users : GetLog(v, u) \/ GetObjects(v, u)
  PROVE  Replicas'
<1> USE DEF AllComplete, Replicas, viewVars, store, pubVars
<1>1. CASE SyncStart(v)
  <2>1. UNCHANGED <<shownLog, shownObj, storeLog, storeObj, baseLog, baseObj, saves>>
    BY <1>1 DEF SyncStart
  <2>2. /\ nextLog' = [nextLog EXCEPT ![v] = shownLog[v]]
        /\ nextObj' = [nextObj EXCEPT ![v] = shownObj[v]]
    BY <1>1 DEF SyncStart
  <2>3. \A w \in Views : \/ nextLog'[w] = nextLog[w] /\ nextObj'[w] = nextObj[w]
                         \/ nextLog'[w] = shownLog[w] /\ nextObj'[w] = shownObj[w]
    BY <2>2 DEF TypeOK, TypeSync
  <2>4. SyncHasAll'
    BY <2>3 DEF SyncHasAll, ShownComplete, Complete, Held
  <2> QED BY <2>1, <2>4, KeptComplete
<1>2. CASE GetHeads(v) \/ LogsFail(v) \/ \E u \in Users : GetLog(v, u)
  BY <1>2, KeptComplete DEF GetHeads, LogsFail, GetLog
<1>3. CASE SyncFails(v)
  BY <1>3, KeptComplete, SyncIdleComplete DEF SyncFails
<1>4. ASSUME NEW u \in Users, GetObjects(v, u) PROVE Replicas'
  <2> DEFINE missing == ToSet(batch[v][u]) \ nextObj[v]
             logs == Merge(nextLog[v], u, batch[v][u])
             objs == nextObj[v] \cup missing
  <2>1. /\ UNCHANGED <<shownLog, shownObj, storeLog, storeObj, baseLog, baseObj, saves>>
        /\ \/ /\ nextLog' = [nextLog EXCEPT ![v] = logs]
              /\ nextObj' = [nextObj EXCEPT ![v] = objs]
           \/ UNCHANGED <<nextLog, nextObj>>
    BY <1>4 DEF GetObjects
  <2>2. nextLog[v] \in Logs /\ batch[v][u] \in Seq(Objects)
    BY LogsFacts DEF TypeOK, TypeSync
  <2>3. Complete(logs, objs)
    <3>1. Complete(nextLog[v], nextObj[v])
      BY DEF SyncHasAll
    <3>2. nextObj[v] \subseteq objs /\ ToSet(batch[v][u]) \subseteq objs
      OBVIOUS
    <3> HIDE DEF objs, missing
    <3> QED BY <2>2, <3>1, <3>2, CompleteMerge
  <2> HIDE DEF logs, objs
  <2>4. \A w \in Views : \/ nextLog'[w] = nextLog[w] /\ nextObj'[w] = nextObj[w]
                         \/ nextLog'[w] = logs /\ nextObj'[w] = objs
    BY <2>1 DEF TypeOK, TypeSync
  <2>5. SyncHasAll'
    BY <2>3, <2>4 DEF SyncHasAll, Complete, Held
  <2> QED BY <2>1, <2>5, KeptComplete
<1>5. CASE Synced(v)
  <2>1. /\ Show(v, nextLog[v], nextObj[v]) /\ SaveLater(v, "sync", nextLog[v], nextObj[v])
        /\ UNCHANGED <<storeLog, storeObj, nextLog, nextObj, baseLog, baseObj>>
    BY <1>5 DEF Synced
  <2>2. Complete(nextLog[v], nextObj[v])
    BY DEF SyncHasAll
  <2>3. ShownComplete' /\ SavesComplete'
    BY <2>1, <2>2, ShowComplete, SaveLaterComplete
  <2> QED BY <2>1, <2>3, KeptComplete
<1> QED BY <1>1, <1>2, <1>3, <1>4, <1>5

LEMMA WorkspaceComplete ==
  ASSUME TypeOK, AllComplete, NEW v \in Views,
         \/ Mount(v) \/ Load(v) \/ Save(v) \/ Unmount(v)
         \/ \E u \in Users : ResetAuthor(v, u)
  PROVE  Replicas'
<1> USE DEF AllComplete, Replicas, store, pubVars, syncVars
<1>1. CASE Mount(v) \/ Load(v) \/ Unmount(v)
  <2>1. UNCHANGED <<storeLog, storeObj, nextLog, nextObj, baseLog, baseObj, saves>>
    BY <1>1 DEF Mount, Load, Unmount
  <2>2. \A w \in Views : \/ shownLog'[w] = shownLog[w] /\ shownObj'[w] = shownObj[w]
                         \/ /\ shownLog'[w] = storeLog[Owner[w]]
                            /\ shownObj'[w] = storeObj[Owner[w]]
                         \/ shownLog'[w] = NoLogs
    BY <1>1 DEF Mount, Load, Unmount, TypeOK, TypeViews
  <2>3. \A w \in Views : Complete(storeLog[Owner[w]], storeObj[Owner[w]])
    BY PortalAssumption DEF StoreComplete
  <2>4. \A w \in Views : Complete(shownLog'[w], shownObj'[w])
    BY <2>2, <2>3, CompleteEmpty DEF ShownComplete
  <2>5. ShownComplete'
    BY <2>4 DEF ShownComplete, Complete, Held
  <2> QED BY <2>1, <2>5, KeptComplete
<1>2. CASE Save(v)
  <2> DEFINE s == Head(saves[v])
  <2>1. /\ saves[v] # <<>> /\ saves' = [saves EXCEPT ![v] = Tail(@)]
        /\ UNCHANGED <<shownLog, shownObj>>
    BY <1>2 DEF Save, viewVars
  <2>2. saves[v] \in Seq(Saved)
    BY DEF TypeOK, TypeStore
  <2>3. Complete(s.logs, s.objs)
    <3>1. 1 \in DOMAIN saves[v] /\ s = saves[v][1]
      BY <2>1, <2>2
    <3> QED BY <3>1 DEF SavesComplete
  <2>4. \/ UNCHANGED <<storeLog, storeObj>>
        \/ \E D : /\ storeLog' = [storeLog EXCEPT ![Owner[v]] = DropLogs(s.logs, D)]
                  /\ storeObj' = [storeObj EXCEPT ![Owner[v]] = DropObjects(s.logs, s.objs, D)]
    BY <1>2 DEF Save
  <2>5. SavesComplete'
    <3>0. \A i \in DOMAIN Tail(saves[v]) :
            i + 1 \in DOMAIN saves[v] /\ Tail(saves[v])[i] = saves[v][i + 1]
      BY <2>1, <2>2
    <3>1. ASSUME NEW w \in Views, NEW i \in DOMAIN saves'[w]
          PROVE  Complete(saves'[w][i].logs, saves'[w][i].objs)
      <4>1. CASE w = v
        BY <2>1, <3>0, <3>1, <4>1 DEF SavesComplete, TypeOK, TypeStore
      <4>2. CASE w # v
        BY <2>1, <3>1, <4>2 DEF SavesComplete, TypeOK, TypeStore
      <4> QED BY <4>1, <4>2
    <3> QED BY <3>1 DEF SavesComplete, Complete, Held
  <2> HIDE DEF s
  <2>6. StoreComplete'
    <3>1. CASE UNCHANGED <<storeLog, storeObj>>
      BY <3>1, KeptComplete
    <3>2. ASSUME NEW D, storeLog' = [storeLog EXCEPT ![Owner[v]] = DropLogs(s.logs, D)],
                 storeObj' = [storeObj EXCEPT ![Owner[v]] = DropObjects(s.logs, s.objs, D)]
          PROVE  StoreComplete'
      <4>1. Complete(DropLogs(s.logs, D), DropObjects(s.logs, s.objs, D))
        BY <2>3, CompleteDrop
      <4>2. \A u \in Users : \/ storeLog'[u] = storeLog[u] /\ storeObj'[u] = storeObj[u]
                             \/ /\ storeLog'[u] = DropLogs(s.logs, D)
                                /\ storeObj'[u] = DropObjects(s.logs, s.objs, D)
        BY <3>2 DEF TypeOK, TypeStore
      <4>3. \A u \in Users : Complete(storeLog'[u], storeObj'[u])
        BY <4>1, <4>2 DEF StoreComplete
      <4> QED BY <4>3 DEF StoreComplete, Complete, Held
    <3> QED BY <2>4, <3>1, <3>2
  <2>7. SyncHasAll'
    <3>1. CASE UNCHANGED <<nextLog, nextObj>>
      BY <3>1, KeptComplete
    <3>2. CASE SyncIdle(v)
      BY <3>2, SyncIdleComplete
    <3> QED BY <1>2, <3>1, <3>2 DEF Save
  <2>8. BaseComplete'
    <3>1. CASE UNCHANGED pubVars
      BY <3>1, KeptComplete
    <3>2. CASE PublishIdle(v)
      BY <3>2, PubIdleComplete
    <3> QED BY <1>2, <3>1, <3>2 DEF Save
  <2> QED BY <2>1, <2>5, <2>6, <2>7, <2>8, KeptComplete
<1>3. ASSUME NEW u \in Users, ResetAuthor(v, u) PROVE Replicas'
  <2> DEFINE logs == DropLogs(shownLog[v], {u})
             objs == DropObjects(shownLog[v], shownObj[v], {u})
  <2>1. /\ Show(v, logs, objs) /\ SaveLater(v, "reset", logs, objs)
        /\ UNCHANGED <<storeLog, storeObj, nextLog, nextObj, baseLog, baseObj>>
    BY <1>3 DEF ResetAuthor
  <2>2. Complete(logs, objs)
    BY CompleteDrop DEF ShownComplete
  <2> HIDE DEF logs, objs
  <2>3. ShownComplete' /\ SavesComplete'
    BY <2>1, <2>2, ShowComplete, SaveLaterComplete
  <2> QED BY <2>1, <2>3, KeptComplete
<1> QED BY <1>1, <1>2, <1>3

LEMMA ReloadComplete ==
  ASSUME TypeOK, AllComplete, NEW u \in Users, Reload(u) PROVE Replicas'
<1> USE DEF AllComplete, Replicas, store
<1>1. ASSUME NEW v \in Views
      PROVE  \/ /\ shownLog'[v] = NoLogs /\ nextLog'[v] = NoLogs /\ baseLog'[v] = NoLogs
                /\ saves'[v] = <<>>
             \/ /\ shownLog'[v] = shownLog[v] /\ shownObj'[v] = shownObj[v]
                /\ nextLog'[v] = nextLog[v] /\ nextObj'[v] = nextObj[v]
                /\ baseLog'[v] = baseLog[v] /\ baseObj'[v] = baseObj[v]
                /\ saves'[v] = saves[v]
  BY DEF Reload
<1>2. ShownComplete'
  <2>1. \A v \in Views : Complete(shownLog'[v], shownObj'[v])
    BY <1>1, CompleteEmpty DEF ShownComplete
  <2> QED BY <2>1 DEF ShownComplete, Complete, Held
<1>3. SyncHasAll'
  <2>1. \A v \in Views : Complete(nextLog'[v], nextObj'[v])
    BY <1>1, CompleteEmpty DEF SyncHasAll
  <2> QED BY <2>1 DEF SyncHasAll, Complete, Held
<1>4. BaseComplete'
  <2>1. \A v \in Views : Complete(baseLog'[v], baseObj'[v])
    BY <1>1, CompleteEmpty DEF BaseComplete
  <2> QED BY <2>1 DEF BaseComplete, Complete, Held
<1>5. SavesComplete'
  <2>1. \A v \in Views : \A i \in DOMAIN saves'[v] :
          Complete(saves'[v][i].logs, saves'[v][i].objs)
    BY <1>1 DEF SavesComplete
  <2> QED BY <2>1 DEF SavesComplete, Complete, Held
<1>6. StoreComplete'
  BY KeptComplete DEF Reload
<1> QED BY <1>2, <1>3, <1>4, <1>5, <1>6

LEMMA CompleteStep == TypeOK /\ AllComplete /\ [Next]_vars => AllComplete'
<1> SUFFICES ASSUME TypeOK, AllComplete, [Next]_vars PROVE AllComplete'
  OBVIOUS
<1>1. ProviderComplete'
  BY ProviderStep DEF AllComplete
<1>2. Replicas'
  <2>1. CASE UNCHANGED vars
    BY <2>1, KeptComplete DEF vars, viewVars, store, syncVars, pubVars, AllComplete, Replicas
  <2>2. CASE LatePost \/ Checkpoint \/ LosePower
    BY <2>2, KeptComplete DEF LatePost, Checkpoint, LosePower, viewVars, store, syncVars,
                              pubVars, AllComplete, Replicas
  <2> QED BY <2>1, <2>2, PublishesComplete, SyncsHaveAll, WorkspaceComplete, ReloadComplete
             DEF Next
<1> QED BY <1>1, <1>2 DEF AllComplete, Replicas

(* Every entry anybody holds comes with its object (NoDangling), even when  *)
(* the provider loses power.                                                *)
THEOREM NothingDangles == Spec => []NoDangling
<1>1. Init => TypeOK /\ AllComplete
  BY InitType, CompleteInit
<1>2. TypeOK /\ AllComplete /\ [Next]_vars => TypeOK' /\ AllComplete'
  BY NextType, CompleteStep
<1>3. AllComplete => NoDangling
  BY DEF AllComplete, ProviderComplete, ShownComplete, StoreComplete, Complete, NoDangling
<1> QED BY <1>1, <1>2, <1>3, PTL DEF Spec

-----------------------------------------------------------------------------
(* A finished sync: SyncInv, which says why it is complete, is kept.        *)

(* The provider's logs never shrink.                                        *)
LEMMA LogsGrow ==
  ASSUME ~PowerLoss, TypeOK, [Next]_vars
  PROVE  \A u \in Users : /\ Len(log[u]) \in Nat /\ Len(log'[u]) \in Nat
                          /\ Len(log[u]) <= Len(log'[u])
<1> SUFFICES ASSUME NEW u \in Users
             PROVE  /\ Len(log[u]) \in Nat /\ Len(log'[u]) \in Nat
                    /\ Len(log[u]) <= Len(log'[u])
  OBVIOUS
<1>1. log \in Logs /\ log[u] \in Seq(Objects)
  BY LogsFacts DEF TypeOK, TypeProvider
<1>2. CASE log' = log
  BY <1>1, <1>2
<1>3. CASE log' # log
  <2>1. Next
    BY <1>3 DEF vars, provider
  <2>2. PICK w \in Users, o \in Objects : log' = [log EXCEPT ![w] = Append(@, o)]
    BY <1>3, <2>1, AppendsOne
  <2>3. log'[u] = log[u] \/ log'[u] = Append(log[u], o)
    BY <1>1, <2>2 DEF Logs
  <2> QED BY <1>1, <2>3
<1> QED BY <1>2, <1>3

SyncFacts(v, u) ==
  /\ peer[v][u] <= Len(log[u])
  /\ syncPc[v] = "logs" /\ u \notin failed[v] => Reaches(v, u)
  /\ syncPc[v] = "saving" /\ u \notin failed[v] => Reached(v, u)

(* A view whose sync does not move, or is over.                             *)
LEMMA SyncStays ==
  ASSUME ~PowerLoss, TypeOK, SyncInv, [Next]_vars, NEW v \in Views, NEW u \in Users,
         /\ syncPc'[v] = syncPc[v] /\ nextLog'[v] = nextLog[v] /\ peer'[v] = peer[v]
         /\ asked'[v] = asked[v] /\ ready'[v] = ready[v] /\ batch'[v] = batch[v]
         /\ failed'[v] = failed[v]
  PROVE  SyncFacts(v, u)'
<1>1. peer[v][u] \in Nat /\ peer[v][u] <= Len(log[u])
  BY DEF TypeOK, TypeSync, SyncInv
<1>2. peer'[v][u] <= Len(log'[u])
  BY <1>1, LogsGrow
<1>3. syncPc'[v] = "logs" /\ u \notin failed'[v] => Reaches(v, u)'
  BY DEF SyncInv, Reaches, Reached
<1>4. syncPc'[v] = "saving" /\ u \notin failed'[v] => Reached(v, u)'
  BY DEF SyncInv, Reached
<1> QED BY <1>2, <1>3, <1>4 DEF SyncFacts

LEMMA SyncStops ==
  ASSUME ~PowerLoss, TypeOK, [Next]_vars, NEW v \in Views, NEW u \in Users,
         syncPc'[v] = "idle", peer'[v] = [w \in Users |-> 0]
  PROVE  SyncFacts(v, u)'
BY LogsGrow DEF SyncFacts

LEMMA SyncStepStart ==
  ASSUME ~PowerLoss, TypeOK, SyncInv, [Next]_vars, NEW v \in Views, NEW u \in Users,
         SyncStart(v) \/ GetHeads(v) \/ SyncFails(v)
  PROVE  SyncFacts(v, u)'
<1>1. CASE SyncStart(v)
  <2>1. syncPc'[v] = "heads" /\ peer' = peer
    BY <1>1 DEF SyncStart, TypeOK, TypeSync
  <2>2. peer[v][u] \in Nat /\ peer[v][u] <= Len(log[u])
    BY DEF TypeOK, TypeSync, SyncInv
  <2> QED BY <2>1, <2>2, LogsGrow DEF SyncFacts
<1>2. CASE GetHeads(v)
  <2>1. /\ syncPc'[v] = "logs" /\ peer'[v] = Heads /\ nextLog' = nextLog /\ log' = log
        /\ asked'[v] = Wants(nextLog[v], Heads)
    BY <1>2 DEF GetHeads, TypeOK, TypeSync, provider
  <2>2. peer'[v][u] = Len(log[u]) /\ (u \in asked'[v] <=> Len(log[u]) > Len(nextLog[v][u]))
    BY <2>1 DEF Wants, Heads
  <2>3. Len(log[u]) \in Nat /\ Len(nextLog[v][u]) \in Nat
    BY LogsFacts DEF TypeOK, TypeProvider, TypeSync
  <2>4. Reaches(v, u)'
    <3>1. u \in asked'[v] \/ Len(nextLog'[v][u]) >= peer'[v][u]
      BY <2>1, <2>2, <2>3
    <3> QED BY <3>1 DEF Reaches, Reached
  <2> QED BY <2>1, <2>2, <2>3, <2>4 DEF SyncFacts
<1>3. CASE SyncFails(v)
  <2>1. syncPc'[v] = "idle" /\ peer'[v] = [w \in Users |-> 0]
    BY <1>3 DEF SyncFails, SyncIdle, TypeOK, TypeSync
  <2> QED BY <2>1, SyncStops
<1> QED BY <1>1, <1>2, <1>3

(* A log reply: what it brings closes the gap to the advertised head.       *)
LEMMA SyncStepLog ==
  ASSUME ~PowerLoss, TypeOK, SyncInv, [Next]_vars, NEW v \in Views, NEW u \in Users,
         NEW w \in Users, GetLog(v, w)
  PROVE  SyncFacts(v, u)'
<1>1. /\ syncPc[v] = "logs" /\ syncPc' = syncPc /\ nextLog' = nextLog /\ peer' = peer
      /\ log' = log /\ asked'[v] = asked[v] \ {w}
  BY DEF GetLog, TypeOK, TypeSync, provider
<1>2. peer[v][u] \in Nat /\ peer[v][u] <= Len(log[u])
  BY DEF TypeOK, TypeSync, SyncInv
<1>3. CASE /\ batch' = [batch EXCEPT ![v][w] = LogSince(w, Len(nextLog[v][w]))]
           /\ ready' = [ready EXCEPT ![v] = @ \cup {w}] /\ failed' = failed
  <2>1. /\ w \in ready'[v] /\ ready[v] \subseteq ready'[v]
        /\ batch'[v][w] = LogSince(w, Len(nextLog[v][w]))
        /\ u # w => batch'[v][u] = batch[v][u]
    BY <1>3 DEF TypeOK, TypeSync, Logs
  <2>2. CASE u = w
    <3> DEFINE n == Len(nextLog[v][u])
               m == Len(log[u])
    <3>1. log[u] \in Seq(Objects) /\ m \in Nat /\ n \in Nat
      BY LogsFacts DEF TypeOK, TypeProvider, TypeSync
    <3>2. batch'[v][u] = SubSeq(log[u], n + 1, m)
      BY <2>1, <2>2 DEF LogSince
    <3>3. /\ Len(SubSeq(log[u], n + 1, m)) \in Nat
          /\ n + Len(SubSeq(log[u], n + 1, m)) >= m
      <4> HIDE DEF n, m
      <4>1. \A s \in Seq(Objects), a \in Nat, b \in Nat : b = Len(s) =>
              Len(SubSeq(s, a + 1, b)) \in Nat /\ a + Len(SubSeq(s, a + 1, b)) >= b
        OBVIOUS
      <4> QED BY <3>1, <4>1 DEF m
    <3>4. n + Len(batch'[v][u]) >= peer[v][u]
      <4>1. Len(batch'[v][u]) \in Nat /\ n + Len(batch'[v][u]) >= m /\ peer[v][u] <= m
        BY <1>2, <3>2, <3>3
      <4> HIDE DEF n, m
      <4> QED BY <1>2, <3>1, <4>1
    <3>5. Reaches(v, u)'
      BY <1>1, <2>1, <2>2, <3>4 DEF Reaches
    <3> QED BY <1>1, <1>2, <3>5 DEF SyncFacts
  <2>3. CASE u # w
    <3>1. u \notin failed[v] => Reaches(v, u)
      BY <1>1 DEF SyncInv
    <3>2. u \notin failed'[v] => Reaches(v, u)'
      BY <1>1, <1>3, <2>1, <2>3, <3>1 DEF Reaches, Reached
    <3> QED BY <1>1, <1>2, <3>2 DEF SyncFacts
  <2> QED BY <2>2, <2>3
<1>4. CASE failed' = [failed EXCEPT ![v] = @ \cup {w}] /\ UNCHANGED <<batch, ready>>
  <2>1. failed'[v] = failed[v] \cup {w}
    BY <1>4 DEF TypeOK, TypeSync
  <2>2. u \notin failed[v] => Reaches(v, u)
    BY <1>1 DEF SyncInv
  <2>3. u \notin failed'[v] => Reaches(v, u)'
    BY <1>1, <1>4, <2>1, <2>2 DEF Reaches, Reached
  <2> QED BY <1>1, <1>2, <2>3 DEF SyncFacts
<1> QED BY <1>3, <1>4 DEF GetLog

LEMMA SyncStepLost ==
  ASSUME ~PowerLoss, TypeOK, SyncInv, [Next]_vars, NEW v \in Views, NEW u \in Users,
         LogsFail(v)
  PROVE  SyncFacts(v, u)'
<1>1. /\ syncPc[v] = "logs" /\ syncPc' = syncPc /\ nextLog' = nextLog /\ peer' = peer
      /\ log' = log /\ failed'[v] = failed[v] \cup asked[v] \cup ready[v]
  BY DEF LogsFail, TypeOK, TypeSync, provider
<1>2. peer[v][u] <= Len(log[u])
  BY DEF SyncInv
<1>3. u \notin failed[v] => Reaches(v, u)
  BY <1>1 DEF SyncInv
<1>4. u \notin failed'[v] => Reached(v, u)
  BY <1>1, <1>3 DEF Reaches
<1>5. u \notin failed'[v] => Reaches(v, u)'
  BY <1>1, <1>4 DEF Reaches, Reached
<1> QED BY <1>1, <1>2, <1>5 DEF SyncFacts

(* Merging an author makes its log as long as was promised, or reports it.  *)
LEMMA SyncStepMerge ==
  ASSUME ~PowerLoss, TypeOK, SyncInv, [Next]_vars, NEW v \in Views, NEW u \in Users,
         NEW w \in Users, GetObjects(v, w)
  PROVE  SyncFacts(v, u)'
<1>1. /\ syncPc[v] = "logs" /\ syncPc' = syncPc /\ peer' = peer /\ asked' = asked
      /\ asked[v] = {} /\ log' = log /\ ready'[v] = ready[v] \ {w}
      /\ u # w => batch'[v][u] = batch[v][u]
  BY DEF GetObjects, TypeOK, TypeSync, Logs, provider
<1>2. peer[v][u] \in Nat /\ peer[v][u] <= Len(log[u])
  BY DEF TypeOK, TypeSync, SyncInv
<1>3. u \notin failed[v] => Reaches(v, u)
  BY <1>1 DEF SyncInv
<1>4. nextLog[v][u] \in Seq(Objects) /\ batch[v][u] \in Seq(Objects)
  BY LogsFacts DEF TypeOK, TypeSync
<1>5. CASE nextLog' = [nextLog EXCEPT ![v] = Merge(@, w, batch[v][w])] /\ failed' = failed
  <2>1. nextLog'[v][u] = IF u = w THEN nextLog[v][u] \o batch[v][u] ELSE nextLog[v][u]
    BY <1>5 DEF Merge, TypeOK, TypeSync, Logs
  <2>2. Len(nextLog[v][u] \o batch[v][u]) = Len(nextLog[v][u]) + Len(batch[v][u])
        /\ Len(nextLog[v][u]) \in Nat /\ Len(batch[v][u]) \in Nat
    BY <1>4
  <2>3. u \notin failed'[v] => Reaches(v, u)'
    <3>1. ASSUME u = w, u \notin failed'[v] PROVE Reached(v, u)'
      <4>1. \/ Len(nextLog[v][u]) + Len(batch[v][u]) >= peer[v][u]
            \/ Len(nextLog[v][u]) >= peer[v][u]
        BY <1>1, <1>3, <1>5, <3>1 DEF Reaches, Reached
      <4>2. Len(nextLog'[v][u]) = Len(nextLog[v][u]) + Len(batch[v][u])
        BY <2>1, <2>2, <3>1
      <4>3. Len(nextLog'[v][u]) >= peer[v][u]
        <5>1. \A a, b, c, p \in Nat : c = a + b /\ (a + b >= p \/ a >= p) => c >= p
          OBVIOUS
        <5>2. \A a, b \in Nat : a + b \in Nat
          OBVIOUS
        <5>3. Len(nextLog'[v][u]) \in Nat
          BY <2>2, <4>2, <5>2
        <5> QED BY <1>2, <2>2, <4>1, <4>2, <5>1, <5>3
      <4> QED BY <1>1, <4>3 DEF Reached
    <3>2. CASE u # w
      BY <1>1, <1>3, <1>5, <2>1, <3>2 DEF Reaches, Reached
    <3> QED BY <3>1, <3>2 DEF Reaches
  <2> QED BY <1>1, <1>2, <2>3 DEF SyncFacts
<1>6. CASE failed' = [failed EXCEPT ![v] = @ \cup {w}] /\ nextLog' = nextLog
  <2>1. failed'[v] = failed[v] \cup {w}
    BY <1>6 DEF TypeOK, TypeSync
  <2>2. u \notin failed'[v] => Reaches(v, u)'
    BY <1>1, <1>3, <1>6, <2>1 DEF Reaches, Reached
  <2> QED BY <1>1, <1>2, <2>2 DEF SyncFacts
<1> QED BY <1>5, <1>6 DEF GetObjects

LEMMA SyncStepEnd ==
  ASSUME ~PowerLoss, TypeOK, SyncInv, [Next]_vars, NEW v \in Views, NEW u \in Users,
         Synced(v) \/ Save(v)
  PROVE  SyncFacts(v, u)'
<1>1. CASE Synced(v)
  <2>1. /\ syncPc[v] = "logs" /\ asked[v] = {} /\ ready[v] = {} /\ syncPc'[v] = "saving"
        /\ UNCHANGED <<log, nextLog, peer, failed>>
    BY <1>1 DEF Synced, TypeOK, TypeSync, provider
  <2>2. u \notin failed[v] => Reached(v, u)
    BY <2>1 DEF SyncInv, Reaches
  <2>3. peer[v][u] <= Len(log[u])
    BY DEF SyncInv
  <2> QED BY <2>1, <2>2, <2>3 DEF SyncFacts, Reached
<1>2. CASE Save(v)
  <2>1. CASE SyncIdle(v)
    <3>1. syncPc'[v] = "idle" /\ peer'[v] = [w \in Users |-> 0]
      BY <2>1 DEF SyncIdle, TypeOK, TypeSync
    <3> QED BY <3>1, SyncStops
  <2>2. CASE UNCHANGED <<syncPc, nextLog, nextObj, peer, failed>>
    BY <1>2, <2>2, SyncStays DEF Save
  <2> QED BY <1>2, <2>1, <2>2 DEF Save
<1> QED BY <1>1, <1>2

LEMMA SyncInvStep ==
  ASSUME ~PowerLoss, TypeOK, SyncInv, [Next]_vars PROVE SyncInv'
<1> SUFFICES ASSUME NEW v \in Views, NEW u \in Users PROVE SyncFacts(v, u)'
  BY DEF SyncInv, SyncFacts
<1>0. ASSUME UNCHANGED syncVars PROVE SyncFacts(v, u)'
  BY <1>0, SyncStays DEF syncVars
<1>1. CASE UNCHANGED vars
  BY <1>0, <1>1 DEF vars
<1>2. CASE LatePost \/ Checkpoint \/ LosePower
  BY <1>0, <1>2 DEF LatePost, Checkpoint, LosePower
<1>3. ASSUME NEW w \in Users, Reload(w) PROVE SyncFacts(v, u)'
  <2>1. \/ syncPc'[v] = "idle" /\ peer'[v] = [a \in Users |-> 0]
        \/ /\ syncPc'[v] = syncPc[v] /\ nextLog'[v] = nextLog[v] /\ peer'[v] = peer[v]
           /\ asked'[v] = asked[v] /\ ready'[v] = ready[v] /\ batch'[v] = batch[v]
           /\ failed'[v] = failed[v]
    BY <1>3 DEF Reload
  <2> QED BY <2>1, SyncStays, SyncStops
<1>4. ASSUME NEW x \in Views,
             \/ PublishStart(x) \/ PutObject(x) \/ ObjectStored(x) \/ PutEntry(x)
             \/ Published(x) \/ PublishRefused(x) \/ PublishTimesOut(x)
             \/ Mount(x) \/ Load(x) \/ Unmount(x) \/ \E w \in Users : ResetAuthor(x, w)
      PROVE  SyncFacts(v, u)'
  BY <1>0, <1>4 DEF PublishStart, PutObject, ObjectStored, PutEntry, Published,
                    PublishRefused, PublishTimesOut, Mount, Load, Unmount, ResetAuthor
<1>5. ASSUME NEW x \in Views,
             \/ SyncStart(x) \/ GetHeads(x) \/ SyncFails(x) \/ LogsFail(x) \/ Synced(x)
             \/ Save(x) \/ \E w \in Users : GetLog(x, w) \/ GetObjects(x, w)
      PROVE  SyncFacts(v, u)'
  <2>1. CASE x = v
    BY <1>5, <2>1, SyncStepStart, SyncStepLog, SyncStepLost, SyncStepMerge, SyncStepEnd
  <2>2. CASE x # v
    <3>1. CASE SyncStart(x) \/ GetHeads(x) \/ SyncFails(x)
      BY <2>2, <3>1, SyncStays DEF SyncStart, GetHeads, SyncFails, SyncIdle, TypeOK, TypeSync
    <3>2. CASE LogsFail(x) \/ Synced(x)
      <4>1. CASE LogsFail(x)
        BY <2>2, <4>1, SyncStays DEF LogsFail, TypeOK, TypeSync
      <4>2. CASE Synced(x)
        BY <2>2, <4>2, SyncStays DEF Synced, TypeOK, TypeSync
      <4> QED BY <3>2, <4>1, <4>2
    <3>3. CASE Save(x)
      BY <2>2, <3>3, SyncStays DEF Save, SyncIdle, TypeOK, TypeSync
    <3>4. ASSUME NEW w \in Users, GetLog(x, w) \/ GetObjects(x, w) PROVE SyncFacts(v, u)'
      BY <2>2, <3>4, SyncStays DEF GetLog, GetObjects, TypeOK, TypeSync
    <3> QED BY <1>5, <3>1, <3>2, <3>3, <3>4
  <2> QED BY <2>1, <2>2
<1> QED BY <1>1, <1>2, <1>3, <1>4, <1>5 DEF Next

(* A finished sync has every author it did not report as failed at least up *)
(* to the head that was advertised to it (SyncComplete): no reply lost,     *)
(* object refused or author given up on the way goes unreported.            *)
THEOREM SyncsComplete == ASSUME ~PowerLoss PROVE Spec => []SyncComplete
<1>1. Init => SyncInv
  BY DEF Init, SyncInv, NoLogs
<1>2. TypeOK /\ SyncInv /\ [Next]_vars => TypeOK' /\ SyncInv'
  BY NextType, SyncInvStep
<1>3. SyncInv => SyncComplete
  BY DEF SyncInv, SyncComplete, Reached
<1> QED BY <1>1, <1>2, <1>3, InitType, PTL DEF Spec

-----------------------------------------------------------------------------
(* What is accepted is what was signed: SignedInv is kept.                  *)
LEMMA SubSeqFacts ==
  ASSUME NEW S, NEW s \in Seq(S), NEW e \in S
  PROVE  /\ SubSeq(s, 1, Len(s)) = s
         /\ \A n \in 0..Len(s) : SubSeq(Append(s, e), 1, n) = SubSeq(s, 1, n)
         /\ Front(Append(s, e)) = s
<1> DEFINE t == Append(s, e)
<1>1. /\ t \in Seq(S) /\ Len(t) = Len(s) + 1 /\ Len(s) \in Nat
      /\ \A i \in 1..Len(s) : t[i] = s[i]
  OBVIOUS
<1> HIDE DEF t
<1>2. SubSeq(s, 1, Len(s)) \in Seq(S) /\ Len(SubSeq(s, 1, Len(s))) = Len(s)
      /\ \A i \in 1..Len(s) : SubSeq(s, 1, Len(s))[i] = s[i]
  OBVIOUS
<1>3. SubSeq(s, 1, Len(s)) = s
  BY <1>2, SeqEqual
<1>4. ASSUME NEW n \in 0..Len(s) PROVE SubSeq(t, 1, n) = SubSeq(s, 1, n)
  <2>1. /\ SubSeq(t, 1, n) \in Seq(S) /\ Len(SubSeq(t, 1, n)) = n
        /\ \A i \in 1..n : SubSeq(t, 1, n)[i] = t[i]
    BY <1>1
  <2>2. /\ SubSeq(s, 1, n) \in Seq(S) /\ Len(SubSeq(s, 1, n)) = n
        /\ \A i \in 1..n : SubSeq(s, 1, n)[i] = s[i]
    BY <1>1
  <2>3. \A i \in 1..n : t[i] = s[i]
    BY <1>1
  <2> QED BY <2>1, <2>2, <2>3, SeqEqual
<1>5. Front(t) = SubSeq(t, 1, Len(s))
  BY <1>1 DEF Front
<1> QED BY <1>1, <1>3, <1>4, <1>5 DEF t

LEMMA FrontLast ==
  ASSUME NEW S, NEW h \in Seq(S), h # <<>>
  PROVE  /\ Front(h) \in Seq(S) /\ Last(h) \in S /\ h = Append(Front(h), Last(h))
         /\ Len(Front(h)) = Len(h) - 1
<1> DEFINE n == Len(h)
           f == Front(h)
<1>1. n \in Nat /\ n > 0
  OBVIOUS
<1>2. f \in Seq(S) /\ Len(f) = n - 1 /\ \A i \in 1..(n - 1) : f[i] = h[i]
  <2>1. \A k \in 0..Len(h) : /\ SubSeq(h, 1, k) \in Seq(S) /\ Len(SubSeq(h, 1, k)) = k
                             /\ \A i \in 1..k : SubSeq(h, 1, k)[i] = h[i]
    OBVIOUS
  <2>2. n - 1 \in 0..Len(h)
    BY <1>1
  <2>3. f = SubSeq(h, 1, n - 1)
    BY DEF Front
  <2> QED BY <2>1, <2>2, <2>3
<1>3. Last(h) \in S /\ Last(h) = h[n]
  BY <1>1 DEF Last
<1> HIDE DEF n, f
<1>4. /\ Append(f, Last(h)) \in Seq(S) /\ Len(Append(f, Last(h))) = n
      /\ \A i \in 1..(n - 1) : Append(f, Last(h))[i] = h[i]
      /\ Append(f, Last(h))[n] = h[n]
  BY <1>1, <1>2, <1>3
<1>5. \A i \in 1..n : Append(f, Last(h))[i] = h[i]
  BY <1>1, <1>4
<1>6. h = Append(f, Last(h))
  BY <1>4, <1>5, SeqEqual DEF n
<1> QED BY <1>2, <1>3, <1>6 DEF f, n

(* A beginning of the provider's log was signed, as the log was.            *)
LEMMA BeginningSigned ==
  ASSUME HistoriesSigned, NEW u \in Users, log[u] \in Seq(Objects),
         NEW s \in Seq(Objects), IsPrefix(s, log[u])
  PROVE  s \in signed[u]
<1>1. Len(s) \in 0..Len(log[u]) /\ SubSeq(log[u], 1, Len(s)) = SubSeq(s, 1, Len(s))
  <2>1. Len(s) \in Nat /\ Len(log[u]) \in Nat
    OBVIOUS
  <2> QED BY <2>1 DEF IsPrefix
<1>2. SubSeq(s, 1, Len(s)) = s
  <2>1. SubSeq(s, 1, Len(s)) \in Seq(Objects) /\ Len(SubSeq(s, 1, Len(s))) = Len(s)
        /\ \A i \in 1..Len(s) : SubSeq(s, 1, Len(s))[i] = s[i]
    OBVIOUS
  <2> QED BY <2>1, SeqEqual
<1> QED BY <1>1, <1>2 DEF HistoriesSigned

LEMMA AllGrow == ASSUME ~PowerLoss, TypeOK, [Next]_vars PROVE \A u \in Users : Grows(u)
<1>1. CASE log' = log
  BY <1>1 DEF Grows
<1>2. CASE log' # log
  <2>1. Next
    BY <1>2 DEF vars, provider
  <2>2. PICK w \in Users, o \in Objects : log' = [log EXCEPT ![w] = Append(@, o)]
    BY <1>2, <2>1, AppendsOne
  <2> QED BY <2>2 DEF Grows, TypeOK, TypeProvider, Logs
<1> QED BY <1>1, <1>2

(* The provider appends a history as it was signed, or not at all.          *)
LEMMA Accepts ==
  ASSUME TypeOK, NEW u \in Users, NEW h \in Seq(Objects), h # <<>>,
         IsPrefix(Front(h), log[u]), Appendable(u, h), AppendEntry(u, h)
  PROVE  log'[u] = h /\ \A w \in Users : w # u => log'[w] = log[w]
<1>1. log \in Logs /\ log[u] \in Seq(Objects)
  BY LogsFacts DEF TypeOK, TypeProvider
<1>2. Front(h) \in Seq(Objects) /\ h = Append(Front(h), Last(h))
      /\ Len(Front(h)) = Len(h) - 1
  BY FrontLast
<1>3. Front(h) = log[u]
  BY <1>1, <1>2, PrefixSame DEF Appendable
<1>4. log'[u] = Append(log[u], Last(h)) /\ \A w \in Users : w # u => log'[w] = log[w]
  BY <1>1 DEF AppendEntry, Logs
<1> QED BY <1>2, <1>3, <1>4

LEMMA LogsSigned ==
  ASSUME TypeOK, InFlightConsistent, SignedInv, [Next]_vars, ~PowerLoss
  PROVE  \A u \in Users : log'[u] \in signed[u]
<1>0. \A u \in Users : log[u] \in signed[u]
  BY DEF SignedInv, HistoriesSigned
<1>1. CASE log' = log
  BY <1>0, <1>1
<1>2. CASE log' # log
  <2>0. Next
    BY <1>2 DEF vars, provider
  <2>1. ASSUME NEW v \in Views, PutEntry(v) PROVE \A u \in Users : log'[u] \in signed[u]
    <3>1. Appendable(Owner[v], Signs(v)) /\ AppendEntry(Owner[v], Signs(v))
      BY <1>2, <2>1 DEF PutEntry
    <3>2. /\ Owner[v] \in Users /\ Signs(v) \in Seq(Objects) /\ Signs(v) # <<>>
          /\ pubObj[v] \in Objects /\ baseLog[v][Owner[v]] \in Seq(Objects)
      BY <2>1, SignsType, PortalAssumption, LogsFacts DEF PutEntry, TypeOK, TypePub
    <3>3. Front(Signs(v)) = baseLog[v][Owner[v]]
      BY <3>2, SubSeqFacts DEF Signs
    <3>4. IsPrefix(Front(Signs(v)), log[Owner[v]])
      BY <3>2, <3>3 DEF InFlightConsistent, ReplicasFit, BaseBegin, Begins
    <3>5. Signs(v) \in signed[Owner[v]]
      BY <2>1 DEF PutEntry, SignedInv, PublishesSigned
    <3>6. /\ log'[Owner[v]] = Signs(v)
          /\ \A w \in Users : w # Owner[v] => log'[w] = log[w]
      BY <3>1, <3>2, <3>4, Accepts
    <3> QED BY <1>0, <3>5, <3>6
  <2>2. ASSUME LatePost PROVE \A u \in Users : log'[u] \in signed[u]
    <3>1. PICK m \in late : Appendable(m[2], m[3]) /\ AppendEntry(m[2], m[3])
      BY <1>2, <2>2 DEF LatePost
    <3>2. m[2] \in Users /\ m[3] \in Seq(Objects) /\ m[3] # <<>>
      BY LateType
    <3>3. m[3] \in signed[m[2]] /\ IsPrefix(Front(m[3]), log[m[2]])
      BY DEF SignedInv, LateSigned
    <3>4. log'[m[2]] = m[3] /\ \A w \in Users : w # m[2] => log'[w] = log[w]
      BY <3>1, <3>2, <3>3, Accepts
    <3> QED BY <1>0, <3>3, <3>4
  <2>3. LatePost \/ \E v \in Views : PutEntry(v)
    BY <1>2, <2>0, OnlyPostsAppend
  <2> QED BY <2>1, <2>2, <2>3
<1> QED BY <1>1, <1>2

(* Whoever has the provider's answer was told of an entry in its log.       *)
LEMMA AnsweredStored ==
  ASSUME TypeOK, InFlightConsistent, NEW v \in Views, pubPc[v] = "entry", answer[v] = "ok"
  PROVE  pubObj[v] \in ToSet(log[Owner[v]])
<1> DEFINE h == Signs(v)
           u == Owner[v]
<1>1. /\ u \in Users /\ h \in Seq(Objects) /\ h # <<>> /\ Last(h) = pubObj[v]
  BY SignsType, PortalAssumption
<1>2. log[u] \in Seq(Objects)
  BY <1>1, LogsFacts DEF TypeOK, TypeProvider
<1>3. IsPrefix(h, log[u])
  BY DEF InFlightConsistent, ReplicasFit, AnswerTrue
<1> HIDE DEF h, u
<1>4. Len(h) \in 1..Len(log[u]) /\ log[u][Len(h)] = h[Len(h)]
  <2>1. Len(h) <= Len(log[u]) /\ \A i \in 1..Len(h) : h[i] = log[u][i]
    BY <1>1, <1>2, <1>3, PrefixDef
  <2>2. Len(h) \in 1..Len(h) /\ Len(log[u]) \in Nat
    BY <1>1, <1>2
  <2> QED BY <2>1, <2>2
<1>5. Len(h) \in DOMAIN log[u] /\ log[u][Len(h)] = pubObj[v]
  BY <1>1, <1>2, <1>4 DEF Last
<1> QED BY <1>5 DEF ToSet, u

LEMMA AckedKept ==
  ASSUME TypeOK, InFlightConsistent, AckedStored, [Next]_vars, ~PowerLoss
  PROVE  AckedStored'
<1>0. \A u \in Users : Grows(u)
  BY AllGrow
<1>1. \A u \in Users : ToSet(log[u]) \subseteq ToSet(log'[u])
  <2>1. ASSUME NEW u \in Users PROVE ToSet(log[u]) \subseteq ToSet(log'[u])
    <3>1. log[u] \in Seq(Objects)
      BY LogsFacts DEF TypeOK, TypeProvider
    <3>2. log'[u] = log[u] \/ \E o \in Objects : log'[u] = Append(log[u], o)
      BY <1>0 DEF Grows
    <3>3. ASSUME NEW o \in Objects, log'[u] = Append(log[u], o)
          PROVE  ToSet(log[u]) \subseteq ToSet(log'[u])
      <4>1. ToSet(log'[u]) = ToSet(log[u]) \cup {o}
        BY <3>1, <3>3, ToSetAppend
      <4> QED BY <4>1
    <3> QED BY <3>2, <3>3
  <2> QED BY <2>1
<1>2. ASSUME NEW a \in acked PROVE a[2] \in ToSet(log'[Owner[a[1]]])
  <2>1. a[1] \in Views /\ Owner[a[1]] \in Users
    BY PortalAssumption DEF TypeOK, TypeGhosts
  <2>2. a[2] \in ToSet(log[Owner[a[1]]])
    BY DEF AckedStored
  <2> QED BY <1>1, <2>1, <2>2
<1>3. CASE acked' = acked
  BY <1>2, <1>3 DEF AckedStored
<1>4. ASSUME NEW v \in Views, Published(v) PROVE AckedStored'
  <2>1. acked' = acked \cup {<<v, pubObj[v]>>} /\ log' = log
    BY <1>4 DEF Published, provider
  <2>2. pubObj[v] \in ToSet(log[Owner[v]])
    BY <1>4, AnsweredStored DEF Published
  <2> QED BY <1>2, <2>1, <2>2 DEF AckedStored
<1>5. acked' = acked \/ \E v \in Views : Published(v)
  <2> USE DEF ghosts
  <2>1. ASSUME LatePost \/ Checkpoint \/ LosePower \/ UNCHANGED vars PROVE acked' = acked
    BY <2>1 DEF LatePost, Checkpoint, LosePower, vars
  <2>2. ASSUME NEW u \in Users, Reload(u) PROVE acked' = acked
    BY <2>2 DEF Reload
  <2>3. ASSUME NEW v \in Views,
               \/ PublishStart(v) \/ PutObject(v) \/ ObjectStored(v) \/ PutEntry(v)
               \/ PublishRefused(v) \/ PublishTimesOut(v)
        PROVE  acked' = acked
    BY <2>3 DEF PublishStart, PutObject, ObjectStored, PutEntry, PublishRefused,
                PublishTimesOut
  <2>4. ASSUME NEW v \in Views,
               \/ SyncStart(v) \/ GetHeads(v) \/ SyncFails(v) \/ LogsFail(v) \/ Synced(v)
               \/ \E u \in Users : GetLog(v, u) \/ GetObjects(v, u) \/ ResetAuthor(v, u)
        PROVE  acked' = acked
    BY <2>4 DEF SyncStart, GetHeads, SyncFails, LogsFail, Synced, GetLog, GetObjects,
                ResetAuthor
  <2>5. ASSUME NEW v \in Views, Mount(v) \/ Load(v) \/ Save(v) \/ Unmount(v)
        PROVE  acked' = acked
    BY <2>5 DEF Mount, Load, Save, Unmount
  <2> QED BY <2>1, <2>2, <2>3, <2>4, <2>5 DEF Next
<1> QED BY <1>3, <1>4, <1>5

(* Pressing publish signs the log the view shows, with the object behind it.*)
LEMMA SignsMore ==
  ASSUME TypeOK, InFlightConsistent, HistoriesSigned, NEW v \in Views, PublishStart(v)
  PROVE  /\ \A u \in Users : signed[u] \subseteq signed'[u]
         /\ \A u \in Users : \A h \in signed'[u] : \A n \in 0..Len(h) :
              SubSeq(h, 1, n) \in signed'[u]
         /\ Signs(v)' \in signed'[Owner[v]]
<1> DEFINE u == Owner[v]
           s == shownLog[v][u]
<1>1. PICK o \in Posts[v] :
        /\ pubObj' = [pubObj EXCEPT ![v] = o]
        /\ signed' = [signed EXCEPT ![u] = @ \cup {Append(s, o)}]
  BY DEF PublishStart
<1>2. baseLog' = [baseLog EXCEPT ![v] = shownLog[v]] /\ v \in Views /\ u \in Users
  BY PortalAssumption DEF PublishStart
<1>3. o \in Objects /\ s \in Seq(Objects) /\ log[u] \in Seq(Objects)
  BY <1>2, PostsType, LogsFacts DEF TypeOK, TypeViews, TypeProvider
<1>4. Signs(v)' = Append(s, o)
  BY <1>1, <1>2 DEF Signs, TypeOK, TypePub
<1>5. signed'[u] = signed[u] \cup {Append(s, o)}
      /\ \A w \in Users : w # u => signed'[w] = signed[w]
  BY <1>1, <1>2 DEF TypeOK, TypeGhosts
<1>6. ASSUME NEW n \in 0..Len(Append(s, o)) PROVE SubSeq(Append(s, o), 1, n) \in signed'[u]
  <2>0. Append(s, o) \in Seq(Objects) /\ Len(Append(s, o)) = Len(s) + 1 /\ Len(s) \in Nat
    BY <1>3
  <2>1. CASE n = Len(s) + 1
    <3>1. SubSeq(Append(s, o), 1, n) = Append(s, o)
      BY <1>3, <2>0, <2>1, SubSeqFacts
    <3> QED BY <1>5, <3>1
  <2>2. CASE n # Len(s) + 1
    <3>1. n \in 0..Len(s)
      BY <2>0, <2>2
    <3>2. SubSeq(Append(s, o), 1, n) = SubSeq(s, 1, n)
      BY <1>3, <3>1, SubSeqFacts
    <3>3. s \in signed[u]
      BY <1>2, <1>3, BeginningSigned DEF InFlightConsistent, ReplicasFit, ShownBegin, Begins
    <3>4. SubSeq(s, 1, n) \in signed[u]
      BY <1>2, <3>1, <3>3 DEF HistoriesSigned
    <3> QED BY <1>5, <3>2, <3>4
  <2> QED BY <2>1, <2>2
<1> HIDE DEF u, s
<1>7. \A w \in Users : signed[w] \subseteq signed'[w]
  BY <1>5
<1>8. \A w \in Users : \A h \in signed'[w] : \A n \in 0..Len(h) :
        SubSeq(h, 1, n) \in signed'[w]
  BY <1>5, <1>6 DEF HistoriesSigned
<1> QED BY <1>4, <1>5, <1>7, <1>8 DEF u

(* Nothing else is signed, and what was stays under way as it was signed.   *)
LEMMA SignsOnlyAtStart ==
  ASSUME [Next]_vars PROVE signed' = signed \/ \E v \in Views : PublishStart(v)
<1> USE DEF ghosts
<1>1. ASSUME LatePost \/ Checkpoint \/ LosePower \/ UNCHANGED vars PROVE signed' = signed
  BY <1>1 DEF LatePost, Checkpoint, LosePower, vars
<1>2. ASSUME NEW u \in Users, Reload(u) PROVE signed' = signed
  BY <1>2 DEF Reload
<1>3. ASSUME NEW v \in Views,
             \/ PutObject(v) \/ ObjectStored(v) \/ PutEntry(v) \/ Published(v)
             \/ PublishRefused(v) \/ PublishTimesOut(v)
      PROVE  signed' = signed
  BY <1>3 DEF PutObject, ObjectStored, PutEntry, Published, PublishRefused, PublishTimesOut
<1>4. ASSUME NEW v \in Views,
             \/ SyncStart(v) \/ GetHeads(v) \/ SyncFails(v) \/ LogsFail(v) \/ Synced(v)
             \/ \E u \in Users : GetLog(v, u) \/ GetObjects(v, u) \/ ResetAuthor(v, u)
      PROVE  signed' = signed
  BY <1>4 DEF SyncStart, GetHeads, SyncFails, LogsFail, Synced, GetLog, GetObjects,
              ResetAuthor
<1>5. ASSUME NEW v \in Views, Mount(v) \/ Load(v) \/ Save(v) \/ Unmount(v)
      PROVE  signed' = signed
  BY <1>5 DEF Mount, Load, Save, Unmount
<1> QED BY <1>1, <1>2, <1>3, <1>4, <1>5 DEF Next

SignedGrows ==
  /\ \A u \in Users : signed[u] \subseteq signed'[u]
  /\ \A u \in Users : \A h \in signed'[u] : \A n \in 0..Len(h) :
       SubSeq(h, 1, n) \in signed'[u]

LEMMA HistoriesKept ==
  ASSUME TypeOK, InFlightConsistent, SignedInv, [Next]_vars, ~PowerLoss
  PROVE  SignedGrows /\ HistoriesSigned'
<1>1. SignedGrows
  <2>1. CASE signed' = signed
    BY <2>1 DEF SignedInv, HistoriesSigned, SignedGrows
  <2>2. ASSUME NEW v \in Views, PublishStart(v) PROVE SignedGrows
    BY <2>2, SignsMore DEF SignedInv, SignedGrows
  <2> QED BY <2>1, <2>2, SignsOnlyAtStart
<1>2. \A u \in Users : log'[u] \in signed[u]
  BY LogsSigned
<1> QED BY <1>1, <1>2 DEF SignedGrows, HistoriesSigned

(* A publishing under way goes on with what was signed, or is over.         *)
LEMMA PublishesKept ==
  ASSUME TypeOK, InFlightConsistent, SignedInv, [Next]_vars, ~PowerLoss
  PROVE  PublishesSigned'
<1> SUFFICES ASSUME NEW v \in Views, pubPc'[v] \in {"obj", "entry"}
             PROVE  Signs(v)' \in signed'[Owner[v]]
  BY DEF PublishesSigned
<1>0. Owner[v] \in Users
  BY PortalAssumption
<1>a. ASSUME pubPc[v] \in {"obj", "entry"}, pubObj'[v] = pubObj[v], baseLog'[v] = baseLog[v]
      PROVE  Signs(v)' \in signed'[Owner[v]]
  <2>1. Signs(v)' = Signs(v)
    BY <1>a DEF Signs
  <2>2. Signs(v) \in signed[Owner[v]]
    BY <1>a DEF SignedInv, PublishesSigned
  <2> QED BY <1>0, <2>1, <2>2, HistoriesKept DEF SignedGrows
<1>b. ASSUME UNCHANGED pubVars PROVE Signs(v)' \in signed'[Owner[v]]
  BY <1>a, <1>b DEF pubVars
<1>1. ASSUME NEW w \in Views, PublishStart(w) PROVE Signs(v)' \in signed'[Owner[v]]
  <2>1. CASE w = v
    BY <1>1, <2>1, SignsMore DEF SignedInv
  <2>2. CASE w # v
    BY <1>a, <1>1, <2>2 DEF PublishStart, TypeOK, TypePub
  <2> QED BY <2>1, <2>2
<1>2. ASSUME NEW w \in Views, PutObject(w) \/ ObjectStored(w) \/ PutEntry(w)
      PROVE  Signs(v)' \in signed'[Owner[v]]
  BY <1>a, <1>2 DEF PutObject, ObjectStored, PutEntry, TypeOK, TypePub
<1>3. ASSUME NEW w \in Views, Published(w) PROVE Signs(v)' \in signed'[Owner[v]]
  <2>1. w # v
    BY <1>3 DEF Published, TypeOK, TypePub
  <2> QED BY <1>a, <1>3, <2>1 DEF Published, TypeOK, TypePub
<1>4. ASSUME NEW w \in Views, PublishIdle(w) PROVE Signs(v)' \in signed'[Owner[v]]
  <2>1. w # v
    BY <1>4 DEF PublishIdle, TypeOK, TypePub
  <2> QED BY <1>a, <1>4, <2>1 DEF PublishIdle, TypeOK, TypePub
<1>5. ASSUME NEW u \in Users, Reload(u) PROVE Signs(v)' \in signed'[Owner[v]]
  <2>1. /\ pubPc'[v] = pubPc[v] /\ pubObj'[v] = pubObj[v] /\ baseLog'[v] = baseLog[v]
    BY <1>5 DEF Reload
  <2> QED BY <1>a, <2>1
<1>6. ASSUME LatePost \/ Checkpoint \/ LosePower \/ UNCHANGED vars
      PROVE  Signs(v)' \in signed'[Owner[v]]
  BY <1>b, <1>6 DEF LatePost, Checkpoint, LosePower, vars
<1>7. ASSUME NEW w \in Views,
             \/ SyncStart(w) \/ GetHeads(w) \/ SyncFails(w) \/ LogsFail(w) \/ Synced(w)
             \/ \E u \in Users : GetLog(w, u) \/ GetObjects(w, u) \/ ResetAuthor(w, u)
      PROVE  Signs(v)' \in signed'[Owner[v]]
  BY <1>b, <1>7 DEF SyncStart, GetHeads, SyncFails, LogsFail, Synced, GetLog, GetObjects,
                    ResetAuthor
<1>8. ASSUME NEW w \in Views, Mount(w) \/ Load(w) \/ Unmount(w)
      PROVE  Signs(v)' \in signed'[Owner[v]]
  BY <1>b, <1>8 DEF Mount, Load, Unmount
<1>9. ASSUME NEW w \in Views, \/ PublishRefused(w) \/ PublishTimesOut(w) \/ Save(w)
      PROVE  Signs(v)' \in signed'[Owner[v]]
  BY <1>b, <1>4, <1>9 DEF PublishRefused, PublishTimesOut, Save
<1> QED BY <1>1, <1>2, <1>3, <1>5, <1>6, <1>7, <1>8, <1>9 DEF Next

(* A request given up on carries the history signed for it.                 *)
LEMMA GivenUp ==
  ASSUME TypeOK, InFlightConsistent, SignedInv, NEW v \in Views,
         pubPc[v] \in {"obj", "entry"}
  PROVE  /\ Signs(v) \in signed[Owner[v]] /\ Front(Signs(v)) \in Seq(Objects)
         /\ IsPrefix(Front(Signs(v)), log[Owner[v]])
<1>1. pubObj[v] \in Objects /\ Owner[v] \in Users
  BY SignsType, PortalAssumption
<1>2. baseLog[v][Owner[v]] \in Seq(Objects)
  BY <1>1, LogsFacts DEF TypeOK, TypePub
<1>3. Front(Signs(v)) = baseLog[v][Owner[v]]
  BY <1>1, <1>2, SubSeqFacts DEF Signs
<1>4. IsPrefix(baseLog[v][Owner[v]], log[Owner[v]])
  BY <1>1 DEF InFlightConsistent, ReplicasFit, BaseBegin, Begins
<1> QED BY <1>2, <1>3, <1>4 DEF SignedInv, PublishesSigned

LEMMA LateComes ==
  ASSUME [Next]_vars, NEW m \in late'
  PROVE  \/ m \in late
         \/ \E v \in Views : /\ pubPc[v] \in {"obj", "entry"}
                             /\ m = <<pubPc[v], Owner[v], Signs(v)>>
<1>0. ASSUME UNCHANGED late PROVE m \in late
  BY <1>0
<1>1. ASSUME LatePost \/ Checkpoint \/ LosePower \/ UNCHANGED vars PROVE m \in late
  BY <1>1 DEF LatePost, Checkpoint, LosePower, vars
<1>2. ASSUME NEW u \in Users, Reload(u)
      PROVE  \/ m \in late
             \/ \E v \in Views : /\ pubPc[v] \in {"obj", "entry"}
                                 /\ m = <<pubPc[v], Owner[v], Signs(v)>>
  <2>1. late' = late \cup {<<pubPc[v], u, Signs(v)>> :
                  v \in {w \in {x \in Views : Owner[x] = u} :
                           pubPc[w] \in {"obj", "entry"} /\ answer[w] = "none"}}
    BY <1>2 DEF Reload
  <2> QED BY <2>1
<1>3. ASSUME NEW v \in Views, PublishTimesOut(v)
      PROVE  \/ m \in late
             \/ /\ pubPc[v] \in {"obj", "entry"}
                /\ m = <<pubPc[v], Owner[v], Signs(v)>>
  BY <1>3 DEF PublishTimesOut
<1>4. ASSUME NEW v \in Views,
             \/ PublishStart(v) \/ PutObject(v) \/ ObjectStored(v) \/ PutEntry(v)
             \/ Published(v) \/ PublishRefused(v)
      PROVE  m \in late
  BY <1>4 DEF PublishStart, PutObject, ObjectStored, PutEntry, Published, PublishRefused
<1>5. ASSUME NEW v \in Views,
             \/ SyncStart(v) \/ GetHeads(v) \/ SyncFails(v) \/ LogsFail(v) \/ Synced(v)
             \/ \E u \in Users : GetLog(v, u) \/ GetObjects(v, u) \/ ResetAuthor(v, u)
      PROVE  m \in late
  BY <1>5 DEF SyncStart, GetHeads, SyncFails, LogsFail, Synced, GetLog, GetObjects,
              ResetAuthor
<1>6. ASSUME NEW v \in Views, Mount(v) \/ Load(v) \/ Save(v) \/ Unmount(v)
      PROVE  m \in late
  BY <1>6 DEF Mount, Load, Save, Unmount
<1> QED BY <1>1, <1>2, <1>3, <1>4, <1>5, <1>6 DEF Next

LEMMA LateKept ==
  ASSUME TypeOK, InFlightConsistent, SignedInv, [Next]_vars, ~PowerLoss
  PROVE  LateSigned'
<1>0. \A u \in Users : Grows(u)
  BY AllGrow
<1>g. \A u \in Users : signed[u] \subseteq signed'[u]
  BY HistoriesKept DEF SignedGrows
<1>1. ASSUME NEW u \in Users, NEW h, h \in signed[u], Front(h) \in Seq(Objects),
             IsPrefix(Front(h), log[u])
      PROVE  h \in signed'[u] /\ IsPrefix(Front(h), log'[u])
  BY <1>0, <1>1, <1>g, StillBegins
<1>2. ASSUME NEW m \in late'
      PROVE  m[3] \in signed'[m[2]] /\ IsPrefix(Front(m[3]), log'[m[2]])
  <2>1. CASE m \in late
    <3>1. m[2] \in Users /\ m[3] \in Seq(Objects) /\ m[3] # <<>>
      BY <2>1, LateType
    <3>2. Front(m[3]) \in Seq(Objects)
      BY <3>1, FrontLast
    <3>3. m[3] \in signed[m[2]] /\ IsPrefix(Front(m[3]), log[m[2]])
      BY <2>1 DEF SignedInv, LateSigned
    <3> QED BY <1>1, <3>1, <3>2, <3>3
  <2>2. ASSUME NEW v \in Views, pubPc[v] \in {"obj", "entry"},
               m = <<pubPc[v], Owner[v], Signs(v)>>
        PROVE  m[3] \in signed'[m[2]] /\ IsPrefix(Front(m[3]), log'[m[2]])
    <3>1. Owner[v] \in Users /\ m[2] = Owner[v] /\ m[3] = Signs(v)
      BY <2>2, PortalAssumption
    <3> QED BY <1>1, <2>2, <3>1, GivenUp
  <2> QED BY <2>1, <2>2, LateComes
<1> QED BY <1>2 DEF LateSigned

LEMMA SignedStep ==
  TypeOK /\ InFlightConsistent /\ SignedInv /\ ~PowerLoss /\ [Next]_vars => SignedInv'
<1> SUFFICES ASSUME TypeOK, InFlightConsistent, SignedInv, ~PowerLoss, [Next]_vars
             PROVE  SignedInv'
  OBVIOUS
<1>1. AckedStored'
  BY AckedKept DEF SignedInv
<1> QED BY <1>1, HistoriesKept, PublishesKept, LateKept DEF SignedInv

LEMMA InitSigned == Init => SignedInv
<1> SUFFICES ASSUME Init PROVE SignedInv
  OBVIOUS
<1>1. \A u \in Users : log[u] = <<>> /\ signed[u] = {<<>>}
  BY DEF Init, NoLogs
<1>2. \A n \in 0..Len(<<>>) : SubSeq(<<>>, 1, n) = <<>>
  OBVIOUS
<1>3. HistoriesSigned
  <2> SUFFICES ASSUME NEW u \in Users, NEW h \in signed[u], NEW n \in 0..Len(h)
               PROVE  SubSeq(h, 1, n) \in signed[u]
    BY <1>1 DEF HistoriesSigned
  <2>1. h = <<>>
    BY <1>1
  <2>2. SubSeq(h, 1, n) = <<>>
    BY <1>2, <2>1
  <2> QED BY <1>1, <2>2
<1>4. PublishesSigned /\ LateSigned /\ AckedStored
  BY DEF Init, PublishesSigned, LateSigned, AckedStored
<1> QED BY <1>3, <1>4 DEF SignedInv

(* As long as the provider keeps what it accepted, its logs and every copy  *)
(* of them are histories their authors signed, whatever retries, late posts *)
(* and views of one author overlap, and what a user was told is published   *)
(* is in the log (AcceptedAsSigned).                                        *)
THEOREM SignedAccepted == ASSUME ~PowerLoss PROVE Spec => []AcceptedAsSigned
<1>1. TypeOK /\ InFlightConsistent /\ SignedInv /\ [Next]_vars => SignedInv'
  BY SignedStep
<1>2. TypeOK /\ InFlightConsistent /\ SignedInv => AcceptedAsSigned
  <2> SUFFICES ASSUME TypeOK, InFlightConsistent, SignedInv PROVE AcceptedAsSigned
    OBVIOUS
  <2>1. \A u \in Users : log[u] \in Seq(Objects)
    BY LogsFacts DEF TypeOK, TypeProvider
  <2>2. ASSUME NEW c \in Copies, NEW u \in Users PROVE CopyOf(c)[u] \in signed[u]
    <3>1. CopyOf(c) \in Logs
      BY CopiesType
    <3>2. IsPrefix(CopyOf(c)[u], log[u])
      BY DEF InFlightConsistent, ReplicasFit, ShownBegin, StoreBegin, Begins, Copies, CopyOf
    <3> QED BY <2>1, <3>1, <3>2, LogsFacts, BeginningSigned DEF SignedInv
  <2>3. \A u \in Users : log[u] \in signed[u]
    BY DEF SignedInv, HistoriesSigned
  <2> QED BY <2>2, <2>3 DEF SignedInv, AcceptedAsSigned, HistoryAsSigned, NoForkMerged
<1> QED BY <1>1, <1>2, InitSigned, NothingForks, PTL DEF Spec
=============================================================================
