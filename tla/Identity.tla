------------------------------ MODULE Identity ------------------------------
(***************************************************************************)
(* The user's identity: useIdentitySession.ts over identityStore.ts, which  *)
(* keeps it in the Android keystore (keystore.mjs) and, wrapped under a key *)
(* held there, in a cache on the device - or in the cache alone, as it is,  *)
(* where there is no keystore.                                              *)
(*                                                                          *)
(* The start of the view and every adoption are procedures that await one   *)
(* keystore call after another, with no lock between them.  The plugin      *)
(* serves calls one at a time in the order they were made and answers in    *)
(* that order, and may refuse a call.  It answers before its entries are on *)
(* disk (SharedPreferences.apply), so a kill may take back what it answered *)
(* last; of the cache (localStorage) that is assumed never to happen.       *)
(***************************************************************************)
EXTENDS Naturals, Sequences, FiniteSets, FiniteSetsExt

CONSTANTS Identities,
          WrapKeys,    \* bound: keys drawn for the cache, used again when forgotten
          MaxProcs,    \* bound: procedures at a time
          MaxRefused   \* bound: calls the plugin refuses

IdentityAssumption == /\ 0 \notin Identities \cup WrapKeys
                      /\ WrapKeys \subseteq Nat
                      /\ Cardinality(WrapKeys) > MaxProcs + 3
                      /\ MaxProcs \in Nat \ {0} /\ MaxRefused \in Nat

VARIABLES
  plugin,     \* is there a keystore?
  held,       \* its two entries: the identity and the key of the cache; 0: none
  disk,       \* what of these was written out
  cache,      \* the cache: its form, the key it is wrapped under, the identity
  shown,      \* the identity in the view's state
  proc,       \* the procedures under way
  asked,      \* calls the plugin has not served, by the procedure that waits
  answers,    \* answers not delivered yet
  refusals,   \* how many calls were refused
  mine,       \* ghost: the identity last adopted, by the user or for her
  hasty,      \* ghost: one was adopted while the view was loading
  lost        \* ghost: a kill took back what the plugin had answered

vars == <<plugin, held, disk, cache, shown, proc, asked, answers, refusals, mine, hasty, lost>>

Empty == [form |-> "none", key |-> 0, id |-> 0]
Plain(id) == [form |-> "plain", key |-> 0, id |-> id]
Wrapped(k, id) == [form |-> "wrapped", key |-> k, id |-> id]

Idle == [stage |-> "idle", call |-> "none", use |-> "none", key |-> 0, id |-> 0, live |-> FALSE]
Slots == 1..MaxProcs
Busy == {p \in Slots : proc[p] # Idle}
Loading == {p \in Busy : proc[p].live}

Drawn == {held.key, disk.key, cache.key} \cup {proc[p].key : p \in Slots}

(* What a start that meets no refusal would load.                           *)
Loadable == IF held.id # 0 THEN held.id
            ELSE IF cache.form = "wrapped" /\ cache.key # held.key THEN 0 ELSE cache.id

(* The start of the view: migrateIdentityToKeystore, then                   *)
(* loadIdentitySecure; without a keystore that is to read the cache.        *)
Starting == [Idle EXCEPT !.stage = "migrate", !.call = "getId", !.live = TRUE]

Init ==
  /\ plugin \in BOOLEAN
  /\ held = [id |-> 0, key |-> 0] /\ disk = held
  /\ cache \in {Empty} \cup {Plain(id) : id \in Identities}
  /\ proc = [p \in Slots |-> IF plugin /\ p = 1 THEN Starting ELSE Idle]
  /\ asked = (IF plugin THEN <<1>> ELSE <<>>)
  /\ shown = (IF plugin THEN 0 ELSE cache.id)
  /\ answers = <<>> /\ refusals = 0 /\ mine = cache.id /\ hasty = FALSE /\ lost = FALSE

-----------------------------------------------------------------------------
(* The steps of a procedure, in a continuation of p.                        *)

Await(p, next) == proc' = [proc EXCEPT ![p] = next] /\ asked' = Append(asked, p)

End(p) == proc' = [proc EXCEPT ![p] = Idle] /\ UNCHANGED asked

(* After the migration comes the load.                                      *)
Load(p) == Await(p, [proc[p] EXCEPT !.stage = "load", !.call = "getId", !.id = 0, !.key = 0])

(* persistIdentitySecure stores in the keystore first.                      *)
Persist(p, id) == Await(p, [proc[p] EXCEPT !.call = "setId", !.id = id, !.key = 0])

(* cacheWrapKey, to wrap or to unwrap.                                      *)
CacheWrapKey(p, use, key, id) ==
  Await(p, [proc[p] EXCEPT !.call = "getKey", !.use = use, !.key = key, !.id = id])

(* No identity was found.                                                   *)
Absent(p) ==
  /\ IF proc[p].stage = "migrate" THEN Load(p) ELSE End(p)
  /\ UNCHANGED <<cache, shown>>

(* The identity is persisted, or as much of it as could be.                 *)
Persisted(p, id) ==
  /\ IF proc[p].stage = "migrate" THEN Load(p) ELSE End(p)
  /\ shown' = (IF proc[p].stage = "load" /\ proc[p].live THEN id ELSE shown)

(* cachedIdentity, and what becomes of its result.                          *)
Cached(p) ==
  \/ cache.form = "none" /\ Absent(p)
  \/ cache.form = "plain" /\ Persist(p, cache.id) /\ UNCHANGED <<cache, shown>>
  \/ /\ cache.form = "wrapped"
     /\ CacheWrapKey(p, "unwrap", cache.key, cache.id)
     /\ UNCHANGED <<cache, shown>>

HaveKey(p, k) ==
  \/ /\ proc[p].use = "wrap"
     /\ cache' = Wrapped(k, proc[p].id)
     /\ Persisted(p, proc[p].id)
  \/ /\ proc[p].use = "unwrap" /\ proc[p].key = k
     /\ Persist(p, proc[p].id) /\ UNCHANGED <<cache, shown>>
  \/ proc[p].use = "unwrap" /\ proc[p].key # k /\ Absent(p)

-----------------------------------------------------------------------------
(* The answers; 0 is an entry the plugin did not find, and a get it refuses *)
(* looks the same.                                                          *)

GotId(p, id) ==
  \/ id = 0 /\ Cached(p)
  \/ id # 0 /\ proc[p].stage = "migrate" /\ Load(p) /\ UNCHANGED <<cache, shown>>
  \/ /\ id # 0 /\ proc[p].stage = "load"
     /\ CacheWrapKey(p, "wrap", 0, id) /\ UNCHANGED <<cache, shown>>

(* A keystore that refuses counts as none: the cache holds the identity.    *)
EmptiesCache(p, ok) == \* mutant: the cache is emptied, as when wrapping fails
  \/ ok /\ CacheWrapKey(p, "wrap", 0, proc[p].id) /\ UNCHANGED <<cache, shown>>
  \/ ~ok /\ cache' = Empty /\ Persisted(p, proc[p].id)
SetId(p, ok) ==
  \/ ok /\ CacheWrapKey(p, "wrap", 0, proc[p].id) /\ UNCHANGED <<cache, shown>>
  \/ ~ok /\ cache' = Plain(proc[p].id) /\ Persisted(p, proc[p].id)

GotKey(p, key) ==
  \/ key # 0 /\ HaveKey(p, key)
  \/ /\ key = 0
     /\ Await(p, [proc[p] EXCEPT !.call = "setKey", !.key = Min(WrapKeys \ Drawn)])
     /\ UNCHANGED <<cache, shown>>

(* A cache under another key than the new one is as good as none.           *)
SetKey(p, ok) ==
  \/ /\ proc[p].use = "wrap"
     /\ cache' = (IF ok THEN Wrapped(proc[p].key, proc[p].id) ELSE Empty)
     /\ Persisted(p, proc[p].id)
  \/ proc[p].use = "unwrap" /\ Absent(p)

Deliver ==
  /\ answers # <<>>
  /\ LET p == Head(answers).to
         a == Head(answers).value
     IN \/ proc[p].call = "getId"  /\ GotId(p, a)
        \/ proc[p].call = "setId"  /\ SetId(p, a)
        \/ proc[p].call = "getKey" /\ GotKey(p, a)
        \/ proc[p].call = "setKey" /\ SetKey(p, a)
  /\ answers' = Tail(answers)
  /\ UNCHANGED <<plugin, held, disk, refusals, mine, hasty, lost>>

-----------------------------------------------------------------------------
(* The plugin.                                                             *)

Answer(value) == answers' = Append(answers, [to |-> Head(asked), value |-> value])

(* held after a call, and what the call returns.                            *)
Effect(h, p) == CASE proc[p].call = "setId"  -> [h EXCEPT !.id = proc[p].id]
                  [] proc[p].call = "setKey" -> [h EXCEPT !.key = proc[p].key]
                  [] OTHER -> h
Result(p) == CASE proc[p].call = "getId"  -> held.id
               [] proc[p].call = "getKey" -> held.key
               [] OTHER -> TRUE

Serve ==
  /\ asked # <<>>
  /\ held' = Effect(held, Head(asked)) /\ Answer(Result(Head(asked)))
  /\ asked' = Tail(asked)
  /\ UNCHANGED <<plugin, disk, cache, shown, proc, refusals, mine, hasty, lost>>

Refuse ==
  /\ asked # <<>> /\ refusals < MaxRefused
  /\ refusals' = refusals + 1
  /\ Answer(IF proc[Head(asked)].call \in {"setId", "setKey"} THEN FALSE ELSE 0)
  /\ asked' = Tail(asked)
  /\ UNCHANGED <<plugin, held, disk, cache, shown, proc, mine, hasty, lost>>

WriteOut ==
  /\ disk # held /\ disk' = held
  /\ UNCHANGED <<plugin, held, cache, shown, proc, asked, answers, refusals, mine, hasty, lost>>

-----------------------------------------------------------------------------
(* The user.                                                               *)

(* Without a keystore nothing is awaited.                                   *)
Spawn(start, procs) ==
  \/ ~plugin /\ proc' = procs /\ UNCHANGED asked
  \/ /\ plugin /\ Busy # Slots
     /\ LET p == Min(Slots \ Busy)
        IN proc' = [procs EXCEPT ![p] = start] /\ asked' = Append(asked, p)

(* A new or imported identity, by a button or because authed or onCopyInvite *)
(* found none, goes into the cache as it is and is then persisted.          *)
Adopt(id) ==
  /\ cache' = Plain(id) /\ shown' = id
  /\ Spawn([Idle EXCEPT !.stage = "adopt", !.call = "setId", !.id = id], proc)
  /\ mine' = id /\ hasty' = (hasty \/ Loading # {})
  /\ UNCHANGED <<plugin, held, disk, answers, refusals, lost>>

(* onCopyInvite persists the identity shown once more.                      *)
CopyInvite ==
  /\ shown # 0
  /\ Spawn([Idle EXCEPT !.stage = "adopt", !.call = "setId", !.id = shown], proc)
  /\ cache' = (IF plugin THEN cache ELSE Plain(shown))
  /\ mine' = shown /\ hasty' = (hasty \/ Loading # {})
  /\ UNCHANGED <<plugin, held, disk, shown, answers, refusals, lost>>

(* The user leaves the community and comes back: what was begun goes on,    *)
(* without a view to show its result in.                                    *)
Mount ==
  /\ Spawn(Starting, [q \in Slots |-> [proc[q] EXCEPT !.live = FALSE]])
  /\ shown' = (IF plugin THEN 0 ELSE cache.id)
  /\ hasty' = FALSE
  /\ UNCHANGED <<plugin, held, disk, cache, answers, refusals, mine, lost>>

(* The entries once the plugin served the first k of the calls made.         *)
Served(k) ==
  LET Of(call)   == {i \in 1..k : proc[asked[i]].call = call}
      Latest(call) == proc[asked[Max(Of(call))]]
  IN [id  |-> IF Of("setId") = {} THEN held.id ELSE Latest("setId").id,
      key |-> IF Of("setKey") = {} THEN held.key ELSE Latest("setKey").key]

(* One of the others would have stored an identity.                         *)
CutOff(k) == \E i \in k + 1..Len(asked) : proc[asked[i]].call = "setId"

(* The application is killed and started again: of the calls it had made,   *)
(* the plugin serves the first k and writes that out, or only what was on   *)
(* disk is left.  An identity not stored by then gives way to what the next *)
(* start loads.                                                             *)
Restart ==
  /\ UNCHANGED <<plugin, cache, refusals>>
  /\ \/ \E k \in 0..Len(asked) :
          /\ held' = Served(k) /\ mine' = (IF CutOff(k) THEN Loadable' ELSE mine)
          /\ UNCHANGED lost
     \/ disk # held /\ held' = disk /\ mine' = Loadable' /\ lost' = TRUE
  /\ disk' = held'
  /\ proc' = [p \in Slots |-> IF plugin /\ p = 1 THEN Starting ELSE Idle]
  /\ asked' = (IF plugin THEN <<1>> ELSE <<>>) /\ answers' = <<>>
  /\ shown' = (IF plugin THEN 0 ELSE cache.id)
  /\ hasty' = FALSE

Next ==
  \/ Deliver \/ Serve \/ Refuse \/ WriteOut
  \/ CopyInvite \/ Mount \/ Restart
  \/ \E id \in Identities : Adopt(id)

Spec == Init /\ [][Next]_vars

-----------------------------------------------------------------------------
TypeOK ==
  /\ held.id \in {0} \cup Identities /\ held.key \in {0} \cup WrapKeys
  /\ cache.id \in {0} \cup Identities /\ shown \in {0} \cup Identities
  /\ \A p \in Slots : Len(SelectSeq(asked, LAMBDA q : q = p))
                      + Len(SelectSeq(answers, LAMBDA a : a.to = p)) = (IF p \in Busy THEN 1 ELSE 0)

(* A user who adopted an identity is never left with none, whenever the     *)
(* application is killed and whichever calls the keystore refuses: the      *)
(* cache is never emptied, nor wrapped under a key that is lost, before the *)
(* keystore has an identity.  It need not be the one adopted last: one that *)
(* the keystore refuses to store is in the cache only, and the next start   *)
(* writes the keystore's former one over it.  And a kill that takes back    *)
(* what the keystore answered may take all.                                 *)
Recoverable == ~lost /\ mine # 0 => Loadable # 0

(* When nothing is under way and no call was refused, the identity last     *)
(* adopted, in this or in an earlier start, is the one a restart loads, and *)
(* the one shown unless it was adopted while the view was still loading     *)
(* another; and the cache holds a copy wrapped under the key that the       *)
(* keystore holds, although procedures that overlap store their keys over   *)
(* one another's.  Excepted are an identity the keystore had not stored     *)
(* when the application was killed, and again a kill that takes back what   *)
(* the keystore answered.                                                   *)
AdoptedStored ==
  ~lost /\ Busy = {} /\ refusals = 0 =>
    /\ Loadable = mine
    /\ ~hasty => shown = mine
    /\ plugin /\ held.id # 0 => cache.form = "wrapped" /\ cache.key = held.key
=============================================================================
