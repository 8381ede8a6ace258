------------------------------ MODULE FetchNym ------------------------------
(***************************************************************************)
(* The request/response layer of the web client: web/src/mixnet/fetchNym.ts *)
(* with dispatchReply of hiddenService.mjs and the start/send/stop part of  *)
(* NymAddressClient (messaging.ts).                                         *)
(*                                                                          *)
(* A call of fetchNym queues behind a mutex; a batch (fetchNymParallel)     *)
(* runs its items on a few workers at once.  All of them share one mixnet   *)
(* client, booted on demand.  Every request carries a fresh tag and is      *)
(* resolved by the reply that echoes it; a provider that predates tags      *)
(* (Legacy) answers without one, and an untagged reply goes to whichever    *)
(* serial call is waiting.                                                  *)
(*                                                                          *)
(* The mixnet is a growing set of messages that may be delivered in any     *)
(* order, any number of times, or never.  A boot of the shared client is    *)
(* named after the caller (a call, or a batch) that started it.             *)
(***************************************************************************)
EXTENDS Naturals, Sequences, FiniteSets

CONSTANTS Calls,         \* single fetchNym calls
          Batches,       \* fetchNymParallel calls
          Items,         \* Items[b]: the requests of batch b, in order
          Recipients,
          To,            \* To[r]: the recipient of request r
          BatchTo,       \* BatchTo[b]: the recipient of every item of batch b
          Legacy,        \* recipients whose provider never echoes a tag
          Concurrency,   \* workers of one batch
          Api,           \* Api[c]: the nymApiUrl caller c passes
          MaxCallers,    \* bound on the calls and batches that are begun
          None

ItemsOf(b) == {Items[b][i] : i \in DOMAIN Items[b]}
BatchItems == UNION {ItemsOf(b) : b \in Batches}
Reqs == Calls \cup BatchItems
Callers == Reqs \cup Batches

ASSUME FetchNymAssumption ==
  /\ Items \in [Batches -> Seq(BatchItems)]
  /\ Calls \cap BatchItems = {} /\ Reqs \cap Batches = {} /\ None \notin Callers
  /\ \A b, c \in Batches : b # c => ItemsOf(b) \cap ItemsOf(c) = {}
  /\ \A b \in Batches : \A i, j \in DOMAIN Items[b] :
        Items[b][i] = Items[b][j] => i = j
  /\ To \in [Reqs -> Recipients] /\ BatchTo \in [Batches -> Recipients]
  /\ \A b \in Batches : \A r \in ItemsOf(b) : To[r] = BatchTo[b]
  /\ Legacy \subseteq Recipients /\ DOMAIN Api = Callers
  /\ Concurrency \in Nat \ {0} /\ MaxCallers \in Nat

VARIABLES
  state,          \* state[r]: where request r stands
  tag,            \* tag[r]: its correlation tag, 0 before it has one
  got,            \* got[r]: the request whose reply resolved r
  tagCounter,
  mutex,          \* the serial calls that wait for their turn, in order
  currentWaiter,  \* the serial call an untagged reply resolves
  parallelWaiters,\* the registered <<tag, request>> pairs
  parallelBroken,
  aborted,        \* callers whose AbortSignal has fired
  sharedClient,   \* the boot new calls share, or None
  client,         \* client[c]: state of the client whose boot c started
  boot,           \* boot[c]: the boot caller c waits for or uses
  stopping,       \* boots a stopFetchNymClient is shutting down
  unsent,         \* requests handed to client.send and not yet settled there
  sent, replies,  \* the mixnet: requests, and <<tag or 0, request>> replies
  mode,           \* mode[b]: where the fetchNymParallel call b stands
  next,           \* next[b]: the index of its next item
  idle,           \* idle[b]: its workers at the top of their loop
  failed          \* failed[b]: an item of b failed

vars == <<state, tag, got, tagCounter, mutex, currentWaiter, parallelWaiters,
          parallelBroken, aborted, sharedClient, client, boot, stopping,
          unsent, sent, replies, mode, next, idle, failed>>

reqVars    == <<state, tag, got, tagCounter, mutex, currentWaiter, parallelWaiters>>
clientVars == <<sharedClient, client, boot, stopping>>
netVars    == <<unsent, sent, replies>>
batchVars  == <<mode, next, idle, failed>>

Settled == {"ok", "timeout", "aborted", "failed"}
ReqStates == {"idle", "queued", "booting", "waiting"} \cup Settled
BatchModes == {"idle", "fallback", "booting", "running", "done", "failed"}
Min2(m, n) == IF m < n THEN m ELSE n

Init ==
  /\ state = [r \in Reqs |-> "idle"]
  /\ tag = [r \in Reqs |-> 0]
  /\ got = [r \in Reqs |-> None]
  /\ tagCounter = 0
  /\ mutex = <<>>
  /\ currentWaiter = None
  /\ parallelWaiters = {}
  /\ parallelBroken = {}
  /\ aborted = {}
  /\ sharedClient = None
  /\ client = [c \in Callers |-> "none"]
  /\ boot = [c \in Callers |-> None]
  /\ stopping = {}
  /\ unsent = {} /\ sent = {} /\ replies = {}
  /\ mode = [b \in Batches |-> "idle"]
  /\ next = [b \in Batches |-> 1]
  /\ idle = [b \in Batches |-> 0]
  /\ failed = [b \in Batches |-> FALSE]

-----------------------------------------------------------------------------
(* The AbortSignal a request listens to is its batch's, or its own.         *)
SignalOf(r) == IF r \in Calls THEN r ELSE CHOOSE b \in Batches : r \in ItemsOf(b)

(* The turn of the oldest call in the chain.                                *)
HasTurn(r) == mutex # <<>> /\ Head(mutex) = r

(* A task that settles, well or badly, always releases the mutex chain.     *)
ChainStuck(rs) == UNCHANGED mutex \* mutant: a settled task blocks the chain
ReleaseMutex(rs) ==
  mutex' = IF mutex # <<>> /\ Head(mutex) \in rs THEN Tail(mutex) ELSE mutex

(* Every way a wait can end runs the same cleanup: drop the serial waiter   *)
(* if it is ours, drop our tag, pass the mutex on, and tell the batch.      *)
CleanupKeepsTag(rs) == \* mutant: parallelWaiters.delete is forgotten
  /\ currentWaiter' = IF currentWaiter \in rs THEN None ELSE currentWaiter
  /\ UNCHANGED parallelWaiters
  /\ ReleaseMutex(rs)

Cleanup(rs) ==
  /\ currentWaiter' = IF currentWaiter \in rs THEN None ELSE currentWaiter
  /\ parallelWaiters' = {w \in parallelWaiters : w[2] \notin rs}
  /\ ReleaseMutex(rs)

(* The worker that ran r is back at the top of its loop; a failure is       *)
(* remembered for the whole batch.                                          *)
Returning(rs) == idle' = [b \in Batches |-> idle[b] + Cardinality(rs \cap ItemsOf(b))]
FailureForgotten(rs, ok) == Returning(rs) /\ UNCHANGED failed \* mutant
WorkerBack(rs, ok) ==
  /\ Returning(rs)
  /\ failed' = [b \in Batches |-> failed[b] \/ (~ok /\ rs \cap ItemsOf(b) # {})]

Settle(rs, how) ==
  /\ state' = [r \in Reqs |-> IF r \in rs THEN how ELSE state[r]]
  /\ Cleanup(rs)
  /\ WorkerBack(rs, how = "ok")
  /\ UNCHANGED <<mode, next>>

(* ensureClient: reuse the shared boot, or start one; another API address   *)
(* takes the place of a client that is booting or up, which nobody stops.   *)
EnsureClient(c) ==
  IF sharedClient = None \/ Api[sharedClient] # Api[c]
  THEN /\ sharedClient' = c
       /\ client' = [client EXCEPT ![c] = "booting"]
       /\ boot' = [boot EXCEPT ![c] = c]
  ELSE /\ boot' = [boot EXCEPT ![c] = sharedClient]
       /\ UNCHANGED <<sharedClient, client>>

TagReused(r) == \* mutant: the counter is never advanced
  tag' = [tag EXCEPT ![r] = 1] /\ tagCounter' = 1
NextTag(r) ==
  /\ tagCounter' = tagCounter + 1
  /\ tag' = [tag EXCEPT ![r] = tagCounter + 1]

-----------------------------------------------------------------------------
Begun    == {r \in Calls : state[r] # "idle"} \cup {b \in Batches : mode[b] # "idle"}
MayBegin == Cardinality(Begun) < MaxCallers

(* fetchNym: append the call to the mutex chain.                            *)
FetchNym(r) ==
  /\ r \in Calls /\ state[r] = "idle" /\ MayBegin
  /\ state' = [state EXCEPT ![r] = "queued"]
  /\ mutex' = Append(mutex, r)
  /\ UNCHANGED <<tag, got, tagCounter, currentWaiter, parallelWaiters,
                 parallelBroken, aborted, clientVars, netVars, batchVars>>

(* runOnce, up to its await of the client.                                  *)
RunOnce(r) ==
  /\ state[r] = "queued" /\ HasTurn(r)
  /\ IF SignalOf(r) \in aborted
     THEN /\ Settle({r}, "aborted")
          /\ UNCHANGED <<tag, tagCounter, clientVars>>
     ELSE /\ state' = [state EXCEPT ![r] = "booting"]
          /\ NextTag(r)
          /\ EnsureClient(r)
          /\ UNCHANGED <<mutex, currentWaiter, parallelWaiters, batchVars, stopping>>
  /\ UNCHANGED <<got, parallelBroken, aborted, netVars>>

(* runOnce after the await: register both waiters, then send.               *)
RunOnceReady(r) ==
  /\ state[r] = "booting" /\ client[boot[r]] \in {"up", "stopped"}
  /\ IF SignalOf(r) \in aborted
     THEN /\ Settle({r}, "aborted")
          /\ UNCHANGED unsent
     ELSE /\ state' = [state EXCEPT ![r] = "waiting"]
          /\ currentWaiter' = r
          /\ parallelWaiters' = parallelWaiters \cup {<<tag[r], r>>}
          /\ unsent' = unsent \cup {r}
          /\ UNCHANGED <<mutex, batchVars>>
  /\ UNCHANGED <<tag, got, tagCounter, parallelBroken, aborted, clientVars,
                 sent, replies>>

RunOnceBootFailed(r) ==
  /\ state[r] = "booting" /\ client[boot[r]] = "failed"
  /\ Settle({r}, "failed")
  /\ UNCHANGED <<tag, got, tagCounter, parallelBroken, aborted, clientVars, netVars>>

(* The 90 s timer of runOnce and runTagged.                                 *)
TimerNotCleared(r) == \* mutant: the timer outlives the wait
  /\ state[r] \in {"waiting", "ok"}
  /\ Settle({r}, "timeout")
  /\ UNCHANGED <<tag, got, tagCounter, parallelBroken, aborted, clientVars, netVars>>
Timeout(r) ==
  /\ state[r] = "waiting"
  /\ Settle({r}, "timeout")
  /\ UNCHANGED <<tag, got, tagCounter, parallelBroken, aborted, clientVars, netVars>>

(* The caller aborts: every request that listens settles at once; one that  *)
(* is still queued or booting notices when it runs next, so that a signal   *)
(* fired before the call does what one fired right after it does.           *)
Abort(c) ==
  /\ c \in Begun /\ c \notin aborted
  /\ aborted' = aborted \cup {c}
  /\ Settle({r \in Reqs : state[r] = "waiting" /\ SignalOf(r) = c}, "aborted")
  /\ UNCHANGED <<tag, got, tagCounter, parallelBroken, clientVars, netVars>>

-----------------------------------------------------------------------------
(* NymAddressClient.send: succeeds only on a started client.                *)
SendOut(r) ==
  /\ r \in unsent /\ client[boot[r]] = "up"
  /\ unsent' = unsent \ {r}
  /\ sent' = sent \cup {r}
  /\ UNCHANGED <<reqVars, parallelBroken, aborted, clientVars, replies, batchVars>>

SendFails(r) ==
  /\ r \in unsent
  /\ unsent' = unsent \ {r}
  /\ IF state[r] = "waiting"
     THEN Settle({r}, "failed")
     ELSE UNCHANGED <<state, mutex, currentWaiter, parallelWaiters, batchVars>>
  /\ UNCHANGED <<tag, got, tagCounter, parallelBroken, aborted, clientVars,
                 sent, replies>>

(* The provider answers a request it received: dispatch echoes its tag; a   *)
(* provider from before tags sends none.                                    *)
Dispatch(r) ==
  /\ r \in sent
  /\ replies' = replies \cup {<<IF To[r] \in Legacy THEN 0 ELSE tag[r], r>>}
  /\ UNCHANGED <<reqVars, parallelBroken, aborted, clientVars, unsent, sent, batchVars>>

(* dispatchReply: a tagged reply resolves the waiter of that tag and no     *)
(* other; an untagged one the serial waiter; with no waiter it is dropped.  *)
(* The waiter is gone by the time its body is decoded, which may still fail.*)
Resolve(r, m) ==
  /\ got' = [got EXCEPT ![r] = m[2]]
  /\ \E how \in {"ok", "failed"} : Settle({r}, how)

DispatchReply(m) ==
  /\ m \in replies
  /\ \E c \in Callers : client[c] \in {"booting", "up"}
  /\ IF m[1] # 0
     THEN \E w \in parallelWaiters : w[1] = m[1] /\ Resolve(w[2], m)
     ELSE currentWaiter # None /\ Resolve(currentWaiter, m)
  /\ UNCHANGED <<tag, tagCounter, parallelBroken, aborted, clientVars, netVars>>

-----------------------------------------------------------------------------
(* The boot promise of the shared client settles.                           *)
BootOk(c) ==
  /\ client[c] = "booting"
  /\ client' = [client EXCEPT ![c] = "up"]
  /\ UNCHANGED <<reqVars, parallelBroken, aborted, sharedClient, boot, stopping,
                 netVars, batchVars>>

(* A failed boot is forgotten, unless a newer one has replaced it.          *)
BootFails(c) ==
  /\ client[c] = "booting"
  /\ client' = [client EXCEPT ![c] = "failed"]
  /\ sharedClient' = IF sharedClient = c THEN None ELSE sharedClient
  /\ UNCHANGED <<reqVars, parallelBroken, aborted, boot, stopping, netVars, batchVars>>

(* stopFetchNymClient: forget the client and every waiter, then wait for    *)
(* its boot and stop it.                                                    *)
StopFetchNymClient ==
  /\ sharedClient' = None
  /\ currentWaiter' = None
  /\ parallelWaiters' = {}
  /\ stopping' = stopping \cup ({sharedClient} \ {None})
  /\ UNCHANGED <<state, tag, got, tagCounter, mutex, parallelBroken, aborted,
                 client, boot, netVars, batchVars>>

StopDone(c) ==
  /\ c \in stopping /\ client[c] \in {"up", "failed"}
  /\ stopping' = stopping \ {c}
  /\ client' = [client EXCEPT ![c] = IF @ = "up" THEN "stopped" ELSE @]
  /\ UNCHANGED <<reqVars, parallelBroken, aborted, sharedClient, boot, netVars, batchVars>>

-----------------------------------------------------------------------------
(* fetchNymParallel: one request, or a recipient in parallelBroken, goes    *)
(* through fetchNym item by item; otherwise the client is awaited first.    *)
FetchNymParallel(b) ==
  /\ mode[b] = "idle" /\ MayBegin
  /\ IF Len(Items[b]) < 2 \/ BatchTo[b] \in parallelBroken
     THEN /\ mode' = [mode EXCEPT ![b] = "fallback"]
          /\ idle' = [idle EXCEPT ![b] = 1]
          /\ UNCHANGED <<sharedClient, client, boot>>
     ELSE /\ mode' = [mode EXCEPT ![b] = "booting"]
          /\ EnsureClient(b)
          /\ UNCHANGED idle
  /\ UNCHANGED <<next, failed, reqVars, parallelBroken, aborted, stopping, netVars>>

StartWorkers(b) ==
  /\ mode[b] = "booting" /\ client[boot[b]] \in {"up", "stopped"}
  /\ mode' = [mode EXCEPT ![b] = "running"]
  /\ idle' = [idle EXCEPT ![b] = Min2(Concurrency, Len(Items[b]))]
  /\ UNCHANGED <<next, failed, reqVars, parallelBroken, aborted, clientVars, netVars>>

BatchBootFailed(b) ==
  /\ mode[b] = "booting" /\ client[boot[b]] = "failed"
  /\ mode' = [mode EXCEPT ![b] = "failed"]
  /\ UNCHANGED <<next, idle, failed, reqVars, parallelBroken, aborted, clientVars, netVars>>

(* The top of a worker's loop has an item to take.                          *)
GoesOnAfterFailure(b) == \* mutant: failed is not read at the top of the loop
  idle[b] > 0 /\ next[b] <= Len(Items[b])
HasWork(b) ==
  /\ idle[b] > 0 /\ ~failed[b]
  /\ next[b] <= Len(Items[b])

(* runTagged on the next item: an aborted signal throws before anything is  *)
(* registered; otherwise register the waiter, then send.                    *)
RunTagged(b) ==
  /\ mode[b] = "running" /\ HasWork(b)
  /\ next' = [next EXCEPT ![b] = @ + 1]
  /\ LET r == Items[b][next[b]] IN
     IF b \in aborted
     THEN /\ failed' = [failed EXCEPT ![b] = TRUE]
          /\ state' = [state EXCEPT ![r] = "aborted"]
          /\ UNCHANGED <<tag, tagCounter, parallelWaiters, boot, unsent, idle>>
     ELSE /\ idle' = [idle EXCEPT ![b] = @ - 1]
          /\ state' = [state EXCEPT ![r] = "waiting"]
          /\ NextTag(r)
          /\ parallelWaiters' = parallelWaiters \cup {<<tagCounter + 1, r>>}
          /\ boot' = [boot EXCEPT ![r] = boot[b]]
          /\ unsent' = unsent \cup {r}
          /\ UNCHANGED failed
  /\ UNCHANGED <<got, mutex, currentWaiter, parallelBroken, aborted,
                 sharedClient, client, stopping, sent, replies, mode>>

(* The fallback loop awaits one fetchNym after the other.                   *)
FallbackItem(b) ==
  /\ mode[b] = "fallback" /\ HasWork(b)
  /\ next' = [next EXCEPT ![b] = @ + 1]
  /\ idle' = [idle EXCEPT ![b] = @ - 1]
  /\ LET r == Items[b][next[b]] IN
     /\ state' = [state EXCEPT ![r] = "queued"]
     /\ mutex' = Append(mutex, r)
  /\ UNCHANGED <<tag, got, tagCounter, currentWaiter, parallelWaiters,
                 parallelBroken, aborted, clientVars, netVars, mode, failed>>

(* Every worker has returned: report the results, or the first failure and  *)
(* never run this recipient in parallel again.                              *)
Workers(b) == IF mode[b] = "fallback" THEN 1 ELSE Min2(Concurrency, Len(Items[b]))

BatchSettles(b) ==
  /\ mode[b] \in {"running", "fallback"}
  /\ idle[b] = Workers(b) /\ ~HasWork(b)
  /\ mode' = [mode EXCEPT ![b] = IF failed[b] THEN "failed" ELSE "done"]
  /\ parallelBroken' = IF mode[b] = "running" /\ failed[b]
                       THEN parallelBroken \cup {BatchTo[b]} ELSE parallelBroken
  /\ UNCHANGED <<next, idle, failed, reqVars, aborted, clientVars, netVars>>

-----------------------------------------------------------------------------
Next ==
  \/ \E r \in Reqs : \/ FetchNym(r) \/ RunOnce(r) \/ RunOnceReady(r)
                     \/ RunOnceBootFailed(r) \/ Timeout(r)
                     \/ SendOut(r) \/ SendFails(r) \/ Dispatch(r)
  \/ \E c \in Callers : Abort(c) \/ BootOk(c) \/ BootFails(c) \/ StopDone(c)
  \/ \E m \in replies : DispatchReply(m)
  \/ StopFetchNymClient
  \/ \E b \in Batches : \/ FetchNymParallel(b) \/ StartWorkers(b)
                        \/ BatchBootFailed(b) \/ RunTagged(b)
                        \/ FallbackItem(b) \/ BatchSettles(b)

Spec == Init /\ [][Next]_vars

(* The event loop runs every ready continuation, timers fire, and a boot    *)
(* ends one way or the other: its wait for the gateway has a 60 s timer; of *)
(* the SDK's own start before it, which has none, it is an assumption.      *)
(* Nothing is assumed of the mixnet, of the provider or of the callers.     *)
Fairness ==
  /\ \A r \in Reqs : WF_vars(RunOnce(r) \/ RunOnceReady(r) \/ RunOnceBootFailed(r))
  /\ \A r \in Reqs : WF_vars(Timeout(r))
  /\ \A c \in Callers : WF_vars(BootOk(c) \/ BootFails(c))
  /\ \A b \in Batches : WF_vars(\/ StartWorkers(b) \/ BatchBootFailed(b)
                                \/ RunTagged(b) \/ FallbackItem(b)
                                \/ BatchSettles(b))

FairSpec == Spec /\ Fairness
-----------------------------------------------------------------------------
(* Properties.                                                              *)

TypeOK ==
  /\ state \in [Reqs -> ReqStates]
  /\ tag \in [Reqs -> Nat] /\ tagCounter \in Nat
  /\ got \in [Reqs -> Reqs \cup {None}]
  /\ mutex \in Seq(Reqs)
  /\ currentWaiter \in Reqs \cup {None}
  /\ parallelWaiters \subseteq Nat \X Reqs
  /\ parallelBroken \subseteq Recipients
  /\ aborted \subseteq Calls \cup Batches
  /\ sharedClient \in Callers \cup {None}
  /\ client \in [Callers -> {"none", "booting", "up", "failed", "stopped"}]
  /\ boot \in [Callers -> Callers \cup {None}]
  /\ stopping \subseteq Callers
  /\ unsent \subseteq Reqs /\ sent \subseteq Reqs
  /\ replies \subseteq Nat \X Reqs
  /\ mode \in [Batches -> BatchModes]
  /\ next \in [Batches -> Nat \ {0}] /\ idle \in [Batches -> Nat]
  /\ failed \in [Batches -> BOOLEAN]

(* A request that runs through fetchNym rather than on a batch's worker: a  *)
(* batch that fell back never asked for the client itself.                  *)
IsSerial(r) == r \in Calls \/ boot[SignalOf(r)] = None

(* A request is only ever answered with the reply to itself, however late,  *)
(* reordered or repeated the replies are, and whatever was aborted, timed   *)
(* out or stopped in between.  The one exception the code accepts: a serial *)
(* request may take the untagged reply of a provider that predates tags.    *)
Correlation ==
  \A r \in Reqs : got[r] # None =>
    \/ got[r] = r
    \/ IsSerial(r) /\ To[got[r]] \in Legacy

(* Why Correlation holds: a request gets its tag once, after it is called   *)
(* and before it is sent; tags are never shared; a waiter is registered and *)
(* a reply is sent under the tag of the request it is for; and only serial  *)
(* requests become the serial waiter.                                       *)
Fresh ==
  /\ \A r \in Reqs : state[r] \in {"idle", "queued"} => tag[r] = 0
  /\ \A r \in Reqs : state[r] = "booting" => tag[r] # 0
  /\ \A b \in Batches : \A i \in DOMAIN Items[b] :
       i >= next[b] => state[Items[b][i]] = "idle"
SerialPath ==
  /\ \A b \in Batches : mode[b] \in {"idle", "fallback"} => boot[b] = None
  /\ \A b \in Batches : mode[b] = "idle" => next[b] = 1
  /\ \A r \in Reqs : state[r] \in {"queued", "booting"} => IsSerial(r)
  /\ \A r \in Reqs : currentWaiter = r => IsSerial(r) /\ tag[r] # 0
Tags ==
  /\ \A r \in Reqs : tag[r] <= tagCounter
  /\ \A r, q \in Reqs : tag[r] = tag[q] /\ tag[r] # 0 => r = q
Wire ==
  /\ \A w \in parallelWaiters : w[1] = tag[w[2]] /\ w[1] # 0
  /\ \A r \in unsent \cup sent : tag[r] # 0
  /\ \A m \in replies : /\ tag[m[2]] # 0
                        /\ IF m[1] = 0 THEN To[m[2]] \in Legacy ELSE m[1] = tag[m[2]]
Answers ==
  /\ \A r \in Reqs : tag[r] = 0 => got[r] = None
  /\ Correlation
CorrelationInv == Fresh /\ SerialPath /\ Tags /\ Wire /\ Answers

(* Whatever ends a wait removes its waiters: a registered waiter belongs to *)
(* a request still waiting, under that request's tag, and the serial waiter *)
(* is the call at the head of the mutex.                                    *)
NoStaleWaiter ==
  /\ \A w \in parallelWaiters : state[w[2]] = "waiting" /\ w[1] = tag[w[2]]
  /\ currentWaiter # None =>
       state[currentWaiter] = "waiting" /\ currentWaiter = Head(mutex)

(* Why NoStaleWaiter holds: only the call whose turn it is gets as far as   *)
(* the client, and it keeps the turn for as long as it waits.               *)
WaitersInv ==
  /\ NoStaleWaiter
  /\ \A r \in Reqs : state[r] = "booting" => HasTurn(r)
  /\ currentWaiter # None => HasTurn(currentWaiter)

(* A batch that reports results has the answer of every item; a batch that  *)
(* has reported either way has no item left on the wire.                    *)
BatchComplete ==
  \A b \in Batches :
    /\ mode[b] = "done" => \A r \in ItemsOf(b) : state[r] = "ok"
    /\ mode[b] \in {"done", "failed"} =>
         \A r \in ItemsOf(b) : state[r] \in {"idle"} \cup Settled

(* Why BatchComplete holds: while a batch runs, each of its workers is back *)
(* at the top of its loop or waits for the item it took, and no item is     *)
(* under way otherwise; every item taken is under way or answered, unless   *)
(* the batch knows of a failure; and no worker is missing.                  *)
UnderWay(b) == {r \in ItemsOf(b) : state[r] \in {"queued", "booting", "waiting"}}
WorkersCounted(b) ==
  IF mode[b] \in {"running", "fallback"}
  THEN idle[b] + Cardinality(UnderWay(b)) = Workers(b)
  ELSE UnderWay(b) = {}
ItemsTaken(b) ==
  \A i \in DOMAIN Items[b] : i < next[b] /\ ~failed[b] =>
     Items[b][i] \in UnderWay(b) \/ state[Items[b][i]] = "ok"
ModeFits(b) ==
  /\ mode[b] = "booting" => next[b] = 1
  /\ mode[b] \in {"booting", "running"} => Len(Items[b]) >= 2
  /\ mode[b] = "done" => ~failed[b] /\ next[b] > Len(Items[b])
BatchFits(b) == WorkersCounted(b) /\ ItemsTaken(b) /\ ModeFits(b)
BatchInv == \A b \in Batches : BatchFits(b)

(* The outcome a caller has seen never changes: a reply, an abort, a timer  *)
(* or a send error that comes after the wait ended is ignored.              *)
SettledOnce ==
  [][\A r \in Reqs : state[r] \in Settled => state'[r] = state[r] /\ got'[r] = got[r]]_vars

(* After the first failure no worker starts another item of the batch.      *)
NoItemAfterFailure ==
  [][\A b \in Batches : failed[b] =>
       \A r \in ItemsOf(b) : state[r] = "idle" => state'[r] = "idle"]_vars

(* "The chain must survive individual failures so later calls still run"    *)
(* (fetchNym.ts:134): every call that entered the mutex ends, even if no    *)
(* message ever arrives.                                                    *)
EveryCallEnds == \A r \in Reqs : state[r] = "queued" ~> state[r] \in Settled

(* Every batch that was started reports, whatever became of its items.      *)
EveryBatchReports ==
  \A b \in Batches : mode[b] \in {"fallback", "booting", "running"}
    ~> mode[b] \in {"done", "failed"}

(* Nothing a caller awaits stays pending: neither calls nor batches.        *)
EverythingEnds == EveryCallEnds /\ EveryBatchReports
=============================================================================
