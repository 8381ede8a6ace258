--------------------------- MODULE FetchNymProofs ---------------------------
(***************************************************************************)
(* What is proved about FetchNym, for any calls, batches, recipients and   *)
(* number of workers:                                                      *)
(*   TypeCorrect        every variable keeps its type;                     *)
(*   RepliesMatch       a reply never answers a request it does not belong *)
(*                      to (Correlation);                                  *)
(*   WaitersFresh       no waiter outlives its wait (NoStaleWaiter);       *)
(*   BatchesComplete    a batch that reports has every answer, and nothing *)
(*                      of it is under way (BatchComplete);                *)
(*   OutcomesStay       a settled request stays as it is (SettledOnce);    *)
(*   FailureStopsBatch  no item starts after a failure (NoItemAfterFailure)*)
(***************************************************************************)
EXTENDS FetchNym, TLAPS, FiniteSetTheorems, FunctionTheorems, SequenceTheorems

(* A batch has finitely many items.                                         *)
LEMMA ItemsFinite ==
  ASSUME NEW b \in Batches
  PROVE  IsFiniteSet(ItemsOf(b))
<1>1. Items[b] \in Seq(BatchItems)
  BY FetchNymAssumption
<1>2. DOMAIN Items[b] = 1..Len(Items[b]) /\ Len(Items[b]) \in Nat
  BY <1>1
<1>3. Items[b] \in Surjection(1..Len(Items[b]), ItemsOf(b))
  BY <1>1, <1>2 DEF Surjection, ItemsOf
<1>4. IsFiniteSet(1..Len(Items[b]))
  BY <1>2, FS_Interval
<1> QED
  BY <1>3, <1>4, FS_Surjection

(* The pieces an event handler is made of keep the types of what they set.  *)
SettleTypes ==
  /\ state' \in [Reqs -> ReqStates]
  /\ mutex' \in Seq(Reqs)
  /\ currentWaiter' \in Reqs \cup {None}
  /\ parallelWaiters' \subseteq Nat \X Reqs
  /\ mode' \in [Batches -> BatchModes]
  /\ next' \in [Batches -> Nat \ {0}] /\ idle' \in [Batches -> Nat]
  /\ failed' \in [Batches -> BOOLEAN]

LEMMA SettleType ==
  ASSUME TypeOK, NEW rs \in SUBSET Reqs, NEW how \in Settled, Settle(rs, how)
  PROVE  SettleTypes
<1>1. state' \in [Reqs -> ReqStates]
  BY DEF TypeOK, Settle, ReqStates
<1>2. mutex' \in Seq(Reqs)
  BY HeadTailProperties DEF TypeOK, Settle, Cleanup, ReleaseMutex
<1>3. /\ currentWaiter' \in Reqs \cup {None}
      /\ parallelWaiters' \subseteq Nat \X Reqs
  BY DEF TypeOK, Settle, Cleanup
<1>4. idle' \in [Batches -> Nat]
  <2> DEFINE N == [b \in Batches |-> Cardinality(rs \cap ItemsOf(b))]
  <2>1. ASSUME NEW b \in Batches PROVE Cardinality(rs \cap ItemsOf(b)) \in Nat
    <3>1. IsFiniteSet(rs \cap ItemsOf(b))
      BY ItemsFinite, FS_Subset
    <3> QED
      BY <3>1, FS_CardinalityType
  <2>2. N \in [Batches -> Nat]
    BY <2>1
  <2>3. idle' = [b \in Batches |-> idle[b] + N[b]]
    BY DEF Settle, WorkerBack, Returning
  <2> HIDE DEF N
  <2> QED
    BY <2>2, <2>3 DEF TypeOK
<1>5. failed' \in [Batches -> BOOLEAN]
  BY DEF TypeOK, Settle, WorkerBack
<1> QED
  BY <1>1, <1>2, <1>3, <1>4, <1>5 DEF Settle, SettleTypes, TypeOK

LEMMA SettleOneType ==
  ASSUME TypeOK, NEW r \in Reqs, NEW how \in Settled, Settle({r}, how)
  PROVE  SettleTypes
<1>1. {r} \in SUBSET Reqs
  OBVIOUS
<1> QED
  BY <1>1, SettleType

LEMMA EnsureClientType ==
  ASSUME TypeOK, NEW c \in Callers, EnsureClient(c)
  PROVE  /\ sharedClient' \in Callers \cup {None}
         /\ client' \in [Callers -> {"none", "booting", "up", "failed", "stopped"}]
         /\ boot' \in [Callers -> Callers \cup {None}]
BY DEF TypeOK, EnsureClient

(* Every variable keeps its type.                                           *)
LEMMA TypeInit == Init => TypeOK
BY FetchNymAssumption DEF Init, TypeOK, ReqStates, BatchModes

LEMMA TypeStep == TypeOK /\ [Next]_vars => TypeOK'
<1> SUFFICES ASSUME TypeOK, [Next]_vars PROVE TypeOK'
  OBVIOUS
<1> USE DEF clientVars, netVars, reqVars, batchVars
<1>1. ASSUME NEW r \in Reqs, FetchNym(r) PROVE TypeOK'
  BY <1>1 DEF TypeOK, FetchNym, ReqStates
<1> "aborted" \in Settled /\ "failed" \in Settled /\ "timeout" \in Settled
     /\ "ok" \in Settled
  BY DEF Settled
<1> "booting" \in ReqStates /\ "waiting" \in ReqStates /\ "aborted" \in ReqStates
  BY DEF ReqStates, Settled
<1> "fallback" \in BatchModes /\ "booting" \in BatchModes /\ "done" \in BatchModes
     /\ "failed" \in BatchModes
  BY DEF BatchModes
<1>2. ASSUME NEW r \in Reqs, RunOnce(r) PROVE TypeOK'
  <2>1. CASE SignalOf(r) \in aborted
    <3>1. SettleTypes
      BY <1>2, <2>1, SettleOneType DEF RunOnce
    <3> QED
      BY <1>2, <2>1, <3>1 DEF TypeOK, RunOnce, SettleTypes
  <2>2. CASE SignalOf(r) \notin aborted
    <3>1. EnsureClient(r) /\ r \in Callers
      BY <1>2, <2>2 DEF RunOnce, Callers
    <3>2. /\ sharedClient' \in Callers \cup {None}
          /\ client' \in [Callers -> {"none", "booting", "up", "failed", "stopped"}]
          /\ boot' \in [Callers -> Callers \cup {None}]
      BY <3>1, EnsureClientType
    <3>3. state' \in [Reqs -> ReqStates]
      BY <1>2, <2>2 DEF TypeOK, RunOnce
    <3>6. NextTag(r)
      BY <1>2, <2>2 DEF RunOnce
    <3>4. tag' \in [Reqs -> Nat] /\ tagCounter' \in Nat
      BY <3>6 DEF TypeOK, NextTag
    <3>5. UNCHANGED <<mutex, currentWaiter, parallelWaiters, batchVars, stopping,
                      got, parallelBroken, aborted, netVars>>
      BY <1>2, <2>2 DEF RunOnce
    <3> QED
      BY <3>2, <3>3, <3>4, <3>5 DEF TypeOK
  <2> QED
    BY <2>1, <2>2
<1>3. ASSUME NEW r \in Reqs, RunOnceReady(r) PROVE TypeOK'
  <2>1. CASE SignalOf(r) \in aborted
    <3>1. SettleTypes
      BY <1>3, <2>1, SettleOneType DEF RunOnceReady
    <3> QED
      BY <1>3, <2>1, <3>1 DEF TypeOK, RunOnceReady, SettleTypes
  <2>2. CASE SignalOf(r) \notin aborted
    <3>5. /\ state' = [state EXCEPT ![r] = "waiting"]
          /\ unsent' = unsent \cup {r}
      BY <1>3, <2>2 DEF RunOnceReady
    <3>6. state \in [Reqs -> ReqStates] /\ unsent \subseteq Reqs
      BY DEF TypeOK
    <3>7. "waiting" \in ReqStates
      BY DEF ReqStates
    <3>1. state' \in [Reqs -> ReqStates] /\ unsent' \subseteq Reqs
      BY <3>5, <3>6, <3>7
    <3>3. currentWaiter' \in Reqs \cup {None}
      BY <1>3, <2>2 DEF TypeOK, RunOnceReady
    <3>4. parallelWaiters' \subseteq Nat \X Reqs
      BY <1>3, <2>2 DEF TypeOK, RunOnceReady
    <3>2. UNCHANGED <<mutex, batchVars, tag, got, tagCounter, parallelBroken,
                      aborted, clientVars, sent, replies>>
      BY <1>3, <2>2 DEF RunOnceReady
    <3> QED
      BY <3>1, <3>2, <3>3, <3>4 DEF TypeOK
  <2> QED
    BY <2>1, <2>2
<1>4. ASSUME NEW r \in Reqs, RunOnceBootFailed(r) \/ Timeout(r) PROVE TypeOK'
  <2>1. SettleTypes
    BY <1>4, SettleOneType DEF RunOnceBootFailed, Timeout
  <2> QED
    BY <1>4, <2>1 DEF TypeOK, RunOnceBootFailed, Timeout, SettleTypes
<1>6. ASSUME NEW r \in Reqs, SendOut(r) PROVE TypeOK'
  BY <1>6 DEF TypeOK, SendOut
<1>7. ASSUME NEW r \in Reqs, SendFails(r) PROVE TypeOK'
  <2>1. CASE state[r] = "waiting"
    <3>1. SettleTypes
      BY <1>7, <2>1, SettleOneType DEF SendFails
    <3> QED
      BY <1>7, <2>1, <3>1 DEF TypeOK, SendFails, SettleTypes
  <2>2. CASE state[r] # "waiting"
    BY <1>7, <2>2 DEF TypeOK, SendFails
  <2> QED
    BY <2>1, <2>2
<1>8. ASSUME NEW r \in Reqs, Dispatch(r) PROVE TypeOK'
  BY <1>8 DEF TypeOK, Dispatch
<1>9. ASSUME NEW c \in Callers, Abort(c) PROVE TypeOK'
  <2> DEFINE rs == {r \in Reqs : state[r] = "waiting" /\ SignalOf(r) = c}
  <2>1. rs \in SUBSET Reqs /\ Settle(rs, "aborted")
    BY <1>9 DEF Abort
  <2> HIDE DEF rs
  <2>2. SettleTypes
    BY <2>1, SettleType
  <2>3. /\ aborted' \subseteq Calls \cup Batches
        /\ UNCHANGED <<tag, got, tagCounter, parallelBroken, clientVars, netVars>>
    BY <1>9 DEF TypeOK, Abort, Begun
  <2> QED
    BY <2>2, <2>3 DEF TypeOK, SettleTypes
<1>10. ASSUME NEW c \in Callers, BootOk(c) \/ BootFails(c) \/ StopDone(c)
       PROVE  TypeOK'
  BY <1>10 DEF TypeOK, BootOk, BootFails, StopDone
<1>11. ASSUME NEW m \in replies, DispatchReply(m) PROVE TypeOK'
  <2>1. PICK r \in Reqs : Resolve(r, m)
    BY <1>11 DEF DispatchReply, TypeOK
  <2>2. m[2] \in Reqs
    BY DEF TypeOK
  <2>3. SettleTypes
    BY <2>1, SettleOneType DEF Resolve
  <2> QED
    BY <1>11, <2>1, <2>2, <2>3 DEF TypeOK, DispatchReply, Resolve, SettleTypes
<1>12. CASE StopFetchNymClient
  BY <1>12 DEF TypeOK, StopFetchNymClient
<1>13. ASSUME NEW b \in Batches, FetchNymParallel(b) PROVE TypeOK'
  <2>1. b \in Callers
    BY DEF Callers
  <2>4. mode' \in [Batches -> BatchModes]
    BY <1>13 DEF TypeOK, FetchNymParallel
  <2>5. idle' \in [Batches -> Nat]
    BY <1>13 DEF TypeOK, FetchNymParallel
  <2>2. CASE EnsureClient(b)
    <3>1. /\ sharedClient' \in Callers \cup {None}
          /\ client' \in [Callers -> {"none", "booting", "up", "failed", "stopped"}]
          /\ boot' \in [Callers -> Callers \cup {None}]
      BY <2>1, <2>2, EnsureClientType
    <3> QED
      BY <1>13, <2>4, <2>5, <3>1 DEF TypeOK, FetchNymParallel
  <2>3. CASE UNCHANGED <<sharedClient, client, boot>>
    BY <1>13, <2>4, <2>5, <2>3 DEF TypeOK, FetchNymParallel
  <2> QED
    BY <1>13, <2>2, <2>3 DEF FetchNymParallel
<1>14. ASSUME NEW b \in Batches, StartWorkers(b) PROVE TypeOK'
  <2>1. Len(Items[b]) \in Nat
    BY FetchNymAssumption
  <2>2. Min2(Concurrency, Len(Items[b])) \in Nat
    BY <2>1, FetchNymAssumption DEF Min2
  <2> QED
    BY <1>14, <2>2 DEF TypeOK, StartWorkers, BatchModes
<1>15. ASSUME NEW b \in Batches, BatchBootFailed(b) PROVE TypeOK'
  BY <1>15 DEF TypeOK, BatchBootFailed, BatchModes
<1>16. ASSUME NEW b \in Batches, RunTagged(b) \/ FallbackItem(b) PROVE TypeOK'
  <2> DEFINE r == Items[b][next[b]]
  <2>7. next[b] \in DOMAIN Items[b] /\ idle[b] - 1 \in Nat
    BY <1>16, FetchNymAssumption DEF TypeOK, RunTagged, FallbackItem, HasWork
  <2>1. r \in Reqs /\ r \in Callers /\ b \in Callers
    BY <2>7, FetchNymAssumption DEF Reqs, Callers
  <2>2. CASE RunTagged(b)
    <3>1. state' \in [Reqs -> ReqStates]
      BY <2>2, <2>1 DEF TypeOK, RunTagged
    <3>4. tag' \in [Reqs -> Nat] /\ tagCounter' \in Nat
      BY <2>2, <2>1 DEF TypeOK, RunTagged, NextTag
    <3>5. next' \in [Batches -> Nat \ {0}]
      BY <2>2 DEF TypeOK, RunTagged
    <3>6. idle' \in [Batches -> Nat]
      BY <2>2, <2>7 DEF TypeOK, RunTagged
    <3>7. failed' \in [Batches -> BOOLEAN]
      BY <2>2 DEF TypeOK, RunTagged
    <3>8. boot' \in [Callers -> Callers \cup {None}]
      BY <2>2, <2>1 DEF TypeOK, RunTagged
    <3>9. unsent' \subseteq Reqs
      BY <2>2, <2>1 DEF TypeOK, RunTagged
    <3>2. parallelWaiters' \subseteq Nat \X Reqs
      BY <2>2, <2>1 DEF TypeOK, RunTagged
    <3>3. UNCHANGED <<got, mutex, currentWaiter, parallelBroken, aborted,
                      sharedClient, client, stopping, sent, replies, mode>>
      BY <2>2 DEF RunTagged
    <3> QED
      BY <3>1, <3>2, <3>3, <3>4, <3>5, <3>6, <3>7, <3>8, <3>9 DEF TypeOK
  <2>3. CASE FallbackItem(b)
    <3>1. /\ state' = [state EXCEPT ![r] = "queued"]
          /\ mutex' = Append(mutex, r)
          /\ next' = [next EXCEPT ![b] = @ + 1]
          /\ idle' = [idle EXCEPT ![b] = @ - 1]
      BY <2>3 DEF FallbackItem
    <3>2. /\ state \in [Reqs -> ReqStates] /\ mutex \in Seq(Reqs)
          /\ next \in [Batches -> Nat \ {0}] /\ idle \in [Batches -> Nat]
      BY DEF TypeOK
    <3>3. "queued" \in ReqStates
      BY DEF ReqStates
    <3>4. state' \in [Reqs -> ReqStates]
      BY <3>1, <3>2, <3>3
    <3>5. mutex' \in Seq(Reqs)
      BY <3>1, <3>2, <2>1
    <3>6. next' \in [Batches -> Nat \ {0}]
      BY <3>1, <3>2
    <3>7. idle' \in [Batches -> Nat]
      BY <3>1, <3>2, <2>7
    <3>8. UNCHANGED <<tag, got, tagCounter, currentWaiter, parallelWaiters,
                      parallelBroken, aborted, clientVars, netVars, mode, failed>>
      BY <2>3 DEF FallbackItem
    <3> QED
      BY <3>4, <3>5, <3>6, <3>7, <3>8 DEF TypeOK, clientVars, netVars
  <2> QED
    BY <1>16, <2>2, <2>3
<1>17. ASSUME NEW b \in Batches, BatchSettles(b) PROVE TypeOK'
  <2>1. mode' \in [Batches -> BatchModes]
    BY <1>17 DEF TypeOK, BatchSettles
  <2>2. parallelBroken' \subseteq Recipients
    <3>1. BatchTo[b] \in Recipients
      BY FetchNymAssumption
    <3> QED
      BY <1>17, <3>1 DEF TypeOK, BatchSettles
  <2>3. UNCHANGED <<next, idle, failed, reqVars, aborted, clientVars, netVars>>
    BY <1>17 DEF BatchSettles
  <2> QED
    BY <2>1, <2>2, <2>3 DEF TypeOK
<1>18. CASE UNCHANGED vars
  BY <1>18 DEF TypeOK, vars
<1> QED
  BY <1>1, <1>2, <1>3, <1>4, <1>6, <1>7, <1>8, <1>9, <1>10, <1>11, <1>12,
     <1>13, <1>14, <1>15, <1>16, <1>17, <1>18 DEF Next

(* Type correctness of the request layer.                                   *)
THEOREM TypeCorrect == Spec => []TypeOK
<1> QED
  BY TypeInit, TypeStep, PTL DEF Spec

-----------------------------------------------------------------------------
(* Correlation.  First the facts about the constants the proof needs.       *)
LEMMA SignalOfItem ==
  ASSUME NEW b \in Batches, NEW r \in ItemsOf(b)
  PROVE  r \notin Calls /\ SignalOf(r) = b
<1>1. r \in BatchItems /\ r \notin Calls
  BY FetchNymAssumption DEF BatchItems
<1>2. ASSUME NEW d \in Batches, r \in ItemsOf(d) PROVE d = b
  BY <1>2, FetchNymAssumption
<1> QED
  BY <1>1, <1>2 DEF SignalOf

LEMMA SignalOfType ==
  ASSUME NEW r \in Reqs, r \notin Calls
  PROVE  SignalOf(r) \in Batches /\ r \in ItemsOf(SignalOf(r))
<1>1. PICK b \in Batches : r \in ItemsOf(b)
  BY DEF Reqs, BatchItems
<1> QED
  BY <1>1, SignalOfItem

(* The next item of a batch, and where else it can stand.                   *)
LEMMA NextItem ==
  ASSUME TypeOK, NEW b \in Batches, HasWork(b)
  PROVE  /\ next[b] \in DOMAIN Items[b]
         /\ Items[b][next[b]] \in Reqs /\ Items[b][next[b]] \in ItemsOf(b)
<1>1. Items[b] \in Seq(BatchItems) /\ Len(Items[b]) \in Nat
  BY FetchNymAssumption
<1>2. next[b] \in Nat \ {0} /\ next[b] <= Len(Items[b])
  BY DEF TypeOK, HasWork
<1>3. next[b] \in DOMAIN Items[b]
  BY <1>1, <1>2
<1> QED
  BY <1>1, <1>3 DEF ItemsOf, Reqs

LEMMA ItemsApart ==
  ASSUME NEW b \in Batches, NEW d \in Batches,
         NEW i \in DOMAIN Items[b], NEW j \in DOMAIN Items[d],
         Items[b][i] = Items[d][j]
  PROVE  b = d /\ i = j
<1>1. Items[b][i] \in ItemsOf(b) /\ Items[b][i] \in ItemsOf(d)
  BY DEF ItemsOf
<1>2. b = d
  BY <1>1, SignalOfItem
<1> QED
  BY <1>2, FetchNymAssumption

(* A wait that ends disturbs none of the facts about tags.                  *)
LEMMA SettleKeeps ==
  ASSUME TypeOK, Fresh, SerialPath, Tags, Wire,
         NEW rs \in SUBSET Reqs, NEW how \in Settled, Settle(rs, how),
         \A r \in rs : state[r] # "idle",
         UNCHANGED <<tag, tagCounter, clientVars>>,
         unsent' \subseteq unsent, UNCHANGED <<sent, replies>>
  PROVE  Fresh' /\ SerialPath' /\ Tags' /\ Wire'
<1> USE DEF clientVars
<1>1. /\ state' = [r \in Reqs |-> IF r \in rs THEN how ELSE state[r]]
      /\ currentWaiter' \in {currentWaiter, None}
      /\ parallelWaiters' \subseteq parallelWaiters
      /\ UNCHANGED <<mode, next>>
  BY DEF Settle, Cleanup
<1>2. how \notin {"idle", "queued", "booting"}
  BY DEF Settled
<1>3. Fresh'
  <2>1. \A r \in Reqs : /\ state'[r] \in {"idle", "queued"} => tag'[r] = 0
                        /\ state'[r] = "booting" => tag'[r] # 0
    BY <1>1, <1>2 DEF Fresh
  <2>2. ASSUME NEW b \in Batches, NEW i \in DOMAIN Items[b], i >= next'[b]
        PROVE  state'[Items[b][i]] = "idle"
    <3>1. Items[b][i] \in Reqs
      BY FetchNymAssumption DEF Reqs
    <3>2. state[Items[b][i]] = "idle"
      BY <1>1, <2>2 DEF Fresh
    <3> QED
      BY <1>1, <3>1, <3>2
  <2> QED
    BY <2>1, <2>2 DEF Fresh
<1>4. SerialPath'
  <2>1. \A r : IsSerial(r)' <=> IsSerial(r)
    BY DEF IsSerial
  <2>2. \A r \in Reqs : state'[r] \in {"queued", "booting"} => IsSerial(r)'
    BY <1>1, <1>2, <2>1 DEF SerialPath
  <2>3. \A r \in Reqs : currentWaiter' = r => IsSerial(r)' /\ tag'[r] # 0
    <3>1. None \notin Reqs
      BY FetchNymAssumption DEF Callers
    <3> QED
      BY <1>1, <2>1, <3>1 DEF SerialPath
  <2> QED
    BY <1>1, <2>2, <2>3 DEF SerialPath
<1>5. Tags'
  BY DEF Tags
<1>6. Wire'
  BY <1>1 DEF Wire
<1> QED
  BY <1>3, <1>4, <1>5, <1>6

LEMMA CorrelationInit == Init => CorrelationInv
<1> SUFFICES ASSUME Init PROVE CorrelationInv
  OBVIOUS
<1>1. \A b \in Batches : \A i \in DOMAIN Items[b] : Items[b][i] \in Reqs
  BY FetchNymAssumption DEF Reqs
<1>2. Fresh
  BY <1>1 DEF Init, Fresh
<1>3. SerialPath
  BY FetchNymAssumption DEF Init, SerialPath, Callers, IsSerial
<1>4. Tags /\ Wire
  BY DEF Init, Tags, Wire
<1>5. Answers
  BY DEF Init, Answers, Correlation
<1> QED
  BY <1>2, <1>3, <1>4, <1>5 DEF CorrelationInv

(* A reply that is not the request's own is not remembered by a request     *)
(* that has not been sent: got changes only in DispatchReply.               *)
LEMMA AnswersKept ==
  ASSUME TypeOK, Answers, UNCHANGED got,
         \A r \in Reqs : tag'[r] = 0 => tag[r] = 0,
         \A r \in Reqs : got[r] # None /\ IsSerial(r) => IsSerial(r)'
  PROVE  Answers'
BY DEF Answers, Correlation

(* Serving a request keeps its tag, and the reply carries it or none.       *)
LEMMA CorrelationStep == TypeOK /\ CorrelationInv /\ [Next]_vars => CorrelationInv'
<1> SUFFICES ASSUME TypeOK, Fresh, SerialPath, Tags, Wire, Answers, [Next]_vars
             PROVE  CorrelationInv'
  BY DEF CorrelationInv
<1> USE DEF clientVars, netVars, reqVars, batchVars
<1> "aborted" \in Settled /\ "failed" \in Settled /\ "timeout" \in Settled
     /\ "ok" \in Settled
  BY DEF Settled
<1> DEFINE Quiet == UNCHANGED <<tag, tagCounter, clientVars, sent, replies>>
                    /\ unsent' \subseteq unsent
<1>a. ASSUME NEW rs \in SUBSET Reqs, NEW how \in Settled, Settle(rs, how), Quiet,
             \A r \in rs : state[r] # "idle", UNCHANGED got
      PROVE  CorrelationInv'
  <2>1. Fresh' /\ SerialPath' /\ Tags' /\ Wire'
    BY <1>a, SettleKeeps
  <2>2. Answers'
    BY <1>a, AnswersKept DEF IsSerial
  <2> QED
    BY <2>1, <2>2 DEF CorrelationInv
<1>b. ASSUME NEW r \in Reqs, NEW how \in Settled, Settle({r}, how), Quiet,
             state[r] # "idle", UNCHANGED got
      PROVE  CorrelationInv'
  <2>1. {r} \in SUBSET Reqs
    OBVIOUS
  <2> QED
    BY <2>1, <1>a, <1>b
<1>c. ASSUME UNCHANGED <<state, tag, tagCounter, got, currentWaiter, mode, next>>,
             \A b \in Batches : boot'[b] = boot[b],
             parallelWaiters' \subseteq parallelWaiters,
             unsent' \cup sent' \subseteq unsent \cup sent, UNCHANGED replies
      PROVE  CorrelationInv'
  <2>1. \A r \in Reqs : IsSerial(r)' <=> IsSerial(r)
    BY <1>c, SignalOfType DEF IsSerial
  <2>2. Fresh' /\ Tags' /\ Wire'
    BY <1>c DEF Fresh, Tags, Wire
  <2>4. SerialPath'
    BY <1>c, <2>1 DEF SerialPath
  <2>5. Answers'
    BY <1>c, <2>1, AnswersKept
  <2> QED
    BY <2>2, <2>4, <2>5 DEF CorrelationInv
<1> HIDE DEF Quiet
<1>1. ASSUME NEW r \in Reqs, FetchNym(r) PROVE CorrelationInv'
  <2>1. r \in Calls /\ IsSerial(r) /\ state[r] = "idle"
    BY <1>1 DEF FetchNym, IsSerial
  <2>2. Fresh'
    <3>1. ASSUME NEW b \in Batches, NEW i \in DOMAIN Items[b]
          PROVE  Items[b][i] \in Reqs /\ Items[b][i] # r
      BY <2>1, FetchNymAssumption DEF Reqs
    <3>2. state' = [state EXCEPT ![r] = "queued"] /\ UNCHANGED <<tag, next>>
      BY <1>1 DEF FetchNym
    <3> QED
      BY <2>1, <3>1, <3>2 DEF Fresh, TypeOK
  <2>3. \A q : IsSerial(q)' <=> IsSerial(q)
    BY <1>1 DEF FetchNym, IsSerial
  <2>4. SerialPath'
    BY <1>1, <2>1, <2>3 DEF FetchNym, SerialPath, TypeOK, IsSerial
  <2>5. Tags' /\ Wire'
    BY <1>1 DEF FetchNym, Tags, Wire
  <2>6. Answers'
    BY <1>1, <2>3, AnswersKept DEF FetchNym
  <2> QED
    BY <2>2, <2>4, <2>5, <2>6 DEF CorrelationInv
<1>2. ASSUME NEW r \in Reqs, RunOnce(r) PROVE CorrelationInv'
  <2>1. CASE SignalOf(r) \in aborted
    BY <1>2, <2>1, <1>b DEF RunOnce, Quiet
  <2>2. CASE SignalOf(r) \notin aborted
    <3>1. /\ state[r] = "queued" /\ state' = [state EXCEPT ![r] = "booting"]
          /\ tag' = [tag EXCEPT ![r] = tagCounter + 1] /\ tagCounter' = tagCounter + 1
          /\ UNCHANGED <<currentWaiter, parallelWaiters, mode, next, got, unsent,
                          sent, replies>>
      BY <1>2, <2>2 DEF RunOnce, NextTag
    <3>2. \A b \in Batches : boot'[b] = boot[b]
      <4>1. boot' = [boot EXCEPT ![r] = boot'[r]]
        BY <1>2, <2>2 DEF RunOnce, EnsureClient, TypeOK, Callers
      <4> QED
        BY <4>1, FetchNymAssumption DEF TypeOK, Callers
    <3>3. \A q \in Reqs : IsSerial(q)' <=> IsSerial(q)
      BY <3>2, SignalOfType DEF IsSerial
    <3>4. tag[r] = 0
      BY <3>1 DEF Fresh
    <3>5. Fresh'
      <4>1. \A b \in Batches : \A i \in DOMAIN Items[b] : Items[b][i] \in Reqs
        BY FetchNymAssumption DEF Reqs
      <4> QED
        BY <3>1, <4>1 DEF Fresh, TypeOK
    <3>6. SerialPath'
      <4>1. \A q \in Reqs : tag[q] # 0 => tag'[q] # 0
        BY <3>1, <3>4 DEF TypeOK
      <4>2. \A q \in Reqs : state'[q] \in {"queued", "booting"} => IsSerial(q)'
        BY <3>1, <3>3 DEF SerialPath, TypeOK
      <4>3. \A q \in Reqs : currentWaiter' = q => IsSerial(q)' /\ tag'[q] # 0
        BY <3>1, <3>3, <4>1 DEF SerialPath
      <4> QED
        BY <3>1, <3>2, <4>2, <4>3 DEF SerialPath
    <3>7. Tags'
      BY <3>1 DEF Tags, TypeOK
    <3>8. Wire'
      BY <3>1, <3>4 DEF Wire, TypeOK
    <3>9. Answers'
      BY <3>1, <3>3, AnswersKept DEF TypeOK
    <3> QED
      BY <3>5, <3>6, <3>7, <3>8, <3>9 DEF CorrelationInv
  <2> QED
    BY <2>1, <2>2
<1>3. ASSUME NEW r \in Reqs, RunOnceReady(r) PROVE CorrelationInv'
  <2>1. CASE SignalOf(r) \in aborted
    BY <1>3, <2>1, <1>b DEF RunOnceReady, Quiet
  <2>2. CASE SignalOf(r) \notin aborted
    <3>1. /\ state[r] = "booting" /\ state' = [state EXCEPT ![r] = "waiting"]
          /\ currentWaiter' = r
          /\ parallelWaiters' = parallelWaiters \cup {<<tag[r], r>>}
          /\ unsent' = unsent \cup {r}
          /\ UNCHANGED <<tag, got, tagCounter, boot, sent, replies, mode, next>>
      BY <1>3, <2>2 DEF RunOnceReady
    <3>2. IsSerial(r) /\ tag[r] # 0
      BY <3>1 DEF SerialPath, Fresh
    <3>3. \A q : IsSerial(q)' <=> IsSerial(q)
      BY <3>1 DEF IsSerial
    <3>4. Fresh'
      <4>1. \A b \in Batches : \A i \in DOMAIN Items[b] : Items[b][i] \in Reqs
        BY FetchNymAssumption DEF Reqs
      <4> QED
        BY <3>1, <4>1 DEF Fresh, TypeOK
    <3>5. SerialPath'
      BY <3>1, <3>2, <3>3 DEF SerialPath, TypeOK
    <3>6. Tags'
      BY <3>1 DEF Tags
    <3>7. Wire'
      BY <3>1, <3>2 DEF Wire
    <3>8. Answers'
      BY <3>1, <3>3, AnswersKept
    <3> QED
      BY <3>4, <3>5, <3>6, <3>7, <3>8 DEF CorrelationInv
  <2> QED
    BY <2>1, <2>2
<1>4. ASSUME NEW r \in Reqs, RunOnceBootFailed(r) \/ Timeout(r) PROVE CorrelationInv'
  BY <1>4, <1>b DEF RunOnceBootFailed, Timeout, Quiet
<1>5. ASSUME NEW r \in Reqs, SendOut(r) PROVE CorrelationInv'
  BY <1>5, <1>c DEF SendOut
<1>6. ASSUME NEW r \in Reqs, SendFails(r) PROVE CorrelationInv'
  <2>1. CASE state[r] = "waiting"
    BY <1>6, <2>1, <1>b DEF SendFails, Quiet
  <2>2. CASE state[r] # "waiting"
    BY <1>6, <2>2, <1>c DEF SendFails
  <2> QED
    BY <2>1, <2>2
<1>7. ASSUME NEW r \in Reqs, Dispatch(r) PROVE CorrelationInv'
  <2>1. /\ r \in sent
        /\ replies' = replies \cup {<<IF To[r] \in Legacy THEN 0 ELSE tag[r], r>>}
        /\ UNCHANGED <<state, tag, got, tagCounter, currentWaiter, parallelWaiters,
                        boot, unsent, sent, mode, next>>
    BY <1>7 DEF Dispatch
  <2>2. tag[r] # 0
    BY <2>1 DEF Wire
  <2>3. Wire'
    BY <2>1, <2>2 DEF Wire
  <2>4. Fresh' /\ SerialPath' /\ Tags'
    BY <2>1 DEF Fresh, SerialPath, Tags, IsSerial
  <2>5. Answers'
    BY <2>1, AnswersKept DEF IsSerial
  <2> QED
    BY <2>3, <2>4, <2>5 DEF CorrelationInv
<1>8. ASSUME NEW c \in Callers, Abort(c) PROVE CorrelationInv'
  <2> DEFINE rs == {r \in Reqs : state[r] = "waiting" /\ SignalOf(r) = c}
  <2>1. rs \in SUBSET Reqs /\ Settle(rs, "aborted") /\ UNCHANGED got
        /\ \A r \in rs : state[r] # "idle"
    BY <1>8 DEF Abort
  <2>2. Quiet
    BY <1>8 DEF Abort, Quiet
  <2> HIDE DEF rs
  <2> QED
    BY <2>1, <2>2, <1>a
<1>9. ASSUME NEW c \in Callers, BootOk(c) \/ BootFails(c) \/ StopDone(c)
      PROVE  CorrelationInv'
  BY <1>9, <1>c DEF BootOk, BootFails, StopDone
<1>10. ASSUME NEW m \in replies, DispatchReply(m) PROVE CorrelationInv'
  <2>1. PICK r \in Reqs :
          /\ Resolve(r, m) /\ tag[r] # 0
          /\ IF m[1] # 0 THEN m[1] = tag[r] ELSE IsSerial(r)
    <3>1. CASE m[1] # 0
      <4>1. PICK w \in parallelWaiters : w[1] = m[1] /\ Resolve(w[2], m)
        BY <1>10, <3>1 DEF DispatchReply
      <4>2. w[2] \in Reqs /\ w[1] = tag[w[2]]
        BY <4>1 DEF TypeOK, Wire
      <4> QED
        BY <3>1, <4>1, <4>2
    <3>2. CASE m[1] = 0
      <4>1. currentWaiter \in Reqs /\ Resolve(currentWaiter, m)
            /\ IsSerial(currentWaiter) /\ tag[currentWaiter] # 0
        BY <1>10, <3>2 DEF DispatchReply, TypeOK, SerialPath
      <4> QED
        BY <3>2, <4>1
    <3> QED
      BY <3>1, <3>2
  <2>2. state[r] # "idle" /\ {r} \in SUBSET Reqs
    BY <2>1 DEF Fresh
  <2>7. PICK how \in Settled : Settle({r}, how) /\ got' = [got EXCEPT ![r] = m[2]]
    BY <2>1 DEF Resolve, Settled
  <2>3. Quiet
    BY <1>10, <2>7 DEF DispatchReply, Resolve, Quiet
  <2>4. Fresh' /\ SerialPath' /\ Tags' /\ Wire'
    BY <2>7, <2>2, <2>3, SettleKeeps DEF Quiet
  <2>5. m[2] = r \/ (IsSerial(r) /\ To[m[2]] \in Legacy)
    <3>1. m[2] \in Reqs /\ tag[m[2]] # 0
      BY DEF TypeOK, Wire
    <3>2. IF m[1] = 0 THEN To[m[2]] \in Legacy ELSE m[1] = tag[m[2]]
      BY DEF Wire
    <3> QED
      <4>1. CASE m[1] = 0
        BY <2>1, <3>2, <4>1
      <4>2. CASE m[1] # 0
        <5>1. tag[r] = tag[m[2]] /\ tag[r] # 0
          BY <2>1, <3>2, <4>2
        <5>2. \A q \in Reqs : tag[r] = tag[q] => r = q
          BY <5>1 DEF Tags
        <5> QED
          BY <3>1, <5>1, <5>2
      <4> QED
        BY <4>1, <4>2
  <2>6. Answers'
    <3>1. UNCHANGED <<tag, boot>>
      BY <2>3 DEF Quiet
    <3>2. \A q : IsSerial(q)' <=> IsSerial(q)
      BY <3>1 DEF IsSerial
    <3> QED
      BY <2>7, <2>1, <2>5, <3>1, <3>2 DEF Answers, Correlation, TypeOK
  <2> QED
    BY <2>4, <2>6 DEF CorrelationInv
<1>11. CASE StopFetchNymClient
  <2>1. /\ UNCHANGED <<state, tag, tagCounter, got, boot, mode, next, unsent, sent, replies>>
        /\ currentWaiter' = None /\ parallelWaiters' = {}
    BY <1>11 DEF StopFetchNymClient
  <2>2. None \notin Reqs
    BY FetchNymAssumption DEF Callers
  <2>4. SerialPath'
    BY <2>1, <2>2 DEF SerialPath, IsSerial
  <2>5. Fresh' /\ Tags' /\ Wire'
    BY <2>1 DEF Fresh, Tags, Wire
  <2>3. Answers'
    BY <2>1, AnswersKept DEF IsSerial
  <2> QED
    BY <2>3, <2>4, <2>5 DEF CorrelationInv
<1>12. ASSUME NEW b \in Batches, FetchNymParallel(b) PROVE CorrelationInv'
  <2>1. /\ mode[b] = "idle" /\ next[b] = 1 /\ boot[b] = None
        /\ UNCHANGED <<state, tag, tagCounter, got, currentWaiter, parallelWaiters,
                        next, unsent, sent, replies>>
    BY <1>12 DEF FetchNymParallel, SerialPath
  <2>2. \A d \in Batches : d # b => boot'[d] = boot[d] /\ mode'[d] = mode[d]
    BY <1>12 DEF FetchNymParallel, EnsureClient, TypeOK, Callers
  <2>3. mode'[b] \in {"idle", "fallback"} => boot'[b] = None
    BY <1>12, <2>1 DEF FetchNymParallel, TypeOK
  <2>4. mode'[b] # "idle"
    BY <1>12 DEF FetchNymParallel, TypeOK
  <2>5. ASSUME NEW r \in ItemsOf(b)
        PROVE  tag[r] = 0 /\ state[r] = "idle"
    <3>1. PICK i \in DOMAIN Items[b] : r = Items[b][i]
      BY DEF ItemsOf
    <3>2. i >= 1 /\ r \in Reqs
      BY <3>1, FetchNymAssumption DEF Reqs
    <3> QED
      BY <2>1, <3>1, <3>2 DEF Fresh
  <2>6. ASSUME NEW r \in Reqs, tag[r] # 0 \/ state[r] # "idle"
        PROVE  IsSerial(r)' <=> IsSerial(r)
    <3>1. CASE r \in Calls
      BY <3>1 DEF IsSerial
    <3>2. CASE r \notin Calls
      <4>1. SignalOf(r) \in Batches /\ SignalOf(r) # b
        BY <2>5, <2>6, <3>2, SignalOfType
      <4> QED
        BY <2>2, <4>1 DEF IsSerial
    <3> QED
      BY <3>1, <3>2
  <2>7. Fresh' /\ Tags' /\ Wire'
    BY <2>1 DEF Fresh, Tags, Wire
  <2>8. SerialPath'
    <3>1. \A r \in Reqs : currentWaiter = r => IsSerial(r)' /\ tag[r] # 0
      BY <2>6 DEF SerialPath
    <3>2. \A r \in Reqs : state[r] \in {"queued", "booting"} => IsSerial(r)'
      BY <2>6 DEF SerialPath
    <3>3. \A d \in Batches : mode'[d] \in {"idle", "fallback"} => boot'[d] = None
      BY <2>2, <2>3 DEF SerialPath
    <3>4. \A d \in Batches : mode'[d] = "idle" => next'[d] = 1
      BY <2>1, <2>2, <2>4 DEF SerialPath
    <3> QED
      BY <2>1, <3>1, <3>2, <3>3, <3>4 DEF SerialPath
  <2>9. Answers'
    BY <2>1, <2>6, AnswersKept DEF Answers
  <2> QED
    BY <2>7, <2>8, <2>9 DEF CorrelationInv
<1>13. ASSUME NEW b \in Batches,
              StartWorkers(b) \/ BatchBootFailed(b) \/ BatchSettles(b)
       PROVE  CorrelationInv'
  <2>1. /\ mode[b] \notin {"idle"} /\ mode' = [mode EXCEPT ![b] = mode'[b]]
        /\ mode'[b] \in {"running", "failed", "done"}
        /\ UNCHANGED <<state, tag, tagCounter, got, currentWaiter, parallelWaiters,
                        next, boot, unsent, sent, replies>>
    BY <1>13 DEF StartWorkers, BatchBootFailed, BatchSettles, TypeOK
  <2>2. Fresh' /\ Tags' /\ Wire'
    BY <2>1 DEF Fresh, Tags, Wire
  <2>3. SerialPath'
    BY <2>1 DEF SerialPath, IsSerial, TypeOK
  <2>4. Answers'
    BY <2>1, AnswersKept DEF IsSerial
  <2> QED
    BY <2>2, <2>3, <2>4 DEF CorrelationInv
<1>14. ASSUME NEW b \in Batches, RunTagged(b) PROVE CorrelationInv'
  <2> DEFINE r == Items[b][next[b]]
  <2>1. /\ next[b] \in DOMAIN Items[b] /\ r \in Reqs /\ r \in ItemsOf(b)
        /\ state[r] = "idle" /\ tag[r] = 0
    <3>1. next[b] \in DOMAIN Items[b] /\ r \in Reqs /\ r \in ItemsOf(b)
      BY <1>14, NextItem DEF RunTagged
    <3>2. next[b] >= next[b]
      BY DEF TypeOK
    <3> QED
      BY <3>1, <3>2 DEF Fresh
  <2>2. /\ next' = [next EXCEPT ![b] = @ + 1] /\ mode[b] = "running"
        /\ UNCHANGED <<got, currentWaiter, mode, sent, replies>>
    BY <1>14 DEF RunTagged
  <2>3. state' = [state EXCEPT ![r] = state'[r]]
        /\ state'[r] \in {"waiting", "aborted"}
    BY <1>14, <2>1 DEF RunTagged, TypeOK
  <2>4. Fresh' /\ SerialPath' /\ Tags' /\ Wire' /\ Answers'
    <3>1. \A q \in Reqs : q # r => tag'[q] = tag[q]
      BY <1>14, <2>1 DEF RunTagged, NextTag, TypeOK
    <3>2. \A d \in Batches : boot'[d] = boot[d]
      BY <1>14, <2>1, FetchNymAssumption DEF RunTagged, TypeOK, Callers
    <3>3. \A q \in Reqs : IsSerial(q)' <=> IsSerial(q)
      BY <3>2, SignalOfType DEF IsSerial
    <3>4. Fresh'
      <4>1. \A q \in Reqs : /\ state'[q] \in {"idle", "queued"} => tag'[q] = 0
                            /\ state'[q] = "booting" => tag'[q] # 0
        BY <2>1, <2>3, <3>1 DEF Fresh, TypeOK
      <4>2. ASSUME NEW d \in Batches, NEW i \in DOMAIN Items[d], i >= next'[d]
            PROVE  state'[Items[d][i]] = "idle"
        <5>1. next[d] \in Nat /\ i \in Nat /\ Items[d][i] \in Reqs
          BY FetchNymAssumption DEF TypeOK, Reqs
        <5>2. i >= next[d] /\ ~(d = b /\ i = next[b])
          BY <2>2, <4>2, <5>1 DEF TypeOK
        <5>3. Items[d][i] # r
          BY <2>1, <5>2, ItemsApart
        <5> QED
          BY <2>3, <5>1, <5>2, <5>3 DEF Fresh, TypeOK
      <4> QED
        BY <4>1, <4>2 DEF Fresh
    <3>5. currentWaiter # r
      BY <2>1, FetchNymAssumption DEF SerialPath, Callers
    <3>6. SerialPath'
      BY <2>1, <2>2, <2>3, <3>1, <3>2, <3>3, <3>5 DEF SerialPath, TypeOK
    <3>7. Tags'
      <4>1. CASE b \in aborted
        <5>1. UNCHANGED <<tag, tagCounter>>
          BY <1>14, <4>1 DEF RunTagged
        <5> QED
          BY <5>1 DEF Tags
      <4>2. CASE b \notin aborted
        <5>1. tag' = [tag EXCEPT ![r] = tagCounter + 1] /\ tagCounter' = tagCounter + 1
          BY <1>14, <4>2 DEF RunTagged, NextTag
        <5> HIDE DEF r
        <5> QED
          BY <2>1, <5>1 DEF Tags, TypeOK
      <4> QED
        BY <4>1, <4>2
    <3>8. Wire'
      <4>1. CASE b \in aborted
        <5>1. UNCHANGED <<tag, parallelWaiters, unsent, sent, replies>>
          BY <1>14, <4>1 DEF RunTagged
        <5> QED
          BY <5>1 DEF Wire
      <4>2. CASE b \notin aborted
        <5>1. /\ tag' = [tag EXCEPT ![r] = tagCounter + 1]
              /\ parallelWaiters' = parallelWaiters \cup {<<tagCounter + 1, r>>}
              /\ unsent' = unsent \cup {r} /\ UNCHANGED <<sent, replies>>
          BY <1>14, <4>2 DEF RunTagged, NextTag
        <5> HIDE DEF r
        <5> QED
          BY <2>1, <5>1 DEF Wire, TypeOK
      <4> QED
        BY <4>1, <4>2
    <3>9. \A q \in Reqs : tag'[q] = 0 => tag[q] = 0
      BY <2>1, <3>1
    <3>10. Answers'
      BY <2>2, <3>3, <3>9, AnswersKept
    <3> QED
      BY <3>4, <3>6, <3>7, <3>8, <3>10
  <2> QED
    BY <2>4 DEF CorrelationInv
<1>15. ASSUME NEW b \in Batches, FallbackItem(b) PROVE CorrelationInv'
  <2> DEFINE r == Items[b][next[b]]
  <2>1. /\ next[b] \in DOMAIN Items[b] /\ r \in Reqs /\ r \in ItemsOf(b)
        /\ state[r] = "idle" /\ tag[r] = 0
    <3>1. next[b] \in DOMAIN Items[b] /\ r \in Reqs /\ r \in ItemsOf(b)
      BY <1>15, NextItem DEF FallbackItem
    <3>2. next[b] >= next[b]
      BY DEF TypeOK
    <3> QED
      BY <3>1, <3>2 DEF Fresh
  <2>2. /\ next' = [next EXCEPT ![b] = @ + 1] /\ mode[b] = "fallback"
        /\ state' = [state EXCEPT ![r] = "queued"]
        /\ UNCHANGED <<tag, got, tagCounter, currentWaiter, parallelWaiters, boot,
                        unsent, sent, replies, mode>>
    BY <1>15 DEF FallbackItem
  <2>3. IsSerial(r)
    BY <2>1, <2>2, SignalOfItem DEF IsSerial, SerialPath
  <2>4. \A q : IsSerial(q)' <=> IsSerial(q)
    BY <2>2 DEF IsSerial
  <2>5. Fresh'
    <3>1. \A q \in Reqs : /\ state'[q] \in {"idle", "queued"} => tag'[q] = 0
                          /\ state'[q] = "booting" => tag'[q] # 0
      BY <2>1, <2>2 DEF Fresh, TypeOK
    <3>2. ASSUME NEW d \in Batches, NEW i \in DOMAIN Items[d], i >= next'[d]
          PROVE  state'[Items[d][i]] = "idle"
      <4>1. next[d] \in Nat /\ i \in Nat /\ Items[d][i] \in Reqs
        BY FetchNymAssumption DEF TypeOK, Reqs
      <4>2. i >= next[d] /\ ~(d = b /\ i = next[b])
        BY <2>2, <3>2, <4>1 DEF TypeOK
      <4>3. Items[d][i] # r
        BY <2>1, <4>2, ItemsApart
      <4> QED
        BY <2>2, <4>1, <4>2, <4>3 DEF Fresh, TypeOK
    <3> QED
      BY <3>1, <3>2 DEF Fresh
  <2>6. SerialPath'
    <3>1. \A q \in Reqs : state'[q] \in {"queued", "booting"} => IsSerial(q)'
      BY <2>1, <2>2, <2>3, <2>4 DEF SerialPath, TypeOK
    <3>2. \A q \in Reqs : currentWaiter' = q => IsSerial(q)' /\ tag'[q] # 0
      BY <2>2, <2>4 DEF SerialPath
    <3>3. \A d \in Batches : mode'[d] = "idle" => next'[d] = 1
      BY <2>2 DEF SerialPath, TypeOK
    <3> QED
      BY <2>2, <3>1, <3>2, <3>3 DEF SerialPath
  <2>7. Tags' /\ Wire'
    BY <2>2 DEF Tags, Wire
  <2>8. Answers'
    BY <2>2, <2>4, AnswersKept
  <2> QED
    BY <2>5, <2>6, <2>7, <2>8 DEF CorrelationInv
<1>16. CASE UNCHANGED vars
  BY <1>16, <1>c DEF vars
<1> QED
  BY <1>1, <1>2, <1>3, <1>4, <1>5, <1>6, <1>7, <1>8, <1>9, <1>10, <1>11, <1>12,
     <1>13, <1>14, <1>15, <1>16 DEF Next

(* No request is ever answered with the reply to another one, except a      *)
(* serial request by the untagged reply of a provider without tags.         *)
THEOREM RepliesMatch == Spec => []Correlation
<1>1. Init => TypeOK /\ CorrelationInv
  BY TypeInit, CorrelationInit
<1>2. TypeOK /\ CorrelationInv /\ [Next]_vars => TypeOK' /\ CorrelationInv'
  BY TypeStep, CorrelationStep
<1>3. CorrelationInv => Correlation
  BY DEF CorrelationInv, Answers
<1> QED
  BY <1>1, <1>2, <1>3, PTL DEF Spec

-----------------------------------------------------------------------------
(* The waits and the batches.                                              *)

(* Every cleanup removes what it must: waits that end leave no waiter, and  *)
(* take the turn from nobody else.                                          *)
LEMMA SettleWaiters ==
  ASSUME TypeOK, WaitersInv, UNCHANGED tag,
         NEW rs \in SUBSET Reqs, NEW how \in Settled, Settle(rs, how)
  PROVE  WaitersInv'
<1>1. /\ state' = [r \in Reqs |-> IF r \in rs THEN how ELSE state[r]]
      /\ currentWaiter' = IF currentWaiter \in rs THEN None ELSE currentWaiter
      /\ parallelWaiters' = {w \in parallelWaiters : w[2] \notin rs}
      /\ mutex' = IF mutex # <<>> /\ Head(mutex) \in rs THEN Tail(mutex) ELSE mutex
  BY DEF Settle, Cleanup, ReleaseMutex
<1>2. how # "booting"
  BY DEF Settled
<1>3. ASSUME NEW r, HasTurn(r), r \notin rs PROVE HasTurn(r)'
  BY <1>1, <1>3 DEF HasTurn
<1>4. ASSUME NEW w \in parallelWaiters'
      PROVE  state'[w[2]] = "waiting" /\ w[1] = tag'[w[2]]
  <2>1. w \in parallelWaiters /\ w[2] \notin rs /\ w[2] \in Reqs
    BY <1>1, <1>4 DEF TypeOK
  <2> QED
    BY <1>1, <2>1 DEF WaitersInv, NoStaleWaiter
<1>5. ASSUME NEW r \in Reqs, state'[r] = "booting" PROVE HasTurn(r)'
  BY <1>1, <1>2, <1>3, <1>5 DEF WaitersInv
<1>6. ASSUME currentWaiter' # None
      PROVE  state'[currentWaiter'] = "waiting" /\ HasTurn(currentWaiter)'
  <2>1. currentWaiter' = currentWaiter /\ currentWaiter \in Reqs \ rs
    BY <1>1, <1>6 DEF TypeOK
  <2>2. state[currentWaiter] = "waiting" /\ HasTurn(currentWaiter)
    BY <1>6, <2>1 DEF WaitersInv, NoStaleWaiter
  <2>3. HasTurn(currentWaiter)'
    BY <1>1, <2>1, <2>2 DEF HasTurn
  <2> QED
    BY <1>1, <2>1, <2>2, <2>3
<1> QED
  BY <1>4, <1>5, <1>6 DEF WaitersInv, NoStaleWaiter, HasTurn

(* Who answers: the request of a dispatched reply is one that waits.        *)
LEMMA ReplyWakesWaiter ==
  ASSUME TypeOK, WaitersInv, NEW m \in replies, DispatchReply(m)
  PROVE  \E r \in Reqs : state[r] = "waiting" /\ Resolve(r, m)
<1>1. CASE m[1] # 0
  <2>1. PICK w \in parallelWaiters : Resolve(w[2], m)
    BY <1>1 DEF DispatchReply
  <2> QED
    BY <2>1 DEF TypeOK, WaitersInv, NoStaleWaiter
<1>2. CASE m[1] = 0
  BY <1>2 DEF DispatchReply, TypeOK, WaitersInv, NoStaleWaiter
<1> QED
  BY <1>1, <1>2

(* The turn stays with a call when another one queues behind it.            *)
LEMMA TurnKept ==
  ASSUME TypeOK, NEW r \in Reqs, NEW q \in Reqs, HasTurn(r),
         mutex' = Append(mutex, q)
  PROVE  HasTurn(r)'
<1>1. mutex \in Seq(Reqs) /\ mutex # <<>>
  BY DEF TypeOK, HasTurn
<1>2. Append(mutex, q) # <<>> /\ Head(Append(mutex, q)) = Head(mutex)
  BY <1>1
<1> QED
  BY <1>2 DEF HasTurn

(* The item a worker takes has not been touched.                            *)
LEMMA NextItemIdle ==
  ASSUME TypeOK, Fresh, NEW b \in Batches, HasWork(b)
  PROVE  /\ next[b] \in DOMAIN Items[b]
         /\ Items[b][next[b]] \in Reqs /\ Items[b][next[b]] \in ItemsOf(b)
         /\ state[Items[b][next[b]]] = "idle"
<1>1. next[b] >= next[b]
  BY DEF TypeOK
<1> QED
  BY <1>1, NextItem DEF Fresh

LEMMA WaitersInit == Init => WaitersInv
BY DEF Init, WaitersInv, NoStaleWaiter

LEMMA WaitersStep ==
  TypeOK /\ CorrelationInv /\ WaitersInv /\ [Next]_vars => WaitersInv'
<1> SUFFICES ASSUME TypeOK, Fresh, SerialPath, Wire, WaitersInv, [Next]_vars
             PROVE  WaitersInv'
  BY DEF CorrelationInv
<1> USE DEF clientVars, netVars, reqVars, batchVars
<1> "aborted" \in Settled /\ "failed" \in Settled /\ "timeout" \in Settled
     /\ "ok" \in Settled
  BY DEF Settled
<1>a. ASSUME UNCHANGED <<state, tag, mutex, currentWaiter, parallelWaiters>>
      PROVE  WaitersInv'
  BY <1>a DEF WaitersInv, NoStaleWaiter, HasTurn
<1>b. ASSUME NEW r \in Reqs, NEW how \in Settled, Settle({r}, how), UNCHANGED tag
      PROVE  WaitersInv'
  <2>1. {r} \in SUBSET Reqs
    OBVIOUS
  <2> QED
    BY <2>1, <1>b, SettleWaiters
<1>c. ASSUME NEW r \in Reqs, state[r] = "idle", mutex' = Append(mutex, r),
             state' = [state EXCEPT ![r] = "queued"],
             UNCHANGED <<tag, currentWaiter, parallelWaiters>>
      PROVE  WaitersInv'
  <2>1. \A q \in Reqs : HasTurn(q) => HasTurn(q)'
    BY <1>c, TurnKept
  <2>2. ASSUME NEW w \in parallelWaiters'
        PROVE  state'[w[2]] = "waiting" /\ w[1] = tag'[w[2]]
    BY <1>c, <2>2 DEF WaitersInv, NoStaleWaiter, TypeOK
  <2>3. ASSUME NEW q \in Reqs, state'[q] = "booting" PROVE HasTurn(q)'
    BY <1>c, <2>1, <2>3 DEF WaitersInv, TypeOK
  <2>4. ASSUME currentWaiter' # None
        PROVE  state'[currentWaiter'] = "waiting" /\ HasTurn(currentWaiter)'
    <3>1. currentWaiter' = currentWaiter /\ currentWaiter \in Reqs
      BY <1>c, <2>4 DEF TypeOK
    <3>2. state[currentWaiter] = "waiting" /\ HasTurn(currentWaiter)
      BY <3>1, <2>4 DEF WaitersInv, NoStaleWaiter
    <3>3. state'[currentWaiter] = "waiting"
      BY <1>c, <3>1, <3>2 DEF TypeOK
    <3>4. HasTurn(currentWaiter)'
      BY <2>1, <3>1, <3>2 DEF HasTurn
    <3> QED
      BY <3>1, <3>3, <3>4
  <2> QED
    BY <2>2, <2>3, <2>4 DEF WaitersInv, NoStaleWaiter, HasTurn
<1>1. ASSUME NEW r \in Reqs, FetchNym(r) PROVE WaitersInv'
  BY <1>1, <1>c DEF FetchNym
<1>2. ASSUME NEW r \in Reqs, RunOnce(r) PROVE WaitersInv'
  <2>1. CASE SignalOf(r) \in aborted
    BY <1>2, <2>1, <1>b DEF RunOnce
  <2>2. CASE SignalOf(r) \notin aborted
    <3>1. /\ state[r] = "queued" /\ HasTurn(r)
          /\ state' = [state EXCEPT ![r] = "booting"]
          /\ tag' = [tag EXCEPT ![r] = tagCounter + 1]
          /\ UNCHANGED <<mutex, currentWaiter, parallelWaiters>>
      BY <1>2, <2>2 DEF RunOnce, NextTag
    <3>2. \A w \in parallelWaiters : w[2] \in Reqs \ {r}
      BY <3>1 DEF WaitersInv, NoStaleWaiter, TypeOK
    <3>3. currentWaiter # r
      BY <3>1, FetchNymAssumption DEF WaitersInv, NoStaleWaiter, Callers
    <3> QED
      BY <3>1, <3>2, <3>3 DEF WaitersInv, NoStaleWaiter, TypeOK, HasTurn
  <2> QED
    BY <2>1, <2>2
<1>3. ASSUME NEW r \in Reqs, RunOnceReady(r) PROVE WaitersInv'
  <2>1. CASE SignalOf(r) \in aborted
    BY <1>3, <2>1, <1>b DEF RunOnceReady
  <2>2. CASE SignalOf(r) \notin aborted
    <3>1. /\ state[r] = "booting" /\ state' = [state EXCEPT ![r] = "waiting"]
          /\ currentWaiter' = r
          /\ parallelWaiters' = parallelWaiters \cup {<<tag[r], r>>}
          /\ UNCHANGED <<tag, mutex>>
      BY <1>3, <2>2 DEF RunOnceReady
    <3>2. HasTurn(r)
      BY <3>1 DEF WaitersInv
    <3> QED
      BY <3>1, <3>2 DEF WaitersInv, NoStaleWaiter, TypeOK, HasTurn
  <2> QED
    BY <2>1, <2>2
<1>4. ASSUME NEW r \in Reqs, RunOnceBootFailed(r) \/ Timeout(r) PROVE WaitersInv'
  BY <1>4, <1>b DEF RunOnceBootFailed, Timeout
<1>5. ASSUME NEW r \in Reqs, SendOut(r) \/ Dispatch(r) PROVE WaitersInv'
  BY <1>5, <1>a DEF SendOut, Dispatch
<1>6. ASSUME NEW r \in Reqs, SendFails(r) PROVE WaitersInv'
  <2>1. CASE state[r] = "waiting"
    BY <1>6, <2>1, <1>b DEF SendFails
  <2>2. CASE state[r] # "waiting"
    BY <1>6, <2>2, <1>a DEF SendFails
  <2> QED
    BY <2>1, <2>2
<1>7. ASSUME NEW c \in Callers, Abort(c) PROVE WaitersInv'
  <2> DEFINE rs == {r \in Reqs : state[r] = "waiting" /\ SignalOf(r) = c}
  <2>1. rs \in SUBSET Reqs /\ Settle(rs, "aborted") /\ UNCHANGED tag
    BY <1>7 DEF Abort
  <2> HIDE DEF rs
  <2> QED
    BY <2>1, SettleWaiters
<1>8. ASSUME NEW c \in Callers, BootOk(c) \/ BootFails(c) \/ StopDone(c)
      PROVE  WaitersInv'
  BY <1>8, <1>a DEF BootOk, BootFails, StopDone
<1>9. ASSUME NEW m \in replies, DispatchReply(m) PROVE WaitersInv'
  <2>1. PICK r \in Reqs : Resolve(r, m)
    BY <1>9, ReplyWakesWaiter
  <2>2. PICK how \in Settled : Settle({r}, how)
    BY <2>1 DEF Resolve, Settled
  <2>3. UNCHANGED tag
    BY <1>9 DEF DispatchReply
  <2> QED
    BY <2>2, <2>3, <1>b
<1>10. CASE StopFetchNymClient
  BY <1>10 DEF StopFetchNymClient, WaitersInv, NoStaleWaiter, HasTurn
<1>11. ASSUME NEW b \in Batches, FetchNymParallel(b) \/ StartWorkers(b)
                                 \/ BatchBootFailed(b) \/ BatchSettles(b)
       PROVE  WaitersInv'
  BY <1>11, <1>a DEF FetchNymParallel, StartWorkers, BatchBootFailed, BatchSettles
<1>12. ASSUME NEW b \in Batches, RunTagged(b) PROVE WaitersInv'
  <2> DEFINE r == Items[b][next[b]]
  <2>1. r \in Reqs /\ state[r] = "idle"
    BY <1>12, NextItemIdle DEF RunTagged
  <2>2. \A w \in parallelWaiters : w[2] \in Reqs \ {r}
    BY <2>1 DEF WaitersInv, NoStaleWaiter, TypeOK
  <2>3. currentWaiter # r
    BY <2>1, FetchNymAssumption DEF WaitersInv, NoStaleWaiter, Callers
  <2>4. UNCHANGED <<mutex, currentWaiter>>
    BY <1>12 DEF RunTagged
  <2>5. CASE b \in aborted
    <3>1. /\ state' = [state EXCEPT ![r] = "aborted"]
          /\ UNCHANGED <<tag, parallelWaiters>>
      BY <1>12, <2>5 DEF RunTagged
    <3> HIDE DEF r
    <3> QED
      BY <2>1, <2>2, <2>3, <2>4, <3>1 DEF WaitersInv, NoStaleWaiter, TypeOK, HasTurn
  <2>6. CASE b \notin aborted
    <3>1. /\ state' = [state EXCEPT ![r] = "waiting"]
          /\ tag' = [tag EXCEPT ![r] = tagCounter + 1]
          /\ parallelWaiters' = parallelWaiters \cup {<<tagCounter + 1, r>>}
      BY <1>12, <2>6 DEF RunTagged, NextTag
    <3> HIDE DEF r
    <3> QED
      BY <2>1, <2>2, <2>3, <2>4, <3>1 DEF WaitersInv, NoStaleWaiter, TypeOK, HasTurn
  <2> QED
    BY <2>5, <2>6
<1>13. ASSUME NEW b \in Batches, FallbackItem(b) PROVE WaitersInv'
  <2>1. Items[b][next[b]] \in Reqs /\ state[Items[b][next[b]]] = "idle"
    BY <1>13, NextItemIdle DEF FallbackItem
  <2> QED
    BY <1>13, <2>1, <1>c DEF FallbackItem
<1>14. CASE UNCHANGED vars
  BY <1>14, <1>a DEF vars
<1> QED
  BY <1>1, <1>2, <1>3, <1>4, <1>5, <1>6, <1>7, <1>8, <1>9, <1>10, <1>11, <1>12,
     <1>13, <1>14 DEF Next

(* Whatever ends a wait removes its waiters (NoStaleWaiter).                *)
THEOREM WaitersFresh == Spec => []NoStaleWaiter
<1>1. Init => TypeOK /\ CorrelationInv /\ WaitersInv
  BY TypeInit, CorrelationInit, WaitersInit
<1>2. TypeOK /\ CorrelationInv /\ WaitersInv /\ [Next]_vars
        => TypeOK' /\ CorrelationInv' /\ WaitersInv'
  BY TypeStep, CorrelationStep, WaitersStep
<1>3. WaitersInv => NoStaleWaiter
  BY DEF WaitersInv
<1> QED
  BY <1>1, <1>2, <1>3, PTL DEF Spec

-----------------------------------------------------------------------------
(* Batches.  The requests under way are counted against the workers.        *)
LEMMA UnderWayFinite ==
  ASSUME NEW b \in Batches
  PROVE  IsFiniteSet(UnderWay(b)) /\ Cardinality(UnderWay(b)) \in Nat
<1>1. IsFiniteSet(UnderWay(b))
  BY ItemsFinite, FS_Subset DEF UnderWay
<1> QED
  BY <1>1, FS_CardinalityType

LEMMA ItemOfBatch ==
  ASSUME NEW b \in Batches, NEW i \in DOMAIN Items[b]
  PROVE  /\ i \in Nat \ {0} /\ i <= Len(Items[b]) /\ Len(Items[b]) \in Nat
         /\ Items[b][i] \in ItemsOf(b) /\ Items[b][i] \in Reqs
<1>1. Items[b] \in Seq(BatchItems)
  BY FetchNymAssumption
<1>2. DOMAIN Items[b] = 1..Len(Items[b]) /\ Len(Items[b]) \in Nat
  BY <1>1
<1> QED
  BY <1>1, <1>2 DEF ItemsOf, Reqs

LEMMA WorkersType ==
  ASSUME NEW b \in Batches
  PROVE  /\ Workers(b) \in Nat
         /\ Len(Items[b]) \in Nat
         /\ Len(Items[b]) >= 2 => Min2(Concurrency, Len(Items[b])) >= 1
<1>1. Len(Items[b]) \in Nat /\ Concurrency \in Nat \ {0}
  BY FetchNymAssumption
<1> QED
  BY <1>1 DEF Workers, Min2

(* A batch whose own state is untouched still fits.                         *)
LEMMA BatchKept ==
  ASSUME TypeOK, NEW b \in Batches, BatchFits(b),
         mode'[b] = mode[b], next'[b] = next[b],
         idle'[b] = idle[b], failed'[b] = failed[b],
         UnderWay(b)' = UnderWay(b),
         \A r \in ItemsOf(b) : state[r] = "ok" => state'[r] = "ok"
  PROVE  BatchFits(b)'
<1>1. WorkersCounted(b)'
  BY DEF BatchFits, WorkersCounted, Workers
<1>2. ItemsTaken(b)'
  BY ItemOfBatch DEF BatchFits, ItemsTaken
<1>3. ModeFits(b)'
  BY DEF BatchFits, ModeFits
<1> QED
  BY <1>1, <1>2, <1>3 DEF BatchFits

(* Waits that end give their workers back.                                  *)
LEMMA SettleBatch ==
  ASSUME TypeOK, BatchInv, NEW rs \in SUBSET Reqs, NEW how \in Settled,
         Settle(rs, how),
         \A r \in rs : state[r] \in {"queued", "booting", "waiting"}
  PROVE  BatchInv'
<1>1. /\ state' = [r \in Reqs |-> IF r \in rs THEN how ELSE state[r]]
      /\ idle' = [b \in Batches |-> idle[b] + Cardinality(rs \cap ItemsOf(b))]
      /\ failed' = [b \in Batches |-> failed[b] \/ (how # "ok" /\ rs \cap ItemsOf(b) # {})]
      /\ UNCHANGED <<mode, next>>
  BY DEF Settle, WorkerBack, Returning
<1>2. how \notin {"queued", "booting", "waiting"}
  BY DEF Settled
<1>3. SUFFICES ASSUME NEW b \in Batches PROVE BatchFits(b)'
  BY DEF BatchInv
<1>4. BatchFits(b) /\ ItemsOf(b) \subseteq Reqs
  BY DEF BatchInv, Reqs, BatchItems
<1>5. UnderWay(b)' = UnderWay(b) \ rs
  BY <1>1, <1>2, <1>4 DEF UnderWay
<1>6. UnderWay(b) \cap rs = rs \cap ItemsOf(b)
  BY DEF UnderWay
<1>7. WorkersCounted(b)'
  <2>1. CASE mode[b] \in {"running", "fallback"}
    <3>1. idle[b] + Cardinality(UnderWay(b)) = Workers(b) /\ Workers(b)' = Workers(b)
      BY <1>1, <1>4, <2>1 DEF BatchFits, WorkersCounted, Workers
    <3>2. Cardinality(UnderWay(b) \ rs)
            = Cardinality(UnderWay(b)) - Cardinality(rs \cap ItemsOf(b))
      <4>1. IsFiniteSet(UnderWay(b))
        BY UnderWayFinite
      <4>2. Cardinality(UnderWay(b) \ rs)
              = Cardinality(UnderWay(b)) - Cardinality(UnderWay(b) \cap rs)
        BY <4>1, FS_Difference, Zenon
      <4> QED
        BY <1>6, <4>2
    <3>3. Cardinality(rs \cap ItemsOf(b)) \in Nat
      BY <1>6, UnderWayFinite, FS_Intersection, FS_CardinalityType
    <3>4. idle'[b] = idle[b] + Cardinality(rs \cap ItemsOf(b)) /\ mode'[b] = mode[b]
      BY <1>1
    <3>5. idle[b] \in Nat /\ Cardinality(UnderWay(b)) \in Nat
      BY UnderWayFinite DEF TypeOK
    <3>6. idle'[b] + Cardinality(UnderWay(b) \ rs) = Workers(b)
      BY <3>1, <3>2, <3>3, <3>4, <3>5
    <3> QED
      BY <1>5, <2>1, <3>1, <3>4, <3>6 DEF WorkersCounted
  <2>2. CASE mode[b] \notin {"running", "fallback"}
    BY <1>1, <1>4, <1>5, <2>2 DEF BatchFits, WorkersCounted
  <2> QED
    BY <2>1, <2>2
<1>8. ItemsTaken(b)'
  <2>1. SUFFICES ASSUME NEW i \in DOMAIN Items[b], i < next[b], ~failed'[b]
                 PROVE  Items[b][i] \in UnderWay(b)' \/ state'[Items[b][i]] = "ok"
    BY <1>1 DEF ItemsTaken
  <2>2. Items[b][i] \in ItemsOf(b) /\ Items[b][i] \in Reqs
    BY ItemOfBatch
  <2>3. ~failed[b] /\ (Items[b][i] \in rs => how = "ok")
    BY <1>1, <2>1, <2>2
  <2>4. Items[b][i] \in UnderWay(b) \/ state[Items[b][i]] = "ok"
    BY <1>4, <2>1, <2>3 DEF BatchFits, ItemsTaken
  <2> QED
    BY <1>1, <1>5, <2>2, <2>3, <2>4
<1>9. ModeFits(b)'
  <2>1. ASSUME mode[b] = "done" PROVE ~failed'[b]
    <3>1. UnderWay(b) = {} /\ ~failed[b]
      BY <1>4, <2>1 DEF BatchFits, WorkersCounted, ModeFits
    <3> QED
      BY <1>1, <1>6, <3>1
  <2> QED
    BY <1>1, <1>4, <2>1 DEF BatchFits, ModeFits
<1> QED
  BY <1>7, <1>8, <1>9 DEF BatchFits

(* A worker that takes the next item of its batch.                          *)
LEMMA TakesItem ==
  ASSUME TypeOK, NEW b \in Batches, BatchFits(b), HasWork(b),
         mode[b] \in {"running", "fallback"},
         Items[b][next[b]] \in ItemsOf(b), state[Items[b][next[b]]] = "idle",
         NEW how \in {"queued", "waiting"},
         state' = [state EXCEPT ![Items[b][next[b]]] = how],
         idle' = [idle EXCEPT ![b] = @ - 1],
         next' = [next EXCEPT ![b] = @ + 1],
         UNCHANGED <<mode, failed>>
  PROVE  BatchFits(b)'
<1> DEFINE r == Items[b][next[b]]
<1>1. ItemsOf(b) \subseteq Reqs /\ state \in [Reqs -> ReqStates]
  BY DEF TypeOK, Reqs, BatchItems
<1>2. r \in ItemsOf(b) /\ state[r] = "idle" /\ state' = [state EXCEPT ![r] = how]
  OBVIOUS
<1>3. UnderWay(b)' = UnderWay(b) \cup {r} /\ r \notin UnderWay(b)
  <2> HIDE DEF r
  <2> QED
    BY <1>1, <1>2 DEF UnderWay
<1>4. Cardinality(UnderWay(b)') = Cardinality(UnderWay(b)) + 1
  <2>1. IsFiniteSet(UnderWay(b))
    BY UnderWayFinite
  <2> HIDE DEF r
  <2>2. Cardinality(UnderWay(b) \cup {r})
          = IF r \in UnderWay(b) THEN Cardinality(UnderWay(b))
            ELSE Cardinality(UnderWay(b)) + 1
    BY <2>1, FS_AddElement, Zenon
  <2> QED
    BY <1>3, <2>2
<1>5. idle'[b] = idle[b] - 1 /\ next'[b] = next[b] + 1 /\ mode'[b] = mode[b]
      /\ failed'[b] = failed[b] /\ idle[b] \in Nat /\ next[b] \in Nat
  BY DEF TypeOK
<1>6. WorkersCounted(b)'
  <2>1. idle[b] + Cardinality(UnderWay(b)) = Workers(b) /\ Workers(b)' = Workers(b)
    BY <1>5 DEF BatchFits, WorkersCounted, Workers
  <2>2. Cardinality(UnderWay(b)) \in Nat
    BY UnderWayFinite
  <2>3. idle'[b] + Cardinality(UnderWay(b)') = Workers(b)'
    BY <1>4, <1>5, <2>1, <2>2
  <2> QED
    BY <1>5, <2>3 DEF WorkersCounted
<1>7. ItemsTaken(b)'
  <2>1. SUFFICES ASSUME NEW i \in DOMAIN Items[b], i < next'[b], ~failed'[b]
                 PROVE  Items[b][i] \in UnderWay(b)' \/ state'[Items[b][i]] = "ok"
    BY DEF ItemsTaken
  <2>2. Items[b][i] \in Reqs /\ i \in Nat
    BY ItemOfBatch
  <2>3. CASE i = next[b]
    BY <1>3, <2>3
  <2>4. CASE i # next[b]
    <3>1. i < next[b]
      BY <1>5, <2>1, <2>2, <2>4
    <3>2. Items[b][i] \in UnderWay(b) \/ state[Items[b][i]] = "ok"
      BY <1>5, <2>1, <3>1 DEF BatchFits, ItemsTaken
    <3>3. state[Items[b][i]] = "ok" => state'[Items[b][i]] = "ok"
      BY <1>1, <1>2, <2>2
    <3> QED
      BY <1>3, <3>2, <3>3
  <2> QED
    BY <2>3, <2>4
<1>8. ModeFits(b)'
  BY <1>5 DEF BatchFits, ModeFits
<1> QED
  BY <1>6, <1>7, <1>8 DEF BatchFits

LEMMA BatchInit == Init => BatchInv
<1> SUFFICES ASSUME Init, NEW b \in Batches PROVE BatchFits(b)
  BY DEF BatchInv
<1>1. ItemsOf(b) \subseteq Reqs
  BY DEF Reqs, BatchItems
<1>2. WorkersCounted(b)
  BY <1>1 DEF Init, WorkersCounted, UnderWay
<1>3. ItemsTaken(b)
  BY ItemOfBatch DEF Init, ItemsTaken
<1> QED
  BY <1>2, <1>3 DEF Init, BatchFits, ModeFits

(* Every event keeps the count of workers, and what is known of each item.  *)
LEMMA BatchStep ==
  TypeOK /\ CorrelationInv /\ WaitersInv /\ BatchInv /\ [Next]_vars => BatchInv'
<1> SUFFICES ASSUME TypeOK, Fresh, SerialPath, WaitersInv, BatchInv, [Next]_vars
             PROVE  BatchInv'
  BY DEF CorrelationInv
<1> USE DEF clientVars, netVars, reqVars, batchVars
<1> "aborted" \in Settled /\ "failed" \in Settled /\ "timeout" \in Settled
     /\ "ok" \in Settled
  BY DEF Settled
<1> DEFINE Pending == {"queued", "booting", "waiting"}
<1>a. ASSUME UNCHANGED <<state, batchVars>>
      PROVE  BatchInv'
  <2>1. \A b \in Batches : UnderWay(b)' = UnderWay(b)
    BY <1>a DEF UnderWay
  <2> QED
    BY <1>a, <2>1, BatchKept DEF BatchInv
<1>b. ASSUME NEW r \in Reqs, NEW how \in Settled, Settle({r}, how), state[r] \in Pending
      PROVE  BatchInv'
  <2>1. {r} \in SUBSET Reqs /\ \A q \in {r} : state[q] \in Pending
    BY <1>b
  <2> QED
    BY <2>1, <1>b, SettleBatch
<1>c. ASSUME NEW r \in Reqs, NEW s \in Pending, UNCHANGED batchVars,
             state' = [state EXCEPT ![r] = s],
             state[r] \in Pending \/ (state[r] = "idle" /\ r \in Calls)
      PROVE  BatchInv'
  <2>1. ASSUME NEW b \in Batches
        PROVE  UnderWay(b)' = UnderWay(b)
    <3>1. \A q \in ItemsOf(b) : q \in Reqs /\ q \notin Calls
      BY SignalOfItem DEF Reqs, BatchItems
    <3> QED
      BY <1>c, <3>1 DEF UnderWay, TypeOK
  <2>2. \A b \in Batches : \A q \in ItemsOf(b) : state[q] = "ok" => state'[q] = "ok"
    BY <1>c DEF TypeOK, Reqs, BatchItems
  <2> QED
    BY <1>c, <2>1, <2>2, BatchKept DEF BatchInv
<1>d. ASSUME NEW b \in Batches, NEW d \in Batches, d # b,
             mode'[d] = mode[d], next'[d] = next[d], idle'[d] = idle[d],
             failed'[d] = failed[d],
             \A r \in Reqs : r \notin ItemsOf(b) => state'[r] = state[r]
      PROVE  BatchFits(d)'
  <2>1. \A r \in ItemsOf(d) : r \in Reqs /\ r \notin ItemsOf(b)
    BY <1>d, SignalOfItem DEF Reqs, BatchItems
  <2>2. UnderWay(d)' = UnderWay(d)
    BY <1>d, <2>1 DEF UnderWay
  <2> QED
    BY <1>d, <2>1, <2>2, BatchKept DEF BatchInv
<1> HIDE DEF Pending
<1> "queued" \in Pending /\ "booting" \in Pending /\ "waiting" \in Pending
  BY DEF Pending
<1>1. ASSUME NEW r \in Reqs, FetchNym(r) PROVE BatchInv'
  BY <1>1, <1>c DEF FetchNym
<1>2. ASSUME NEW r \in Reqs, RunOnce(r) PROVE BatchInv'
  <2>1. CASE SignalOf(r) \in aborted
    BY <1>2, <2>1, <1>b DEF RunOnce
  <2>2. CASE SignalOf(r) \notin aborted
    BY <1>2, <2>2, <1>c DEF RunOnce
  <2> QED
    BY <2>1, <2>2
<1>3. ASSUME NEW r \in Reqs, RunOnceReady(r) PROVE BatchInv'
  <2>1. CASE SignalOf(r) \in aborted
    BY <1>3, <2>1, <1>b DEF RunOnceReady
  <2>2. CASE SignalOf(r) \notin aborted
    BY <1>3, <2>2, <1>c DEF RunOnceReady
  <2> QED
    BY <2>1, <2>2
<1>4. ASSUME NEW r \in Reqs, RunOnceBootFailed(r) \/ Timeout(r) PROVE BatchInv'
  BY <1>4, <1>b DEF RunOnceBootFailed, Timeout
<1>5. ASSUME NEW r \in Reqs, SendOut(r) \/ Dispatch(r) PROVE BatchInv'
  BY <1>5, <1>a DEF SendOut, Dispatch
<1>6. ASSUME NEW r \in Reqs, SendFails(r) PROVE BatchInv'
  <2>1. CASE state[r] = "waiting"
    BY <1>6, <2>1, <1>b DEF SendFails
  <2>2. CASE state[r] # "waiting"
    BY <1>6, <2>2, <1>a DEF SendFails
  <2> QED
    BY <2>1, <2>2
<1>7. ASSUME NEW c \in Callers, Abort(c) PROVE BatchInv'
  <2> DEFINE rs == {r \in Reqs : state[r] = "waiting" /\ SignalOf(r) = c}
  <2>1. rs \in SUBSET Reqs /\ Settle(rs, "aborted") /\ \A r \in rs : state[r] = "waiting"
    BY <1>7 DEF Abort
  <2> HIDE DEF rs
  <2> QED
    BY <2>1, SettleBatch
<1>8. ASSUME NEW c \in Callers, BootOk(c) \/ BootFails(c) \/ StopDone(c)
      PROVE  BatchInv'
  BY <1>8, <1>a DEF BootOk, BootFails, StopDone
<1>9. ASSUME NEW m \in replies, DispatchReply(m) PROVE BatchInv'
  <2>1. PICK r \in Reqs : state[r] = "waiting" /\ Resolve(r, m)
    BY <1>9, ReplyWakesWaiter
  <2>2. PICK how \in Settled : Settle({r}, how)
    BY <2>1 DEF Resolve, Settled
  <2> QED
    BY <2>1, <2>2, <1>b
<1>10. CASE StopFetchNymClient
  BY <1>10, <1>a DEF StopFetchNymClient
<1>11. ASSUME NEW b \in Batches, FetchNymParallel(b) PROVE BatchInv'
  <2>1. ASSUME NEW d \in Batches, d # b PROVE BatchFits(d)'
    <3>1. mode'[d] = mode[d] /\ idle'[d] = idle[d] /\ next' = next
          /\ failed' = failed /\ state' = state
      BY <1>11, <2>1 DEF FetchNymParallel, TypeOK
    <3> QED
      BY <2>1, <3>1, <1>d
  <2>2. BatchFits(b)'
    <3>1. /\ mode[b] = "idle" /\ UNCHANGED <<state, next, failed>>
          /\ mode'[b] \in {"fallback", "booting"}
          /\ mode'[b] = "fallback" => idle'[b] = 1
          /\ mode'[b] = "booting" => ~(Len(Items[b]) < 2)
      BY <1>11 DEF FetchNymParallel, TypeOK
    <3>2. UnderWay(b) = {} /\ next[b] = 1 /\ UnderWay(b)' = UnderWay(b)
      BY <3>1 DEF BatchInv, BatchFits, WorkersCounted, SerialPath, UnderWay
    <3>3. WorkersCounted(b)'
      BY <3>1, <3>2, FS_EmptySet DEF WorkersCounted, Workers
    <3>4. ItemsTaken(b)'
      BY <3>1, <3>2, ItemOfBatch DEF ItemsTaken
    <3>5. ModeFits(b)'
      BY <3>1, <3>2, WorkersType DEF ModeFits
    <3> QED
      BY <3>3, <3>4, <3>5 DEF BatchFits
  <2> QED
    BY <2>1, <2>2 DEF BatchInv
<1>12. ASSUME NEW b \in Batches, StartWorkers(b) PROVE BatchInv'
  <2>1. ASSUME NEW d \in Batches, d # b PROVE BatchFits(d)'
    <3>1. mode'[d] = mode[d] /\ idle'[d] = idle[d] /\ next' = next
          /\ failed' = failed /\ state' = state
      BY <1>12, <2>1 DEF StartWorkers, TypeOK
    <3> QED
      BY <2>1, <3>1, <1>d
  <2>2. BatchFits(b)'
    <3>1. /\ mode[b] = "booting" /\ UNCHANGED <<state, next, failed>>
          /\ mode'[b] = "running"
          /\ idle'[b] = Min2(Concurrency, Len(Items[b]))
      BY <1>12 DEF StartWorkers, TypeOK
    <3>2. /\ UnderWay(b) = {} /\ UnderWay(b)' = UnderWay(b)
          /\ next[b] = 1 /\ Len(Items[b]) >= 2
      BY <3>1 DEF BatchInv, BatchFits, WorkersCounted, ModeFits, UnderWay
    <3>3. Min2(Concurrency, Len(Items[b])) \in Nat
      BY FetchNymAssumption, WorkersType DEF Min2
    <3>4. WorkersCounted(b)'
      BY <3>1, <3>2, <3>3, FS_EmptySet DEF WorkersCounted, Workers
    <3>5. ItemsTaken(b)'
      BY <3>1, <3>2, ItemOfBatch DEF ItemsTaken
    <3>6. ModeFits(b)'
      BY <3>1, <3>2 DEF ModeFits
    <3> QED
      BY <3>4, <3>5, <3>6 DEF BatchFits
  <2> QED
    BY <2>1, <2>2 DEF BatchInv
<1>13. ASSUME NEW b \in Batches, BatchBootFailed(b) PROVE BatchInv'
  <2>1. ASSUME NEW d \in Batches, d # b PROVE BatchFits(d)'
    <3>1. mode'[d] = mode[d] /\ UNCHANGED <<state, next, idle, failed>>
      BY <1>13, <2>1 DEF BatchBootFailed, TypeOK
    <3> QED
      BY <2>1, <3>1, <1>d
  <2>2. BatchFits(b)'
    <3>1. mode[b] = "booting" /\ mode'[b] = "failed" /\ UNCHANGED <<state, next, failed>>
      BY <1>13 DEF BatchBootFailed, TypeOK
    <3>2. UnderWay(b) = {} /\ UnderWay(b)' = UnderWay(b) /\ next[b] = 1
      BY <3>1 DEF BatchInv, BatchFits, WorkersCounted, ModeFits, UnderWay
    <3> QED
      BY <3>1, <3>2, ItemOfBatch DEF BatchFits, WorkersCounted, ItemsTaken, ModeFits
  <2> QED
    BY <2>1, <2>2 DEF BatchInv
<1>14. ASSUME NEW b \in Batches, RunTagged(b) PROVE BatchInv'
  <2> DEFINE r == Items[b][next[b]]
  <2>1. /\ next[b] \in DOMAIN Items[b] /\ r \in Reqs /\ r \in ItemsOf(b)
        /\ state[r] = "idle"
    BY <1>14, NextItemIdle DEF RunTagged
  <2>2. /\ mode[b] = "running" /\ HasWork(b) /\ UNCHANGED mode
        /\ next' = [next EXCEPT ![b] = @ + 1]
        /\ state' = [state EXCEPT ![r] = state'[r]]
    BY <1>14, <2>1 DEF RunTagged, TypeOK
  <2>3. ASSUME NEW d \in Batches, d # b PROVE BatchFits(d)'
    <3>1. /\ mode'[d] = mode[d] /\ next'[d] = next[d] /\ idle'[d] = idle[d]
          /\ failed'[d] = failed[d]
      BY <1>14, <2>3 DEF RunTagged, TypeOK
    <3>2. \A q \in Reqs : q \notin ItemsOf(b) => state'[q] = state[q]
      BY <2>1, <2>2 DEF TypeOK
    <3> QED
      BY <2>3, <3>1, <3>2, <1>d
  <2>4. BatchFits(b)'
    <3>1. CASE b \in aborted
      <4>1. /\ state' = [state EXCEPT ![r] = "aborted"] /\ UNCHANGED idle
            /\ failed' = [failed EXCEPT ![b] = TRUE]
        BY <1>14, <3>1 DEF RunTagged
      <4>2. failed'[b] /\ idle'[b] = idle[b]
        BY <4>1 DEF TypeOK
      <4>3. UnderWay(b)' = UnderWay(b)
        <5>1. ItemsOf(b) \subseteq Reqs
          BY DEF Reqs, BatchItems
        <5> HIDE DEF r
        <5> QED
          BY <2>1, <4>1, <5>1 DEF UnderWay, TypeOK
      <4> HIDE DEF r
      <4>4. WorkersCounted(b)'
        BY <2>2, <4>2, <4>3 DEF BatchInv, BatchFits, WorkersCounted, Workers
      <4> QED
        BY <2>2, <4>2, <4>4 DEF BatchInv, BatchFits, ItemsTaken, ModeFits
    <3>2. CASE b \notin aborted
      <4>1. /\ state' = [state EXCEPT ![r] = "waiting"] /\ UNCHANGED failed
            /\ idle' = [idle EXCEPT ![b] = @ - 1]
        BY <1>14, <3>2 DEF RunTagged
      <4> QED
        BY <2>1, <2>2, <4>1, TakesItem DEF BatchInv
    <3> QED
      BY <3>1, <3>2
  <2> QED
    BY <2>3, <2>4 DEF BatchInv
<1>15. ASSUME NEW b \in Batches, FallbackItem(b) PROVE BatchInv'
  <2> DEFINE r == Items[b][next[b]]
  <2>1. /\ next[b] \in DOMAIN Items[b] /\ r \in Reqs /\ r \in ItemsOf(b)
        /\ state[r] = "idle"
    BY <1>15, NextItemIdle DEF FallbackItem
  <2>2. /\ mode[b] = "fallback" /\ HasWork(b) /\ UNCHANGED <<mode, failed>>
        /\ next' = [next EXCEPT ![b] = @ + 1]
        /\ idle' = [idle EXCEPT ![b] = @ - 1]
        /\ state' = [state EXCEPT ![r] = "queued"]
    BY <1>15 DEF FallbackItem
  <2>3. ASSUME NEW d \in Batches, d # b PROVE BatchFits(d)'
    <3>1. /\ mode'[d] = mode[d] /\ next'[d] = next[d] /\ idle'[d] = idle[d]
          /\ failed'[d] = failed[d]
      BY <2>2, <2>3 DEF TypeOK
    <3>2. \A q \in Reqs : q \notin ItemsOf(b) => state'[q] = state[q]
      BY <2>1, <2>2 DEF TypeOK
    <3> QED
      BY <2>3, <3>1, <3>2, <1>d
  <2>4. BatchFits(b)'
    BY <2>1, <2>2, TakesItem DEF BatchInv
  <2> QED
    BY <2>3, <2>4 DEF BatchInv
<1>16. ASSUME NEW b \in Batches, BatchSettles(b) PROVE BatchInv'
  <2>1. ASSUME NEW d \in Batches, d # b PROVE BatchFits(d)'
    <3>1. mode'[d] = mode[d] /\ UNCHANGED <<state, next, idle, failed>>
      BY <1>16, <2>1 DEF BatchSettles, TypeOK
    <3> QED
      BY <2>1, <3>1, <1>d
  <2>2. BatchFits(b)'
    <3>1. /\ mode[b] \in {"running", "fallback"} /\ UNCHANGED <<state, next, idle, failed>>
          /\ idle[b] = Workers(b) /\ ~HasWork(b)
          /\ mode'[b] = IF failed[b] THEN "failed" ELSE "done"
      BY <1>16 DEF BatchSettles, TypeOK
    <3>2. UnderWay(b) = {} /\ UnderWay(b)' = UnderWay(b)
      <4>1. idle[b] + Cardinality(UnderWay(b)) = Workers(b)
        BY <3>1 DEF BatchInv, BatchFits, WorkersCounted
      <4>2. Cardinality(UnderWay(b)) = 0
        BY <3>1, <4>1, UnderWayFinite DEF TypeOK
      <4> QED
        BY <3>1, <4>2, UnderWayFinite, FS_EmptySet DEF UnderWay
    <3>3. mode[b] = "running" => Len(Items[b]) >= 2
      BY DEF BatchInv, BatchFits, ModeFits
    <3>4. idle[b] >= 1
      BY <3>1, <3>3, WorkersType DEF Workers
    <3>5. ModeFits(b)'
      <4>1. ~failed[b] => next[b] > Len(Items[b])
        BY <3>1, <3>4, WorkersType DEF HasWork, TypeOK
      <4> QED
        BY <3>1, <4>1 DEF ModeFits
    <3>6. WorkersCounted(b)'
      BY <3>1, <3>2 DEF WorkersCounted
    <3>7. ItemsTaken(b)'
      BY <3>1, <3>2 DEF BatchInv, BatchFits, ItemsTaken
    <3> QED
      BY <3>5, <3>6, <3>7 DEF BatchFits
  <2> QED
    BY <2>1, <2>2 DEF BatchInv
<1>17. CASE UNCHANGED vars
  BY <1>17, <1>a DEF vars
<1> QED
  BY <1>1, <1>2, <1>3, <1>4, <1>5, <1>6, <1>7, <1>8, <1>9, <1>10, <1>11, <1>12,
     <1>13, <1>14, <1>15, <1>16, <1>17 DEF Next

LEMMA BatchInvComplete == TypeOK /\ BatchInv => BatchComplete
<1> SUFFICES ASSUME TypeOK, BatchInv, NEW b \in Batches,
                    mode[b] \in {"done", "failed"}, NEW r \in ItemsOf(b)
             PROVE  /\ mode[b] = "done" => state[r] = "ok"
                    /\ state[r] \in {"idle"} \cup Settled
  BY DEF BatchComplete
<1>1. r \in Reqs /\ r \notin UnderWay(b)
  BY DEF BatchInv, BatchFits, WorkersCounted, Reqs, BatchItems
<1>2. state[r] \in {"idle"} \cup Settled
  BY <1>1 DEF UnderWay, TypeOK, ReqStates
<1>3. ASSUME mode[b] = "done" PROVE state[r] = "ok"
  <2>1. PICK i \in DOMAIN Items[b] : r = Items[b][i]
    BY DEF ItemsOf
  <2>2. ~failed[b] /\ next[b] > Len(Items[b])
    BY <1>3 DEF BatchInv, BatchFits, ModeFits
  <2>3. i < next[b]
    BY <2>1, <2>2, ItemOfBatch DEF TypeOK
  <2> QED
    BY <1>1, <2>1, <2>2, <2>3 DEF BatchInv, BatchFits, ItemsTaken
<1> QED
  BY <1>2, <1>3

(* Everything the proofs below need of a state.                             *)
Inv == TypeOK /\ CorrelationInv /\ WaitersInv /\ BatchInv

LEMMA InvHolds == Spec => []Inv
<1>1. Init => Inv
  BY TypeInit, CorrelationInit, WaitersInit, BatchInit DEF Inv
<1>2. Inv /\ [Next]_vars => Inv'
  BY TypeStep, CorrelationStep, WaitersStep, BatchStep DEF Inv
<1> QED
  BY <1>1, <1>2, PTL DEF Spec

(* A batch that reports results has the answer of every item, and one that  *)
(* has reported either way has no item left on the wire (BatchComplete).    *)
THEOREM BatchesComplete == Spec => []BatchComplete
<1>1. Inv => BatchComplete
  BY BatchInvComplete DEF Inv
<1> QED
  BY <1>1, InvHolds, PTL

-----------------------------------------------------------------------------
(* What a step does to a request: only one that is under way can end, and   *)
(* one that has not begun begins by its own call or by a worker of its      *)
(* batch, which knew of no failure.                                         *)
Moves(r) ==
  \/ state'[r] = state[r] /\ got'[r] = got[r]
  \/ state[r] \in {"queued", "booting", "waiting"}
  \/ state[r] = "idle" /\ r \in Calls
  \/ state[r] = "idle" /\ \E b \in Batches : r \in ItemsOf(b) /\ ~failed[b]

LEMMA RequestsMove ==
  TypeOK /\ Fresh /\ WaitersInv /\ [Next]_vars => \A r \in Reqs : Moves(r)
<1> SUFFICES ASSUME TypeOK, Fresh, WaitersInv, [Next]_vars, NEW q \in Reqs
             PROVE  Moves(q)
  OBVIOUS
<1> USE DEF reqVars
<1>a. ASSUME UNCHANGED <<state, got>> PROVE Moves(q)
  BY <1>a DEF Moves
<1>b. ASSUME NEW r \in Reqs, NEW how, Settle({r}, how), q # r => got'[q] = got[q],
             state[r] \in {"queued", "booting", "waiting"}
      PROVE  Moves(q)
  BY <1>b DEF Moves, Settle
<1>c. ASSUME NEW r \in Reqs, NEW s, state' = [state EXCEPT ![r] = s], UNCHANGED got,
             \/ state[r] \in {"queued", "booting", "waiting"}
             \/ state[r] = "idle" /\ r \in Calls
             \/ state[r] = "idle" /\ \E b \in Batches : r \in ItemsOf(b) /\ ~failed[b]
      PROVE  Moves(q)
  BY <1>c DEF Moves, TypeOK
<1>1. ASSUME NEW r \in Reqs, FetchNym(r) PROVE Moves(q)
  BY <1>1, <1>c DEF FetchNym
<1>2. ASSUME NEW r \in Reqs, RunOnce(r) PROVE Moves(q)
  <2>1. CASE SignalOf(r) \in aborted
    BY <1>2, <2>1, <1>b DEF RunOnce
  <2>2. CASE SignalOf(r) \notin aborted
    BY <1>2, <2>2, <1>c DEF RunOnce
  <2> QED
    BY <2>1, <2>2
<1>3. ASSUME NEW r \in Reqs, RunOnceReady(r) PROVE Moves(q)
  <2>1. CASE SignalOf(r) \in aborted
    BY <1>3, <2>1, <1>b DEF RunOnceReady
  <2>2. CASE SignalOf(r) \notin aborted
    BY <1>3, <2>2, <1>c DEF RunOnceReady
  <2> QED
    BY <2>1, <2>2
<1>4. ASSUME NEW r \in Reqs, RunOnceBootFailed(r) \/ Timeout(r) PROVE Moves(q)
  BY <1>4, <1>b DEF RunOnceBootFailed, Timeout
<1>5. ASSUME NEW r \in Reqs, SendOut(r) \/ Dispatch(r) PROVE Moves(q)
  BY <1>5, <1>a DEF SendOut, Dispatch
<1>6. ASSUME NEW r \in Reqs, SendFails(r) PROVE Moves(q)
  <2>1. CASE state[r] = "waiting"
    BY <1>6, <2>1, <1>b DEF SendFails
  <2>2. CASE state[r] # "waiting"
    BY <1>6, <2>2, <1>a DEF SendFails
  <2> QED
    BY <2>1, <2>2
<1>7. ASSUME NEW c \in Callers, Abort(c) PROVE Moves(q)
  <2>1. /\ UNCHANGED got
        /\ state'[q] = IF state[q] = "waiting" /\ SignalOf(q) = c THEN "aborted" ELSE state[q]
    BY <1>7 DEF Abort, Settle
  <2> QED
    BY <2>1 DEF Moves
<1>8. ASSUME NEW c \in Callers, BootOk(c) \/ BootFails(c) \/ StopDone(c)
      PROVE  Moves(q)
  BY <1>8, <1>a DEF BootOk, BootFails, StopDone
<1>9. ASSUME NEW m \in replies, DispatchReply(m) PROVE Moves(q)
  <2>1. PICK r \in Reqs : state[r] = "waiting" /\ Resolve(r, m)
    BY <1>9, ReplyWakesWaiter
  <2>2. PICK how \in Settled : Settle({r}, how)
    BY <2>1 DEF Resolve, Settled
  <2>3. q # r => got'[q] = got[q]
    BY <2>1 DEF Resolve, TypeOK
  <2> QED
    BY <2>1, <2>2, <2>3, <1>b
<1>10. CASE StopFetchNymClient
  BY <1>10, <1>a DEF StopFetchNymClient
<1>11. ASSUME NEW b \in Batches, FetchNymParallel(b) \/ StartWorkers(b)
                                 \/ BatchBootFailed(b) \/ BatchSettles(b)
       PROVE  Moves(q)
  BY <1>11, <1>a DEF FetchNymParallel, StartWorkers, BatchBootFailed, BatchSettles
<1>12. ASSUME NEW b \in Batches, RunTagged(b) \/ FallbackItem(b) PROVE Moves(q)
  <2> DEFINE r == Items[b][next[b]]
  <2>1. HasWork(b) /\ UNCHANGED got
    BY <1>12 DEF RunTagged, FallbackItem
  <2>2. r \in Reqs /\ r \in ItemsOf(b) /\ state[r] = "idle" /\ ~failed[b]
    BY <2>1, NextItemIdle DEF HasWork
  <2>3. \E s : state' = [state EXCEPT ![r] = s]
    BY <1>12 DEF RunTagged, FallbackItem
  <2> HIDE DEF r
  <2> QED
    BY <2>1, <2>2, <2>3, <1>c
<1>13. CASE UNCHANGED vars
  BY <1>13, <1>a DEF vars
<1> QED
  BY <1>1, <1>2, <1>3, <1>4, <1>5, <1>6, <1>7, <1>8, <1>9, <1>10, <1>11, <1>12,
     <1>13 DEF Next

(* The outcome a caller has seen never changes, whatever arrives later      *)
(* (SettledOnce).                                                           *)
THEOREM OutcomesStay == Spec => SettledOnce
<1>1. Inv /\ [Next]_vars =>
        [\A r \in Reqs : state[r] \in Settled => state'[r] = state[r] /\ got'[r] = got[r]]_vars
  <2> SUFFICES ASSUME Inv, [Next]_vars, NEW r \in Reqs, state[r] \in Settled
               PROVE  state'[r] = state[r] /\ got'[r] = got[r]
    OBVIOUS
  <2>1. Moves(r)
    BY RequestsMove DEF Inv, CorrelationInv
  <2> QED
    BY <2>1 DEF Moves, Settled
<1> QED
  BY <1>1, InvHolds, PTL DEF Spec, SettledOnce

(* After the first failure no worker starts another item of the batch       *)
(* (NoItemAfterFailure).                                                    *)
THEOREM FailureStopsBatch == Spec => NoItemAfterFailure
<1>1. Inv /\ [Next]_vars =>
        [\A b \in Batches : failed[b] =>
           \A r \in ItemsOf(b) : state[r] = "idle" => state'[r] = "idle"]_vars
  <2> SUFFICES ASSUME Inv, [Next]_vars, NEW b \in Batches, failed[b],
                      NEW r \in ItemsOf(b), state[r] = "idle"
               PROVE  state'[r] = "idle"
    OBVIOUS
  <2>1. r \in Reqs /\ r \notin Calls /\ \A d \in Batches : r \in ItemsOf(d) => d = b
    BY SignalOfItem DEF Reqs, BatchItems
  <2>2. Moves(r)
    BY <2>1, RequestsMove DEF Inv, CorrelationInv
  <2> QED
    BY <2>1, <2>2 DEF Moves
<1> QED
  BY <1>1, InvHolds, PTL DEF Spec, NoItemAfterFailure
=============================================================================
