---------------------------- MODULE MixnetProofs ----------------------------
(***************************************************************************)
(* Proofs about the components of the mixnet, one after another: the pool   *)
(* of reply blocks (SurbPool), the tunnel (Tunnel), the client's memory of  *)
(* the replies it has processed (ReplyTracker), and requests to the         *)
(* clearnet with their cookies, passwords and pages (Clearnet).  No lemma   *)
(* uses more of the constants than the assumptions of the components say.   *)
(* At the end the components are put together as the model of the run has   *)
(* them: a behaviour is one of the component in focus.                      *)
(***************************************************************************)
EXTENDS MCMixnet, ListProofs

-----------------------------------------------------------------------------
(* The pool of reply blocks (SurbPool).                                    *)

(* What is answered stays marked as used, and what is fresh is held and not *)
(* marked: each action moves an identifier between the four sets at once.   *)
Ledger == /\ answered \subseteq consumed
          /\ fresh \subseteq DOMAIN issued \ consumed

PoolInv == PoolTypeOK /\ Ledger

LEMMA AgeNat ==
  ASSUME PoolTypeOK, NEW id \in DOMAIN issued PROVE Age(id) \in Nat
  BY DEF PoolTypeOK, Age

LEMMA PoolInitInv == PoolInit => PoolInv
  BY DEF PoolInit, PoolInv, PoolTypeOK, Ledger

(* Every step keeps PoolInv.                                                *)
LEMMA PoolStepInv ==
  ASSUME PoolAssumption, PoolInv, [PoolNext]_pool
  PROVE  PoolInv'
<1> USE DEF PoolInv
<1>1. ASSUME NEW id \in Ids, Register(id) PROVE PoolInv'
  <2>1. DOMAIN issued' = DOMAIN issued \cup {id}
    BY <1>1 DEF Register
  <2>2. \A i \in DOMAIN issued' : issued'[i] \in Nat
    BY <1>1 DEF Register, PoolTypeOK
  <2>3. issued' \in [DOMAIN issued' -> Nat]
    BY <1>1, <2>2 DEF Register
  <2>4. PoolTypeOK'
    BY <1>1, <2>1, <2>3 DEF Register, PoolTypeOK
  <2>5. Ledger'
    BY <1>1, <2>1 DEF Register, Ledger
  <2> QED BY <2>4, <2>5
<1>2. ASSUME NEW id \in Ids, AcceptReply(id) PROVE PoolInv'
  <2>1. PoolTypeOK'
    BY <1>2 DEF AcceptReply, PoolTypeOK
  <2>2. Ledger'
    BY <1>2 DEF AcceptReply, Ledger, Acceptable
  <2> QED BY <2>1, <2>2
<1>3. CASE PurgeExpired
  <2>1. DOMAIN issued' = {j \in DOMAIN issued : ~Expired(j) \/ j \in consumed}
    BY <1>3 DEF PurgeExpired
  <2>2. issued' \in [DOMAIN issued' -> Nat]
    BY <1>3 DEF PurgeExpired, PoolTypeOK
  <2>3. PoolTypeOK'
    BY <1>3, <2>1, <2>2 DEF PurgeExpired, PoolTypeOK
  <2>4. Ledger'
    BY <1>3, <2>1 DEF PurgeExpired, Ledger
  <2> QED BY <2>3, <2>4
<1>4. CASE SetClock
  BY <1>4 DEF SetClock, PoolAssumption, PoolTypeOK, Ledger
<1>5. CASE UNCHANGED pool
  BY <1>5 DEF pool, PoolTypeOK, Ledger
<1> QED BY <1>1, <1>2, <1>3, <1>4, <1>5 DEF PoolNext

-----------------------------------------------------------------------------
(* The state of the pool is always well-formed.                             *)
THEOREM PoolTypes == ASSUME PoolAssumption PROVE PoolSpec => []PoolTypeOK
<1>1. PoolInv => PoolTypeOK
  BY DEF PoolInv
<1> QED BY PoolInitInv, PoolStepInv, <1>1, PTL DEF PoolSpec

(* A reply block that was answered is not answered again before it is       *)
(* registered anew, for every sequence of calls and clock readings.         *)
THEOREM SurbSingleUse == ASSUME PoolAssumption PROVE PoolSpec => []SingleUse
<1>1. PoolInv => SingleUse
  BY DEF PoolInv, Ledger, SingleUse, Acceptable
<1> QED BY PoolInitInv, PoolStepInv, <1>1, PTL DEF PoolSpec

(* A reply block that no call has found expired is held, and its reply is   *)
(* accepted while the clock is within its window.                           *)
THEOREM SurbFreshAccepted == ASSUME PoolAssumption PROVE PoolSpec => []FreshAccepted
<1>1. PoolInv => FreshAccepted
  BY DEF PoolInv, Ledger, FreshAccepted, Acceptable
<1> QED BY PoolInitInv, PoolStepInv, <1>1, PTL DEF PoolSpec

-----------------------------------------------------------------------------
(* The tunnel to the mixnet (Tunnel).  TunnelFound rests on FoundInv: first  *)
(* every step keeps TypeOK, then the other parts of FoundInv, action by     *)
(* action.                                                                  *)

\* The steps that set a tunnel up, or find it fails.
LEMMA EnsureKeeps ==
  ASSUME Mix!TypeOK, NEW i \in Mix!Setups, Mix!Ensure(i), UNCHANGED up
  PROVE  /\ setup' \in [Mix!Setups -> {"unused", "import", "pending", "ok", "failed"}]
         /\ memo' \in 0..MaxSetups /\ i \in 0..MaxSetups /\ i # 0 /\ setup'[i] # "unused"
         /\ \A j \in Mix!Setups : setup[j] # "unused" => setup'[j] # "unused"
         /\ memo' # 0 => setup'[memo'] # "unused"
<1> USE DEF Mix!Setups
<1>0. MaxSetups \in Nat
  BY MixnetAssumption DEF Mix!TunnelAssumption
<1>1. CASE memo # 0
  BY <1>0, <1>1 DEF Mix!Ensure, Mix!TypeOK
<1>2. CASE memo = 0
  BY <1>0, <1>2 DEF Mix!Ensure, Mix!TypeOK
<1> QED
  BY <1>1, <1>2

(* The end of an operation of the user.                                    *)
LEMMA EndKeeps ==
  ASSUME Mix!TypeOK, NEW o \in Mix!Ops, Mix!End(o)
  PROVE  /\ op' \in [Mix!Ops -> {"idle", "asked", "told", "setup"}]
         /\ awaits' \in [Mix!Ops -> 0..MaxSetups] /\ busy' \in BOOLEAN
         /\ \A q \in Mix!Ops : op'[q] = "setup" => awaits'[q] # 0 /\ setup[awaits'[q]] # "unused"
<1>0. 0 \in 0..MaxSetups
  BY MixnetAssumption DEF Mix!TunnelAssumption
<1>1. /\ op' = [op EXCEPT ![o] = "idle"] /\ awaits' = [awaits EXCEPT ![o] = 0]
      /\ busy' = FALSE
  BY DEF Mix!End
<1>2. /\ op \in [Mix!Ops -> {"idle", "asked", "told", "setup"}]
      /\ awaits \in [Mix!Ops -> 0..MaxSetups]
  BY DEF Mix!TypeOK
<1>3. op' \in [Mix!Ops -> {"idle", "asked", "told", "setup"}]
  BY <1>1, <1>2
<1>4. awaits' \in [Mix!Ops -> 0..MaxSetups]
  BY <1>0, <1>1, <1>2
<1>5. ASSUME NEW q \in Mix!Ops, op'[q] = "setup"
      PROVE  awaits'[q] # 0 /\ setup[awaits'[q]] # "unused"
  <2>1. q # o
    BY <1>1, <1>2, <1>5
  <2>2. op[q] = "setup" /\ awaits'[q] = awaits[q]
    BY <1>1, <1>2, <1>5, <2>1
  <2> QED
    BY <2>2 DEF Mix!TypeOK
<1> QED
  BY <1>1, <1>3, <1>4, <1>5

(* A setup goes on or ends, and the handler clears the memo if it failed.   *)
LEMMA SetupKeeps ==
  ASSUME Mix!TypeOK, NEW i \in Mix!Setups, NEW w \in {"pending", "ok", "failed"},
         setup' = [setup EXCEPT ![i] = w], up' \in {up, i, 0},
         memo' = 0 \/ (memo' = memo /\ w # "failed"),
         forgotten' \in BOOLEAN, UNCHANGED <<spent, op, fetch, awaits, busy>>
  PROVE  Mix!TypeOK'
<1>0. MaxSetups \in Nat /\ i \in 1..MaxSetups
  BY MixnetAssumption DEF Mix!TunnelAssumption, Mix!Setups
<1>1. /\ setup \in [Mix!Setups -> {"unused", "import", "pending", "ok", "failed"}]
      /\ up \in 0..MaxSetups /\ memo \in 0..MaxSetups
      /\ \A j \in {up, memo} : j # 0 => setup[j] # "unused"
      /\ awaits \in [Mix!Ops -> 0..MaxSetups]
      /\ \A o \in Mix!Ops : op[o] = "setup" => awaits[o] # 0 /\ setup[awaits[o]] # "unused"
  BY DEF Mix!TypeOK
<1>2. /\ setup' \in [Mix!Setups -> {"unused", "import", "pending", "ok", "failed"}]
      /\ setup'[i] = w /\ \A j \in Mix!Setups : j # i => setup'[j] = setup[j]
  BY <1>1
<1>3. ASSUME NEW j \in 1..MaxSetups, setup[j] # "unused" PROVE setup'[j] # "unused"
  BY <1>2, <1>3 DEF Mix!Setups
<1>4. up' \in 0..MaxSetups /\ memo' \in 0..MaxSetups
  BY <1>0, <1>1
<1>5. ASSUME NEW j \in {up', memo'}, j # 0 PROVE setup'[j] # "unused"
  <2>1. CASE j = i
    BY <1>2, <2>1
  <2>2. CASE j # i
    <3>1. j \in {up, memo} /\ j \in 1..MaxSetups
      BY <1>0, <1>1, <1>5, <2>2
    <3> QED BY <1>1, <1>3, <1>5, <3>1
  <2> QED BY <2>1, <2>2
<1>6. ASSUME NEW o \in Mix!Ops, op[o] = "setup" PROVE awaits[o] # 0 /\ setup'[awaits[o]] # "unused"
  <2>1. awaits[o] # 0 /\ setup[awaits[o]] # "unused" /\ awaits[o] \in 0..MaxSetups
    BY <1>1, <1>6
  <2>2. awaits[o] \in 1..MaxSetups
    BY <1>0, <2>1
  <2> QED BY <1>3, <2>1, <2>2
<1>7. Mix!TypeOK'
  BY <1>2, <1>4, <1>5, <1>6 DEF Mix!TypeOK
<1> QED BY <1>7

LEMMA TunnelTypes == Mix!TypeOK /\ [Mix!Next]_tunnelVars => Mix!TypeOK'
<1> SUFFICES ASSUME Mix!TypeOK, [Mix!Next]_tunnelVars PROVE Mix!TypeOK'
  OBVIOUS
<1> USE DEF Mix!Setups, Mix!Ops
<1>0. MaxSetups \in Nat
  BY MixnetAssumption DEF Mix!TunnelAssumption
<1>b. forgotten \in BOOLEAN
  BY DEF Mix!TypeOK
<1>1. ASSUME NEW i \in Mix!Setups, Mix!SetupCalled(i) PROVE Mix!TypeOK'
  <2> HIDE DEF Mix!Setups, Mix!Ops
  <2>1. CASE up' = i /\ setup' = [setup EXCEPT ![i] = "pending"] /\ UNCHANGED memo
    BY <1>1, <1>b, <2>1, SetupKeeps DEF Mix!SetupCalled
  <2>2. CASE Mix!Fails(i) /\ UNCHANGED up
    BY <1>1, <1>b, <2>2, SetupKeeps DEF Mix!SetupCalled, Mix!Fails
  <2> QED
    BY <1>1, <2>1, <2>2 DEF Mix!SetupCalled
<1>2. ASSUME NEW i \in Mix!Setups, Mix!SetupReady(i) PROVE Mix!TypeOK'
  <2> HIDE DEF Mix!Setups, Mix!Ops
  <2> QED BY <1>2, <1>b, SetupKeeps DEF Mix!SetupReady
<1>3. ASSUME NEW i \in Mix!Setups, Mix!SetupFails(i) PROVE Mix!TypeOK'
  <2> HIDE DEF Mix!Setups, Mix!Ops
  <2> QED BY <1>3, <1>b, SetupKeeps DEF Mix!SetupFails, Mix!Fails
<1>4. ASSUME NEW f \in Fetches, Mix!Load(f) PROVE Mix!TypeOK'
  <2>1. CASE spent
    BY <1>0, <1>4, <2>1 DEF Mix!Load, Mix!LoadEnds, Mix!TypeOK
  <2>2. CASE ~spent
    <3>1. PICK i \in Mix!Setups : /\ Mix!Ensure(i) /\ fetch' = [fetch EXCEPT ![f] = i]
                                  /\ busy' = TRUE /\ UNCHANGED <<up, spent, op, awaits, forgotten>>
      BY <1>4, <2>2 DEF Mix!Load
    <3>2. /\ setup' \in [Mix!Setups -> {"unused", "import", "pending", "ok", "failed"}]
          /\ memo' \in 0..MaxSetups /\ i \in 0..MaxSetups
          /\ \A j \in Mix!Setups : setup[j] # "unused" => setup'[j] # "unused"
          /\ memo' # 0 => setup'[memo'] # "unused"
      BY <3>1, EnsureKeeps
    <3> QED
      BY <1>0, <3>1, <3>2 DEF Mix!TypeOK
  <2> QED
    BY <2>1, <2>2
<1>5. ASSUME NEW f \in Fetches, Mix!LoadDone(f) PROVE Mix!TypeOK'
  BY <1>0, <1>5 DEF Mix!LoadDone, Mix!LoadEnds, Mix!TypeOK
<1>6. ASSUME NEW o \in {"disconnect", "reconnect"}, Mix!Disconnected(o) PROVE Mix!TypeOK'
  BY <1>0, <1>6 DEF Mix!Disconnected, Mix!TypeOK
<1>7. CASE Mix!Connect
  <2>1. PICK i \in Mix!Setups : /\ Mix!Ensure(i) /\ awaits' = [awaits EXCEPT !["connect"] = i]
                                /\ Mix!Begin("connect", "setup")
                                /\ UNCHANGED <<up, spent, fetch, forgotten>>
    BY <1>7 DEF Mix!Connect
  <2>2. /\ setup' \in [Mix!Setups -> {"unused", "import", "pending", "ok", "failed"}]
        /\ memo' \in 0..MaxSetups /\ i \in 0..MaxSetups /\ i # 0 /\ setup'[i] # "unused"
        /\ \A j \in Mix!Setups : setup[j] # "unused" => setup'[j] # "unused"
        /\ memo' # 0 => setup'[memo'] # "unused"
    BY <2>1, EnsureKeeps
  <2> QED
    BY <1>0, <2>1, <2>2 DEF Mix!Begin, Mix!TypeOK
<1>8. CASE Mix!ConnectEnds
  <2>1. Mix!End("connect") /\ "connect" \in Mix!Ops
    BY <1>8 DEF Mix!ConnectEnds
  <2>2. /\ op' \in [Mix!Ops -> {"idle", "asked", "told", "setup"}]
        /\ awaits' \in [Mix!Ops -> 0..MaxSetups] /\ busy' \in BOOLEAN
        /\ \A q \in Mix!Ops : op'[q] = "setup" => awaits'[q] # 0 /\ setup[awaits'[q]] # "unused"
    BY <2>1, EndKeeps
  <2> QED
    BY <1>0, <1>8, <2>2 DEF Mix!ConnectEnds, Mix!TypeOK
<1>9. CASE Mix!Disconnect
  BY <1>0, <1>9 DEF Mix!Disconnect, Mix!Begin, Mix!TypeOK
<1>10. CASE Mix!DisconnectFails
  <2>1. Mix!End("disconnect") /\ "disconnect" \in Mix!Ops
    BY <1>10 DEF Mix!DisconnectFails
  <2>2. /\ op' \in [Mix!Ops -> {"idle", "asked", "told", "setup"}]
        /\ awaits' \in [Mix!Ops -> 0..MaxSetups] /\ busy' \in BOOLEAN
        /\ \A q \in Mix!Ops : op'[q] = "setup" => awaits'[q] # 0 /\ setup[awaits'[q]] # "unused"
    BY <2>1, EndKeeps
  <2> QED
    BY <1>0, <1>10, <2>2 DEF Mix!DisconnectFails, Mix!TypeOK
<1>11. CASE Mix!TornDown
  <2>1. Mix!End("disconnect") /\ "disconnect" \in Mix!Ops
    BY <1>11 DEF Mix!TornDown
  <2>2. /\ op' \in [Mix!Ops -> {"idle", "asked", "told", "setup"}]
        /\ awaits' \in [Mix!Ops -> 0..MaxSetups] /\ busy' \in BOOLEAN
        /\ \A q \in Mix!Ops : op'[q] = "setup" => awaits'[q] # 0 /\ setup[awaits'[q]] # "unused"
    BY <2>1, EndKeeps
  <2> QED
    BY <1>0, <1>11, <2>2 DEF Mix!TornDown, Mix!TypeOK
<1>12. CASE Mix!Reconnect
  BY <1>0, <1>12 DEF Mix!Reconnect, Mix!Begin, Mix!TypeOK
<1>13. CASE Mix!Rebuild
  <2>1. PICK i \in Mix!Setups :
          /\ setup[i] = "unused" /\ setup' = [setup EXCEPT ![i] = "import"] /\ memo' = i
          /\ awaits' = [awaits EXCEPT !["reconnect"] = i]
    BY <1>13 DEF Mix!Rebuild
  <2>2. /\ spent' = FALSE /\ forgotten' = FALSE /\ op' = [op EXCEPT !["reconnect"] = "setup"]
        /\ UNCHANGED <<up, fetch, busy>>
    BY <1>13 DEF Mix!Rebuild
  <2>3. /\ op \in [Mix!Ops -> {"idle", "asked", "told", "setup"}]
        /\ awaits \in [Mix!Ops -> 0..MaxSetups]
        /\ setup \in [Mix!Setups -> {"unused", "import", "pending", "ok", "failed"}]
    BY DEF Mix!TypeOK
  <2>4. /\ setup' \in [Mix!Setups -> {"unused", "import", "pending", "ok", "failed"}]
        /\ setup'[i] = "import" /\ i # 0 /\ i \in 0..MaxSetups
        /\ \A j \in Mix!Setups : setup[j] # "unused" => setup'[j] # "unused"
    BY <1>0, <2>1, <2>3
  <2>5. /\ op' \in [Mix!Ops -> {"idle", "asked", "told", "setup"}]
        /\ awaits' \in [Mix!Ops -> 0..MaxSetups]
    BY <2>1, <2>2, <2>3, <2>4
  <2>6. ASSUME NEW q \in Mix!Ops, op'[q] = "setup"
        PROVE  awaits'[q] # 0 /\ setup'[awaits'[q]] # "unused"
    <3>1. CASE q = "reconnect"
      BY <2>1, <2>3, <2>4, <3>1
    <3>2. CASE q # "reconnect"
      <4>1. op[q] = "setup" /\ awaits'[q] = awaits[q]
        BY <2>1, <2>2, <2>3, <2>6, <3>2
      <4>2. awaits[q] # 0 /\ setup[awaits[q]] # "unused" /\ awaits[q] \in 0..MaxSetups
        BY <4>1 DEF Mix!TypeOK
      <4>3. awaits[q] \in Mix!Setups
        BY <1>0, <4>2
      <4> QED
        BY <2>4, <4>1, <4>2, <4>3
    <3> QED
      BY <3>1, <3>2
  <2>7. \A j \in {up', memo'} : j # 0 => setup'[j] # "unused"
    BY <1>0, <2>1, <2>2, <2>4 DEF Mix!TypeOK
  <2> QED
    BY <1>0, <2>1, <2>2, <2>4, <2>5, <2>6, <2>7 DEF Mix!TypeOK
<1>14. CASE Mix!ReconnectEnds
  <2>1. Mix!End("reconnect") /\ "reconnect" \in Mix!Ops
    BY <1>14 DEF Mix!ReconnectEnds
  <2>2. /\ op' \in [Mix!Ops -> {"idle", "asked", "told", "setup"}]
        /\ awaits' \in [Mix!Ops -> 0..MaxSetups] /\ busy' \in BOOLEAN
        /\ \A q \in Mix!Ops : op'[q] = "setup" => awaits'[q] # 0 /\ setup[awaits'[q]] # "unused"
    BY <2>1, EndKeeps
  <2> QED
    BY <1>0, <1>14, <2>2 DEF Mix!ReconnectEnds, Mix!TypeOK
<1>15. CASE UNCHANGED tunnelVars
  BY <1>15 DEF tunnelVars, Mix!TypeOK
<1> QED
  BY <1>1, <1>2, <1>3, <1>4, <1>5, <1>6, <1>7, <1>8, <1>9, <1>10, <1>11, <1>12,
     <1>13, <1>14, <1>15 DEF Mix!Next

LEMMA TunnelInit == Mix!Init => Mix!FoundInv
<1> SUFFICES ASSUME Mix!Init PROVE Mix!FoundInv
  OBVIOUS
<1>1. MaxSetups \in Nat
  BY MixnetAssumption DEF Mix!TunnelAssumption
<1>2. 0 \in 0..MaxSetups
  BY <1>1
<1>3. Mix!TypeOK
  BY <1>2 DEF Mix!Init, Mix!TypeOK, Mix!Ops
<1>4. Mix!OneImport /\ Mix!UpRuns /\ Mix!MemoUsable /\ Mix!UpIsMemo
  BY DEF Mix!Init, Mix!OneImport, Mix!UpRuns, Mix!MemoUsable, Mix!UpIsMemo
<1> QED
  BY <1>3, <1>4 DEF Mix!FoundInv

(* A caller finds the setup of the memo or begins one when there is none;   *)
(* nothing of the user's operations is disturbed.                           *)
LEMMA EnsureFinds ==
  ASSUME Mix!FoundInv, NEW i \in Mix!Setups, Mix!Ensure(i), UNCHANGED <<up, spent, forgotten>>,
         op'["disconnect"] = op["disconnect"], op'["reconnect"] = op["reconnect"],
         awaits'["reconnect"] = awaits["reconnect"]
  PROVE  Mix!OneImport' /\ Mix!UpRuns' /\ Mix!MemoUsable' /\ Mix!UpIsMemo'
<1> USE DEF Mix!FoundInv, Mix!Setups
<1>0. /\ MaxSetups \in Nat /\ up \in 0..MaxSetups /\ memo \in 0..MaxSetups
      /\ setup \in [Mix!Setups -> {"unused", "import", "pending", "ok", "failed"}]
      /\ op["reconnect"] = "setup" =>
           awaits["reconnect"] \in Mix!Setups /\ setup[awaits["reconnect"]] # "unused"
  BY MixnetAssumption DEF Mix!TunnelAssumption, Mix!TypeOK, Mix!Ops
<1>1. CASE memo # 0
  BY <1>1 DEF Mix!Ensure, Mix!OneImport, Mix!UpRuns, Mix!MemoUsable, Mix!UpIsMemo,
              Mix!Running, Mix!Unanswered, Mix!InVain
<1>2. CASE memo = 0
  <2>1. setup[i] = "unused" /\ setup' = [setup EXCEPT ![i] = "import"] /\ memo' = i
    BY <1>2 DEF Mix!Ensure
  <2>2. \A j \in Mix!Setups : j # i => setup'[j] = setup[j]
    BY <1>0, <2>1
  <2>3. setup'[i] = "import"
    BY <1>0, <2>1
  <2>4. Mix!OneImport'
    BY <1>2, <2>1, <2>2 DEF Mix!OneImport
  <2>5. Mix!UpRuns'
    BY <1>0, <2>1, <2>2 DEF Mix!UpRuns, Mix!Running
  <2>6. Mix!MemoUsable'
    BY <2>1, <2>3 DEF Mix!MemoUsable
  <2>7. Mix!UpIsMemo'
    <3>1. Mix!InVain => Mix!InVain'
      BY <1>0, <2>1, <2>2 DEF Mix!InVain
    <3> QED
      BY <1>0, <1>2, <3>1 DEF Mix!UpIsMemo, Mix!Unanswered
  <2> QED
    BY <2>4, <2>5, <2>6, <2>7
<1> QED
  BY <1>1, <1>2

(* Setup i goes on or fails.                                                *)
LEMMA SetupFinds ==
  ASSUME Mix!FoundInv, NEW i \in Mix!Setups,
         Mix!SetupCalled(i) \/ Mix!SetupReady(i) \/ Mix!SetupFails(i)
  PROVE  Mix!OneImport' /\ Mix!UpRuns' /\ Mix!MemoUsable' /\ Mix!UpIsMemo'
<1> USE DEF Mix!FoundInv, Mix!Setups
<1>0. /\ MaxSetups \in Nat /\ up \in 0..MaxSetups /\ memo \in 0..MaxSetups
      /\ setup \in [Mix!Setups -> {"unused", "import", "pending", "ok", "failed"}]
      /\ op["reconnect"] = "setup" =>
           awaits["reconnect"] \in Mix!Setups /\ setup[awaits["reconnect"]] # "unused"
  BY MixnetAssumption DEF Mix!TunnelAssumption, Mix!TypeOK, Mix!Ops
<1>a. UNCHANGED <<spent, op, awaits>>
  BY DEF Mix!SetupCalled, Mix!SetupReady, Mix!SetupFails
<1>1. CASE /\ setup[i] = "import" /\ up = 0 /\ up' = i /\ UNCHANGED <<memo, forgotten>>
           /\ setup' = [setup EXCEPT ![i] = "pending"]
  <2>1. setup'[i] = "pending" /\ \A j \in Mix!Setups : j # i => setup'[j] = setup[j]
    BY <1>0, <1>1
  <2>2. memo = i \/ forgotten
    BY <1>1 DEF Mix!OneImport
  <2>3. Mix!OneImport'
    BY <1>1, <2>1 DEF Mix!OneImport
  <2>4. Mix!UpRuns'
    BY <1>1, <2>1 DEF Mix!UpRuns, Mix!Running
  <2>5. Mix!MemoUsable'
    BY <1>0, <1>a, <1>1, <2>1 DEF Mix!MemoUsable, Mix!Running, Mix!Unanswered
  <2>6. Mix!UpIsMemo'
    BY <1>1, <2>2 DEF Mix!UpIsMemo
  <2> QED
    BY <2>3, <2>4, <2>5, <2>6
<1>2. CASE Mix!SetupReady(i)
  <2>1. /\ setup[i] = "pending" /\ up = i /\ setup' = [setup EXCEPT ![i] = "ok"]
        /\ UNCHANGED <<up, memo, forgotten>>
    BY <1>2 DEF Mix!SetupReady
  <2>2. setup'[i] = "ok" /\ \A j \in Mix!Setups : j # i => setup'[j] = setup[j]
    BY <1>0, <2>1
  <2>3. Mix!OneImport' /\ Mix!UpRuns'
    BY <2>1, <2>2 DEF Mix!OneImport, Mix!UpRuns, Mix!Running
  <2>4. Mix!MemoUsable'
    BY <1>0, <1>a, <2>1, <2>2 DEF Mix!MemoUsable, Mix!Running, Mix!Unanswered
  <2>5. Mix!InVain => Mix!InVain'
    BY <1>0, <1>a, <2>1, <2>2 DEF Mix!InVain
  <2>6. Mix!UpIsMemo'
    BY <1>a, <2>1, <2>5 DEF Mix!UpIsMemo, Mix!Unanswered
  <2> QED
    BY <2>3, <2>4, <2>6
<1>3. CASE setup[i] = "import" /\ Mix!Fails(i) /\ UNCHANGED <<up, forgotten>>
  <2>1. setup' = [setup EXCEPT ![i] = "failed"] /\ memo' = 0
    BY <1>3 DEF Mix!Fails
  <2>2. setup'[i] = "failed" /\ \A j \in Mix!Setups : j # i => setup'[j] = setup[j]
    BY <1>0, <2>1
  <2>3. memo = i \/ forgotten
    BY <1>3 DEF Mix!OneImport
  <2>4. Mix!OneImport'
    BY <1>3, <2>2, <2>3 DEF Mix!OneImport
  <2>5. up # i \/ up = 0
    BY <1>3 DEF Mix!UpRuns, Mix!Running
  <2>6. Mix!UpRuns'
    BY <1>0, <1>3, <2>2, <2>5 DEF Mix!UpRuns, Mix!Running
  <2>7. Mix!MemoUsable'
    BY <2>1 DEF Mix!MemoUsable
  <2>8. Mix!InVain => Mix!InVain'
    BY <1>0, <1>a, <2>2 DEF Mix!InVain
  <2>9. Mix!UpIsMemo'
    BY <1>a, <1>3, <2>3, <2>5, <2>8 DEF Mix!UpIsMemo, Mix!Unanswered
  <2> QED
    BY <2>4, <2>6, <2>7, <2>9
<1>4. CASE Mix!SetupFails(i)
  <2>1. /\ setup[i] = "pending" /\ setup' = [setup EXCEPT ![i] = "failed"] /\ memo' = 0
        /\ up' = IF up = i THEN 0 ELSE up
        /\ forgotten' = (forgotten \/ memo \notin {0, i})
    BY <1>4 DEF Mix!SetupFails, Mix!Fails
  <2>2. setup'[i] = "failed" /\ \A j \in Mix!Setups : j # i => setup'[j] = setup[j]
    BY <1>0, <2>1
  <2>3. Mix!OneImport'
    BY <1>0, <2>1, <2>2 DEF Mix!OneImport
  <2>4. Mix!UpRuns'
    BY <1>0, <2>1, <2>2 DEF Mix!UpRuns, Mix!Running
  <2>5. Mix!MemoUsable'
    BY <2>1 DEF Mix!MemoUsable
  <2>6. Mix!InVain => Mix!InVain'
    BY <1>0, <1>a, <2>1, <2>2 DEF Mix!InVain
  <2>7. Mix!UpIsMemo'
    BY <1>a, <2>1, <2>6 DEF Mix!UpIsMemo, Mix!Unanswered
  <2> QED
    BY <2>3, <2>4, <2>5, <2>7
<1> QED
  BY <1>1, <1>2, <1>3, <1>4 DEF Mix!SetupCalled

LEMMA TunnelStep == Mix!FoundInv /\ [Mix!Next]_tunnelVars => Mix!FoundInv'
<1> SUFFICES ASSUME Mix!FoundInv, [Mix!Next]_tunnelVars PROVE Mix!FoundInv'
  OBVIOUS
<1>0. /\ op \in [Mix!Ops -> {"idle", "asked", "told", "setup"}]
      /\ awaits \in [Mix!Ops -> 0..MaxSetups]
      /\ setup \in [Mix!Setups -> {"unused", "import", "pending", "ok", "failed"}]
      /\ "connect" \in Mix!Ops /\ "disconnect" \in Mix!Ops /\ "reconnect" \in Mix!Ops
  BY DEF Mix!FoundInv, Mix!TypeOK, Mix!Ops
<1> DEFINE Parts == Mix!OneImport /\ Mix!UpRuns /\ Mix!MemoUsable /\ Mix!UpIsMemo
<1>a. Mix!TypeOK'
  BY TunnelTypes DEF Mix!FoundInv
<1>1. ASSUME NEW i \in Mix!Setups, Mix!SetupCalled(i) \/ Mix!SetupReady(i) \/ Mix!SetupFails(i)
      PROVE  Parts'
  BY <1>1, SetupFinds
<1>2. ASSUME NEW f \in Fetches, Mix!Load(f) \/ Mix!LoadDone(f) PROVE Parts'
  <2>1. CASE \E i \in Mix!Setups : Mix!Ensure(i) /\ UNCHANGED <<up, spent, forgotten, op, awaits>>
    BY <2>1, EnsureFinds
  <2>2. CASE UNCHANGED <<setup, up, memo, spent, op, awaits, forgotten>>
    BY <2>2 DEF Mix!FoundInv, Mix!OneImport, Mix!UpRuns, Mix!MemoUsable, Mix!UpIsMemo,
                Mix!Running, Mix!Unanswered, Mix!InVain
  <2> QED
    BY <1>2, <2>1, <2>2 DEF Mix!Load, Mix!LoadDone
<1>3. ASSUME Mix!Connect PROVE Parts'
  <2>1. PICK i \in Mix!Setups : Mix!Ensure(i) /\ awaits' = [awaits EXCEPT !["connect"] = i]
    BY <1>3 DEF Mix!Connect
  <2>2. op' = [op EXCEPT !["connect"] = "setup"] /\ UNCHANGED <<up, spent, forgotten>>
    BY <1>3 DEF Mix!Connect, Mix!Begin
  <2>3. /\ op'["disconnect"] = op["disconnect"] /\ op'["reconnect"] = op["reconnect"]
        /\ awaits'["reconnect"] = awaits["reconnect"]
    BY <1>0, <2>1, <2>2
  <2> QED
    BY <2>1, <2>2, <2>3, EnsureFinds
\* An operation begins or ends with no more than its own state changed.
<1>b. ASSUME UNCHANGED <<setup, up, memo, forgotten>>, spent' \/ spent' = spent,
             \A o \in {"disconnect", "reconnect"} : op'[o] = "told" <=> op[o] = "told",
             Mix!InVain => Mix!InVain' \/ spent'
      PROVE  Parts'
  BY <1>b DEF Mix!FoundInv, Mix!OneImport, Mix!UpRuns, Mix!MemoUsable, Mix!UpIsMemo,
              Mix!Running, Mix!Unanswered
<1>4. ASSUME Mix!ConnectEnds \/ Mix!Disconnect \/ Mix!DisconnectFails PROVE Parts'
  <2>1. UNCHANGED <<setup, up, memo, forgotten, spent>>
    BY <1>4 DEF Mix!ConnectEnds, Mix!Disconnect, Mix!DisconnectFails
  <2>2. /\ op'["disconnect"] = "told" <=> op["disconnect"] = "told"
        /\ op'["reconnect"] = op["reconnect"] /\ awaits'["reconnect"] = awaits["reconnect"]
    BY <1>0, <1>4 DEF Mix!ConnectEnds, Mix!Disconnect, Mix!DisconnectFails, Mix!Begin, Mix!End
  <2>3. Mix!InVain => Mix!InVain'
    BY <2>1, <2>2 DEF Mix!InVain
  <2> QED
    BY <2>1, <2>2, <2>3, <1>b
<1>5. ASSUME Mix!Reconnect PROVE Parts'
  <2>1. UNCHANGED <<setup, up, memo, forgotten, spent>> /\ op["reconnect"] = "idle"
    BY <1>5 DEF Mix!Reconnect, Mix!Begin
  <2>2. op'["reconnect"] = "asked" /\ op'["disconnect"] = op["disconnect"]
    BY <1>0, <1>5 DEF Mix!Reconnect, Mix!Begin
  <2>3. ~Mix!InVain
    BY <2>1 DEF Mix!InVain
  <2> QED
    BY <2>1, <2>2, <2>3, <1>b
<1>6. ASSUME NEW o \in {"disconnect", "reconnect"}, Mix!Disconnected(o) PROVE Parts'
  <2>1. up' = 0 /\ UNCHANGED <<setup, memo, forgotten>> /\ op'[o] = "told"
    BY <1>0, <1>6 DEF Mix!Disconnected
  <2> QED
    BY <2>1 DEF Mix!FoundInv, Mix!OneImport, Mix!UpRuns, Mix!MemoUsable, Mix!UpIsMemo, Mix!Unanswered
<1>7. ASSUME Mix!TornDown PROVE Parts'
  <2>1. Mix!Imported /\ spent' = TRUE /\ memo' = 0 /\ UNCHANGED <<setup, up, forgotten>>
    BY <1>7 DEF Mix!TornDown
  <2> QED
    BY <2>1 DEF Mix!FoundInv, Mix!OneImport, Mix!UpRuns, Mix!Running, Mix!MemoUsable,
                Mix!UpIsMemo, Mix!Imported
<1>8. ASSUME Mix!Rebuild PROVE Parts'
  <2>1. PICK i \in Mix!Setups :
          /\ setup[i] = "unused" /\ setup' = [setup EXCEPT ![i] = "import"] /\ memo' = i
          /\ awaits' = [awaits EXCEPT !["reconnect"] = i]
    BY <1>8 DEF Mix!Rebuild
  <2>2. Mix!Imported /\ op' = [op EXCEPT !["reconnect"] = "setup"] /\ UNCHANGED up
    BY <1>8 DEF Mix!Rebuild
  <2>3. setup'[i] = "import" /\ \A j \in Mix!Setups : j # i => setup'[j] = setup[j]
    BY <1>0, <2>1
  <2>4. op'["reconnect"] = "setup" /\ awaits'["reconnect"] = i
    BY <1>0, <2>1, <2>2
  <2>5. Mix!InVain'
    BY <2>3, <2>4 DEF Mix!InVain
  <2>6. Mix!OneImport'
    BY <2>1, <2>2, <2>3 DEF Mix!OneImport, Mix!Imported
  <2>7. Mix!UpRuns'
    <3>1. up # 0 => up \in Mix!Setups /\ setup[up] # "unused"
      BY MixnetAssumption DEF Mix!TunnelAssumption, Mix!FoundInv, Mix!TypeOK, Mix!Setups
    <3> QED
      BY <2>1, <2>2, <2>3, <3>1 DEF Mix!FoundInv, Mix!UpRuns, Mix!Running
  <2>8. Mix!MemoUsable'
    BY <2>1, <2>3 DEF Mix!MemoUsable
  <2> QED
    BY <2>5, <2>6, <2>7, <2>8 DEF Mix!UpIsMemo
<1>9. ASSUME Mix!ReconnectEnds PROVE Parts'
  <2>1. UNCHANGED <<setup, up, memo, forgotten>> /\ op["reconnect"] = "setup"
    BY <1>9 DEF Mix!ReconnectEnds
  <2>2. op'["reconnect"] = "idle" /\ op'["disconnect"] = op["disconnect"]
    BY <1>0, <1>9 DEF Mix!ReconnectEnds, Mix!End
  <2>3. (setup[awaits["reconnect"]] = "ok" /\ spent' = spent) \/ spent' = TRUE
    BY <1>9 DEF Mix!ReconnectEnds
  <2>4. Mix!InVain => spent'
    BY <2>3 DEF Mix!InVain
  <2> QED
    BY <2>1, <2>2, <2>3, <2>4, <1>b
<1>10. ASSUME UNCHANGED tunnelVars PROVE Parts'
  <2>1. Mix!InVain => Mix!InVain'
    BY <1>10 DEF tunnelVars, Mix!InVain
  <2> QED
    BY <1>10, <2>1, <1>b DEF tunnelVars
<1> HIDE DEF Parts
<1>11. Parts'
  BY <1>1, <1>2, <1>3, <1>4, <1>5, <1>6, <1>7, <1>8, <1>9, <1>10 DEF Mix!Next
<1> QED
  BY <1>a, <1>11 DEF Mix!FoundInv, Parts

LEMMA TunnelFinds == Mix!FoundInv => Mix!TunnelFound
<1> SUFFICES ASSUME Mix!FoundInv PROVE Mix!TunnelFound
  OBVIOUS
<1> QED
  BY DEF Mix!FoundInv, Mix!TunnelFound, Mix!MemoUsable, Mix!UpIsMemo, Mix!Unanswered, Mix!InVain

-----------------------------------------------------------------------------
(* The memory of processed replies (ReplyTracker).  NoReplay speaks of the   *)
(* keys accepted within the window; that their entries are still held needs *)
(* the place of each: it is among the newest, as many from the end as other *)
(* replies came since, and only the cap takes one, from the front.          *)
LEMMA SameKept == \A list, S : Tracker!Kept(list, S) = Kept(list, S)
  BY DEF Tracker!Kept, Kept

TrackerEntry == [key : Keys, at : Nat]
Acceptance   == [at : Nat, others : Nat]

\* The entry of the acceptance d of x is among the last d.others + 1 of the list.
Stands(list, x, d) ==
  \E i \in 1..Len(list) : list[i].key = x /\ list[i].at = d.at /\ Len(list) - i <= d.others

TrackerInv ==
  /\ entries \in Seq(TrackerEntry) /\ Len(entries) <= MaxEntries /\ now \in Nat
  /\ due \in [DOMAIN due -> Acceptance]
  /\ \A x \in DOMAIN due : due[x].others < MaxEntries /\ Stands(entries, x, due[x])

\* What purge keeps of the entries.
LEMMA PurgedKeeps ==
  ASSUME TrackerInv
  PROVE  /\ Tracker!Purged(entries) \in Seq(TrackerEntry)
         /\ Len(Tracker!Purged(entries)) <= Len(entries)
         /\ \A x \in DOMAIN due : ~Tracker!TooOld(due[x]) => Stands(Tracker!Purged(entries), x, due[x])
<1> DEFINE Young == {e \in Tracker!ToSet(entries) : ~Tracker!TooOld(e)}
           kept == Kept(entries, Young)
<1>1. entries \in Seq(TrackerEntry)
  BY DEF TrackerInv
<1>2. Tracker!Purged(entries) = kept
  <2>1. Tracker!Purged(entries) = Tracker!Kept(entries, Young)
    BY DEF Tracker!Purged
  <2> HIDE DEF Young
  <2> QED BY <2>1, SameKept
<1>3. kept \in Seq(TrackerEntry \cap Young) /\ Len(kept) <= Len(entries)
  <2> HIDE DEF Young
  <2> QED BY <1>1, KeptSeq
<1>4. kept \in Seq(TrackerEntry)
  <2> HIDE DEF kept
  <2>1. TrackerEntry \cap Young \subseteq TrackerEntry
    OBVIOUS
  <2> QED BY <1>3, <2>1
<1>5. ASSUME NEW x \in DOMAIN due, ~Tracker!TooOld(due[x])
      PROVE  Stands(kept, x, due[x])
  <2>1. PICK i \in 1..Len(entries) :
          entries[i].key = x /\ entries[i].at = due[x].at /\ Len(entries) - i <= due[x].others
    BY DEF TrackerInv, Stands
  <2>2. entries[i] \in Young
    <3>1. entries[i] \in Tracker!ToSet(entries)
      BY <1>1, <2>1 DEF Tracker!ToSet
    <3> QED BY <1>5, <2>1, <3>1 DEF Tracker!TooOld
  <2>3. PICK j \in 1..Len(kept) : kept[j] = entries[i] /\ Len(kept) - j <= Len(entries) - i
    <3> HIDE DEF Young
    <3> QED BY <1>1, <2>2, KeptPlace
  <2>4. due[x].others \in Nat /\ Len(kept) \in Nat /\ Len(entries) \in Nat
    <3> HIDE DEF kept
    <3> QED BY <1>1, <1>4 DEF TrackerInv, Acceptance
  <2>5. Len(kept) - j <= due[x].others
    <3> HIDE DEF kept
    <3> QED BY <2>1, <2>3, <2>4
  <2> QED
    BY <2>1, <2>3, <2>5 DEF Stands
<1> QED
  <2> HIDE DEF kept
  <2> QED BY <1>2, <1>3, <1>4, <1>5

LEMMA TrackerInit == Tracker!Init => TrackerInv
<1> SUFFICES ASSUME Tracker!Init PROVE TrackerInv
  OBVIOUS
<1>1. MaxEntries \in Nat
  BY MixnetAssumption DEF Tracker!TrackerAssumption
<1> QED
  BY <1>1 DEF Tracker!Init, TrackerInv

LEMMA AcceptKeeps ==
  ASSUME TrackerInv, NEW k \in Keys, Tracker!Accept(k)
  PROVE  TrackerInv'
<1> DEFINE list == Tracker!Purged(entries)
           e == [key |-> k, at |-> now]
           longer == Append(list, e)
           still == {x \in DOMAIN due : ~Tracker!TooOld(due[x])}
           pushed == {x \in still \ {k} : due[x].others + 1 < MaxEntries}
<1>1. /\ list \in Seq(TrackerEntry) /\ Len(list) <= Len(entries)
      /\ \A x \in DOMAIN due : ~Tracker!TooOld(due[x]) => Stands(list, x, due[x])
  BY PurgedKeeps
<1>2. /\ entries \in Seq(TrackerEntry) /\ Len(entries) <= MaxEntries /\ now \in Nat
      /\ \A x \in DOMAIN due : due[x] \in Acceptance /\ due[x].others < MaxEntries
  BY DEF TrackerInv
<1>3. MaxEntries \in Nat /\ MaxEntries # 0
  BY MixnetAssumption DEF Tracker!TrackerAssumption
<1>4. now' = now
  BY DEF Tracker!Accept
<1>5. CASE Tracker!Refuses(k)
  <2>1. entries' = list /\ due' = [x \in still |-> due[x]]
    BY <1>5 DEF Tracker!Accept
  <2>2. \A x \in still : due[x] \in Acceptance /\ due[x].others < MaxEntries /\ Stands(list, x, due[x])
    BY <1>1, <1>2
  <2> HIDE DEF list, still
  <2>3. Len(list) \in Nat /\ Len(entries) \in Nat
    BY <1>1, <1>2
  <2>4. \A x \in DOMAIN due' : due'[x] \in Acceptance /\ due'[x].others < MaxEntries
                               /\ Stands(list, x, due'[x])
    BY <2>1, <2>2
  <2>5. due' \in [DOMAIN due' -> Acceptance]
    BY <2>1, <2>2
  <2> QED
    BY <1>1, <1>2, <1>3, <1>4, <2>1, <2>3, <2>4, <2>5 DEF TrackerInv, Stands
<1>6. CASE ~Tracker!Refuses(k)
  <2>1. /\ entries' = Tracker!Capped(longer)
        /\ due' = [x \in pushed \cup {k} |-> IF x = k THEN [at |-> now, others |-> 0]
                                            ELSE [due[x] EXCEPT !.others = @ + 1]]
    BY <1>6 DEF Tracker!Accept
  <2>2. \A x \in pushed : /\ x # k /\ x \in DOMAIN due /\ due[x] \in Acceptance
                          /\ due[x].others + 1 < MaxEntries /\ Stands(list, x, due[x])
    BY <1>1, <1>2
  <2>3. e \in TrackerEntry /\ e.key = k /\ e.at = now
    BY <1>2 DEF TrackerEntry
  <2> HIDE DEF list, still, pushed, e
  <2>4. /\ longer \in Seq(TrackerEntry) /\ Len(longer) = Len(list) + 1 /\ Len(list) \in Nat
        /\ longer[Len(list) + 1] = e /\ \A i \in 1..Len(list) : longer[i] = list[i]
    BY <1>1, <2>3, AppendProperties
  <2>5. Len(longer) <= MaxEntries + 1
    BY <1>1, <1>2, <1>3, <2>4
  <2> HIDE DEF longer
  <2>6. \A x \in DOMAIN due' : /\ due'[x] \in Acceptance /\ due'[x].others < MaxEntries
                               /\ Stands(longer, x, due'[x])
    <3>1. ASSUME NEW x \in DOMAIN due'
          PROVE  /\ due'[x] \in Acceptance /\ due'[x].others < MaxEntries
                 /\ Stands(longer, x, due'[x])
      <4>1. CASE x = k
        <5>1. due'[x] = [at |-> now, others |-> 0]
          BY <2>1, <4>1
        <5>2. Len(list) + 1 \in 1..Len(longer) /\ Len(longer) - (Len(list) + 1) <= 0
          BY <2>4
        <5> QED
          BY <1>2, <1>3, <2>3, <2>4, <4>1, <5>1, <5>2 DEF Acceptance, Stands
      <4>2. CASE x # k
        <5>1. x \in pushed /\ due'[x] = [due[x] EXCEPT !.others = due[x].others + 1]
          BY <2>1, <4>2
        <5>2. due[x] \in Acceptance /\ due[x].others + 1 < MaxEntries /\ Stands(list, x, due[x])
          BY <2>2, <5>1
        <5>3. due'[x] \in Acceptance /\ due'[x].at = due[x].at /\ due'[x].others = due[x].others + 1
              /\ due[x].others \in Nat
          BY <5>1, <5>2 DEF Acceptance
        <5>4. PICK i \in 1..Len(list) :
                list[i].key = x /\ list[i].at = due[x].at /\ Len(list) - i <= due[x].others
          BY <5>2 DEF Stands
        <5>5. i \in 1..Len(longer) /\ longer[i] = list[i] /\ Len(longer) - i <= due'[x].others
          <6>1. PICK a, b, m : a = Len(list) /\ b = Len(longer) /\ m = due[x].others
            OBVIOUS
          <6>2. a \in Nat /\ b = a + 1 /\ m \in Nat /\ i \in 1..a /\ a - i <= m
            BY <2>4, <5>3, <5>4, <6>1
          <6>3. i \in 1..b /\ b - i <= m + 1
            BY <6>2
          <6>4. longer[i] = list[i]
            BY <2>4
          <6> QED
            BY <5>3, <6>1, <6>3, <6>4
        <5> QED
          BY <5>2, <5>3, <5>4, <5>5 DEF Stands
      <4> QED
        BY <4>1, <4>2
    <3> QED
      BY <3>1
  <2>7. due' \in [DOMAIN due' -> Acceptance]
    BY <2>1, <2>6
  <2>8. CASE Len(longer) > MaxEntries
    <3>1. entries' = Tail(longer)
      BY <2>1, <2>8 DEF Tracker!Capped
    <3>2. Len(longer) = MaxEntries + 1 /\ longer # <<>>
      BY <1>3, <2>4, <2>5, <2>8
    <3>3. /\ entries' \in Seq(TrackerEntry) /\ Len(entries') = MaxEntries
          /\ \A i \in 1..MaxEntries : entries'[i] = longer[i + 1]
      BY <1>3, <2>4, <3>1, <3>2
    <3>4. ASSUME NEW x \in DOMAIN due' PROVE Stands(entries', x, due'[x])
      <4>1. PICK i \in 1..Len(longer) :
              longer[i].key = x /\ longer[i].at = due'[x].at /\ Len(longer) - i <= due'[x].others
        BY <2>6, <3>4 DEF Stands
      <4>2. due'[x].others < MaxEntries /\ due'[x].others \in Nat
        BY <2>6, <3>4 DEF Acceptance
      <4> DEFINE j == i - 1
      <4>3. j \in 1..MaxEntries /\ i = j + 1 /\ MaxEntries - j <= due'[x].others
        <5>1. i \in Nat /\ i <= MaxEntries + 1 /\ MaxEntries + 1 - i <= due'[x].others
          BY <1>3, <3>2, <4>1
        <5> QED BY <1>3, <4>2, <5>1
      <4> HIDE DEF j
      <4>4. entries'[j] = longer[i]
        BY <3>3, <4>3
      <4> QED
        BY <3>3, <4>1, <4>3, <4>4 DEF Stands
    <3> QED
      BY <1>2, <1>3, <1>4, <2>6, <2>7, <3>3, <3>4 DEF TrackerInv
  <2>9. CASE ~(Len(longer) > MaxEntries)
    <3>1. entries' = longer /\ Len(longer) <= MaxEntries
      BY <1>3, <2>1, <2>4, <2>9 DEF Tracker!Capped
    <3> QED
      BY <1>2, <1>4, <2>4, <2>6, <2>7, <3>1 DEF TrackerInv
  <2> QED
    BY <2>8, <2>9
<1> QED
  BY <1>5, <1>6

LEMMA TrackerStep == TrackerInv /\ [Tracker!Next]_<<entries, now, due>> => TrackerInv'
<1> SUFFICES ASSUME TrackerInv, [Tracker!Next]_<<entries, now, due>> PROVE TrackerInv'
  OBVIOUS
<1>1. CASE Tracker!SetClock
  <2>1. now' \in Nat /\ entries' = entries /\ due' = due
    BY <1>1, MixnetAssumption DEF Tracker!SetClock, Tracker!TrackerAssumption
  <2> QED BY <2>1 DEF TrackerInv, Stands
<1>2. ASSUME NEW k \in Keys, Tracker!Accept(k) PROVE TrackerInv'
  BY <1>2, AcceptKeeps
<1>3. CASE UNCHANGED <<entries, now, due>>
  BY <1>3 DEF TrackerInv, Stands
<1> QED
  BY <1>1, <1>2, <1>3 DEF Tracker!Next

LEMMA TrackerSound == TrackerInv => Tracker!NoReplay
<1> SUFFICES ASSUME TrackerInv, NEW k \in DOMAIN due, ~Tracker!TooOld(due[k])
             PROVE  Tracker!Refuses(k)
  BY DEF Tracker!NoReplay
<1>1. Stands(Tracker!Purged(entries), k, due[k]) /\ Tracker!Purged(entries) \in Seq(TrackerEntry)
  BY PurgedKeeps
<1> QED
  BY <1>1 DEF Stands, Tracker!Refuses, Tracker!Tracked

-----------------------------------------------------------------------------
(* Requests to the clearnet (Clearnet).  Beside the types the invariant has *)
(* that every cookie was set by a host of its domain and that no two are    *)
(* the same one, in the jar and in storage; that the two agree once expired *)
(* cookies are purged, while no call is under way; and that a page kept, or *)
(* carried by a call, is of the document its url leads to.                  *)
LEMMA WebKept == \A list, S : Web!Kept(list, S) = Kept(list, S)
  BY DEF Web!Kept, Kept

LEMMA WebConstants ==
  /\ None \notin Web!Page /\ None \notin Web!Call
  /\ \A o \in Offers : o.life \in Nat \cup {Session}
  /\ MaxRedirects \in Nat /\ MaxCookies \in Nat /\ MaxCookies # 0
  /\ MaxPages \in Nat /\ MaxPages # 0 /\ MaxVersion \in Nat
  BY MixnetAssumption DEF Web!ClearnetAssumption, Web!NullAssumption

\* The cookies that have not expired at a time.
Alive(n) == {c \in Web!Cookie : c.until = Session \/ c.until > n}

LEMMA PurgeAlive ==
  ASSUME NEW list \in Seq(Web!Cookie)
  PROVE  Web!Purge(list) = Kept(list, Alive(clock))
<1> DEFINE Young == {c \in Web!ToSet(list) : c.until = Session \/ c.until > clock}
<1>1. Web!Purge(list) = Web!Kept(list, Young)
  BY DEF Web!Purge
<1>2. ASSUME NEW i \in 1..Len(list) PROVE list[i] \in Young <=> list[i] \in Alive(clock)
  <2>1. list[i] \in Web!Cookie /\ list[i] \in Web!ToSet(list)
    BY ElementOfSeq DEF Web!ToSet
  <2> QED BY <2>1 DEF Alive
<1>3. Kept(list, Young) = Kept(list, Alive(clock))
  <2> HIDE DEF Young
  <2> QED BY <1>2, KeptSame
<1> QED
  <2> HIDE DEF Young
  <2> QED BY <1>1, <1>3, WebKept

\* A cookie was set by a host of the domain it is for.
Placed(c) == IF c.hostOnly THEN Host[c.from] = c.domain ELSE <<Host[c.from], c.domain>> \in Within
Apart(list) == \A i, j \in 1..Len(list) : Web!SameCookie(list[i], list[j]) => list[i] = list[j]

JarOk(list) ==
  /\ list \in Seq(Web!Cookie) /\ Len(list) <= MaxCookies
  /\ \A i \in 1..Len(list) : Placed(list[i])
  /\ Apart(list)

LEMMA JarPart ==
  ASSUME NEW list, JarOk(list), NEW part \in Seq(Web!Cookie), Len(part) <= MaxCookies,
         \A i \in 1..Len(part) : \E j \in 1..Len(list) : list[j] = part[i]
  PROVE  JarOk(part)
<1>1. \A i \in 1..Len(part) : Placed(part[i])
  BY DEF JarOk
<1>2. ASSUME NEW i \in 1..Len(part), NEW j \in 1..Len(part), Web!SameCookie(part[i], part[j])
      PROVE  part[i] = part[j]
  <2>1. PICK k \in 1..Len(list) : list[k] = part[i]
    OBVIOUS
  <2>2. PICK m \in 1..Len(list) : list[m] = part[j]
    OBVIOUS
  <2>3. Web!SameCookie(list[k], list[m])
    BY <1>2, <2>1, <2>2
  <2> QED BY <2>1, <2>2, <2>3 DEF JarOk, Apart
<1> QED
  BY <1>1, <1>2 DEF JarOk, Apart

LEMMA KeptOk ==
  ASSUME NEW list, JarOk(list), NEW S
  PROVE  /\ JarOk(Kept(list, S)) /\ Len(Kept(list, S)) <= Len(list)
         /\ \A i \in 1..Len(Kept(list, S)) : Kept(list, S)[i] \in S
<1>1. list \in Seq(Web!Cookie) /\ Len(list) <= MaxCookies /\ Len(list) \in Nat
  BY DEF JarOk
<1>2. Kept(list, S) \in Seq(Web!Cookie \cap S) /\ Len(Kept(list, S)) <= Len(list)
  BY <1>1, KeptSeq
<1>3. Kept(list, S) \in Seq(Web!Cookie) /\ Len(Kept(list, S)) \in Nat
  <2>1. Web!Cookie \cap S \subseteq Web!Cookie
    OBVIOUS
  <2> QED BY <1>2, <2>1
<1>4. \A i \in 1..Len(Kept(list, S)) :
        Kept(list, S)[i] \in S /\ \E j \in 1..Len(list) : list[j] = Kept(list, S)[i]
  BY <1>1, KeptFrom
<1>5. Len(Kept(list, S)) <= MaxCookies
  BY <1>1, <1>2, <1>3, WebConstants
<1> QED
  BY <1>2, <1>3, <1>4, <1>5, JarPart

\* What is left when expired cookies are purged.
LEMMA PurgeOk ==
  ASSUME NEW list, JarOk(list)
  PROVE  /\ JarOk(Web!Purge(list)) /\ Web!Purge(list) = Kept(list, Alive(clock))
         /\ \A i \in 1..Len(Web!Purge(list)) : Web!Purge(list)[i] \in Alive(clock)
<1>1. Web!Purge(list) = Kept(list, Alive(clock))
  BY PurgeAlive DEF JarOk
<1> QED
  BY <1>1, KeptOk

LEMMA CookieFits ==
  ASSUME NEW u \in Urls, NEW o \in Offers, clock \in Nat
  PROVE  Web!CookieFrom(u, o) \in Web!Cookie
<1> DEFINE cookie == Web!CookieFrom(u, o)
           until == IF o.life = Session THEN Session ELSE clock + o.life
           domain == IF o.domain = None THEN Host[u] ELSE o.domain
<1>1. until \in Nat \cup {Session}
  BY WebConstants
<1>2. domain \in {q.domain : q \in Offers} \cup {Host[v] : v \in Urls}
  OBVIOUS
<1>3. cookie = [name |-> o.name, hostOnly |-> o.domain = None, path |-> o.path,
                secure |-> o.secure, domain |-> domain, until |-> until, from |-> u]
  BY DEF Web!CookieFrom
<1>4. /\ o.name \in {q.name : q \in Offers} /\ o.path \in {q.path : q \in Offers}
      /\ o.secure \in {q.secure : q \in Offers} /\ (o.domain = None) \in BOOLEAN
  OBVIOUS
<1> HIDE DEF cookie, until, domain
<1>5. cookie \in Web!Cookie
  BY <1>1, <1>2, <1>3, <1>4 DEF Web!Cookie
<1> QED
  BY <1>5 DEF cookie

LEMMA SetKeeps ==
  ASSUME NEW list, JarOk(list), NEW u \in Urls, NEW o \in Offers, clock \in Nat
  PROVE  JarOk(Web!SetFromHeader(list, u, o))
<1> DEFINE cookie == Web!CookieFrom(u, o)
           Different == {c \in Web!ToSet(list) : ~Web!SameCookie(c, cookie)}
           others == Kept(list, Different)
           longer == Append(others, cookie)
<1>1. cookie \in Web!Cookie
  BY CookieFits
<1>2. /\ JarOk(others) /\ Len(others) <= Len(list)
      /\ \A i \in 1..Len(others) : others[i] \in Different
  <2> HIDE DEF Different
  <2> QED BY KeptOk
<1>3. \A i \in 1..Len(others) : ~Web!SameCookie(others[i], cookie)
  <2> HIDE DEF others
  <2> QED BY <1>2
<1>4. Web!SetFromHeader(list, u, o) =
        IF o.domain # None /\ <<Host[u], o.domain>> \notin Within THEN list
        ELSE IF cookie.until # Session /\ cookie.until <= clock THEN Web!Purge(others)
        ELSE Web!Newest(longer)
  <2>1. Web!Kept(list, Different) = others
    <3> HIDE DEF Different
    <3> QED BY WebKept
  <2> QED BY <2>1 DEF Web!SetFromHeader
<1>5. CASE o.domain # None /\ <<Host[u], o.domain>> \notin Within
  BY <1>4, <1>5
<1>6. CASE /\ ~(o.domain # None /\ <<Host[u], o.domain>> \notin Within)
           /\ cookie.until # Session /\ cookie.until <= clock
  <2> HIDE DEF others
  <2> QED BY <1>2, <1>4, <1>6, PurgeOk
<1>7. CASE /\ ~(o.domain # None /\ <<Host[u], o.domain>> \notin Within)
           /\ ~(cookie.until # Session /\ cookie.until <= clock)
  <2>1. Placed(cookie)
    BY <1>7 DEF Placed, Web!CookieFrom
  <2>2. Web!SameCookie(cookie, cookie)
    BY DEF Web!SameCookie
  <2>3. \A a, b : Web!SameCookie(a, b) => Web!SameCookie(b, a)
    BY DEF Web!SameCookie
  <2> HIDE DEF cookie, others
  <2>4. /\ others \in Seq(Web!Cookie) /\ Len(others) <= MaxCookies
        /\ \A i \in 1..Len(others) : Placed(others[i])
        /\ Apart(others)
    BY <1>2 DEF JarOk
  <2>5. /\ longer \in Seq(Web!Cookie) /\ Len(longer) = Len(others) + 1 /\ Len(others) \in Nat
        /\ longer[Len(others) + 1] = cookie /\ \A i \in 1..Len(others) : longer[i] = others[i]
    BY <1>1, <2>4, AppendProperties
  <2> HIDE DEF longer
  <2>6. \A i \in 1..Len(longer) : i = Len(others) + 1 \/ i \in 1..Len(others)
    BY <2>5
  <2>7. \A i \in 1..Len(longer) : Placed(longer[i])
    BY <2>1, <2>4, <2>5, <2>6
  <2>8. ASSUME NEW i \in 1..Len(longer), NEW j \in 1..Len(longer),
               Web!SameCookie(longer[i], longer[j])
        PROVE  longer[i] = longer[j]
    <3>1. CASE i \in 1..Len(others) /\ j \in 1..Len(others)
      BY <2>4, <2>5, <2>8, <3>1 DEF Apart
    <3>2. CASE i = Len(others) + 1 /\ j \in 1..Len(others)
      BY <1>3, <2>3, <2>5, <2>8, <3>2
    <3>3. CASE i \in 1..Len(others) /\ j = Len(others) + 1
      BY <1>3, <2>5, <2>8, <3>3
    <3>4. CASE i = Len(others) + 1 /\ j = Len(others) + 1
      BY <3>4
    <3> QED BY <2>6, <3>1, <3>2, <3>3, <3>4
  <2>9. JarOk(Web!Newest(longer))
    <3>1. CASE Len(longer) <= MaxCookies
      <4>1. Web!Newest(longer) = longer
        BY <2>5, <3>1, WebConstants DEF Web!Newest
      <4> QED BY <2>5, <2>7, <2>8, <3>1, <4>1 DEF JarOk, Apart
    <3>2. CASE ~(Len(longer) <= MaxCookies)
      <4> DEFINE low == Len(longer) - MaxCookies + 1
                 part == SubSeq(longer, low, Len(longer))
      <4>1. Len(longer) = MaxCookies + 1 /\ low = 2
        BY <2>4, <2>5, <3>2, WebConstants
      <4>2. Web!Newest(longer) = part
        BY <2>5, <3>2, WebConstants DEF Web!Newest
      <4>3. /\ part \in Seq(Web!Cookie) /\ Len(part) = MaxCookies
            /\ \A i \in 1..MaxCookies : part[i] = longer[i + 1]
        <5>1. part = SubSeq(longer, 2, MaxCookies + 1)
          BY <4>1
        <5> HIDE DEF part
        <5> QED BY <2>5, <4>1, <5>1, WebConstants
      <4> HIDE DEF part, low
      <4>4. \A i \in 1..MaxCookies : i + 1 \in 1..Len(longer)
        BY <4>1, WebConstants
      <4>5. \A i \in 1..Len(part) : Placed(part[i])
        BY <2>7, <4>3, <4>4
      <4>6. ASSUME NEW i \in 1..Len(part), NEW j \in 1..Len(part),
                   Web!SameCookie(part[i], part[j])
            PROVE  part[i] = part[j]
        <5>1. part[i] = longer[i + 1] /\ part[j] = longer[j + 1]
          BY <4>3
        <5>2. i + 1 \in 1..Len(longer) /\ j + 1 \in 1..Len(longer)
          BY <4>3, <4>4
        <5> QED BY <2>8, <4>6, <5>1, <5>2
      <4>7. Len(part) <= MaxCookies
        BY <4>3, WebConstants
      <4> QED BY <4>2, <4>3, <4>5, <4>6, <4>7 DEF JarOk, Apart
    <3> QED BY <3>1, <3>2
  <2> QED BY <1>4, <1>7, <2>9
<1> QED
  BY <1>5, <1>6, <1>7

\* The credentials as they are stored.
Credential == [scope : {Web!Origin(u) : u \in Urls}, realm : {None}, word : {"good"}]

LEMMA WordFits ==
  ASSUME creds \in Seq(Credential), NEW u
  PROVE  Web!AuthorizationFor(u) \in {None} \cup {"good"}
<1> DEFINE Own == {c \in Web!ToSet(creds) : c.scope = Web!Origin(u)}
           own == Kept(creds, Own)
<1>1. Web!CredentialsOf(u) = own
  <2>1. Web!CredentialsOf(u) = Web!Kept(creds, Own)
    BY DEF Web!CredentialsOf
  <2> HIDE DEF Own
  <2> QED BY <2>1, WebKept
<1>2. own \in Seq(Credential)
  <2> HIDE DEF Own
  <2>1. own \in Seq(Credential \cap Own)
    BY KeptSeq
  <2>2. Credential \cap Own \subseteq Credential
    OBVIOUS
  <2> HIDE DEF own
  <2> QED BY <2>1, <2>2
<1> HIDE DEF own
<1>3. CASE own = <<>>
  BY <1>1, <1>3 DEF Web!AuthorizationFor
<1>4. CASE own # <<>>
  <2>1. Len(own) \in 1..Len(own)
    BY <1>2, <1>4
  <2>2. own[Len(own)] \in Credential
    BY <1>2, <2>1, ElementOfSeq
  <2>3. own[Len(own)].word = "good"
    BY <2>2 DEF Credential
  <2> QED BY <1>1, <1>4, <2>3 DEF Web!AuthorizationFor, Web!Last
<1> QED
  BY <1>3, <1>4

LEMMA SignInFits ==
  ASSUME creds \in Seq(Credential), NEW u \in Urls, NEW word \in {"good"},
         Web!SetCredential(u, None, word)
  PROVE  creds' \in Seq(Credential)
<1> DEFINE Other == {c \in Web!ToSet(creds) : ~(c.scope = Web!Origin(u) /\ c.realm = None)}
           others == Kept(creds, Other)
           new == [scope |-> Web!Origin(u), realm |-> None, word |-> word]
<1>1. creds' = Append(others, new)
  <2>1. creds' = Append(Web!Kept(creds, Other), new)
    BY DEF Web!SetCredential
  <2> HIDE DEF Other
  <2> QED BY <2>1, WebKept
<1>2. others \in Seq(Credential)
  <2> HIDE DEF Other
  <2>1. others \in Seq(Credential \cap Other)
    BY KeptSeq
  <2>2. Credential \cap Other \subseteq Credential
    OBVIOUS
  <2> HIDE DEF others
  <2> QED BY <2>1, <2>2
<1>3. new \in Credential
  BY DEF Credential
<1> HIDE DEF others, new
<1> QED
  BY <1>1, <1>2, <1>3

\* A request carries what belongs to its url.
LEMMA RequestFits ==
  ASSUME NEW call \in Web!Call, NEW u \in Urls, NEW list, JarOk(list), creds \in Seq(Credential)
  PROVE  LET r == Web!Request(call, u, list) IN
         /\ r \in Web!Call /\ r # None /\ Web!BelongTo(r)
         /\ r.first = call.first /\ r.at = u /\ r.cond = call.cond
<1> DEFINE r == Web!Request(call, u, list)
           purged == Web!Purge(list)
           cookies == Web!Matching(list, u)
           word == Web!AuthorizationFor(u)
<1>1. r = [call EXCEPT !.at = u, !.cookies = cookies, !.word = word]
  BY DEF Web!Request
<1>2. /\ JarOk(purged) /\ \A i \in 1..Len(purged) : purged[i] \in Alive(clock)
  BY PurgeOk
<1>3. cookies = {c \in Web!ToSet(purged) : /\ Web!DomainMatches(Host[u], c)
                                           /\ <<u, c.path>> \in Covers
                                           /\ c.secure => Secure[u]}
  BY DEF Web!Matching
<1> HIDE DEF purged
<1>4. Web!ToSet(purged) = {purged[i] : i \in 1..Len(purged)}
  BY <1>2 DEF Web!ToSet, JarOk
<1>5. ASSUME NEW c \in cookies
      PROVE  \E i \in 1..Len(purged) : c = purged[i]
  BY <1>3, <1>4, <1>5
<1>6. word \in {None} \cup {"good"}
  BY WordFits
<1> HIDE DEF cookies, word
<1>7. cookies \in SUBSET Web!Cookie
  <2>1. ASSUME NEW c \in cookies PROVE c \in Web!Cookie
    BY <1>2, <1>5 DEF Alive
  <2> QED BY <2>1
<1>8. /\ r \in Web!Call /\ r.first = call.first /\ r.at = u /\ r.cond = call.cond
      /\ r.cookies = cookies /\ r.word = word
  BY <1>1, <1>6, <1>7 DEF Web!Call
<1> HIDE DEF r
<1>9. ASSUME NEW k \in cookies
      PROVE  /\ k.until = Session \/ k.until > clock
             /\ IF k.hostOnly THEN Host[k.from] = Host[u]
                ELSE <<Host[k.from], k.domain>> \in Within /\ <<Host[u], k.domain>> \in Within
             /\ \A j \in cookies : Web!SameCookie(j, k) => j = k
  <2>1. PICK i \in 1..Len(purged) : k = purged[i]
    BY <1>5
  <2>2. k \in Alive(clock) /\ Placed(k)
    BY <1>2, <2>1 DEF JarOk
  <2>3. Web!DomainMatches(Host[u], k)
    BY <1>3, <1>9
  <2>4. ASSUME NEW j \in cookies, Web!SameCookie(j, k) PROVE j = k
    <3>1. PICK m \in 1..Len(purged) : j = purged[m]
      BY <1>5
    <3> QED BY <1>2, <2>1, <2>4, <3>1 DEF JarOk, Apart
  <2> QED BY <2>2, <2>3, <2>4 DEF Alive, Placed, Web!DomainMatches
<1>10. Web!BelongTo(r)
  BY <1>8, <1>9 DEF Web!BelongTo, word
<1>11. r # None
  BY <1>8, WebConstants
<1> QED
  BY <1>8, <1>10, <1>11 DEF r

-----------------------------------------------------------------------------
\* Where redirects lead, as long as no server changes them: from u to v, in the
\* documents d.
Path(d, f, n, u, v) ==
  /\ f \in [0..n -> Urls] /\ f[0] = u /\ f[n] = v
  /\ \A k \in 0..n : k < n => f[k + 1] = d[f[k]].to
Leads(d, u, v) == \E n \in Nat : \E f : Path(d, f, n, u, v)

LEMMA LeadsNowhere == ASSUME NEW d, NEW u \in Urls PROVE Leads(d, u, u)
<1>1. Path(d, [k \in 0..0 |-> u], 0, u, u) /\ [k \in 0..0 |-> u] \in [0..0 -> Urls]
  BY DEF Path
<1> QED
  BY <1>1 DEF Leads

LEMMA LeadsOn ==
  ASSUME NEW d, NEW u, NEW v \in Urls, Leads(d, u, v), d[v].to \in Urls
  PROVE  Leads(d, u, d[v].to)
<1>1. PICK n \in Nat : \E f : Path(d, f, n, u, v)
  BY DEF Leads
<1>1a. PICK f : Path(d, f, n, u, v)
  BY <1>1
<1> DEFINE m == n + 1
           w == d[v].to
           g == [k \in 0..m |-> IF k = m THEN w ELSE f[k]]
<1>2. m \in Nat /\ m # 0 /\ n \in 0..m /\ n # m /\ n + 1 = m
  OBVIOUS
<1>3. \A k \in 0..m : k # m => k \in 0..n
  OBVIOUS
<1>4. g \in [0..m -> Urls] /\ g[0] = u /\ g[m] = w
  BY <1>1a, <1>2, <1>3 DEF Path
<1>5. ASSUME NEW k \in 0..m, k < m PROVE g[k + 1] = d[g[k]].to
  <2>1. k \in 0..n /\ g[k] = f[k]
    BY <1>5
  <2>2. CASE k = n
    BY <1>1a, <1>2, <1>4, <2>1, <2>2 DEF Path
  <2>3. CASE k # n
    <3>1. k < n /\ k + 1 \in 0..m /\ k + 1 # m
      BY <1>5, <2>1, <2>3
    <3>2. g[k + 1] = f[k + 1]
      BY <3>1
    <3> QED BY <1>1a, <2>1, <3>1, <3>2 DEF Path
  <2> QED BY <2>2, <2>3
<1> HIDE DEF m, g
<1>6. Path(d, g, m, u, w)
  BY <1>4, <1>5 DEF Path
<1> QED
  BY <1>2, <1>4, <1>6 DEF Leads

LEMMA LeadsSame ==
  ASSUME NEW d, NEW e, \A u \in Urls : d[u].to = e[u].to, NEW u, NEW v, Leads(d, u, v)
  PROVE  Leads(e, u, v)
<1>1. PICK n \in Nat : \E f : Path(d, f, n, u, v)
  BY DEF Leads
<1>1a. PICK f : Path(d, f, n, u, v)
  BY <1>1
<1>2. Path(e, f, n, u, v)
  BY <1>1a DEF Path
<1> QED
  BY <1>2 DEF Leads

\* A path to an url that does not redirect has no longer one beside it that ends
\* elsewhere.
LEMMA PathsMeet ==
  ASSUME NEW d, NEW u, NEW v, NEW w, d[v].to = v, NEW n \in Nat, NEW m \in Nat, n <= m,
         NEW f, NEW g, Path(d, f, n, u, v), Path(d, g, m, u, w)
  PROVE  v = w
<1> DEFINE Off == {k \in 0..m : g[k] # (IF k <= n THEN f[k] ELSE v)}
<1>1. Off = {}
  <2>1. SUFFICES ASSUME Off # {} PROVE FALSE
    OBVIOUS
  <2>2. PICK k \in Off : \A j \in Off : k <= j
    <3>1. Off \in SUBSET Nat
      OBVIOUS
    <3> HIDE DEF Off
    <3> QED BY <2>1, <3>1, LeastNat
  <2>3. k # 0
    BY <2>2 DEF Path
  <2> DEFINE j == k - 1
  <2>4. j \in 0..m /\ j < m /\ k = j + 1 /\ j \notin Off
    BY <2>2, <2>3
  <2>5. g[j] = (IF j <= n THEN f[j] ELSE v) /\ g[k] = d[g[j]].to
    BY <2>4 DEF Path
  <2>6. g[k] # (IF k <= n THEN f[k] ELSE v)
    BY <2>2
  <2> HIDE DEF j, Off
  <2>7. CASE j < n
    <3>1. j \in 0..n /\ k <= n
      BY <2>4, <2>7
    <3>2. f[k] = d[f[j]].to
      BY <2>4, <2>7, <3>1 DEF Path
    <3> QED BY <2>5, <2>6, <3>1, <3>2
  <2>8. CASE j = n
    <3>1. ~(k <= n) /\ j <= n /\ f[j] = v
      BY <2>4, <2>8 DEF Path
    <3> QED BY <2>5, <2>6, <3>1
  <2>9. CASE j > n
    <3>1. ~(k <= n) /\ ~(j <= n)
      BY <2>4, <2>9
    <3> QED BY <2>5, <2>6, <3>1
  <2> QED BY <2>4, <2>7, <2>8, <2>9
<1>2. g[m] = IF m <= n THEN f[m] ELSE v
  BY <1>1
<1>3. m <= n => m = n
  OBVIOUS
<1> QED
  BY <1>2, <1>3 DEF Path

LEMMA LeadsToOne ==
  ASSUME NEW d, NEW u, NEW v, NEW w, Leads(d, u, v), Leads(d, u, w), d[v].to = v, d[w].to = w
  PROVE  v = w
<1>1. PICK n \in Nat : \E f : Path(d, f, n, u, v)
  BY DEF Leads
<1>1a. PICK f : Path(d, f, n, u, v)
  BY <1>1
<1>2. PICK m \in Nat : \E g : Path(d, g, m, u, w)
  BY DEF Leads
<1>2a. PICK g : Path(d, g, m, u, w)
  BY <1>2
<1>3. CASE n <= m
  BY <1>1a, <1>2a, <1>3, PathsMeet
<1>4. CASE m <= n
  <2>1. w = v
    BY <1>1a, <1>2a, <1>4, PathsMeet
  <2> QED BY <2>1
<1> QED
  BY <1>3, <1>4

-----------------------------------------------------------------------------
\* A page kept for an url is of the document its redirects lead to.
PageRight(d, u, page) ==
  Leads(d, u, page.at) /\ d[page.at].to = page.at /\ page.tag = page.ver
PagesRight(d, list) == \A i \in 1..Len(list) : PageRight(d, list[i].url, list[i].page)
CallRight(d, call) ==
  /\ Leads(d, call.first, call.at)
  /\ call.cond # None => PageRight(d, call.first, call.cond)
CallsRight == \A c \in Loads : calls[c] # None => CallRight(docs, calls[c])

PageEntry == [url : Urls, page : Web!Page]
PagesFit(list) == list \in Seq(PageEntry) /\ Len(list) <= MaxPages

Saved(d, j, n) == Kept(d, Alive(n)) = Kept(j, Alive(n))
Idle == \A c \in Loads : calls[c] = None

ClearnetInv ==
  /\ Web!TypeOK /\ JarOk(jar) /\ JarOk(disk)
  /\ Idle => Saved(disk, jar, clock)
  /\ ~MayMove => CallsRight /\ PagesRight(docs, pages)

\* What a step promises, and what is still to show of one that leaves the servers
\* and the clock alone, and of one that leaves the jar alone too.
Promise == Web!HeadersBelong /\ (~MayMove => Web!ShownIsCurrent)

LEMMA RecentFits ==
  ASSUME PagesFit(pages), NEW u \in Urls, NEW page \in Web!Page, NEW d
  PROVE  /\ PagesFit(Web!Recent(u, page))
         /\ PagesRight(d, pages) /\ PageRight(d, u, page) => PagesRight(d, Web!Recent(u, page))
<1> DEFINE Other == {e \in Web!ToSet(pages) : e.url # u}
           others == Kept(pages, Other)
           new == [url |-> u, page |-> page]
           all == Append(others, new)
           recent == IF Len(all) > MaxPages THEN Tail(all) ELSE all
<1>0. pages \in Seq(PageEntry) /\ Len(pages) <= MaxPages /\ Len(pages) \in Nat
  BY DEF PagesFit
<1>1. Web!Recent(u, page) = recent
  <2>1. Web!Others(u) = Web!Kept(pages, Other)
    BY DEF Web!Others
  <2>2. Web!Others(u) = others
    <3> HIDE DEF Other
    <3> QED BY <2>1, WebKept
  <2> HIDE DEF others
  <2> QED BY <2>2 DEF Web!Recent
<1>2. /\ others \in Seq(PageEntry) /\ Len(others) <= Len(pages)
      /\ \A j \in 1..Len(others) : \E i \in 1..Len(pages) : pages[i] = others[j]
  <2> HIDE DEF Other
  <2>1. others \in Seq(PageEntry \cap Other) /\ Len(others) <= Len(pages)
    BY <1>0, KeptSeq
  <2>2. \A j \in 1..Len(others) : \E i \in 1..Len(pages) : pages[i] = others[j]
    BY <1>0, KeptFrom
  <2>3. PageEntry \cap Other \subseteq PageEntry
    OBVIOUS
  <2> HIDE DEF others
  <2> QED BY <2>1, <2>2, <2>3
<1>3. new \in PageEntry /\ new.url = u /\ new.page = page
  BY DEF PageEntry
<1> HIDE DEF others, new
<1>4. /\ all \in Seq(PageEntry) /\ Len(all) = Len(others) + 1 /\ Len(others) \in Nat
      /\ all[Len(others) + 1] = new /\ \A i \in 1..Len(others) : all[i] = others[i]
  BY <1>2, <1>3, AppendProperties
<1> HIDE DEF all
<1>5. Len(all) <= MaxPages + 1 /\ Len(all) # 0
  BY <1>0, <1>2, <1>4, WebConstants
<1>6. /\ recent \in Seq(PageEntry) /\ Len(recent) <= MaxPages
      /\ \A j \in 1..Len(recent) : \E i \in 1..Len(all) : recent[j] = all[i]
  <2>1. CASE Len(all) > MaxPages
    <3>1. all # <<>> /\ Len(all) = MaxPages + 1
      BY <1>4, <1>5, <2>1, WebConstants
    <3>2. /\ recent \in Seq(PageEntry) /\ Len(recent) = MaxPages
          /\ \A j \in 1..MaxPages : recent[j] = all[j + 1]
      BY <1>4, <2>1, <3>1, WebConstants
    <3>3. \A j \in 1..MaxPages : j + 1 \in 1..Len(all)
      BY <3>1, WebConstants
    <3> HIDE DEF recent
    <3> QED BY <3>2, <3>3, WebConstants
  <2>2. CASE ~(Len(all) > MaxPages)
    BY <1>4, <2>2, WebConstants
  <2> QED BY <2>1, <2>2
<1> HIDE DEF recent
<1>7. ASSUME PagesRight(d, pages), PageRight(d, u, page) PROVE PagesRight(d, recent)
  <2>1. ASSUME NEW j \in 1..Len(recent) PROVE PageRight(d, recent[j].url, recent[j].page)
    <3>1. PICK i \in 1..Len(all) : recent[j] = all[i]
      BY <1>6
    <3>2. CASE i = Len(others) + 1
      BY <1>3, <1>4, <1>7, <3>1, <3>2
    <3>3. CASE i \in 1..Len(others)
      <4>1. PICK m \in 1..Len(pages) : pages[m] = others[i]
        BY <1>2, <3>3
      <4> QED BY <1>4, <1>7, <3>1, <3>3, <4>1 DEF PagesRight
    <3> QED BY <1>4, <3>2, <3>3
  <2> QED BY <2>1 DEF PagesRight
<1> QED
  BY <1>1, <1>6, <1>7 DEF PagesFit

LEMMA PageOfFits ==
  ASSUME PagesFit(pages), NEW u \in Urls, NEW d
  PROVE  /\ Web!PageOf(u) \in {None} \cup Web!Page
         /\ PagesRight(d, pages) /\ Web!PageOf(u) # None => PageRight(d, u, Web!PageOf(u))
<1>1. CASE \E i \in DOMAIN pages : pages[i].url = u
  <2> DEFINE e == CHOOSE e \in Web!ToSet(pages) : e.url = u
  <2>1. e \in Web!ToSet(pages) /\ e.url = u
    BY <1>1 DEF Web!ToSet
  <2>2. Web!PageOf(u) = e.page
    BY <1>1 DEF Web!PageOf
  <2> HIDE DEF e
  <2>3. PICK i \in 1..Len(pages) : e = pages[i]
    BY <2>1 DEF Web!ToSet, PagesFit
  <2>4. pages[i] \in PageEntry
    BY ElementOfSeq DEF PagesFit
  <2> QED BY <2>1, <2>2, <2>3, <2>4 DEF PageEntry, PagesRight
<1>2. CASE ~\E i \in DOMAIN pages : pages[i].url = u
  BY <1>2 DEF Web!PageOf
<1> QED
  BY <1>1, <1>2

\* What the invariant says of the state, in the words of the lemmas.
LEMMA ClearnetFacts ==
  ASSUME ClearnetInv
  PROVE  /\ JarOk(jar) /\ JarOk(disk) /\ creds \in Seq(Credential) /\ PagesFit(pages)
         /\ calls \in [Loads -> {None} \cup Web!Call] /\ shown \in {None} \cup Web!Page
         /\ docs \in [Urls -> [ver : 0..MaxVersion, to : Urls]]
         /\ broken \in BOOLEAN /\ clock \in 0..1 /\ clock \in Nat
  BY DEF ClearnetInv, Web!TypeOK, Credential, PagesFit, PageEntry

LEMMA ClearnetNext ==
  ASSUME JarOk(jar'), JarOk(disk'), creds' \in Seq(Credential), PagesFit(pages'),
         calls' \in [Loads -> {None} \cup Web!Call], shown' \in {None} \cup Web!Page,
         docs' \in [Urls -> [ver : 0..MaxVersion, to : Urls]],
         broken' \in BOOLEAN, clock' \in 0..1,
         Idle' => Saved(disk', jar', clock'),
         ~MayMove => CallsRight' /\ PagesRight(docs', pages')
  PROVE  ClearnetInv'
<1>1. Web!TypeOK'
  BY DEF Web!TypeOK, Credential, PagesFit, PageEntry, JarOk
<1> QED
  BY <1>1 DEF ClearnetInv

\* One call changes: to none, or to a request that carries what belongs to it.
LEMMA CallChanges ==
  ASSUME ClearnetInv, NEW c \in Loads, NEW r \in {None} \cup Web!Call,
         calls' = [calls EXCEPT ![c] = r], r # None => Web!BelongTo(r),
         docs' = docs, ~MayMove /\ r # None => CallRight(docs, r)
  PROVE  /\ calls' \in [Loads -> {None} \cup Web!Call] /\ Web!HeadersBelong
         /\ ~MayMove => CallsRight'
         /\ calls'[c] = r /\ \A b \in Loads \ {c} : calls'[b] = calls[b]
<1>1. calls \in [Loads -> {None} \cup Web!Call]
  BY ClearnetFacts
<1>2. calls'[c] = r /\ \A b \in Loads \ {c} : calls'[b] = calls[b]
  BY <1>1
<1>3. calls' \in [Loads -> {None} \cup Web!Call]
  BY <1>1
<1>4. Web!HeadersBelong
  BY <1>2 DEF Web!HeadersBelong
<1>5. ASSUME ~MayMove PROVE CallsRight'
  <2>1. CallsRight
    BY <1>5 DEF ClearnetInv
  <2>2. ASSUME NEW b \in Loads, calls'[b] # None PROVE CallRight(docs, calls'[b])
    BY <1>2, <1>5, <2>1, <2>2 DEF CallsRight
  <2> QED BY <2>2 DEF CallsRight
<1> QED
  BY <1>2, <1>3, <1>4, <1>5

\* A step after which no page is shown, or whose calls only begin, shows nothing old.
LEMMA ShowsNothing == shown' = None => Web!ShownIsCurrent
  BY DEF Web!ShownIsCurrent

LEMMA JarsKeep ==
  ASSUME ClearnetInv, NEW c \in Loads, calls[c] # None, NEW list \in Web!JarsAfter(c)
  PROVE  JarOk(list)
<1>1. calls[c] \in Web!Call /\ calls[c].at \in Urls
  BY ClearnetFacts DEF Web!Call
<1>2. list \in {jar} \cup {Web!SetFromHeader(jar, calls[c].at, o) : o \in Offers}
  BY DEF Web!JarsAfter
<1>3. ASSUME NEW o \in Offers PROVE JarOk(Web!SetFromHeader(jar, calls[c].at, o))
  BY <1>1, ClearnetFacts, SetKeeps
<1> QED
  BY <1>2, <1>3, ClearnetFacts

\* Purging what was purged changes nothing.
LEMMA SavedAgain ==
  ASSUME NEW list, JarOk(list)
  PROVE  Saved(Web!Purge(list), list, clock)
<1> DEFINE A == Alive(clock)
<1>1. list \in Seq(Web!Cookie) /\ Web!Purge(list) = Kept(list, A)
  BY PurgeOk DEF JarOk
<1> HIDE DEF A
<1>2. Kept(Kept(list, A), A) = Kept(list, A \cap A) /\ A \cap A = A
  BY <1>1, KeptTwice
<1> QED
  BY <1>1, <1>2 DEF Saved, A

\* The end of a call, with the jar it leaves.
LEMMA EndsKeeps ==
  ASSUME ClearnetInv, NEW c \in Loads, NEW list, JarOk(list), Web!Ends(c, list),
         docs' = docs, clock' = clock
  PROVE  /\ calls' \in [Loads -> {None} \cup Web!Call] /\ Web!HeadersBelong
         /\ ~MayMove => CallsRight'
         /\ calls'[c] = None /\ \A b \in Loads \ {c} : calls'[b] = calls[b]
         /\ JarOk(jar') /\ JarOk(disk') /\ Saved(disk', jar', clock')
<1>1. calls' = [calls EXCEPT ![c] = None] /\ jar' = list /\ disk' = Web!Purge(list)
  BY DEF Web!Ends, Web!SaveJar
<1>2. JarOk(disk') /\ Saved(disk', jar', clock')
  BY <1>1, PurgeOk, SavedAgain
<1> QED
  BY <1>1, <1>2, CallChanges

-----------------------------------------------------------------------------
\* The steps of the clearnet.
LEMMA LoadKeeps ==
  ASSUME ClearnetInv, NEW c \in Loads, NEW u \in Urls, NEW force \in BOOLEAN,
         Web!Load(c, u, force)
  PROVE  ClearnetInv' /\ Promise
<1>1. /\ calls[c] = None /\ jar' = jar /\ disk' = disk /\ creds' = creds /\ broken' = broken
      /\ docs' = docs /\ clock' = clock
  BY DEF Web!Load
<1>2. /\ PagesFit(pages) /\ Web!PageOf(u) \in {None} \cup Web!Page
      /\ PagesRight(docs, pages) /\ Web!PageOf(u) # None => PageRight(docs, u, Web!PageOf(u))
  BY ClearnetFacts, PageOfFits
<1>3. PagesFit(pages') /\ (~MayMove => PagesRight(docs', pages'))
  <2>0. pages' = IF Web!PageOf(u) = None THEN pages ELSE Web!Recent(u, Web!PageOf(u))
    BY DEF Web!Load, Web!LookUp
  <2>1. CASE Web!PageOf(u) = None
    BY <1>1, <1>2, <2>0, <2>1 DEF ClearnetInv
  <2>2. CASE Web!PageOf(u) # None
    <3>1. Web!PageOf(u) \in Web!Page
      BY <1>2, <2>2
    <3> QED BY <1>1, <1>2, <2>0, <2>2, <3>1, RecentFits DEF ClearnetInv
  <2> QED BY <2>1, <2>2
<1>4. CASE Web!PageOf(u) # None /\ ~force
  <2>1. shown' = Web!PageOf(u) /\ calls' = calls
    BY <1>4 DEF Web!Load
  <2>2. Promise
    BY <2>1 DEF Promise, Web!HeadersBelong, Web!ShownIsCurrent
  <2>3. ~MayMove => CallsRight'
    BY <1>1, <2>1 DEF ClearnetInv, CallsRight
  <2>4. Idle' => Saved(disk', jar', clock')
    BY <1>1, <2>1 DEF ClearnetInv, Idle
  <2> QED
    BY <1>1, <1>2, <1>3, <2>1, <2>2, <2>3, <2>4, ClearnetFacts, ClearnetNext
<1>5. CASE ~(Web!PageOf(u) # None /\ ~force)
  <2> DEFINE fresh0 == [first |-> u, at |-> u, hops |-> 0, cond |-> Web!Conditional(u),
                        cookies |-> {}, word |-> None]
             r == Web!Request(fresh0, u, jar)
  <2>1. calls' = [calls EXCEPT ![c] = r] /\ shown' = None
    BY <1>5 DEF Web!Load
  <2>2. Web!Conditional(u) \in {None} \cup Web!Page
    BY <1>2 DEF Web!Conditional
  <2>3. fresh0 \in Web!Call
    BY <2>2, WebConstants DEF Web!Call
  <2>4. /\ r \in Web!Call /\ r # None /\ Web!BelongTo(r)
        /\ r.first = u /\ r.at = u /\ r.cond = Web!Conditional(u)
    <3>1. fresh0.first = u /\ fresh0.cond = Web!Conditional(u)
      OBVIOUS
    <3> HIDE DEF fresh0
    <3> QED BY <2>3, <3>1, ClearnetFacts, RequestFits
  <2> HIDE DEF r
  <2>5. ~MayMove => CallRight(docs, r)
    BY <1>2, <2>4, LeadsNowhere DEF ClearnetInv, CallRight, Web!Conditional
  <2>6. /\ calls' \in [Loads -> {None} \cup Web!Call] /\ Web!HeadersBelong
        /\ ~MayMove => CallsRight'
        /\ calls'[c] = r
    BY <1>1, <2>1, <2>4, <2>5, CallChanges
  <2>7. ~Idle'
    BY <2>4, <2>6 DEF Idle
  <2> QED
    BY <1>1, <1>3, <2>1, <2>6, <2>7, ClearnetFacts, ClearnetNext, ShowsNothing DEF Promise
<1> QED
  BY <1>4, <1>5

LEMMA RedirectedKeeps ==
  ASSUME ClearnetInv, NEW c \in Loads, NEW list \in Web!JarsAfter(c), Web!Redirected(c, list)
  PROVE  ClearnetInv' /\ Promise
<1>1. /\ calls[c] # None /\ shown' = None /\ creds' = creds /\ pages' = pages
      /\ broken' = broken /\ docs' = docs /\ clock' = clock
  BY DEF Web!Redirected
<1>2. JarOk(list)
  BY <1>1, JarsKeep
<1>3. PagesFit(pages') /\ (~MayMove => PagesRight(docs', pages'))
  BY <1>1, ClearnetFacts DEF ClearnetInv
<1>4. CASE Web!Ends(c, list)
  <2>1. /\ calls' \in [Loads -> {None} \cup Web!Call] /\ Web!HeadersBelong
        /\ ~MayMove => CallsRight'
        /\ JarOk(jar') /\ JarOk(disk') /\ Saved(disk', jar', clock')
    BY <1>1, <1>2, <1>4, EndsKeeps
  <2> QED
    BY <1>1, <1>3, <2>1, ClearnetFacts, ClearnetNext, ShowsNothing DEF Promise
<1>5. CASE /\ ~(calls[c].hops >= MaxRedirects)
           /\ calls' = [calls EXCEPT ![c] = Web!NextHop(calls[c], docs[calls[c].at].to, list)]
           /\ jar' = list /\ UNCHANGED disk
  <2> DEFINE call == calls[c]
             to == docs[call.at].to
             further == [call EXCEPT !.hops = call.hops + 1]
             r == Web!Request(further, to, list)
  <2>1. call \in Web!Call /\ call.at \in Urls /\ call.first \in Urls /\ call.hops \in 0..MaxRedirects
    BY <1>1, ClearnetFacts DEF Web!Call
  <2>2. docs[call.at] \in [ver : 0..MaxVersion, to : Urls]
    BY <2>1, ClearnetFacts
  <2>3. to \in Urls
    BY <2>2
  <2>4. further \in Web!Call /\ further.first = call.first /\ further.cond = call.cond
    <3>1. call.hops + 1 \in 0..MaxRedirects
      BY <1>5, <2>1, WebConstants
    <3> QED BY <2>1, <3>1 DEF Web!Call
  <2>5. calls' = [calls EXCEPT ![c] = r]
    BY <1>5 DEF Web!NextHop
  <2>6. /\ r \in Web!Call /\ r # None /\ Web!BelongTo(r)
        /\ r.first = call.first /\ r.at = to /\ r.cond = call.cond
    <3> HIDE DEF further, call, to
    <3> QED BY <1>2, <2>3, <2>4, ClearnetFacts, RequestFits
  <2>7. ~MayMove => CallRight(docs, r)
    <3>1. ASSUME ~MayMove PROVE Leads(docs, call.first, call.at)
                                /\ (call.cond # None => PageRight(docs, call.first, call.cond))
      BY <1>1, <3>1 DEF ClearnetInv, CallsRight, CallRight
    <3> HIDE DEF r, call
    <3>2. ASSUME ~MayMove PROVE Leads(docs, call.first, to)
      BY <2>1, <2>3, <3>1, <3>2, LeadsOn
    <3> QED BY <2>6, <3>1, <3>2 DEF CallRight
  <2> HIDE DEF r
  <2>8. /\ calls' \in [Loads -> {None} \cup Web!Call] /\ Web!HeadersBelong
        /\ ~MayMove => CallsRight'
        /\ calls'[c] = r
    BY <1>1, <2>5, <2>6, <2>7, CallChanges
  <2>9. ~Idle'
    BY <2>6, <2>8 DEF Idle
  <2> QED
    BY <1>1, <1>2, <1>3, <1>5, <2>8, <2>9, ClearnetFacts, ClearnetNext, ShowsNothing DEF Promise
<1> QED
  BY <1>4, <1>5 DEF Web!Redirected

\* A call that ends and shows no page.
LEMMA SilentEnd ==
  ASSUME ClearnetInv, NEW c \in Loads, NEW list, JarOk(list), Web!Ends(c, list),
         shown' = None, creds' = creds, pages' = pages, broken' = broken, docs' = docs,
         clock' = clock
  PROVE  ClearnetInv' /\ Promise
<1>1. /\ calls' \in [Loads -> {None} \cup Web!Call] /\ Web!HeadersBelong
      /\ ~MayMove => CallsRight'
      /\ JarOk(jar') /\ JarOk(disk') /\ Saved(disk', jar', clock')
  BY EndsKeeps
<1>2. PagesFit(pages') /\ (~MayMove => PagesRight(docs', pages'))
  BY ClearnetFacts DEF ClearnetInv
<1> QED
  BY <1>1, <1>2, ClearnetFacts, ClearnetNext, ShowsNothing DEF Promise

LEMMA NotModifiedKeeps ==
  ASSUME ClearnetInv, NEW c \in Loads, NEW list \in Web!JarsAfter(c), Web!NotModified(c, list)
  PROVE  ClearnetInv' /\ Promise
<1>1. /\ calls[c] # None /\ docs[calls[c].at].to = calls[c].at
      /\ calls[c].cond # None /\ calls[c].cond.tag = docs[calls[c].at].ver
      /\ shown' = calls[c].cond /\ Web!Ends(c, list)
      /\ creds' = creds /\ pages' = pages /\ broken' = broken /\ docs' = docs /\ clock' = clock
  BY DEF Web!NotModified, Web!Served, Web!Redirects, Web!Unmodified, Web!Tag
<1>2. JarOk(list)
  BY <1>1, JarsKeep
<1>3. calls[c] \in Web!Call /\ calls[c].cond \in Web!Page
  BY <1>1, ClearnetFacts DEF Web!Call
<1>4. /\ calls' \in [Loads -> {None} \cup Web!Call] /\ Web!HeadersBelong
      /\ ~MayMove => CallsRight'
      /\ calls'[c] = None /\ \A b \in Loads \ {c} : calls'[b] = calls[b]
      /\ JarOk(jar') /\ JarOk(disk') /\ Saved(disk', jar', clock')
  BY <1>1, <1>2, EndsKeeps
<1>5. ASSUME ~MayMove PROVE Web!ShownIsCurrent
  <2>1. CallRight(docs, calls[c])
    BY <1>1, <1>5 DEF ClearnetInv, CallsRight
  <2>2. calls[c].cond.at = calls[c].at /\ calls[c].cond.tag = calls[c].cond.ver
    BY <1>1, <2>1, LeadsToOne DEF CallRight, PageRight
  <2>3. shown'.at = calls[c].at /\ shown'.ver = docs[calls[c].at].ver
    BY <1>1, <2>2
  <2> QED BY <1>4, <2>3 DEF Web!ShownIsCurrent
<1>6. PagesFit(pages') /\ (~MayMove => PagesRight(docs', pages'))
  BY <1>1, ClearnetFacts DEF ClearnetInv
<1> QED
  BY <1>1, <1>3, <1>4, <1>5, <1>6, ClearnetFacts, ClearnetNext DEF Promise

LEMMA UnrepresentableKeeps ==
  ASSUME ClearnetInv, NEW c \in Loads, NEW list \in Web!JarsAfter(c),
         Web!Unrepresentable(c, list)
  PROVE  ClearnetInv' /\ Promise
<1> DEFINE call == calls[c]
           again == [call EXCEPT !.hops = 0, !.cond = None]
           r == Web!Request(again, call.first, list)
<1>1. /\ calls[c] # None /\ list = jar /\ broken' = TRUE /\ disk' = Web!Purge(list)
      /\ calls' = [calls EXCEPT ![c] = r] /\ shown' = None
      /\ jar' = jar /\ creds' = creds /\ pages' = pages /\ docs' = docs /\ clock' = clock
  BY DEF Web!Unrepresentable, Web!Served, Web!SaveJar
<1>2. JarOk(jar) /\ JarOk(disk')
  BY <1>1, ClearnetFacts, PurgeOk
<1>3. call \in Web!Call /\ call.first \in Urls
  BY <1>1, ClearnetFacts DEF Web!Call
<1>4. again \in Web!Call /\ again.first = call.first /\ again.cond = None
  <2>1. 0 \in 0..MaxRedirects /\ None \in {None} \cup Web!Page
    BY WebConstants
  <2> HIDE DEF call
  <2> QED BY <1>3, <2>1 DEF Web!Call
<1>5. /\ r \in Web!Call /\ r # None /\ Web!BelongTo(r)
      /\ r.first = call.first /\ r.at = call.first /\ r.cond = None
  <2> HIDE DEF again, call
  <2> QED BY <1>1, <1>2, <1>3, <1>4, ClearnetFacts, RequestFits
<1>6. CallRight(docs, r)
  <2> HIDE DEF r, call
  <2> QED BY <1>3, <1>5, LeadsNowhere DEF CallRight
<1> HIDE DEF r
<1>7. /\ calls' \in [Loads -> {None} \cup Web!Call] /\ Web!HeadersBelong
      /\ ~MayMove => CallsRight'
      /\ calls'[c] = r
  BY <1>1, <1>5, <1>6, CallChanges
<1>8. ~Idle'
  BY <1>5, <1>7 DEF Idle
<1>9. PagesFit(pages') /\ (~MayMove => PagesRight(docs', pages'))
  BY <1>1, ClearnetFacts DEF ClearnetInv
<1> QED
  BY <1>1, <1>2, <1>7, <1>8, <1>9, ClearnetFacts, ClearnetNext, ShowsNothing DEF Promise

LEMMA ArrivesKeeps ==
  ASSUME ClearnetInv, NEW c \in Loads, NEW list \in Web!JarsAfter(c), Web!Arrives(c, list)
  PROVE  ClearnetInv' /\ Promise
<1> DEFINE call == calls[c]
           page == [at |-> call.at, ver |-> docs[call.at].ver, tag |-> docs[call.at].ver]
<1>1. /\ call # None /\ docs[call.at].to = call.at /\ shown' = page /\ Web!Ends(c, list)
      /\ pages' = Web!Recent(call.first, page)
      /\ creds' = creds /\ broken' = broken /\ docs' = docs /\ clock' = clock
  BY DEF Web!Arrives, Web!Served, Web!Redirects, Web!Keep, Web!Tag
<1>2. JarOk(list)
  BY <1>1, JarsKeep
<1>3. call \in Web!Call /\ call.first \in Urls /\ call.at \in Urls
  BY <1>1, ClearnetFacts DEF Web!Call
<1>4. docs[call.at] \in [ver : 0..MaxVersion, to : Urls]
  BY <1>3, ClearnetFacts
<1>5. page \in Web!Page /\ page.at = call.at /\ page.ver = docs[call.at].ver /\ page.tag = page.ver
  BY <1>3, <1>4 DEF Web!Page
<1>6. /\ calls' \in [Loads -> {None} \cup Web!Call] /\ Web!HeadersBelong
      /\ ~MayMove => CallsRight'
      /\ calls'[c] = None /\ \A b \in Loads \ {c} : calls'[b] = calls[b]
      /\ JarOk(jar') /\ JarOk(disk') /\ Saved(disk', jar', clock')
  BY <1>1, <1>2, EndsKeeps
<1>7. Web!ShownIsCurrent
  BY <1>1, <1>5, <1>6 DEF Web!ShownIsCurrent
<1> HIDE DEF page
<1>8. ~MayMove => PageRight(docs, call.first, page)
  BY <1>1, <1>5 DEF ClearnetInv, CallsRight, CallRight, PageRight
<1> HIDE DEF call
<1>9. PagesFit(pages') /\ (~MayMove => PagesRight(docs', pages'))
  <2>1. PagesFit(pages) /\ (~MayMove => PagesRight(docs, pages))
    BY ClearnetFacts DEF ClearnetInv
  <2>2. /\ PagesFit(Web!Recent(call.first, page))
        /\ PagesRight(docs, pages) /\ PageRight(docs, call.first, page)
             => PagesRight(docs, Web!Recent(call.first, page))
    BY <1>3, <1>5, <2>1, RecentFits
  <2> QED BY <1>1, <1>8, <2>1, <2>2
<1> QED
  BY <1>1, <1>5, <1>6, <1>7, <1>9, ClearnetFacts, ClearnetNext DEF Promise

\* The other steps begin or change no call.
LEMMA NoCall ==
  ASSUME calls' = calls, shown' = None
  PROVE  Promise
  BY ShowsNothing DEF Promise, Web!HeadersBelong

LEMMA SignInKeeps ==
  ASSUME ClearnetInv, NEW u \in Urls, NEW word \in {"good"}, Web!SignIn(u, word)
  PROVE  ClearnetInv' /\ Promise
<1>1. /\ Web!SetCredential(u, None, word) /\ shown' = None /\ jar' = jar /\ disk' = disk
      /\ pages' = pages /\ broken' = broken /\ calls' = calls /\ docs' = docs /\ clock' = clock
  BY DEF Web!SignIn
<1>2. creds' \in Seq(Credential)
  BY <1>1, ClearnetFacts, SignInFits
<1>3. /\ Idle' => Saved(disk', jar', clock')
      /\ ~MayMove => CallsRight' /\ PagesRight(docs', pages')
  BY <1>1 DEF ClearnetInv, Idle, CallsRight
<1>4. PagesFit(pages')
  BY <1>1, ClearnetFacts
<1> QED
  BY <1>1, <1>2, <1>3, <1>4, ClearnetFacts, ClearnetNext, NoCall

LEMMA ChangesKeeps ==
  ASSUME ClearnetInv, NEW u \in Urls, Web!Changes(u)
  PROVE  ClearnetInv' /\ Promise
<1>1. /\ shown' = None /\ jar' = jar /\ disk' = disk /\ creds' = creds
      /\ pages' = pages /\ broken' = broken /\ calls' = calls /\ clock' = clock
      /\ docs[u].ver < MaxVersion
  BY DEF Web!Changes
<1>2. PICK to \in IF MayMove THEN Moves[u] ELSE {docs[u].to} :
        docs' = [docs EXCEPT ![u] = [ver |-> docs[u].ver + 1, to |-> to]]
  BY DEF Web!Changes
<1>3. /\ docs \in [Urls -> [ver : 0..MaxVersion, to : Urls]]
      /\ docs[u] \in [ver : 0..MaxVersion, to : Urls]
  BY ClearnetFacts
<1>4. to \in Urls
  <2>1. Moves[u] \in SUBSET Urls
    BY MixnetAssumption DEF Web!ClearnetAssumption
  <2> QED BY <1>2, <1>3, <2>1
<1>5. docs' \in [Urls -> [ver : 0..MaxVersion, to : Urls]]
  <2>1. docs[u].ver + 1 \in 0..MaxVersion
    BY <1>1, <1>3, WebConstants
  <2> QED BY <1>2, <1>3, <1>4, <2>1
<1>6. ASSUME ~MayMove PROVE CallsRight' /\ PagesRight(docs', pages')
  <2>1. \A v \in Urls : docs[v].to = docs'[v].to
    BY <1>2, <1>3, <1>6
  <2>2. \A v, w : Leads(docs, v, w) => Leads(docs', v, w)
    <3> DEFINE new == docs'
    <3>1. \A v \in Urls : docs[v].to = new[v].to
      BY <2>1
    <3> HIDE DEF new
    <3>2. \A v, w : Leads(docs, v, w) => Leads(new, v, w)
      BY <3>1, LeadsSame
    <3> QED BY <3>2 DEF new
  <2>3. ASSUME NEW v, NEW page \in Web!Page, PageRight(docs, v, page)
        PROVE  PageRight(docs', v, page)
    <3>1. page.at \in Urls
      BY DEF Web!Page
    <3> QED BY <2>1, <2>2, <2>3, <3>1 DEF PageRight
  <2>4. ASSUME NEW b \in Loads, calls[b] # None PROVE CallRight(docs', calls[b])
    <3>1. calls[b] \in Web!Call /\ calls[b].cond \in {None} \cup Web!Page
      BY <2>4, ClearnetFacts DEF Web!Call
    <3>2. CallRight(docs, calls[b])
      BY <1>6, <2>4 DEF ClearnetInv, CallsRight
    <3> QED BY <2>2, <2>3, <3>1, <3>2 DEF CallRight
  <2>5. ASSUME NEW i \in 1..Len(pages)
        PROVE  PageRight(docs', pages[i].url, pages[i].page)
    <3>1. pages[i] \in PageEntry
      BY ClearnetFacts, ElementOfSeq DEF PagesFit
    <3>2. pages[i].page \in Web!Page
      BY <3>1 DEF PageEntry
    <3> QED BY <1>6, <2>3, <3>2 DEF ClearnetInv, PagesRight
  <2> QED BY <1>1, <2>4, <2>5 DEF CallsRight, PagesRight
<1>7. /\ Idle' => Saved(disk', jar', clock')
      /\ PagesFit(pages')
  BY <1>1, ClearnetFacts DEF ClearnetInv, Idle
<1> QED
  BY <1>1, <1>5, <1>6, <1>7, ClearnetFacts, ClearnetNext, NoCall

LEMMA TickKeeps ==
  ASSUME ClearnetInv, Web!Tick
  PROVE  ClearnetInv' /\ Promise
<1>1. /\ clock < 1 /\ clock' = clock + 1 /\ shown' = None /\ jar' = jar /\ disk' = disk
      /\ creds' = creds /\ pages' = pages /\ broken' = broken /\ calls' = calls /\ docs' = docs
  BY DEF Web!Tick
<1>2. clock' \in 0..1 /\ clock \in Nat
  BY <1>1, ClearnetFacts
<1>3. ASSUME Idle' PROVE Saved(disk', jar', clock')
  <2> DEFINE A == Alive(clock)
             B == Alive(clock')
  <2>1. A \cap B = B
    <3>1. \A c \in Web!Cookie : c.until = Session \/ c.until \in Nat
      BY DEF Web!Cookie
    <3>2. ASSUME NEW c \in B PROVE c \in A
      BY <1>1, <1>2, <3>1, <3>2 DEF Alive
    <3> QED BY <3>2
  <2>2. Kept(disk, A) = Kept(jar, A)
    BY <1>1, <1>3 DEF ClearnetInv, Idle, Saved
  <2>3. jar \in Seq(Web!Cookie) /\ disk \in Seq(Web!Cookie)
    BY ClearnetFacts DEF JarOk
  <2> HIDE DEF A, B
  <2>4. /\ Kept(Kept(disk, A), B) = Kept(disk, A \cap B)
        /\ Kept(Kept(jar, A), B) = Kept(jar, A \cap B)
    BY <2>3, KeptTwice
  <2>5. Kept(disk, B) = Kept(jar, B)
    BY <2>1, <2>2, <2>4
  <2> QED BY <1>1, <2>5 DEF Saved, B
<1>4. /\ ~MayMove => CallsRight' /\ PagesRight(docs', pages')
      /\ PagesFit(pages')
  BY <1>1, ClearnetFacts DEF ClearnetInv, CallsRight
<1> QED
  BY <1>1, <1>2, <1>3, <1>4, ClearnetFacts, ClearnetNext, NoCall

LEMMA RestartKeeps ==
  ASSUME ClearnetInv, Web!Restart
  PROVE  ClearnetInv' /\ Promise
<1>1. /\ jar' = Web!Purge(Web!Newest(disk)) /\ disk' = disk /\ creds' = <<>>
      /\ broken' = FALSE /\ pages' = <<>> /\ calls' = [c \in Loads |-> None] /\ shown' = None
      /\ docs' = docs /\ clock' = clock
  BY DEF Web!Restart
<1>2. Web!Newest(disk) = disk
  <2>1. Len(disk) <= MaxCookies /\ Len(disk) \in Nat
    BY ClearnetFacts DEF JarOk
  <2> QED BY <2>1, WebConstants DEF Web!Newest
<1>3. JarOk(disk) /\ JarOk(jar') /\ Saved(disk', jar', clock')
  <2>1. JarOk(disk) /\ JarOk(Web!Purge(disk)) /\ Saved(Web!Purge(disk), disk, clock)
    BY ClearnetFacts, PurgeOk, SavedAgain
  <2> QED BY <1>1, <1>2, <2>1 DEF Saved
<1>4. PagesFit(pages') /\ PagesRight(docs', pages') /\ CallsRight' /\ creds' \in Seq(Credential)
      /\ calls' \in [Loads -> {None} \cup Web!Call]
  BY <1>1, WebConstants DEF PagesFit, PagesRight, CallsRight
<1>5. Promise
  BY <1>1, ShowsNothing DEF Promise, Web!HeadersBelong
<1> QED
  BY <1>1, <1>3, <1>4, <1>5, ClearnetFacts, ClearnetNext

LEMMA ClearnetStep == ClearnetInv /\ Web!Next => ClearnetInv' /\ Promise
<1> SUFFICES ASSUME ClearnetInv, Web!Next PROVE ClearnetInv' /\ Promise
  OBVIOUS
<1>1. ASSUME NEW c \in Loads, NEW u \in Urls,
             \E force \in IF Web!PageOf(u) = None THEN {FALSE} ELSE BOOLEAN : Web!Load(c, u, force)
      PROVE  ClearnetInv' /\ Promise
  <2>1. PICK force \in BOOLEAN : Web!Load(c, u, force)
    BY <1>1
  <2> QED BY <2>1, LoadKeeps
<1>2. ASSUME NEW c \in Loads, NEW list \in Web!JarsAfter(c), Web!AsksAuth(c, list)
      PROVE  ClearnetInv' /\ Promise
  <2>1. calls[c] # None /\ Web!Ends(c, list) /\ shown' = None /\ creds' = creds
        /\ pages' = pages /\ broken' = broken /\ docs' = docs /\ clock' = clock
    BY <1>2 DEF Web!AsksAuth
  <2> QED BY <2>1, JarsKeep, SilentEnd
<1>3. ASSUME NEW c \in Loads, Web!Fails(c) PROVE ClearnetInv' /\ Promise
  <2>1. calls[c] # None /\ Web!Ends(c, jar) /\ shown' = None /\ creds' = creds
        /\ pages' = pages /\ broken' = broken /\ docs' = docs /\ clock' = clock
    BY <1>3 DEF Web!Fails
  <2> QED BY <2>1, ClearnetFacts, SilentEnd
<1> QED
  BY <1>1, <1>2, <1>3, RedirectedKeeps, NotModifiedKeeps, UnrepresentableKeeps, ArrivesKeeps,
     SignInKeeps, ChangesKeeps, TickKeeps, RestartKeeps DEF Web!Next

LEMMA ClearnetInit == Web!Init => ClearnetInv
<1> SUFFICES ASSUME Web!Init PROVE ClearnetInv
  OBVIOUS
<1> DEFINE empty == << >>
<1>1. /\ jar = empty /\ disk = empty /\ creds = empty /\ pages = empty /\ broken = FALSE
      /\ calls = [c \in Loads |-> None] /\ shown = None /\ clock = 0
      /\ docs \in [Urls -> [ver : {0}, to : Urls]]
  BY DEF Web!Init
<1>2. docs \in [Urls -> [ver : 0..MaxVersion, to : Urls]]
  BY <1>1, WebConstants
<1>3. JarOk(empty)
  BY WebConstants DEF JarOk, Apart
<1>4. PagesFit(pages) /\ PagesRight(docs, pages) /\ CallsRight /\ Saved(disk, jar, clock)
  BY <1>1, WebConstants DEF PagesFit, PagesRight, CallsRight, Saved
<1>5. Web!TypeOK
  <2>1. (\A T : empty \in Seq(T)) /\ Len(empty) = 0
    OBVIOUS
  <2>2. 0 <= MaxCookies /\ 0 <= MaxPages
    BY WebConstants
  <2>3. calls \in [Loads -> {None} \cup Web!Call] /\ shown \in {None} \cup Web!Page
    BY <1>1
  <2>4. broken \in BOOLEAN
    BY <1>1, Zenon
  <2>5. clock \in 0..1
    BY <1>1
  <2> HIDE DEF empty
  <2> QED BY <1>1, <1>2, <2>1, <2>2, <2>3, <2>4, <2>5 DEF Web!TypeOK
<1> QED
  BY <1>1, <1>3, <1>4, <1>5 DEF ClearnetInv

LEMMA ClearnetSame == ClearnetInv /\ UNCHANGED webVars => ClearnetInv'
<1> SUFFICES ASSUME ClearnetInv, UNCHANGED webVars PROVE ClearnetInv'
  OBVIOUS
<1> USE DEF webVars
<1>1. /\ Idle' => Saved(disk', jar', clock')
      /\ ~MayMove => CallsRight' /\ PagesRight(docs', pages')
      /\ PagesFit(pages')
  BY ClearnetFacts DEF ClearnetInv, Idle, CallsRight
<1> QED
  BY <1>1, ClearnetFacts, ClearnetNext

LEMMA ClearnetSound == ClearnetInv => Web!JarSaved
<1> SUFFICES ASSUME ClearnetInv, Idle PROVE Web!Purge(disk) = Web!Purge(jar)
  BY DEF Web!JarSaved, Idle
<1>1. jar \in Seq(Web!Cookie) /\ disk \in Seq(Web!Cookie)
  BY ClearnetFacts DEF JarOk
<1> QED
  BY <1>1, PurgeAlive DEF ClearnetInv, Saved

-----------------------------------------------------------------------------
(* The components together.                                                *)
MixnetInv ==
  /\ focus = "tunnel" => Mix!FoundInv
  /\ focus = "tracker" => TrackerInv
  /\ focus = "clearnet" => ClearnetInv

LEMMA MixnetStart == MixnetInit => MixnetInv
<1> SUFFICES ASSUME MixnetInit PROVE MixnetInv
  OBVIOUS
<1>1. focus = "tunnel" => Mix!Init
  BY DEF MixnetInit
<1>2. focus = "tracker" => Tracker!Init
  BY DEF MixnetInit
<1>3. focus = "clearnet" => Web!Init
  BY DEF MixnetInit
<1> QED
  BY <1>1, <1>2, <1>3, TunnelInit, TrackerInit, ClearnetInit DEF MixnetInv

\* What a step is to the component in focus.
LEMMA MixnetFocus ==
  ASSUME [MixnetNext]_mixnetVars
  PROVE  /\ focus' = focus
         /\ focus = "tunnel" => [Mix!Next]_tunnelVars
         /\ focus = "tracker" => [Tracker!Next]_<<entries, now, due>>
         /\ focus = "clearnet" => Web!Next \/ UNCHANGED mixnetVars
<1>1. CASE UNCHANGED mixnetVars
  BY <1>1 DEF mixnetVars, sphinxVars, pool, trackerVars
<1>2. CASE MixnetNext
  <2>1. focus' = focus
    BY <1>2 DEF MixnetNext
  <2>2. CASE focus = "tunnel"
    BY <1>2, <2>1, <2>2 DEF MixnetNext
  <2>3. CASE focus = "tracker"
    BY <1>2, <2>1, <2>3 DEF MixnetNext
  <2>4. CASE focus = "clearnet"
    BY <1>2, <2>1, <2>4 DEF MixnetNext
  <2>5. CASE focus \notin {"tunnel", "tracker", "clearnet"}
    BY <2>1, <2>5
  <2> QED BY <2>1, <2>2, <2>3, <2>4, <2>5
<1> QED
  BY <1>1, <1>2

LEMMA MixnetStep == MixnetInv /\ [MixnetNext]_mixnetVars => MixnetInv'
<1> SUFFICES ASSUME MixnetInv, [MixnetNext]_mixnetVars PROVE MixnetInv'
  OBVIOUS
<1>1. /\ focus' = focus
      /\ focus = "tunnel" => [Mix!Next]_tunnelVars
      /\ focus = "tracker" => [Tracker!Next]_<<entries, now, due>>
      /\ focus = "clearnet" => Web!Next \/ UNCHANGED mixnetVars
  BY MixnetFocus
<1>2. UNCHANGED mixnetVars => UNCHANGED webVars
  BY DEF mixnetVars
<1>3. focus = "tunnel" => Mix!FoundInv'
  BY <1>1, TunnelStep DEF MixnetInv
<1>4. focus = "tracker" => TrackerInv'
  BY <1>1, TrackerStep DEF MixnetInv
<1>5. focus = "clearnet" => ClearnetInv'
  BY <1>1, <1>2, ClearnetStep, ClearnetSame DEF MixnetInv
<1> QED
  BY <1>1, <1>3, <1>4, <1>5 DEF MixnetInv

(* Unless an overtaken setup rejected late, the tunnel that runs is the one *)
(* that later loads await, and none awaits a setup that failed or was       *)
(* disconnected (tunnel.ts, fetch.ts, the shell's Connect, Disconnect and   *)
(* Reconnect), for any number of loads and setups.                          *)
THEOREM TunnelAlwaysFound == MixnetSpec => []TunnelFound
<1>1. MixnetInv => TunnelFound
  BY TunnelFinds DEF MixnetInv, TunnelFound
<1> QED BY MixnetStart, MixnetStep, <1>1, PTL DEF MixnetSpec

(* A reply that was accepted is not accepted again within its window,       *)
(* however the clock is set, unless as many others came as the tracker has  *)
(* room for (ReplyTracker of enforcement.mjs).                              *)
THEOREM RepliesNotReplayed == MixnetSpec => []NoReplay
<1>1. MixnetInv => NoReplay
  BY TrackerSound DEF MixnetInv, NoReplay
<1> QED BY MixnetStart, MixnetStep, <1>1, PTL DEF MixnetSpec

(* While no request is under way, local storage has the cookies of the jar, *)
(* also those a hop set before a later one failed (clearnet.ts, cookies.ts).*)
THEOREM CookiesSaved == MixnetSpec => []JarSaved
<1>1. MixnetInv => JarSaved
  BY ClearnetSound DEF MixnetInv, JarSaved
<1> QED BY MixnetStart, MixnetStep, <1>1, PTL DEF MixnetSpec

(* Every request carries the cookies and the password of its own url, and   *)
(* a load shows the page the servers have, as long as no server changes     *)
(* where it redirects to (clearnetFetch of clearnet.ts, loadInto).          *)
THEOREM LoadsStayRight == ASSUME ~MayMove PROVE MixnetSpec => LoadsBelong
<1>1. ASSUME MixnetInv, [MixnetNext]_mixnetVars
      PROVE  [focus = "clearnet" => Web!HeadersBelong /\ Web!ShownIsCurrent]_mixnetVars
  <2>1. focus = "clearnet" => Web!Next \/ UNCHANGED mixnetVars
    BY <1>1, MixnetFocus
  <2>2. focus = "clearnet" /\ Web!Next => Web!HeadersBelong /\ Web!ShownIsCurrent
    BY <1>1, ClearnetStep DEF MixnetInv, Promise
  <2> QED BY <2>1, <2>2
<1> QED BY MixnetStart, MixnetStep, <1>1, PTL DEF MixnetSpec, LoadsBelong
=============================================================================
