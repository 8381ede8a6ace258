------------------------------- MODULE Tunnel -------------------------------
(***************************************************************************)
(* The one mixnet tunnel of a page (web/src/mixnet/tunnel.ts): the memoised *)
(* setup that every clearnet fetch awaits (mixnet/fetch.ts), and the        *)
(* Connect, Disconnect and Reconnect of adapters/driving/shell/App.tsx,     *)
(* whose buttons the busy flag disables - a flag they share with the page   *)
(* loads.                                                                   *)
(*                                                                          *)
(* The library (@nymproject/mix-fetch) runs one tunnel in a worker and      *)
(* refuses to set up a second; what becomes of a setup that a disconnect    *)
(* overtakes is its own affair: it never settles, or rejects some day, and  *)
(* then clears the memo of the setup that came after it (forgotten).        *)
(***************************************************************************)
EXTENDS Naturals, FiniteSets

CONSTANTS Fetches,     \* page loads over the tunnel
          MaxSetups    \* bound: setups begun

TunnelAssumption == MaxSetups \in Nat

Setups == 1..MaxSetups
Ops    == {"connect", "disconnect", "reconnect"}

VARIABLES
  setup,    \* setup[i]: where the i-th setup stands
  up,       \* the setup whose tunnel the library runs, or 0
  memo,     \* tunnelPromise: the setup all callers await, or 0
  spent,
  op,       \* op[o]: where the user's operation o stands
  fetch,    \* fetch[f]: idle, or the setup f awaits or goes through
  awaits,   \* the setup an operation awaits
  busy,     \* the flag that disables the buttons
  forgotten \* history: an overtaken setup, rejecting late, cleared the memo
            \* of the tunnel that was rebuilt after it

vars == <<setup, up, memo, spent, op, fetch, awaits, busy, forgotten>>

Init ==
  /\ setup = [i \in Setups |-> "unused"]
  /\ up = 0 /\ memo = 0 /\ spent = FALSE
  /\ op = [o \in Ops |-> "idle"]
  /\ fetch = [f \in Fetches |-> 0]
  /\ awaits = [o \in Ops |-> 0]
  /\ busy = FALSE /\ forgotten = FALSE

-----------------------------------------------------------------------------
(* ensureTunnel, when not spent: i is the setup the caller awaits.          *)
Ensure(i) ==
  IF memo # 0
  THEN i = memo /\ UNCHANGED <<setup, memo>>
  ELSE /\ setup[i] = "unused" /\ \A j \in Setups : j < i => setup[j] # "unused"
       /\ setup' = [setup EXCEPT ![i] = "import"]
       /\ memo' = i

(* The handler of a setup that failed clears the memo, whosever it is.      *)
Fails(i) ==
  /\ setup' = [setup EXCEPT ![i] = "failed"]
  /\ memo' = 0

(* The library is loaded and asked to set up a tunnel, which it refuses     *)
(* when there is one, and may refuse at any time.                           *)
SetupCalled(i) ==
  /\ setup[i] = "import"
  /\ \/ /\ up = 0
        /\ up' = i
        /\ setup' = [setup EXCEPT ![i] = "pending"]
        /\ UNCHANGED memo
     \/ Fails(i) /\ UNCHANGED up
  /\ UNCHANGED <<spent, op, fetch, awaits, busy, forgotten>>

SetupReady(i) ==
  /\ setup[i] = "pending" /\ up = i
  /\ setup' = [setup EXCEPT ![i] = "ok"]
  /\ UNCHANGED <<up, memo, spent, op, fetch, awaits, busy, forgotten>>

SetupFails(i) ==
  /\ setup[i] = "pending"
  /\ Fails(i)
  /\ up' = IF up = i THEN 0 ELSE up
  /\ forgotten' = (forgotten \/ memo \notin {0, i})
  /\ UNCHANGED <<spent, op, fetch, awaits, busy>>

-----------------------------------------------------------------------------
(* A page load: mixnetFetch.  A load that ends leaves the buttons disabled  *)
(* only if another load is under way.                                       *)
LoadEnds(f) ==
  /\ fetch' = [fetch EXCEPT ![f] = 0]
  /\ busy' = \E g \in Fetches \ {f} : fetch[g] # 0

Load(f) ==
  /\ fetch[f] = 0
  /\ IF spent
     THEN LoadEnds(f) /\ UNCHANGED <<setup, memo>>
     ELSE \E i \in Setups : /\ Ensure(i)
                            /\ fetch' = [fetch EXCEPT ![f] = i]
                            /\ busy' = TRUE
  /\ UNCHANGED <<up, spent, op, awaits, forgotten>>

(* Answered, failed, or stopped by the user, who need not wait.             *)
LoadDone(f) ==
  /\ fetch[f] # 0
  /\ LoadEnds(f)
  /\ UNCHANGED <<setup, up, memo, spent, op, awaits, forgotten>>

-----------------------------------------------------------------------------
(* The user's operations.                                                  *)

Begin(o, at) ==
  /\ op[o] = "idle"
  /\ op' = [op EXCEPT ![o] = at]
  /\ busy' = TRUE

End(o) ==
  /\ op' = [op EXCEPT ![o] = "idle"]
  /\ awaits' = [awaits EXCEPT ![o] = 0]
  /\ busy' = FALSE

Connect ==
  /\ ~busy /\ ~spent
  /\ Begin("connect", "setup")
  /\ \E i \in Setups : Ensure(i) /\ awaits' = [awaits EXCEPT !["connect"] = i]
  /\ UNCHANGED <<up, spent, fetch, forgotten>>

ConnectEnds ==
  /\ op["connect"] = "setup" /\ setup[awaits["connect"]] \in {"ok", "failed"}
  /\ End("connect")
  /\ UNCHANGED <<setup, up, memo, spent, fetch, forgotten>>

(* Both begin by asking the library to disconnect.                          *)
Disconnect ==
  /\ ~busy
  /\ Begin("disconnect", "asked")
  /\ UNCHANGED <<setup, up, memo, spent, fetch, awaits, forgotten>>

(* Offered once the tunnel was switched off, or has carried many requests.  *)
Reconnect ==
  /\ ~busy /\ (spent \/ \E i \in Setups : setup[i] = "ok")
  /\ Begin("reconnect", "asked")
  /\ UNCHANGED <<setup, up, memo, spent, fetch, awaits, forgotten>>

(* Both load the library first, and so come after the setups begun before.  *)
Imported == \A i \in Setups : setup[i] # "import"

(* The worker ends the tunnel; the page hears of it later.                  *)
Disconnected(o) ==
  /\ op[o] = "asked" /\ Imported
  /\ up' = 0
  /\ op' = [op EXCEPT ![o] = "told"]
  /\ UNCHANGED <<setup, memo, spent, fetch, awaits, busy, forgotten>>

DisconnectFails ==
  /\ op["disconnect"] = "asked"
  /\ End("disconnect")
  /\ UNCHANGED <<setup, up, memo, spent, fetch, forgotten>>

TornDown ==
  /\ op["disconnect"] = "told" /\ Imported
  /\ spent' = TRUE /\ memo' = 0
  /\ End("disconnect")
  /\ UNCHANGED <<setup, up, fetch, forgotten>>

(* The memo is reset and a setup started; a disconnect that failed does not *)
(* matter.                                                                  *)
RebuildKeepsMemo == \* mutant: the memo is not reset before the setup
  /\ op["reconnect"] \in {"asked", "told"} /\ Imported
  /\ \E i \in Setups : Ensure(i) /\ awaits' = [awaits EXCEPT !["reconnect"] = i]
  /\ spent' = FALSE /\ forgotten' = FALSE
  /\ op' = [op EXCEPT !["reconnect"] = "setup"]
  /\ UNCHANGED <<up, fetch, busy>>
Rebuild ==
  /\ op["reconnect"] \in {"asked", "told"} /\ Imported
  /\ \E i \in Setups :
       /\ setup[i] = "unused" /\ \A j \in Setups : j < i => setup[j] # "unused"
       /\ setup' = [setup EXCEPT ![i] = "import"]
       /\ memo' = i
       /\ awaits' = [awaits EXCEPT !["reconnect"] = i]
  /\ spent' = FALSE /\ forgotten' = FALSE
  /\ op' = [op EXCEPT !["reconnect"] = "setup"]
  /\ UNCHANGED <<up, fetch, busy>>

ReconnectEnds ==
  /\ op["reconnect"] = "setup"
  /\ LET result == setup[awaits["reconnect"]]
     IN \/ result = "ok" /\ UNCHANGED spent
        \/ result = "failed" /\ spent' = TRUE
  /\ End("reconnect")
  /\ UNCHANGED <<setup, up, memo, fetch, forgotten>>

-----------------------------------------------------------------------------
Next ==
  \/ \E i \in Setups : SetupCalled(i) \/ SetupReady(i) \/ SetupFails(i)
  \/ \E f \in Fetches : Load(f) \/ LoadDone(f)
  \/ \E o \in {"disconnect", "reconnect"} : Disconnected(o)
  \/ Connect \/ ConnectEnds \/ Disconnect \/ DisconnectFails \/ TornDown
  \/ Reconnect \/ Rebuild \/ ReconnectEnds

Spec == Init /\ [][Next]_vars

-----------------------------------------------------------------------------
(* Every variable keeps its type, and whoever waits waits for a setup that  *)
(* was begun.                                                               *)
TypeOK ==
  /\ setup \in [Setups -> {"unused", "import", "pending", "ok", "failed"}]
  /\ up \in 0..MaxSetups /\ memo \in 0..MaxSetups
  /\ spent \in BOOLEAN /\ busy \in BOOLEAN /\ forgotten \in BOOLEAN
  /\ op \in [Ops -> {"idle", "asked", "told", "setup"}]
  /\ fetch \in [Fetches -> 0..MaxSetups] /\ awaits \in [Ops -> 0..MaxSetups]
  /\ \A i \in {up, memo} : i # 0 => setup[i] # "unused"
  /\ \A o \in Ops : op[o] = "setup" => awaits[o] # 0 /\ setup[awaits[o]] # "unused"

(* Once no disconnect or reconnect is under way and the tunnel is not spent,*)
(* "all callers await the same promise" (tunnel.ts:52): the next load finds *)
(* the tunnel that runs, and never a setup that failed or was disconnected  *)
(* ("on failure the promise is cleared so a retry is possible"), whichever  *)
(* loads began setups and whichever buttons were pressed meanwhile.  Except *)
(* after a late rejection of an overtaken setup: its handler clears the     *)
(* memo of the tunnel that runs, and every later load begins a setup that   *)
(* the library refuses, until the user reconnects.                          *)
Running(i) == setup[i] \in {"pending", "ok"} /\ up = i
TunnelFound ==
  ~spent /\ op["disconnect"] = "idle" /\ op["reconnect"] = "idle" /\ ~forgotten =>
    /\ memo # 0 => setup[memo] = "import" \/ Running(memo)
    /\ up # 0 => memo = up

(* Why TunnelFound holds: a setup that still loads the library is the one   *)
(* of the memo; the tunnel that runs is of a setup under way or done; while *)
(* no disconnect has been answered the memo is of a setup that loads or     *)
(* runs; and the tunnel that runs is the memo's, unless a reconnect whose   *)
(* disconnect failed began a setup beside it, which is bound to fail.       *)
Unanswered == op["disconnect"] # "told" /\ op["reconnect"] # "told"
OneImport  == \A i \in Setups : setup[i] = "import" => memo = i \/ forgotten
UpRuns     == up # 0 => Running(up)
MemoUsable == Unanswered /\ memo # 0 => setup[memo] = "import" \/ Running(memo)
InVain     == op["reconnect"] = "setup" /\ setup[awaits["reconnect"]] \in {"import", "failed"}
UpIsMemo   ==
  ~spent /\ ~forgotten /\ Unanswered /\ up # 0 => memo = up \/ InVain
FoundInv   == TypeOK /\ OneImport /\ UpRuns /\ MemoUsable /\ UpIsMemo
=============================================================================
