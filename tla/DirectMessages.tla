--------------------------- MODULE DirectMessages ---------------------------
(***************************************************************************)
(* Direct messages: the hook useDirectMessages.ts of the web client over    *)
(* the dead-drop of the social provider (POST and GET /dm), and the cache   *)
(* on the device, which is the only history there is: the provider deletes  *)
(* what it answers.                                                         *)
(*                                                                          *)
(* One user reads one mailbox.  She may leave the community and open it     *)
(* again: each opening mounts the hook anew, while the requests of an       *)
(* earlier one are still out.  Requests go through fetchNym, one at a time  *)
(* and in order (FetchNym.tla).  A message is its number at the provider.   *)
(***************************************************************************)
EXTENDS Naturals, Sequences, FiniteSets, Lists

CONSTANTS MaxKept,    \* MAX_DM_RECORDS
          MaxDms,     \* bound: messages stored by the provider
          MaxViews,   \* bound: openings of the community
          MaxOut      \* bound: requests handed to fetchNym and not settled

MessagesAssumption ==
  /\ MaxKept \in Nat \ {0} /\ MaxDms \in Nat
  /\ MaxViews \in Nat \ {0} /\ MaxOut \in Nat \ {0}

VARIABLES
  mailbox,   \* the provider's messages for the user
  stored,    \* how many messages it has stored, for anyone
  garbled,   \* those that do not open with the user's key
  own,       \* those the user sent
  wire,      \* requests handed to fetchNym
  view,      \* the latest opening
  mounted,   \* is it open still?
  dms,       \* the records each opening holds
  chain,     \* the polls of the latest: a timer runs, a poll does, or they ended
  stopped,   \* dmStoppedRef
  cache,     \* the records on the device
  kept,      \* ghost: the messages that were once in the cache
  lost       \* ghost: those that expired, or whose answer found nobody

provider == <<mailbox, stored, garbled, own>>
client   == <<view, mounted, dms, chain, stopped>>
history  == <<cache, kept, lost>>
vars     == <<provider, wire, client, history>>

Messages == 1..MaxDms

Init ==
  /\ mailbox = <<>> /\ stored = 0 /\ garbled = {} /\ own = {}
  /\ wire = <<>>
  /\ view = 1 /\ mounted = TRUE /\ chain = "timer" /\ stopped = FALSE
  /\ dms = [v \in 1..MaxViews |-> <<>>]
  /\ cache = <<>> /\ kept = {} /\ lost = {}

-----------------------------------------------------------------------------
(* The provider.                                                           *)

(* store_dm drops what is too old - the first k - and appends.              *)
StoreDm(toUser) ==
  /\ stored < MaxDms
  /\ stored' = stored + 1
  /\ \E k \in 0..Len(mailbox) :
       /\ mailbox' = SubSeq(mailbox, k + 1, Len(mailbox))
                       \o (IF toUser THEN <<stored + 1>> ELSE <<>>)
       /\ lost' = lost \cup Elems(SubSeq(mailbox, 1, k))

PeerSends(opens) ==
  /\ StoreDm(TRUE)
  /\ garbled' = IF opens THEN garbled ELSE garbled \cup {stored + 1}
  /\ UNCHANGED <<own, wire, client, cache, kept>>

(* fetch_dms hands out the whole mailbox, oldest first, and empties it.     *)
FetchAtMostOne == \* mutant: a limit on what is read, none on what is deleted
  mailbox' = <<>> /\ wire' = [wire EXCEPT ![1].served = TRUE,
                                          ![1].ids = IF mailbox = <<>> THEN <<>> ELSE <<mailbox[1]>>]
FetchDms ==
  mailbox' = <<>> /\ wire' = [wire EXCEPT ![1].served = TRUE, ![1].ids = mailbox]

ServePoll ==
  /\ wire # <<>> /\ ~Head(wire).served /\ Head(wire).kind # "send"
  /\ FetchDms
  /\ UNCHANGED <<stored, garbled, own, client, history>>

(* The user may be her own correspondent.                                   *)
ServeSend ==
  /\ wire # <<>> /\ ~Head(wire).served /\ Head(wire).kind = "send"
  /\ \E toSelf \in BOOLEAN : StoreDm(toSelf)
  /\ own' = own \cup {stored + 1}
  /\ wire' = [wire EXCEPT ![1].served = TRUE, ![1].ids = <<stored + 1>>]
  /\ UNCHANGED <<garbled, client, cache, kept>>

-----------------------------------------------------------------------------
(* The client's requests.                                                  *)

Ask(kind) ==
  /\ Len(wire) < MaxOut
  /\ wire' = Append(wire, [kind |-> kind, view |-> view, served |-> FALSE, ids |-> <<>>])

(* The chain of polls stops for good at a tick that finds it stopped.       *)
Tick ==
  /\ mounted /\ chain = "timer"
  /\ IF stopped THEN chain' = "ended" /\ UNCHANGED wire
                ELSE chain' = "poll"  /\ Ask("tick")
  /\ UNCHANGED <<provider, view, mounted, dms, stopped, history>>

(* The buttons are disabled while a message is being sent.                  *)
Busy == \E i \in DOMAIN wire : wire[i].kind = "send" /\ wire[i].view = view

(* "Check for new messages" polls beside the chain.                         *)
Check ==
  /\ mounted /\ ~Busy /\ Ask("check")
  /\ stopped' = FALSE
  /\ UNCHANGED <<provider, view, mounted, dms, chain, history>>

Send ==
  /\ mounted /\ ~Busy /\ Ask("send")
  /\ UNCHANGED <<provider, client, history>>

-----------------------------------------------------------------------------
(* Their answers.                                                          *)

Mine(r) == mounted /\ r.view = view

Uncapped(records, m) == \* mutant: the oldest record is never dropped
  IF m \in Elems(records) THEN records ELSE Append(records, m)
(* addDmRecord: each message once, the newest ones kept.                    *)
AddDmRecord(records, m) ==
  LET next == Append(records, m)
  IN IF m \in Elems(records) THEN records
     ELSE IF Len(next) > MaxKept THEN Tail(next) ELSE next

(* The records with the messages of an answer added one after another.      *)
AddDmRecords(records, ms) ==
  LET after[n \in 0..Len(ms)] ==   \* the first n
        IF n = 0 THEN records ELSE AddDmRecord(after[n - 1], ms[n])
  IN after[Len(ms)]

(* The updater of setDms runs, saving what it computes, when the records    *)
(* changed or the message is one just sent.  Whether React still runs it    *)
(* when the view is gone is React's choice.                                 *)
RecordDms(r, ms) ==
  LET next == AddDmRecords(dms[r.view], ms)
  IN \/ /\ dms' = [dms EXCEPT ![r.view] = next]
        /\ IF next # dms[r.view] \/ r.kind = "send"
           THEN cache' = next /\ kept' = kept \cup Elems(next)
           ELSE UNCHANGED <<cache, kept>>
        /\ lost' = lost
     \/ /\ ~Mine(r)
        /\ lost' = lost \cup Elems(ms)
        /\ UNCHANGED <<dms, cache, kept>>

(* pollDms ends: the chain arms its next tick unless it was stopped.        *)
PollEnds(stop) ==
  LET r == Head(wire) IN
  /\ wire' = Tail(wire)
  /\ stopped' = IF Mine(r) THEN stop ELSE stopped
  /\ chain' = IF ~(Mine(r) /\ r.kind = "tick") THEN chain
              ELSE IF stop THEN "ended" ELSE "timer"
  /\ UNCHANGED <<provider, view, mounted>>

PollAnswered ==
  /\ wire # <<>> /\ Head(wire).served /\ Head(wire).kind # "send"
  /\ RecordDms(Head(wire), Kept(Head(wire).ids, Messages \ garbled))
  /\ PollEnds(FALSE)

(* The answer is lost or late, perhaps after the mailbox was emptied; or    *)
(* the provider is busy.                                                    *)
PollFails ==
  /\ wire # <<>> /\ Head(wire).kind # "send"
  /\ lost' = lost \cup Elems(Head(wire).ids)
  /\ PollEnds(stopped)
  /\ UNCHANGED <<dms, cache, kept>>

PollRefused ==
  /\ wire # <<>> /\ Head(wire).kind # "send" /\ ~Head(wire).served
  /\ PollEnds(TRUE)
  /\ UNCHANGED <<dms, history>>

SendAnswered ==
  /\ wire # <<>> /\ Head(wire).served /\ Head(wire).kind = "send"
  /\ RecordDms(Head(wire), Head(wire).ids)
  /\ wire' = Tail(wire)
  /\ UNCHANGED <<provider, view, mounted, chain, stopped>>

SendFails ==
  /\ wire # <<>> /\ Head(wire).kind = "send"
  /\ wire' = Tail(wire)
  /\ UNCHANGED <<provider, client, history>>

-----------------------------------------------------------------------------
Leave ==
  /\ mounted /\ mounted' = FALSE
  /\ UNCHANGED <<provider, wire, view, dms, chain, stopped, history>>

(* The cache is loaded, and the effect on the service drops it at once.     *)
Open ==
  /\ ~mounted /\ view < MaxViews
  /\ view' = view + 1 /\ mounted' = TRUE
  /\ chain' = "timer" /\ stopped' = FALSE
  /\ UNCHANGED <<provider, wire, dms, history>>

Next ==
  \/ \E opens \in BOOLEAN : PeerSends(opens)
  \/ ServePoll \/ ServeSend
  \/ Tick \/ Check \/ Send
  \/ PollAnswered \/ PollFails \/ PollRefused
  \/ SendAnswered \/ SendFails
  \/ Leave \/ Open

Spec == Init /\ [][Next]_vars

-----------------------------------------------------------------------------
TypeOK ==
  /\ stored \in 0..MaxDms
  /\ garbled \subseteq 1..stored /\ own \subseteq 1..stored
  /\ kept \subseteq 1..stored /\ lost \subseteq 1..stored
  /\ Elems(mailbox) \subseteq 1..stored
  /\ Len(wire) <= MaxOut
  /\ \A i \in DOMAIN wire :
       /\ wire[i].kind \in {"tick", "check", "send"} /\ wire[i].view \in 1..view
       /\ wire[i].served => i = 1
  /\ view \in 1..MaxViews /\ mounted \in BOOLEAN /\ stopped \in BOOLEAN
  /\ chain \in {"timer", "poll", "ended"}
  /\ \A s \in {cache} \cup {dms[v] : v \in 1..MaxViews} :
       Len(s) <= MaxKept /\ Elems(s) \subseteq 1..stored

(* Though the provider deletes what it answers, and however polls by timer, *)
(* by hand and of an earlier opening overlap: a message for the user is at  *)
(* the provider, in the answer under way, or was saved on the device -      *)
(* unless it expired, does not open, came with more than the history holds, *)
(* or its answer came back to nobody.                                       *)
NothingDropped ==
  \A m \in 1..stored :
    \/ m \in own \cup garbled \cup lost \cup kept
    \/ m \in Elems(mailbox)
    \/ wire # <<>> /\ m \in Elems(Head(wire).ids)
    \/ Cardinality({n \in kept : n > m}) >= MaxKept

(* A message is in the history once, even the user's own to herself, which  *)
(* is recorded when it is sent and comes back with a poll.                  *)
RecordedOnce ==
  \A s \in {cache} \cup {dms[v] : v \in 1..MaxViews} :
    \A i, j \in DOMAIN s : s[i] = s[j] => i = j

(* The messages of others are in the history in the order they were sent.   *)
ArrivalOrder ==
  \A s \in {cache} \cup {dms[v] : v \in 1..MaxViews} :
    \A i, j \in DOMAIN s : i < j /\ {s[i], s[j]} \cap own = {} => s[i] <= s[j]

(* "the cache is the history": a record leaves the device only when the     *)
(* history is full.                                                         *)
HistoryKept == \A m \in Elems(cache) : m \in Elems(cache') \/ Len(cache') = MaxKept
=============================================================================
