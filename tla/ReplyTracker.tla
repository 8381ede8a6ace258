---------------------------- MODULE ReplyTracker ----------------------------
(***************************************************************************)
(* ReplyTracker of web/src/mixnet/enforcement.mjs, with which a client of   *)
(* messaging.ts drops the replies it has already processed: a map from the  *)
(* key of a reply to the time it came, in the order they came.  The clock   *)
(* is Date.now and may be set back.                                         *)
(***************************************************************************)
EXTENDS Lists, FiniteSets, SequencesExt

CONSTANTS Keys, Ttl, MaxEntries,
          MaxNow     \* bound: times of the clock

TrackerAssumption == Ttl \in Nat /\ MaxEntries \in Nat \ {0} /\ MaxNow \in Nat

VARIABLES
  entries,   \* the map's entries in insertion order
  now,
  due        \* ghost: the keys that may not be accepted again yet, when each
             \* was, and how many others were after it

vars == <<entries, now, due>>

Init == entries = <<>> /\ now = 0 /\ due = [k \in {} |-> 0]

TooOld(e) == e.at + Ttl < now
Tracked(list) == {list[i].key : i \in DOMAIN list}

(* purge keeps what is not older than the window.                           *)
PurgesEarly(list) == Kept(list, {e \in ToSet(list) : e.at + Ttl > now}) \* mutant: < for <=
Purged(list) == Kept(list, {e \in ToSet(list) : ~TooOld(e)})

(* At the cap, the entry that was put in first goes.                        *)
CapsLate(list) == IF Len(list) > MaxEntries + 1 THEN Tail(list) ELSE list \* mutant
Capped(list) == IF Len(list) > MaxEntries THEN Tail(list) ELSE list

(* accept refuses a key it holds.                                           *)
Refuses(k) == k \in Tracked(Purged(entries))

Accept(k) ==
  LET still  == {x \in DOMAIN due : ~TooOld(due[x])}
      pushed == {x \in still \ {k} : due[x].others + 1 < MaxEntries}
  IN /\ IF Refuses(k)
        THEN /\ entries' = Purged(entries)
             /\ due' = [x \in still |-> due[x]]
        ELSE /\ entries' = Capped(Append(Purged(entries), [key |-> k, at |-> now]))
             /\ due' = [x \in pushed \cup {k} |->
                          IF x = k THEN [at |-> now, others |-> 0]
                          ELSE [due[x] EXCEPT !.others = @ + 1]]
     /\ UNCHANGED now

SetClock == now' \in 0..MaxNow /\ UNCHANGED <<entries, due>>

Next == SetClock \/ \E k \in Keys : Accept(k)

Spec == Init /\ [][Next]_vars

-----------------------------------------------------------------------------
TypeOK ==
  /\ Len(entries) <= MaxEntries
  /\ Cardinality(Tracked(entries)) = Len(entries)
  /\ \A i \in DOMAIN entries : entries[i].key \in Keys /\ entries[i].at \in 0..MaxNow

(* A reply that was accepted is not accepted again within its window, even  *)
(* when the clock is set back, unless MaxEntries other replies came since - *)
(* a call that finds it too old starts a new window.                        *)
NoReplay == \A k \in DOMAIN due : ~TooOld(due[k]) => Refuses(k)
=============================================================================
