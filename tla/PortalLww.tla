----------------------------- MODULE PortalLww -----------------------------
(* Last-writer-wins maps (crates/portal-data/src/lww.rs and its browser     *)
(* port portalLww.ts): for each key the value with the greatest dot.        *)
(* Replicas insert the writes of their users and merge copies of one        *)
(* another's maps, which may be old, come again or never.                   *)
EXTENDS Integers, FiniteSets

CONSTANTS Replicas, Keys, None,
          Writes,    \* the writes there are: a key, a dot and a value
          MaxCopies  \* bound on the copies on their way

(* The hash in a dot is that of the object with the value, so two writes    *)
(* with the same dot have the same value.                                   *)
Dots == Nat \X Nat \X Nat
ASSUME LwwAssumption ==
  /\ \A w \in Writes : w.key \in Keys /\ w.dot \in Dots
  /\ \A v, w \in Writes : v.key = w.key /\ v.dot = w.dot => v = w
  /\ None \notin Writes /\ MaxCopies \in Nat

VARIABLES
  map,       \* of each replica and key the write whose dot and value it holds
  copies,      \* copies of maps, with what the replica had been told by then
  told       \* the writes each replica inserted, or was sent a copy with

vars == <<map, copies, told>>

Init == /\ map = [r \in Replicas |-> [k \in Keys |-> None]]
        /\ copies = {} /\ told = [r \in Replicas |-> {}]
-----------------------------------------------------------------------------
ComparesDays(d, e) == d[1] < e[1] \* mutant: writes of the same day are not told apart
(* compareDots: day, then author, then hash.                                *)
Before(d, e) ==
  \/ d[1] < e[1]
  \/ d[1] = e[1] /\ d[2] < e[2]
  \/ d[1] = e[1] /\ d[2] = e[2] /\ d[3] < e[3]

Beats(w, current) == current = None \/ Before(current.dot, w.dot)

Inserted(m, w) ==
  [k \in Keys |-> IF w # None /\ k = w.key /\ Beats(w, m[k]) THEN w ELSE m[k]]

(* The keys of a copy are inserted one by one, and do not meet.             *)
Merged(m, copy) ==
  [k \in Keys |-> IF copy[k] # None /\ Beats(copy[k], m[k]) THEN copy[k] ELSE m[k]]

Insert(r, w) ==
  /\ map' = [map EXCEPT ![r] = Inserted(@, w)]
  /\ told' = [told EXCEPT ![r] = @ \cup {w}]
  /\ UNCHANGED copies

ToEntries(r) ==
  /\ Cardinality(copies) < MaxCopies
  /\ copies' = copies \cup {[map |-> map[r], told |-> told[r]]}
  /\ UNCHANGED <<map, told>>

Merge(r, copy) ==
  /\ map' = [map EXCEPT ![r] = Merged(@, copy.map)]
  /\ told' = [told EXCEPT ![r] = @ \cup copy.told]
  /\ UNCHANGED copies

Next == \E r \in Replicas :
  \/ \E w \in Writes : Insert(r, w)
  \/ ToEntries(r)
  \/ \E copy \in copies : Merge(r, copy)

Spec == Init /\ [][Next]_vars
-----------------------------------------------------------------------------
Maps == [Keys -> Writes \cup {None}]
TypeOK == /\ map \in [Replicas -> Maps]
          /\ told \in [Replicas -> SUBSET Writes]
          /\ copies \in SUBSET [map : Maps, told : SUBSET Writes]

(* A map holds of each key, of the writes it was told of, the last one.     *)
HoldsLast(m, writes) ==
  \A k \in Keys :
    /\ m[k] = None => \A w \in writes : w.key # k
    /\ m[k] # None => /\ m[k] \in writes /\ m[k].key = k
                      /\ \A w \in writes : w.key = k => ~Before(m[k].dot, w.dot)

LastWriteHeld == /\ \A r \in Replicas : HoldsLast(map[r], told[r])
                 /\ \A c \in copies : HoldsLast(c.map, c.told)

(* Replicas that were told of the same writes have the same map, in         *)
(* whatever order and however often, by inserts or by copies.               *)
Converged == \A r, q \in Replicas : told[r] = told[q] => map[r] = map[q]
=============================================================================
