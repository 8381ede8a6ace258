------------------------------ MODULE SurbPool ------------------------------
(***************************************************************************)
(* SurbPool of crates/sphinx-core/src/enforcement.rs: which single-use      *)
(* reply blocks a client has issued, and whether a reply may be accepted.   *)
(* Every call brings its own time; the clock may be set back.               *)
(***************************************************************************)
EXTENDS Naturals

CONSTANTS Ids,      \* identifiers of reply blocks
          MaxAge,   \* max_age_secs
          MaxNow    \* bound: times of the clock

PoolAssumption == MaxAge \in Nat /\ MaxNow \in Nat

VARIABLES
  issued,     \* issued_at: when, for each identifier held
  consumed,   \* identifiers that were used, or found expired by a reply
  now,
  answered,   \* ghost: identifiers accepted since they were registered
  fresh       \* ghost: registered, not accepted, and expired at no call yet

pool == <<issued, consumed, now, answered, fresh>>

PoolInit == /\ issued = [id \in {} |-> 0] /\ consumed = {} /\ now = 0
        /\ answered = {} /\ fresh = {}

(* saturating_sub *)
Age(id) == IF now > issued[id] THEN now - issued[id] ELSE 0
Expired(id) == Age(id) > MaxAge

Acceptable(id) == id \notin consumed /\ id \in DOMAIN issued /\ ~Expired(id)

Register(id) ==
  /\ issued' = [i \in DOMAIN issued \cup {id} |-> IF i = id THEN now ELSE issued[i]]
  /\ consumed' = consumed \ {id}
  /\ answered' = answered \ {id} /\ fresh' = fresh \cup {id}
  /\ UNCHANGED now

(* accept_reply: a reply that comes too late uses the identifier up too.    *)
AcceptsUnmarked(id) == \* mutant: the identifier is not marked as used
  /\ answered' = (IF Acceptable(id) THEN answered \cup {id} ELSE answered)
  /\ fresh' = fresh \ {id}
  /\ UNCHANGED <<issued, consumed, now>>
AcceptReply(id) ==
  /\ consumed' = (IF id \in DOMAIN issued THEN consumed \cup {id} ELSE consumed)
  /\ answered' = (IF Acceptable(id) THEN answered \cup {id} ELSE answered)
  /\ fresh' = fresh \ {id}
  /\ UNCHANGED <<issued, now>>

(* purge_expired forgets what was never used, and only that.                *)
PurgeTooSoon == \* mutant: >= for >
  /\ issued' = [i \in {j \in DOMAIN issued : Age(j) < MaxAge \/ j \in consumed} |-> issued[i]]
  /\ fresh' = {i \in fresh : ~Expired(i)}
  /\ UNCHANGED <<consumed, now, answered>>
PurgeExpired ==
  /\ issued' = [i \in {j \in DOMAIN issued : ~Expired(j) \/ j \in consumed} |-> issued[i]]
  /\ fresh' = {i \in fresh : ~Expired(i)}
  /\ UNCHANGED <<consumed, now, answered>>

SetClock ==
  /\ now' \in 0..MaxNow
  /\ UNCHANGED <<issued, consumed, answered, fresh>>

PoolNext == \/ \E id \in Ids : Register(id) \/ AcceptReply(id)
        \/ PurgeExpired \/ SetClock

PoolSpec == PoolInit /\ [][PoolNext]_pool

-----------------------------------------------------------------------------
PoolTypeOK ==
  /\ DOMAIN issued \subseteq Ids /\ issued \in [DOMAIN issued -> Nat]
  /\ consumed \subseteq Ids /\ answered \subseteq Ids /\ fresh \subseteq Ids
  /\ now \in Nat

(* No reply block is answered twice, whatever was purged in between and     *)
(* whichever way the clock was set.                                         *)
SingleUse == \A id \in Ids : Acceptable(id) => id \notin answered

(* And none is lost: a reply within the window is accepted, unless a call   *)
(* at a later time than this has found its block expired before.            *)
FreshAccepted == \A id \in fresh : id \in DOMAIN issued /\ (Expired(id) \/ Acceptable(id))
=============================================================================
