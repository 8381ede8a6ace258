---------------------------- MODULE PortalTrust ----------------------------
(* The verdicts of one reader on the authors of portals (portalTrust.ts,    *)
(* onTrust in PortalWorkspace.tsx): a store with a limit on the portals and *)
(* one on the authors of each, in the order they came, loaded at each mount *)
(* of a workspace and saved at each click.                                  *)
EXTENDS Integers, FiniteSets, SequencesExt

CONSTANTS Judged,        \* the authors
          Portals,       \* the scopes
          MaxScopes,     \* MAX_TRUST_SCOPES
          MaxAuthors,    \* MAX_TRUST_AUTHORS
          MaxVerdicts    \* bound on the clicks on a verdict

TrustAssumption ==
  MaxScopes \in Nat \ {0} /\ MaxAuthors \in Nat \ {0} /\ MaxVerdicts \in Nat

VARIABLES
  trust,     \* the scopes in order, and in each the authors with a verdict in order
  saved,     \* fly.portal.trust.v1
  clicks,    \* what the reader decided: portal, author and what the verdict became
  loaded     \* how many of the clicks had been made at the last load

vars == <<trust, saved, clicks, loaded>>

Verdicts == {"trusted", "blocked"}
Init == trust = <<>> /\ saved = <<>> /\ clicks = <<>> /\ loaded = 0
-----------------------------------------------------------------------------
Place(list, field, x) == SelectInSeq(list, LAMBDA e : e[field] = x)
Without(list, field, x) == SelectSeq(list, LAMBDA e : e[field] # x)
FirstOf(list, n) == SubSeq(list, 1, IF Len(list) < n THEN Len(list) ELSE n)

VerdictsIn(store, s) == LET i == Place(store, "scope", s) IN IF i = 0 THEN <<>> ELSE store[i].of

GetVerdict(store, s, a) ==
  LET i == Place(VerdictsIn(store, s), "author", a)
  IN IF i = 0 THEN "neutral" ELSE VerdictsIn(store, s)[i].verdict

Decided(list, a, verdict) ==
  LET i == Place(list, "author", a)
  IN IF verdict = "neutral" THEN Without(list, "author", a)
     ELSE IF i # 0 THEN [list EXCEPT ![i].verdict = verdict]
     ELSE Append(list, [author |-> a, verdict |-> verdict])

SetVerdict(store, s, a, verdict) ==
  LET authors == Decided(VerdictsIn(store, s), a, verdict)
      others  == Without(store, "scope", s)
      next    == IF authors = <<>> THEN others
                 ELSE Append(others, [scope |-> s, of |-> authors])
  IN IF Len(next) > MaxScopes THEN Tail(next) ELSE next

LoadTrust(store) ==
  LET scopes == FirstOf(store, MaxScopes)
  IN [i \in DOMAIN scopes |-> [scopes[i] EXCEPT !.of = FirstOf(@, MaxAuthors)]]
-----------------------------------------------------------------------------
(* onTrust: a second click on a verdict takes it back.                      *)
OnTrust(s, a, verdict) ==
  LET v    == IF GetVerdict(trust, s, a) = verdict THEN "neutral" ELSE verdict
      next == SetVerdict(trust, s, a, v)
  IN /\ Len(clicks) < MaxVerdicts
     /\ trust' = next /\ saved' = next
     /\ clicks' = Append(clicks, [scope |-> s, author |-> a, verdict |-> v])
     /\ UNCHANGED loaded

(* The workspace is mounted again.                                          *)
Mount ==
  /\ loaded # Len(clicks) /\ loaded' = Len(clicks)
  /\ trust' = LoadTrust(saved)
  /\ UNCHANGED <<saved, clicks>>

Next ==
  \/ \E s \in Portals, a \in Judged, v \in Verdicts : OnTrust(s, a, v)
  \/ Mount

Spec == Init /\ [][Next]_vars
-----------------------------------------------------------------------------
TypeOK ==
  /\ Len(trust) <= MaxScopes /\ Len(saved) <= MaxScopes
  /\ \A i \in DOMAIN trust : trust[i].scope \in Portals /\ trust[i].of # <<>>

(* What the reader last decided of an author is what holds, in its portal   *)
(* only, across mounts, unless at some time MaxScopes other portals had     *)
(* been judged since that portal last was.  No portal has more than         *)
(* MaxAuthors verdicts here, since a load would forget the newest of them.  *)
LastClick(s, a) == SelectLastInSeq(clicks, LAMBDA c : c.scope = s /\ c.author = a)
Displaced(s, i) ==
  i # 0 /\ \E j \in i..Len(clicks) : \E k \in j + 1..Len(clicks) :
    LET between == {clicks[m].scope : m \in j + 1..k}
    IN clicks[j].scope = s /\ s \notin between /\ Cardinality(between) >= MaxScopes
VerdictsKept ==
  \A s \in Portals, a \in Judged :
    LET i == LastClick(s, a)
    IN Displaced(s, i) \/ GetVerdict(trust, s, a) = IF i = 0 THEN "neutral" ELSE clicks[i].verdict
=============================================================================
