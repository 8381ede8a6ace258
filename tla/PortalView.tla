----------------------------- MODULE PortalView -----------------------------
(* What a reader of a portal sees (portalView.ts) of the replica it has.    *)
(*                                                                          *)
(* The authors of a replica are in the order its object has them: a log     *)
(* that grows keeps its place, one that was reset and fetched again comes   *)
(* last.  So two readers with the same logs may have them in another order. *)
EXTENDS Integers, FiniteSets, SequencesExt

CONSTANTS Readers, None,
          Writers,       \* the authors: numbers, only the order of the keys matters
          ContentLog     \* what parsePortalContent makes of each author's objects:
                         \* a kind and a slug, or None

ViewAssumption == Writers \subseteq Nat /\ DOMAIN ContentLog = Writers

VARIABLE replica   \* of each reader: authors, each with the length of its log

Init == replica = [r \in Readers |-> <<>>]
-----------------------------------------------------------------------------
(* buildPortalView.  The list of uploaded objects is left as the replica    *)
(* has it, so of it only the members are told here.                         *)

Entries(logs) ==
  FlattenSeq([i \in DOMAIN logs |->
    [n \in 1..logs[i].length |->
      [author |-> logs[i].author, seq |-> n - 1, content |-> ContentLog[logs[i].author][n]]]])

Of(entries, kind) == SelectSeq(entries, LAMBDA e : e.content # None /\ e.content.kind = kind)

Newer(e, best) == e.seq > best.seq \/ (e.seq = best.seq /\ e.author > best.author)

LatestOf(entries) ==
  FoldLeft(LAMBDA best, e : IF best = None THEN e ELSE IF Newer(e, best) THEN e ELSE best,
           None, entries)

Wiki(entries) ==
  [slug \in {e.content.slug : e \in ToSet(entries)} |->
    LatestOf(SelectSeq(entries, LAMBDA e : e.content.slug = slug))]

AuthorCount(log) ==
  [author |-> log.author, entries |-> log.length,
   objects |-> Cardinality({n \in 1..log.length : ContentLog[log.author][n] # None})]

View(logs, blocked) ==
  LET shown == SelectSeq(logs, LAMBDA l : l.author \notin blocked)
      all   == Entries(shown)
  IN [siteIndex |-> LatestOf(Of(all, "site/index")),
      profile   |-> LatestOf(Of(all, "profile")),
      posts     |-> SortSeq(Of(all, "post"), LAMBDA a, b :
                      a.seq > b.seq \/ (a.seq = b.seq /\ a.author < b.author)),
      wiki      |-> Wiki(Of(all, "wiki/page")),
      objects   |-> ToSet(Of(all, "object")),
      unknown   |-> Len(SelectSeq(all, LAMBDA e : e.content = None)),
      authors   |-> SortSeq([i \in DOMAIN shown |-> AuthorCount(shown[i])], LAMBDA a, b :
                      a.objects > b.objects \/ (a.objects = b.objects /\ a.author < b.author))]
-----------------------------------------------------------------------------
Place(logs, a) == SelectInSeq(logs, LAMBDA l : l.author = a)

(* A log grows, by a sync or a publishing.                                  *)
Grow(r, a) ==
  LET i == Place(replica[r], a)
  IN /\ IF i = 0 THEN ContentLog[a] # <<>> ELSE replica[r][i].length < Len(ContentLog[a])
     /\ replica' = [replica EXCEPT ![r] =
          IF i = 0 THEN Append(@, [author |-> a, length |-> 1])
                   ELSE [@ EXCEPT ![i].length = @ + 1]]

ResetAuthorLog(r, a) ==
  /\ Place(replica[r], a) # 0
  /\ replica' = [replica EXCEPT ![r] = SelectSeq(@, LAMBDA l : l.author # a)]

Next == \E r \in Readers, a \in Writers : Grow(r, a) \/ ResetAuthorLog(r, a)

Spec == Init /\ [][Next]_replica
-----------------------------------------------------------------------------
TypeOK == replica \in [Readers -> Seq([author : Writers, length : Nat \ {0}])]

(* Two readers with the same logs see the same, in whatever order they got  *)
(* them and however often they reset one, whoever they block.               *)
ViewsAgree ==
  \A r, q \in Readers : ToSet(replica[r]) = ToSet(replica[q]) =>
    \A blocked \in SUBSET Writers : View(replica[r], blocked) = View(replica[q], blocked)
=============================================================================
