--------------------------- MODULE CommunityFeed ---------------------------
(***************************************************************************)
(* The timeline of a community: the hook useCommunityFeed.ts (adapters/     *)
(* driving/social/hooks) over the /health and /feed routes of the social    *)
(* provider (services/social), for one opening of one portal.               *)
(*                                                                          *)
(* The provider numbers its posts 1, 2, ...; the hook pulls them page by    *)
(* page from a cursor, on a timer, on a click, and after a post of its own, *)
(* and pages back on demand.  All requests go through fetchNym, one at a    *)
(* time and in order (FetchNym.tla), so wire is a queue whose head is out.  *)
(***************************************************************************)
EXTENDS Integers, Sequences, FiniteSets, FiniteSetsExt

CONSTANTS Clicks,       \* refreshes by hand that may be under way at once
          Page,         \* posts per page, and how far back the first sync goes
          Back,         \* how far before its oldest post loadOlder begins ...
          OlderLimit,   \* ... and how many posts it asks for
          MaxKept,      \* MAX_KEPT_POSTS
          Refusals,     \* may the service answer with a definitive error?
          MaxPosts      \* bound: posts published

ASSUME FeedAssumption ==
  /\ Page \in Nat \ {0} /\ Back \in Nat /\ OlderLimit \in Nat \ {0}
  /\ MaxKept \in Nat \ {0} /\ MaxPosts \in Nat /\ Refusals \in BOOLEAN

VARIABLES
  feed,        \* the provider's posts: feed[q] iff the signature of q is good
  wire,        \* the requests handed to fetchNym and not settled
  shown,       \* the posts of the timeline
  cursor,
  refreshing,  \* refreshInFlightRef
  poll,        \* the chain of polls: its timer runs, a poll does, or it ended
  stopped,     \* feedStoppedRef
  unasked      \* ghost: the posts a page of a first sync began beyond

vars == <<feed, wire, shown, cursor, refreshing, poll, stopped, unasked>>

Request(by, kind, since, below) ==
  [by |-> by, kind |-> kind, since |-> since, below |-> below,
   first |-> FALSE, served |-> FALSE, seen |-> 0]

UnderWay(by) == \E i \in DOMAIN wire : wire[i].by = by

(* Opening a portal refreshes at once and starts the timer.                 *)
Init ==
  /\ feed = <<>>
  /\ wire = <<Request("open", "health", 0, 0)>>
  /\ shown = {} /\ cursor = 0
  /\ refreshing = TRUE /\ poll = "timer" /\ stopped = FALSE
  /\ unasked = {}

-----------------------------------------------------------------------------
(* The provider.                                                           *)

Publish(good) ==
  /\ Len(feed) < MaxPosts
  /\ feed' = Append(feed, good)
  /\ UNCHANGED <<wire, shown, cursor, refreshing, poll, stopped, unasked>>

(* The provider answers from the posts it has by then.                      *)
Serve ==
  /\ wire # <<>> /\ ~Head(wire).served
  /\ wire' = <<[Head(wire) EXCEPT !.served = TRUE, !.seen = Len(feed)]>> \o Tail(wire)
  /\ UNCHANGED <<feed, shown, cursor, refreshing, poll, stopped, unasked>>

(* Store::feed: the first posts after since, oldest first.                  *)
PageOf(answer, limit) ==
  answer.since + 1 .. Min({answer.since + limit, answer.seen})

-----------------------------------------------------------------------------
(* refreshFeed.                                                            *)

(* Unless forced, a refresh gives way to one under way.                     *)
Begins(force) == force \/ ~refreshing

Begin(by, force) ==
  /\ refreshing' = TRUE
  /\ stopped' = (stopped /\ ~force)
  /\ wire' = Append(wire, IF cursor = 0 THEN Request(by, "health", 0, 0)
                                        ELSE Request(by, "page", cursor, 0))

(* The composer disables the buttons until its refresh has ended.           *)
Busy == UnderWay("composer")

Click(c) ==
  /\ ~UnderWay(c) /\ ~Busy
  /\ Begin(c, TRUE)
  /\ UNCHANGED <<feed, shown, cursor, poll, unasked>>

(* The composer publishes and then refreshes.                               *)
Compose ==
  /\ Len(feed) < MaxPosts /\ ~Busy
  /\ feed' = Append(feed, TRUE)
  /\ IF Begins(FALSE) THEN Begin("composer", FALSE)
     ELSE UNCHANGED <<wire, refreshing, stopped>>
  /\ UNCHANGED <<shown, cursor, poll, unasked>>

(* A tick of the chain; a refresh that gives way arms the next at once.     *)
Tick ==
  /\ poll = "timer"
  /\ IF stopped
     THEN poll' = "ended" /\ UNCHANGED <<wire, refreshing, stopped>>
     ELSE IF Begins(FALSE)
          THEN poll' = "running" /\ Begin("poll", FALSE)
          ELSE UNCHANGED <<wire, refreshing, stopped, poll>>
  /\ UNCHANGED <<feed, shown, cursor, unasked>>

HeadIs(kind) == wire # <<>> /\ Head(wire).kind = kind

(* The first sync starts a page before the newest post; when the provider   *)
(* does not tell which that is, at the very first.                          *)
FirstSince(seen) == IF seen > Page THEN seen - Page ELSE 0

AskPage(since) ==
  /\ wire' = Append(Tail(wire),
                    [Request(Head(wire).by, "page", since, 0) EXCEPT !.first = TRUE])
  /\ UNCHANGED <<feed, shown, cursor, refreshing, poll, stopped, unasked>>

HealthAnswered ==
  /\ HeadIs("health") /\ Head(wire).served
  /\ AskPage(FirstSince(Head(wire).seen))

HealthFails == HeadIs("health") /\ AskPage(0)

(* Whatever became of it, a refresh that ends lets the next begin, and one  *)
(* of the chain arms the next tick unless it was stopped.                   *)
RefreshEnds(stop) ==
  /\ wire' = Tail(wire)
  /\ refreshing' = FALSE /\ stopped' = stop
  /\ poll' = IF Head(wire).by # "poll" THEN poll
             ELSE IF stop THEN "ended" ELSE "timer"
  /\ UNCHANGED feed

(* mergeFeedPosts: the newest posts, each once.                             *)
Uncapped(posts) == shown \cup posts  \* mutant: no bound on what is kept
Merged(posts) ==
  LET all == shown \cup posts
  IN {q \in all : Cardinality({p \in all : p > q}) < MaxKept}

Verified(posts) == {q \in posts : feed[q]}

(* The cursor goes past the page even when every post of it was dropped.    *)
StaysOnBadPage(page) == \* mutant: only past what was shown
  cursor' = Max({cursor} \cup Verified(page))
CursorToNewest(page) == \* mutant: to the newest post the provider has
  cursor' = Max({cursor, Head(wire).seen})
AdvanceCursor(page) == cursor' = Max({cursor} \cup page)

(* Two first syncs may overlap (both began with no cursor), and the page of *)
(* the second then begins beyond where that of the first ended.             *)
Jumped == IF Head(wire).first THEN cursor + 1 .. Head(wire).since ELSE {}

PageAnswered ==
  /\ HeadIs("page") /\ Head(wire).served
  /\ unasked' = unasked \cup Jumped
  /\ LET page == PageOf(Head(wire), Page)
     IN shown' = Merged(Verified(page)) /\ AdvanceCursor(page)
  /\ RefreshEnds(FALSE)

(* 400..499 but 429: repeating the request cannot help.                     *)
PageRefused ==
  /\ HeadIs("page") /\ Refusals
  /\ RefreshEnds(TRUE)
  /\ UNCHANGED <<shown, cursor, unasked>>

PageFails ==
  /\ HeadIs("page")
  /\ RefreshEnds(stopped)
  /\ UNCHANGED <<shown, cursor, unasked>>

-----------------------------------------------------------------------------
LoadOlder ==
  /\ ~UnderWay("older") /\ ~Busy /\ shown # {} /\ Min(shown) > 1
  /\ wire' = Append(wire, Request("older", "older", Max({0, Min(shown) - Back}), Min(shown)))
  /\ UNCHANGED <<feed, shown, cursor, refreshing, poll, stopped, unasked>>

OlderEnds ==
  /\ HeadIs("older")
  /\ \/ /\ Head(wire).served
        /\ shown' = Merged(Verified({q \in PageOf(Head(wire), OlderLimit) :
                                       q < Head(wire).below}))
     \/ UNCHANGED shown
  /\ wire' = Tail(wire)
  /\ UNCHANGED <<feed, cursor, refreshing, poll, stopped, unasked>>

-----------------------------------------------------------------------------
Next ==
  \/ \E good \in BOOLEAN : Publish(good)
  \/ \E c \in Clicks : Click(c)
  \/ Serve \/ Compose \/ Tick
  \/ HealthAnswered \/ HealthFails
  \/ PageAnswered \/ PageRefused \/ PageFails
  \/ LoadOlder \/ OlderEnds

(* The timer goes off, every request is answered or times out, and if pages *)
(* are asked for again and again, then again and again one is answered.     *)
Fairness ==
  /\ WF_vars(Tick)
  /\ WF_vars(HealthAnswered \/ HealthFails)
  /\ WF_vars(PageAnswered \/ PageRefused \/ PageFails)
  /\ SF_vars(HeadIs("page") /\ Serve) /\ SF_vars(PageAnswered)
  /\ WF_vars(OlderEnds)

Spec == Init /\ [][Next]_vars

-----------------------------------------------------------------------------
TypeOK ==
  /\ feed \in UNION {[1..n -> BOOLEAN] : n \in 0..MaxPosts}
  /\ \A i \in DOMAIN wire :
       /\ wire[i].by \in Clicks \cup {"open", "poll", "composer", "older"}
       /\ wire[i].kind \in {"health", "page", "older"}
       /\ wire[i].since <= Len(feed) /\ wire[i].seen <= Len(feed)
       /\ i > 1 => ~wire[i].served
  /\ shown \subseteq 1..Len(feed) /\ Cardinality(shown) <= MaxKept
  /\ cursor \in 0..Len(feed) /\ unasked \subseteq 1..Len(feed)
  /\ poll \in {"timer", "running", "ended"}
  /\ refreshing \in BOOLEAN /\ stopped \in BOOLEAN

(* The cursor never passes a post unseen, however refreshes overlap and     *)
(* fail and whatever forged posts they find: every good post up to it is in *)
(* the timeline or was newer ones' to displace.  Excepted are the posts a   *)
(* first sync leaves out: those before the page it begins with, and - the   *)
(* code does lose these - those between the ends of two first syncs that    *)
(* overlapped, when /health failed for one and answered for the other.      *)
NothingSkipped ==
  \A q \in 1..cursor \ unasked :
    feed[q] => \/ q \in shown
               \/ Cardinality(shown) = MaxKept /\ q < Min(shown)

(* Every good post is shown in the end, however often requests fail and     *)
(* however many forged posts come before it, as long as the chain of polls  *)
(* lives; excepted are again what first syncs leave out and what newer      *)
(* posts displace.                                                          *)
PostShown ==
  \A q \in 1..MaxPosts :
    (q <= Len(feed) /\ feed[q]) ~>
       (q \in shown \/ q \in unasked \/ poll = "ended"
          \/ (Cardinality(shown) = MaxKept /\ q < Min(shown)))

(* "a definitive service error pauses polling entirely (Retry re-enables    *)
(* it)": while polling is not paused, the chain of polls lives.             *)
PollingAlive == ~stopped => poll # "ended"

(* "fetch the window ending at the oldest known post and keep only what is  *)
(* older": paging back leaves no hole in the timeline.                      *)
NoHoles == \A q \in 1..cursor : feed[q] /\ shown # {} /\ q >= Min(shown) => q \in shown
=============================================================================
