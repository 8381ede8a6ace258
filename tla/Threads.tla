------------------------------ MODULE Threads -------------------------------
(***************************************************************************)
(* The open thread of a community and the filling of its gaps: threads.ts   *)
(* and the part of useCommunityFeed.ts that fetches posts by their id.      *)
(*                                                                          *)
(* The timeline keeps the newest posts.  When a thread is open, an effect   *)
(* that runs after every change of the posts, of the ids being fetched and  *)
(* of those given up asks for the first ancestor that is not there; fetches *)
(* queue and run one at a time.  Post q is the q-th of the community.       *)
(***************************************************************************)
EXTENDS Naturals, Sequences, FiniteSets, SequencesExt

CONSTANTS MaxPosts,     \* posts of the community
          Parent,       \* Parent[q]: the post q replies to, 0 for none
          Gone,         \* posts the provider does not have, or has forged
          MaxKept,      \* MAX_KEPT_POSTS
          MaxDepth,     \* MAX_THREAD_DEPTH
          MaxAttempts,  \* MAX_GAP_FETCH_ATTEMPTS
          MaxQueued     \* bound: fetches waiting

Posts == 1..MaxPosts

ThreadsAssumption ==
  /\ MaxPosts \in Nat /\ MaxKept \in Nat \ {0} /\ MaxDepth \in Nat \ {0}
  /\ MaxAttempts \in Nat \ {0} /\ Gone \subseteq Posts
  /\ Parent \in [Posts -> 0..MaxPosts] /\ \A q \in Posts : Parent[q] < q

VARIABLES
  newest,       \* the latest post a poll has brought
  known,        \* posts of the timeline
  open,         \* openThreadId, 0 for none
  waiting,      \* gapChainRef: the fetches queued, in order
  fetching,     \* the one under way, 0 for none (fetchingIds)
  unavailable,  \* unavailableIds
  attempts      \* gapAttemptsRef

vars == <<newest, known, open, waiting, fetching, unavailable, attempts>>

Init ==
  /\ newest = 0 /\ known = {} /\ open = 0 /\ waiting = <<>> /\ fetching = 0
  /\ unavailable = {} /\ attempts = [q \in Posts |-> 0]
-----------------------------------------------------------------------------
(* mergeFeedPosts: the newest posts.                                       *)
Merged(posts) ==
  LET all == known \cup posts
  IN {q \in all : Cardinality({p \in all : p > q}) < MaxKept}

(* missingAncestors: up from q, the first post that is not there; 0 if      *)
(* there is none, or none within the depth walked.                          *)
Missing(q, there) ==
  LET Up[d \in 0..MaxDepth, p \in 0..MaxPosts] ==
        IF p = 0 \/ d = 0 THEN 0
        ELSE IF p \notin there THEN p ELSE Up[d - 1, Parent[p]]
  IN Up[MaxDepth, q]

(* buildThread: the posts that reply to the root, those that reply to them  *)
(* and so on, level by level.                                               *)
Frontier(root, there) ==
  LET Level[d \in 0..MaxDepth] ==
        IF d = 0 THEN {root} ELSE {q \in there : Parent[q] \in Level[d - 1]}
  IN Level
Replies(root, there) ==
  IF root \in there THEN UNION {Frontier(root, there)[d] : d \in 1..MaxDepth} ELSE {}

(* What is missing above the root, and above its replies.                   *)
GapsOf(root, there) ==
  {Missing(q, there) : q \in {root} \cup Replies(root, there)} \ {0}

(* What follows a step: the chain starts its next fetch if none is under    *)
(* way, then the effect runs on the posts as they are now, and what it      *)
(* queues starts if nothing else does.  It queues a gap unless it is being  *)
(* fetched or was given up: one that only waits is queued again.            *)
Wants(root, there, busy, given) ==
  IF root = 0 THEN {} ELSE GapsOf(root, there) \ ({busy} \cup given)

Effect(root, there, busy, given) ==
  LET starts == busy = 0 /\ waiting # <<>>
      next   == IF starts THEN Head(waiting) ELSE busy
      queue  == (IF starts THEN Tail(waiting) ELSE waiting)
                  \o SetToSeq(Wants(root, there, next, given))
  IN IF next = 0 /\ queue # <<>>
     THEN fetching' = Head(queue) /\ waiting' = Tail(queue)
     ELSE fetching' = next /\ waiting' = queue /\ Len(queue) <= MaxQueued
-----------------------------------------------------------------------------
(* A page of the timeline comes in.                                         *)
Arrive(n) ==
  /\ newest + n <= MaxPosts /\ newest' = newest + n
  /\ known' = Merged((newest + 1 .. newest + n) \ Gone)
  /\ Effect(open, known', fetching, unavailable)
  /\ UNCHANGED <<open, unavailable, attempts>>

(* showThread, or a link with #thread=: any post, there or not.             *)
ShowThread(q) ==
  /\ q # open /\ open' = q
  /\ Effect(q, known, fetching, unavailable)
  /\ UNCHANGED <<newest, known, unavailable, attempts>>

CloseThread ==
  /\ open # 0 /\ open' = 0
  /\ UNCHANGED <<newest, known, waiting, fetching, unavailable, attempts>>

Settle(there, given) == Effect(open, there, 0, given)

Fetched ==
  /\ fetching # 0 /\ fetching \notin Gone /\ fetching <= newest
  /\ known' = Merged({fetching}) /\ attempts' = [attempts EXCEPT ![fetching] = 0]
  /\ Settle(known', unavailable)
  /\ UNCHANGED <<newest, open, unavailable>>

(* No such post, one whose signature does not hold, or an error.            *)
OnlyForgets(q) == UNCHANGED unavailable  \* mutant: the post is not given up
GiveUp(q) == unavailable' = unavailable \cup {q}

Refused ==
  /\ fetching # 0
  /\ GiveUp(fetching)
  /\ Settle(known, unavailable')
  /\ UNCHANGED <<newest, known, open, attempts>>

(* noteGapAttempt: no answer; after a few of them the post is given up.     *)
Exhausted(q) == attempts[q] + 1 >= MaxAttempts

Fails ==
  /\ fetching # 0
  /\ attempts' = [attempts EXCEPT ![fetching] = IF Exhausted(fetching) THEN 0 ELSE @ + 1]
  /\ IF Exhausted(fetching) THEN GiveUp(fetching) ELSE UNCHANGED unavailable
  /\ Settle(known, unavailable')
  /\ UNCHANGED <<newest, known, open>>

Next == \/ \E n \in 1..2 : Arrive(n)
        \/ \E q \in Posts : ShowThread(q)
        \/ CloseThread \/ Fetched \/ Refused \/ Fails

(* Every fetch is answered or times out.                                    *)
Fairness == WF_vars(Fetched \/ Refused \/ Fails)
-----------------------------------------------------------------------------
TypeOK ==
  /\ known \subseteq 1..newest /\ Cardinality(known) <= MaxKept
  /\ open \in 0..MaxPosts /\ fetching \in 0..MaxPosts
  /\ Len(waiting) <= MaxQueued /\ unavailable \subseteq Posts
  /\ attempts \in [Posts -> 0..MaxAttempts]
  /\ fetching = 0 => waiting = <<>>

(* The gap of the open thread lies before every post that is kept: once it  *)
(* is fetched it is dropped at once.                                        *)
Displaced ==
  /\ Cardinality(known) = MaxKept
  /\ \E q \in GapsOf(open, known) : \A p \in known : q < p

(* "Guards make this terminate": whichever threads are opened and however   *)
(* fetches fail, again and again no fetch is under way (or the thread is    *)
(* closed) - unless a post is missing that is older than all that may be    *)
(* kept.                                                                    *)
GapsEnd == []<>(fetching = 0 \/ open = 0 \/ Displaced)
=============================================================================
