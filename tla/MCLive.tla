------------------------------- MODULE MCLive -------------------------------
(* What must eventually happen, each component on a small instance: a       *)
(* behaviour is one of the component in focus, under that component's       *)
(* fairness, and the others keep their initial state.                       *)
(*   feed:    the timeline of a community and its poller.                   *)
(*   thread:  an open thread, the gaps of which are filled.                 *)
(*   portal:  one view of a workspace beside a provider that loses power.   *)
EXTENDS CommunityFeed

CONSTANTS Focus,
          ThreadPosts, Gone, ThreadKept, MaxDepth, MaxAttempts, MaxQueued,
          alice, v1, o1, PortalKept, MaxTries, None

VARIABLES focus,
          newest, known, open, waiting, fetching, unavailable, attempts,
          log, objects, diskLog, diskObjects, late, mount, shownLog, shownObj,
          storeLog, storeObj, saves, issues, syncPc, nextLog, nextObj, peer,
          asked, ready, batch, failed, pubPc, pubObj, baseLog, baseObj, answer,
          tries, signed, acked

\* Two posts reply to the first, and one to one of those.
Parent == <<0, 1, 1, 3>>

Thread == INSTANCE Threads WITH MaxPosts <- ThreadPosts, MaxKept <- ThreadKept

Portal == INSTANCE Portal WITH
            Users <- {alice}, Views <- {v1}, Owner <- [v \in {v1} |-> alice],
            Posts <- [v \in {v1} |-> {o1}], Syncing <- {v1}, Resetting <- {v1},
            MaxKept <- PortalKept, PowerLoss <- TRUE

ASSUME Thread!ThreadsAssumption

threadVars == <<newest, known, open, waiting, fetching, unavailable, attempts>>
portalVars ==
  <<log, objects, diskLog, diskObjects, late, mount, shownLog, shownObj,
    storeLog, storeObj, saves, issues, syncPc, nextLog, nextObj, peer, asked,
    ready, batch, failed, pubPc, pubObj, baseLog, baseObj, answer, tries,
    signed, acked>>

LiveInit == focus \in Focus /\ Init /\ Thread!Init /\ Portal!Init

LiveNext ==
  /\ UNCHANGED focus
  /\ \/ focus = "feed" /\ Next /\ UNCHANGED <<threadVars, portalVars>>
     \/ focus = "thread" /\ Thread!Next /\ UNCHANGED <<vars, portalVars>>
     \/ focus = "portal" /\ Portal!Next /\ UNCHANGED <<vars, threadVars>>

LiveSpec == LiveInit /\ [][LiveNext]_<<focus, vars, threadVars, portalVars>>
-----------------------------------------------------------------------------
(* The properties of the components, as their modules state them; what must *)
(* happen eventually, under the fairness stated there.                      *)

LiveTypeOK == /\ TypeOK
              /\ focus = "thread" => Thread!TypeOK
              /\ focus = "portal" => Portal!TypeOK

EveryPostShown  == focus = "feed" /\ Fairness => PostShown
EveryGapEnds    == focus = "thread" /\ Thread!Fairness => Thread!GapsEnd
OperationsEnd   == focus = "portal" /\ Portal!Fairness => Portal!OperationsEnd
=============================================================================
