------------------------------ MODULE MCMixnet ------------------------------
(* Requests through the mixnet, from the browser down to the packets:       *)
(* components that share no state, each on a small instance.  A behaviour   *)
(* is one of the component in focus, and the variables of the others stay   *)
(* as they are.                                                             *)
(*   clearnet: two page loads, with cookies, passwords and the cache.       *)
(*   request: a single call to an older provider beside a batch to a        *)
(*            current one (FetchNym).                                       *)
(*   tunnel:  two page loads beside the user's connect, disconnect and      *)
(*            reconnect.                                                    *)
(*   packets: Sphinx packets and reply blocks over paths of three hops.     *)
(*   pool:    the pool of reply blocks by itself, over more times.          *)
(*   tracker: the client's memory of the replies it has processed.          *)
EXTENDS MCFetchNym, SphinxNet

CONSTANTS Focus,       \* the components to check
          PacketIds, PacketTimes,   \* bounds on Ids and on now beside packets
          Fetches, MaxSetups,
          Keys, Ttl, MaxEntries,
          Loads, MaxRedirects, MaxCookies, MaxPages, MaxVersion, MayMove, Session

VARIABLES focus,
          setup, up, memo, spent, op, fetch, awaits, busy, forgotten,
          entries, due,
          jar, disk, creds, pages, broken, calls, shown, docs, clock

tunnelVars  == <<setup, up, memo, spent, op, fetch, awaits, busy, forgotten>>
packetVars  == <<built, surbs, flying>>
trackerVars == <<entries, due>>
webVars     == <<jar, disk, creds, pages, broken, calls, shown, docs, clock>>

(* Page a, on a secure host below the domain top, asks for a password and   *)
(* may redirect to page b, which is on another host.                        *)
Urls     == {"a", "b"}
Host     == "a" :> "sub" @@ "b" :> "other"
Secure   == "a" :> TRUE @@ "b" :> FALSE
Within   == {<<"sub", "sub">>, <<"top", "top">>, <<"other", "other">>, <<"sub", "top">>}
Covers   == {<<"a", "/">>, <<"b", "/">>, <<"a", "/p">>}
Moves    == "a" :> {"a", "b"} @@ "b" :> {"b"}
Cookie(domain, secure, life) ==
  [name |-> "k", domain |-> domain, path |-> "/", secure |-> secure, life |-> life]
Offers   == {Cookie(None, FALSE, Session), Cookie(None, FALSE, 0), Cookie("top", TRUE, 1)}

Web == INSTANCE Clearnet WITH
         Calls <- Loads, now <- clock, MaxNow <- 1, Protected <- {"a"}, Passwords <- {"good"},
         Right <- "good"
Mix     == INSTANCE Tunnel
Tracker == INSTANCE ReplyTracker

ASSUME MixnetAssumption ==
       /\ NetAssumption /\ Mix!TunnelAssumption /\ Tracker!TrackerAssumption
       /\ Web!ClearnetAssumption /\ Web!NullAssumption

MixnetInit ==
  /\ focus \in Focus
  /\ Init /\ NetInit
  /\ IF focus = "tunnel" THEN Mix!Init
     ELSE setup = 0 /\ up = 0 /\ memo = 0 /\ spent = 0 /\ op = 0 /\ fetch = 0
          /\ awaits = 0 /\ busy = 0 /\ forgotten = 0
  /\ IF focus = "tracker" THEN Tracker!Init ELSE entries = 0 /\ due = 0
  /\ IF focus = "clearnet" THEN Web!Init
     ELSE jar = 0 /\ disk = 0 /\ creds = 0 /\ pages = 0 /\ broken = 0 /\ calls = 0
          /\ shown = 0 /\ docs = 0 /\ clock = 0

MixnetNext ==
  /\ UNCHANGED focus
  /\ \/ focus = "clearnet" /\ Web!Next
        /\ UNCHANGED <<vars, sphinxVars, tunnelVars, trackerVars>>
     \/ focus = "request" /\ Next
        /\ UNCHANGED <<sphinxVars, tunnelVars, trackerVars, webVars>>
     \/ focus = "tunnel" /\ Mix!Next
        /\ UNCHANGED <<vars, sphinxVars, trackerVars, webVars>>
     \/ /\ focus = "packets" /\ NetNext
        /\ now' \in PacketTimes /\ DOMAIN issued' \subseteq PacketIds
        /\ UNCHANGED <<vars, tunnelVars, trackerVars, webVars>>
     \/ focus = "pool" /\ PoolNext
        /\ UNCHANGED <<vars, packetVars, tunnelVars, trackerVars, webVars>>
     \/ focus = "tracker" /\ Tracker!Next
        /\ UNCHANGED <<vars, packetVars, tunnelVars, webVars,
                       issued, consumed, answered, fresh>>

mixnetVars == <<focus, vars, sphinxVars, tunnelVars, trackerVars, webVars>>

MixnetSpec == MixnetInit /\ [][MixnetNext]_mixnetVars

-----------------------------------------------------------------------------
(* The properties of the components, as their modules state them; those of  *)
(* FetchNym and SurbPool hold in every state.                               *)

MixnetTypeOK == /\ TypeOK /\ NetTypeOK
                /\ focus = "tunnel"  => Mix!TypeOK
                /\ focus = "tracker" => Tracker!TypeOK
                /\ focus = "clearnet" => Web!TypeOK

TunnelFound   == focus = "tunnel"  => Mix!TunnelFound
Delivered     == OnItsRoute /\ Recovered
NoReplay      == focus = "tracker" => Tracker!NoReplay
JarSaved      == focus = "clearnet" => Web!JarSaved

LoadsBelong == [][focus = "clearnet" => Web!HeadersBelong /\ Web!ShownIsCurrent]_mixnetVars
=============================================================================
