----------------------------- MODULE SphinxNet -----------------------------
(***************************************************************************)
(* Packets of crates/sphinx-core on their way through a mixnet: a client    *)
(* sends messages over paths chosen by MixnetTopology::select_path, hands   *)
(* out reply blocks that it registers in its SurbPool, and accepts replies  *)
(* through the pool.  The network loses, duplicates, reorders and garbles   *)
(* packets.  Every packet built is numbered, and its number stands for the  *)
(* ephemeral key drawn for it.                                              *)
(***************************************************************************)
EXTENDS Sphinx, SurbPool, FiniteSets

CONSTANTS Entries, Mixes, Exits,   \* MixnetTopology, with one layer of mixes
          Client, Service,         \* the client's own node, the service's gateway
          Messages,
          MaxBuilt,                \* bound: packets and reply blocks built
          MaxFlying                \* bound: packets on the wire

VARIABLES
  built,    \* what each was built for: route, destination, identifier
  surbs,    \* reply blocks the service holds
  flying    \* packets on the wire

sphinxVars == <<built, surbs, flying, pool>>

NetAssumption == /\ SphinxAssumption /\ PoolAssumption
                 /\ Messages # {} /\ Noise \notin Messages /\ MaxBuilt \in Nat
                 /\ MaxFlying \in Nat

NetInit == PoolInit /\ built = <<>> /\ surbs = {} /\ flying = {}

(* Path selection: an entry gateway, a mix, and a gateway at the end - an   *)
(* exit for the clearnet.                                                   *)
Paths(last) == {<<e, m, x>> : e \in Entries, m \in Mixes, x \in last}

(* The route of a reply is its creator's to choose, and ends at its node.   *)
Returns == Paths({Client}) \cup {<<m, Client>> : m \in Mixes}

Built(route, destination, identifier) ==
  /\ Len(built) < MaxBuilt /\ Routable(route)
  /\ built' = Append(built, [route |-> route, destination |-> destination,
                             identifier |-> identifier])

(* of, at, said and garbled are ghosts: the packet's number, the hop it is  *)
(* on its way to, its message, and which part of it was damaged.            *)
Packet(to, header, payload, of, said) ==
  [to |-> to, header |-> header, payload |-> payload,
   of |-> of, at |-> 1, said |-> said, garbled |-> "no"]

Room == Cardinality(flying) < MaxFlying

(* Payload::build wraps the last hop's layer first.                         *)
WrapForward(keys, said) == Wrapped(said, [i \in DOMAIN keys |-> keys[Len(keys) + 1 - i]]) \* mutant
PayloadFor(keys, said) == Wrapped(said, keys)
-----------------------------------------------------------------------------
(* The ends.                                                               *)

(* SphinxPacketBuilder::build.                                              *)
Send ==
  \E route \in Paths({Service}) \cup Paths(Exits), m \in Messages, id \in Ids :
    LET r == Len(built) + 1
    IN /\ Room /\ Built(route, Service, id)
       /\ flying' = flying \cup
            {Packet(route[1], BuildHeader(route, Service, id, r),
                    PayloadFor(Derive(route, r), m), r, m)}
       /\ UNCHANGED <<surbs, pool>>

(* create_surb and register_material, and the block given to the service.   *)
CreateSurb(id) ==
  \E route \in Returns :
    LET r == Len(built) + 1
    IN /\ Built(route, Client, id)
       /\ surbs' = surbs \cup {[header |-> BuildHeader(route, Client, id, r),
                                first |-> route[1], keys |-> Derive(route, r), of |-> r]}
       /\ Register(id)
       /\ UNCHANGED flying

(* SurbMaterial::reply leaves the block where it is.                        *)
Reply ==
  \E s \in surbs, m \in Messages :
    /\ Room
    /\ flying' = flying \cup {Packet(s.first, s.header, PayloadFor(s.keys, m), s.of, m)}
    /\ UNCHANGED <<built, surbs, pool>>
-----------------------------------------------------------------------------
(* The nodes: SphinxPacket::process.                                       *)

(* A packet that is processed leaves the wire, unless it is there twice.    *)
Taken(p) == {flying \ {p}} \cup (IF Room THEN {flying} ELSE {})

Forward(p) ==
  LET out == ProcessHeader(p.header, p.to)
  IN /\ out.is = "Forward"
     /\ \E rest \in Taken(p) :
          flying' = rest \cup {[p EXCEPT !.to = out.next, !.header = out.header, !.at = p.at + 1,
                                         !.payload = UnwrapLayer(p.payload, out.key)]}
     /\ UNCHANGED <<built, surbs, pool>>

(* The final hop hands the payload on; the client's consults its pool.      *)
Deliver(p) ==
  LET out == ProcessHeader(p.header, p.to)
  IN /\ out.is = "Final"
     /\ flying' \in Taken(p)
     /\ IF p.to = Client THEN AcceptReply(out.identifier) ELSE UNCHANGED pool
     /\ UNCHANGED <<built, surbs>>

Lose(p) ==
  /\ flying' = flying \ {p}
  /\ UNCHANGED <<built, surbs, pool>>

(* A bit of the routing information or of the payload is flipped.           *)
Garble(p) ==
  /\ p.garbled = "no"
  /\ \/ flying' = (flying \ {p}) \cup
          {[p EXCEPT !.header.routing.enc[1] = Xor(@, {<<"flip">>}), !.garbled = "header"]}
     \/ flying' = (flying \ {p}) \cup
          {[p EXCEPT !.payload = Wrapped(Noise, <<>>), !.garbled = "payload"]}
  /\ UNCHANGED <<built, surbs, pool>>
-----------------------------------------------------------------------------
NetNext ==
  \/ Send \/ Reply
  \/ \E id \in Ids : CreateSurb(id)
  \/ \E p \in flying : Forward(p) \/ Deliver(p) \/ Lose(p) \/ Garble(p)
  \/ (PurgeExpired \/ SetClock) /\ UNCHANGED <<built, surbs, flying>>
-----------------------------------------------------------------------------
NetTypeOK ==
  /\ PoolTypeOK
  /\ \A p \in flying : p.of \in DOMAIN built /\ p.at \in DOMAIN built[p.of].route
  /\ \A s \in surbs : s.of \in DOMAIN built

(* Every hop can open its layer of a header that nobody garbled, and finds  *)
(* there what the sender meant it to: the node after it, or at the last hop *)
(* the destination and the identifier.  Its MAC covers blocks that the hops *)
(* before it shifted in, under a secret that depends on how they blinded    *)
(* the key.                                                                 *)
OnItsRoute ==
  \A p \in flying :
    LET of  == built[p.of]
        out == ProcessHeader(p.header, p.to)
    IN /\ p.to = of.route[p.at]
       /\ p.garbled # "header" =>
            IF p.at < Len(of.route)
            THEN out.is = "Forward" /\ out.next = of.route[p.at + 1]
            ELSE /\ out.is = "Final"
                 /\ out.destination = of.destination /\ out.identifier = of.identifier

(* What a final hop recovers is the message its sender put in, or           *)
(* recognisably nothing - never another message, and never nothing when no  *)
(* one garbled the packet.                                                  *)
Recovered ==
  \A p \in flying :
    LET out == ProcessHeader(p.header, p.to)
    IN out.is = "Final" =>
         RecoverPlaintext(UnwrapLayer(p.payload, out.key)) = (IF p.garbled = "no" THEN p.said ELSE Noise)
=============================================================================
