------------------------------- MODULE Sphinx -------------------------------
(***************************************************************************)
(* The Sphinx packet format of crates/sphinx-core: header.rs, payload.rs,   *)
(* packet.rs and surb.rs as operators.                                      *)
(*                                                                          *)
(* The header's routing information is counted in blocks of 60 bytes (a     *)
(* hop's routing block with the MAC of the next), MaxPath of them.  A block *)
(* is the set of what was xored together; a keystream block, a plaintext    *)
(* block and a MAC are each a term that nothing else equals; a point of the *)
(* curve is the set of the scalars it was multiplied by.                    *)
(***************************************************************************)
EXTENDS Naturals, Sequences

CONSTANT MaxPath    \* MAX_PATH_LENGTH

SphinxAssumption == MaxPath \in Nat \ {0}

Xor(a, b) == (a \ b) \cup (b \ a)
Keystream(key, j) == {<<"keystream", key, j>>}
HeaderMac(key, enc) == <<"mac", key, enc>>

(* blind_alpha: the point multiplied by the blinding factor of a secret.    *)
Blind(point, secret) == point \cup {<<"blinding", secret>>}

(* The secret of each hop: its public key multiplied by the ephemeral r and *)
(* the blinding factors of all the hops before it.                          *)
Derive(route, r) ==
  LET Secret[i \in DOMAIN route] ==
        {<<"node", route[i]>>, <<"ephemeral", r>>}
          \cup {<<"blinding", Secret[j]>> : j \in 1..i - 1}
  IN Secret

-----------------------------------------------------------------------------
(* The header.                                                             *)

(* What the hops before the last will have shifted in: each hop grows it by *)
(* a block and xors the tail of its keystream into all of it.               *)
Filler(secrets) ==
  LET Grown[i \in 0..Len(secrets)] ==
        IF i = 0 THEN <<>>
        ELSE [j \in 1..i |-> Xor(IF j < i THEN Grown[i - 1][j] ELSE {},
                                 Keystream(secrets[i], MaxPath + 1 - i + j))]
  IN Grown[Len(secrets)]

Sealed(enc, key) == [enc |-> enc, mac |-> HeaderMac(key, enc)]

(* The innermost layer: the final block, random padding, then the filler.   *)
FinalHop(destination, identifier, key, filler) ==
  LET padded == MaxPath - Len(filler)
      plain  == [j \in 1..padded |-> IF j = 1 THEN {<<"final", destination, identifier>>}
                                              ELSE {<<"padding", key, j>>}]
  IN Sealed([j \in 1..padded |-> Xor(plain[j], Keystream(key, j))] \o filler, key)

(* Each hop around it: where to, the MAC found there, and all but the last  *)
(* block of what is found there.                                            *)
ForwardHop(next, inner, key) ==
  LET plain == <<{<<"forward", next, inner.mac>>}>> \o SubSeq(inner.enc, 1, MaxPath - 1)
  IN Sealed([j \in 1..MaxPath |-> Xor(plain[j], Keystream(key, j))], key)

(* SphinxHeader::build refuses an empty or too long route.                  *)
Routable(route) == Len(route) \in 1..MaxPath

BuildHeader(route, destination, identifier, r) ==
  LET n      == Len(route)
      secret == Derive(route, r)
      Layer[i \in 1..n] ==
        IF i = n
        THEN FinalHop(destination, identifier, secret[n], Filler(SubSeq(secret, 1, n - 1)))
        ELSE ForwardHop(route[i + 1], Layer[i + 1], secret[i])
  IN [alpha |-> {<<"ephemeral", r>>}, routing |-> Layer[1]]

(* SphinxHeader::process at a node.                                         *)
ProcessHeader(header, node) ==
  LET key  == header.alpha \cup {<<"node", node>>}
      enc  == header.routing.enc
      open == [j \in 1..MaxPath + 1 |-> Xor(IF j <= MaxPath THEN enc[j] ELSE {},
                                            Keystream(key, j))]
      kind == {t[1] : t \in open[1]}
  IN IF header.routing.mac # HeaderMac(key, enc) THEN [is |-> "InvalidHeaderMac"]
     ELSE IF kind = {"forward"}
     THEN LET block == CHOOSE t \in open[1] : TRUE
          IN [is |-> "Forward", key |-> key, next |-> block[2],
              header |-> [alpha   |-> Blind(header.alpha, key),
                          routing |-> [enc |-> Tail(open), mac |-> block[3]]]]
     ELSE IF kind = {"final"}
     THEN LET block == CHOOSE t \in open[1] : TRUE
          IN [is |-> "Final", key |-> key, destination |-> block[2], identifier |-> block[3]]
     ELSE [is |-> "UnknownRoutingFlag"]

-----------------------------------------------------------------------------
(* The payload: the keys still around it, and what is inside.  A wide-block *)
(* cipher turns anything but the very ciphertext into noise.                *)

Noise == "noise"
Wrapped(message, keys) == [layers |-> keys, body |-> message]

UnwrapLayer(payload, key) ==
  IF payload.layers # <<>> /\ Head(payload.layers) = key
  THEN [payload EXCEPT !.layers = Tail(payload.layers)]
  ELSE Wrapped(Noise, <<>>)

(* recover_plaintext: leading zeros only survive if every layer did.        *)
RecoverPlaintext(payload) == IF payload.layers = <<>> THEN payload.body ELSE Noise
=============================================================================
