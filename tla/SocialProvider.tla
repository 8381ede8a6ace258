--------------------------- MODULE SocialProvider ---------------------------
(* What a write to a social provider passes (service.rs, router.rs, rate.rs,*)
(* pow.rs): the freshness of its day, its proof of work, the budget of its  *)
(* bucket and its parent; and how the page comes by the proof (usePow.ts,   *)
(* pow.mjs).  A write is a post, a reply, a profile or a direct message.    *)
(*                                                                          *)
(* The provider handles one request at a time (run_loop), so a handler is   *)
(* one step.  A proof is the difficulty it was searched for and what it     *)
(* binds; the budgets, and the difficulty, live as long as the process.     *)
EXTENDS Integers, Sequences, FiniteSets

CONSTANTS Authors, None,
          Days, Window,     \* the days of the provider's clock; 2 in the code
          PerDay,           \* RatePolicy.max_per_day
          Difficulties,     \* what SOCIAL_POW_BITS may be
          MaxWrites, MaxRestarts   \* bounds

(* What a write is answered.                                                *)
Answers == {"ok", "stale", "pow", "rate", "parent", "error"}

ProviderAssumption ==
  /\ Days \subseteq Nat /\ Window \in Nat /\ PerDay \in Nat
  /\ Difficulties \subseteq Nat /\ Difficulties # {}
  /\ MaxWrites \in Nat /\ MaxRestarts \in Nat /\ None \notin Nat \cup Answers

VARIABLES
  day,       \* today(): the clock may be set back
  bits,      \* PowGuard
  used,      \* RateLimiter: what each bucket spent on each day
  posts,     \* of each post the write it came from, its parent, and when it came
  profiles,  \* of each author the write the profile came from
  boots,     \* the restarts so far
  known,     \* powBitsCache, for the one address
  writes     \* what the user wrote so far, and what became of it

vars == <<day, bits, used, posts, profiles, boots, known, writes>>
provider == <<day, bits, used, posts, profiles, boots>>

Kinds == {"post", "profile", "dm"}
Buckets == {"author", "dm"} \X Authors
Unused == [b \in Buckets |-> [d \in Days |-> 0]]

Init == /\ day \in Days /\ bits \in Difficulties /\ used = Unused
        /\ posts = <<>> /\ profiles = [a \in Authors |-> None] /\ boots = 0
        /\ known = None /\ writes = <<>>
-----------------------------------------------------------------------------
(* The page.                                                                *)

ForgetsParent(w) == \* mutant: a proof for a post would do for a reply
  <<w.author, w.kind, w.text>>
(* The key and the payload a proof binds: the author's or the recipient's   *)
(* key with postPowPayload, the profile or the ciphertext.                  *)
PowPayload(w) == <<w.author, w.kind, w.text, w.parent>>

(* The day of a post is taken, and signed, before the proof is searched,    *)
(* that of a profile (see Prove) after; a message has none.  A reply's      *)
(* parent may be one the provider does not have, which is 0.                *)
Begin(a, kind) ==
  /\ Len(writes) < MaxWrites
  /\ \E parent \in IF kind = "post" THEN {None, 0} \cup DOMAIN posts ELSE {None} :
       writes' = Append(writes,
         [author |-> a, kind |-> kind, text |-> Len(writes) + 1, parent |-> parent,
          day |-> IF kind = "post" THEN day ELSE None, bits |-> known,
          proof |-> None, answer |-> None, needed |-> None,
          step |-> IF known = None THEN "asking" ELSE "proving"])
  /\ UNCHANGED <<provider, known>>

(* powFor reads the descriptor, once for an address; a failure counts as no *)
(* difficulty.                                                              *)
Described(n) ==
  /\ writes[n].step = "asking"
  /\ writes' = [writes EXCEPT ![n].bits = bits, ![n].step = "read"]
  /\ UNCHANGED <<provider, known>>

Knows(n, b) ==
  /\ known' = b
  /\ writes' = [writes EXCEPT ![n].bits = b, ![n].step = "proving"]
  /\ UNCHANGED provider

DescriptorRead(n)  == writes[n].step = "read" /\ Knows(n, writes[n].bits)
DescriptorFails(n) == writes[n].step \in {"asking", "read"} /\ Knows(n, 0)

(* provePow gives up after so many attempts, and the request goes without.  *)
Prove(n) ==
  LET w == writes[n]
  IN /\ w.step = "proving"
     /\ \E proof \in IF w.bits = 0 THEN {None}
                     ELSE {None, [bits |-> w.bits, of |-> PowPayload(w)]} :
          writes' = [writes EXCEPT ![n].proof = proof, ![n].step = "sent",
                                   ![n].day = IF w.kind = "profile" THEN day ELSE @]
     /\ UNCHANGED <<provider, known>>

(* What was sent stays on its way, and may arrive late or never.            *)
Reload ==
  /\ known' = None
  /\ writes' = [n \in DOMAIN writes |->
                  [writes[n] EXCEPT !.step = IF @ \in {"sent", "done"} THEN @ ELSE "gone"]]
  /\ UNCHANGED provider
-----------------------------------------------------------------------------
(* The provider.                                                            *)

Fresh(w) == w.day - day \in -Window..Window

VerifyJson(w) ==
  \/ bits = 0
  \/ /\ w.proof # None /\ w.proof.bits >= bits
     /\ w.proof.of = <<w.author, w.kind, w.text, w.parent>>

BucketOf(w) == IF w.kind = "dm" THEN <<"dm", w.author>> ELSE <<"author", w.author>>

Spend(b) == used' = [used EXCEPT ![b][day] = @ + 1]

Refusal(w) ==
  CASE w.kind # "dm" /\ ~Fresh(w)         -> "stale"
    [] ~VerifyJson(w)                     -> "pow"
    [] used[BucketOf(w)][day] >= PerDay   -> "rate"
    [] OTHER                              -> None

(* The answer to request n, which the page may be waiting for or not.       *)
Answer(n, answer) ==
  /\ writes[n].step = "sent"
  /\ writes' = [writes EXCEPT ![n].answer = answer, ![n].needed = bits, ![n].step = "done"]

Refuse(n) ==
  /\ Answer(n, Refusal(writes[n]))
  /\ Refusal(writes[n]) # None
  /\ UNCHANGED <<provider, known>>

(* What a write that passed the guards costs, stored or not.                *)
Admitted(n) == Refusal(writes[n]) = None /\ Spend(BucketOf(writes[n]))

(* The parent is looked up after the budget was spent; the database may     *)
(* refuse, too.                                                             *)
Reject(n) ==
  /\ Answer(n, IF writes[n].parent = 0 THEN "parent" ELSE "error") /\ Admitted(n)
  /\ UNCHANGED <<day, bits, posts, profiles, boots, known>>

InsertPost(n) ==
  LET w == writes[n]
  IN /\ w.kind = "post" /\ w.parent # 0 /\ Admitted(n) /\ Answer(n, "ok")
     /\ posts' = Append(posts, [write |-> n, parent |-> w.parent, on |-> day, boot |-> boots])
     /\ UNCHANGED <<day, bits, profiles, boots, known>>

(* A profile replaces whatever there is: its signature covers no day.       *)
UpsertProfile(n) ==
  /\ writes[n].kind = "profile" /\ Answer(n, "ok") /\ Admitted(n)
  /\ profiles' = [profiles EXCEPT ![writes[n].author] = n]
  /\ UNCHANGED <<day, bits, posts, boots, known>>

StoreDm(n) ==
  /\ writes[n].kind = "dm" /\ Admitted(n) /\ Answer(n, "ok")
  /\ UNCHANGED <<day, bits, posts, profiles, boots, known>>

Restart ==
  /\ boots < MaxRestarts /\ boots' = boots + 1
  /\ bits' \in Difficulties /\ used' = Unused
  /\ UNCHANGED <<day, posts, profiles, known, writes>>

ClockSteps ==
  /\ day' \in Days /\ day' - day \in {-1, 1}
  /\ UNCHANGED <<bits, used, posts, profiles, boots, known, writes>>

Next ==
  \/ \E a \in Authors, kind \in Kinds : Begin(a, kind)
  \/ \E n \in DOMAIN writes :
       \/ Described(n) \/ DescriptorRead(n) \/ DescriptorFails(n) \/ Prove(n)
       \/ Refuse(n) \/ Reject(n) \/ InsertPost(n) \/ UpsertProfile(n) \/ StoreDm(n)
  \/ Reload \/ Restart \/ ClockSteps

Spec == Init /\ [][Next]_vars
-----------------------------------------------------------------------------
TypeOK ==
  /\ day \in Days /\ bits \in Difficulties /\ boots \in 0..MaxRestarts
  /\ used \in [Buckets -> [Days -> 0..PerDay]]
  /\ known \in Difficulties \cup {0, None}
  /\ profiles \in [Authors -> DOMAIN writes \cup {None}]

(* A proof is refused only if the page did not know the difficulty that was *)
(* then required - it could not read the descriptor, or the provider was    *)
(* started with another - or found none: the page binds in a proof what the *)
(* provider binds.                                                          *)
ProofsAgree ==
  \A n \in DOMAIN writes : writes[n].answer = "pow" =>
    writes[n].bits < writes[n].needed \/ writes[n].proof = None

(* A post is stored exactly if it was answered so, once, behind its parent, *)
(* and of no author more than PerDay on one day, however the clock is set,  *)
(* as long as the provider runs.                                            *)
PostsAccounted ==
  /\ \A n \in DOMAIN writes :
       Cardinality({i \in DOMAIN posts : posts[i].write = n}) =
         IF writes[n].kind = "post" /\ writes[n].answer = "ok" THEN 1 ELSE 0
  /\ \A i \in DOMAIN posts : posts[i].parent # None => posts[i].parent \in 1..i - 1
  /\ \A i \in DOMAIN posts :
       Cardinality({j \in DOMAIN posts :
         /\ posts[j].on = posts[i].on /\ posts[j].boot = posts[i].boot
         /\ writes[posts[j].write].author = writes[posts[i].write].author}) <= PerDay
=============================================================================
