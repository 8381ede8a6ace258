--------------------------- MODULE PortalsProofs ----------------------------
(* Two of the components that go with the portals: a social provider and    *)
(* its guards (SocialProvider), and the workspaces of one device            *)
(* (Workspaces).                                                            *)
(*                                                                          *)
(* provider: ProviderInv counts the posts of an author by the day they were *)
(* let through and by the start of the provider (Budgets): what is left of  *)
(* a budget bounds what is stored since the last start, and Restart, which  *)
(* forgets the budgets, comes before anything is stored after it.           *)
(*                                                                          *)
(* workspaces: SpaceInv says that the workspace on the screen signs with    *)
(* the key in storage and, if nobody is careless, that the screen, what is  *)
(* under way and the storage agree on who has the old replica (Knows), and  *)
(* that an import is under way beside nothing else (ImportsAlone), so that  *)
(* nothing that began before it can overwrite what it brought.              *)
EXTENDS MCPortals, ListProofs, FiniteSetTheorems

portalsVars == <<focus, vars, spaceVars, replica, trustVars, socialVars>>

-----------------------------------------------------------------------------
(* provider: what a write passes.                                           *)

Steps  == {"asking", "read", "proving", "sent", "done", "gone"}
Proofs == [bits : Nat, of : Authors \X Social!Kinds \X Nat \X (Nat \cup {None})]
WriteType ==
  [author : Authors, kind : Social!Kinds, text : Nat, parent : Nat \cup {None},
   day : Days \cup {None}, bits : Nat \cup {None}, proof : Proofs \cup {None},
   answer : Social!Answers \cup {None}, needed : Nat \cup {None}, step : Steps]
PostType == [write : Nat, parent : Nat \cup {None}, on : Days, boot : Nat]

(* A proof binds what its write is, for the difficulty the page knew; it is *)
(* there from the moment the write is sent, and a refusal for it means that *)
(* the page knew less than was asked for.  A parent is a post that is there.*)
WriteGood(w, count) ==
  /\ w.proof # None => w.proof = [bits |-> w.bits, of |-> Social!PowPayload(w)] /\ w.bits \in Nat
                       /\ w.step \in {"sent", "done"}
  /\ w.step \in {"read", "proving"} => w.bits \in Nat
  /\ w.answer # None => w.step = "done"
  /\ w.answer = "pow" => w.proof = None \/ w.bits < w.needed
  /\ w.parent \in {None, 0} \cup 1..count

IsStored(w) == w.kind = "post" /\ w.answer = "ok"

(* What an author has stored of a day since a start of the provider.        *)
PostsOf(a, d, b) ==
  {j \in DOMAIN served : served[j].on = d /\ served[j].boot = b /\ writes[served[j].write].author = a}

Budgets ==
  \A a \in Authors, d \in Days, b \in Nat :
    /\ IsFiniteSet(PostsOf(a, d, b)) /\ Cardinality(PostsOf(a, d, b)) <= PerDay
    /\ b = boots => Cardinality(PostsOf(a, d, b)) <= used[<<"author", a>>][d]
    /\ b > boots => PostsOf(a, d, b) = {}

Stored ==
  /\ \A i \in 1..Len(served) : /\ served[i].write \in 1..Len(writes) /\ IsStored(writes[served[i].write])
                               /\ served[i].boot <= boots
                               /\ served[i].parent # None => served[i].parent \in 1..i - 1
  /\ \A n \in 1..Len(writes) : IsStored(writes[n]) => \E i \in 1..Len(served) : served[i].write = n
  /\ \A i, j \in 1..Len(served) : served[i].write = served[j].write => i = j

ProviderTypes ==
  /\ day \in Days /\ bits \in Nat /\ boots \in Nat /\ known \in Nat \cup {None}
  /\ used \in [Social!Buckets -> [Days -> 0..PerDay]]
  /\ writes \in Seq(WriteType) /\ served \in Seq(PostType)

ProviderInv ==
  /\ ProviderTypes /\ Stored /\ Budgets
  /\ \A n \in 1..Len(writes) : WriteGood(writes[n], Len(served))

LEMMA ProviderAssumed ==
  /\ Days \subseteq Nat /\ PerDay \in Nat /\ Difficulties \subseteq Nat
  /\ None \notin Nat /\ None \notin Social!Answers /\ None # "ok" /\ None # "pow"
<1>1. Social!ProviderAssumption
  BY PortalsAssumption
<1> QED BY <1>1 DEF Social!ProviderAssumption, Social!Answers

LEMMA ProviderStart ==
  ASSUME Social!Init
  PROVE  ProviderInv
<1>1. /\ day \in Days /\ bits \in Difficulties /\ used = [b \in Social!Buckets |-> [d \in Days |-> 0]]
      /\ served = <<>> /\ boots = 0 /\ known = None /\ writes = <<>>
  BY DEF Social!Init, Social!Unused
<1>2. DOMAIN served = {} /\ Len(served) = 0 /\ Len(writes) = 0 /\ writes \in Seq(WriteType) /\ served \in Seq(PostType)
  BY <1>1
<1>3. ProviderTypes
  <2>1. used \in [Social!Buckets -> [Days -> 0..PerDay]]
    BY <1>1, ProviderAssumed
  <2> QED BY <1>1, <1>2, <2>1, ProviderAssumed DEF ProviderTypes
<1>4. Stored
  BY <1>2 DEF Stored
<1>5. Budgets
  <2>1. \A a, d, b : PostsOf(a, d, b) = {}
    BY <1>2 DEF PostsOf
  <2>2. IsFiniteSet({}) /\ Cardinality({}) = 0
    BY FS_EmptySet
  <2>3. \A a \in Authors : <<"author", a>> \in Social!Buckets
    BY DEF Social!Buckets
  <2>4. \A a \in Authors, d \in Days : used[<<"author", a>>][d] = 0
    BY <1>1, <2>3
  <2> QED BY <2>1, <2>2, <2>4, ProviderAssumed DEF Budgets
<1> QED BY <1>2, <1>3, <1>4, <1>5 DEF ProviderInv

(* The fields that change of a write.                                       *)
Rewritten(w, d, b, p, a, k, s) ==
  [author |-> w.author, kind |-> w.kind, text |-> w.text, parent |-> w.parent,
   day |-> d, bits |-> b, proof |-> p, answer |-> a, needed |-> k, step |-> s]

LEMMA WriteIs ==
  ASSUME NEW w \in WriteType
  PROVE  /\ w = Rewritten(w, w.day, w.bits, w.proof, w.answer, w.needed, w.step)
         /\ w.author \in Authors /\ w.kind \in Social!Kinds /\ w.text \in Nat /\ w.parent \in Nat \cup {None}
         /\ w.day \in Days \cup {None} /\ w.bits \in Nat \cup {None} /\ w.proof \in Proofs \cup {None}
         /\ w.answer \in Social!Answers \cup {None} /\ w.needed \in Nat \cup {None} /\ w.step \in Steps
BY DEF WriteType, Rewritten

Fits(d, b, p, a, k, s) ==
  /\ d \in Days \cup {None} /\ b \in Nat \cup {None} /\ p \in Proofs \cup {None}
  /\ a \in Social!Answers \cup {None} /\ k \in Nat \cup {None} /\ s \in Steps

LEMMA RewrittenIs ==
  ASSUME NEW w \in WriteType, NEW d, NEW b, NEW p, NEW a, NEW k, NEW s, Fits(d, b, p, a, k, s),
         NEW r, r = Rewritten(w, d, b, p, a, k, s)
  PROVE  /\ r \in WriteType
         /\ r.author = w.author /\ r.kind = w.kind /\ r.text = w.text /\ r.parent = w.parent
         /\ r.day = d /\ r.bits = b /\ r.proof = p /\ r.answer = a /\ r.needed = k /\ r.step = s
<1>1. /\ w.author \in Authors /\ w.kind \in Social!Kinds /\ w.text \in Nat /\ w.parent \in Nat \cup {None}
  BY WriteIs
<1> QED BY <1>1 DEF WriteType, Rewritten, Fits

LEMMA WriteAt ==
  ASSUME ProviderInv, NEW n \in DOMAIN writes
  PROVE  /\ n \in 1..Len(writes) /\ writes[n] \in WriteType /\ WriteGood(writes[n], Len(served))
<1>1. n \in 1..Len(writes)
  BY DEF ProviderInv, ProviderTypes
<1>2. PICK T : T = WriteType
  OBVIOUS
<1>3. writes[n] \in T
  BY <1>1, <1>2, ElementOfSeq DEF ProviderInv, ProviderTypes
<1> QED BY <1>1, <1>2, <1>3 DEF ProviderInv

-----------------------------------------------------------------------------
LEMMA UsedIs ==
  ASSUME ProviderInv, NEW b \in Social!Buckets, NEW d \in Days
  PROVE  used[b][d] \in Nat /\ used[b][d] <= PerDay
<1>1. used \in [Social!Buckets -> [Days -> 0..PerDay]]
  BY DEF ProviderInv, ProviderTypes
<1>2. used[b][d] \in 0..PerDay
  BY <1>1
<1>3. PICK x : x = used[b][d]
  OBVIOUS
<1>4. x \in Nat /\ x <= PerDay
  BY <1>2, <1>3, ProviderAssumed
<1> QED BY <1>3, <1>4

(* A step stores no post: what is answered may change, as long as no post   *)
(* is said to be stored, and budgets are only spent.                        *)
LEMMA NothingServed ==
  ASSUME ProviderInv, served' = served, boots' = boots, ProviderTypes', Len(writes) <= Len(writes'),
         \A n \in 1..Len(writes) : /\ writes'[n].author = writes[n].author
                                   /\ IsStored(writes'[n]) <=> IsStored(writes[n]),
         \A n \in 1..Len(writes') : n > Len(writes) => ~IsStored(writes'[n]),
         \A a \in Authors, d \in Days : used[<<"author", a>>][d] <= used'[<<"author", a>>][d],
         \A n \in 1..Len(writes') : WriteGood(writes'[n], Len(served))
  PROVE  ProviderInv'
<1>1. Len(writes) \in Nat /\ Len(writes') \in Nat /\ Len(served) \in Nat /\ DOMAIN served = 1..Len(served)
  BY DEF ProviderInv, ProviderTypes
<1>2. Stored'
  <2>1. \A i \in 1..Len(served') : /\ served'[i].write \in 1..Len(writes') /\ IsStored(writes'[served'[i].write])
                                   /\ served'[i].boot <= boots'
                                   /\ served'[i].parent # None => served'[i].parent \in 1..i - 1
    BY <1>1 DEF ProviderInv, Stored
  <2>2. \A n \in 1..Len(writes') : IsStored(writes'[n]) => \E i \in 1..Len(served') : served'[i].write = n
    <3>1. \A n \in 1..Len(writes) : IsStored(writes[n]) => \E i \in 1..Len(served) : served[i].write = n
      BY DEF ProviderInv, Stored
    <3>2. SUFFICES ASSUME NEW n \in 1..Len(writes'), IsStored(writes'[n])
                   PROVE  \E i \in 1..Len(served) : served[i].write = n
      OBVIOUS
    <3>3. n \in 1..Len(writes)
      BY <1>1, <3>2
    <3> QED BY <3>1, <3>2, <3>3
  <2>3. \A i, j \in 1..Len(served') : served'[i].write = served'[j].write => i = j
    BY DEF ProviderInv, Stored
  <2> QED BY <2>1, <2>2, <2>3 DEF Stored, IsStored
<1>3. \A a, d, b : PostsOf(a, d, b)' = PostsOf(a, d, b)
  <2>1. \A j \in DOMAIN served : writes'[served[j].write].author = writes[served[j].write].author
    BY <1>1 DEF ProviderInv, Stored
  <2> QED BY <2>1 DEF PostsOf
<1>4. Budgets'
  <2>1. Budgets
    BY DEF ProviderInv
  <2> SUFFICES ASSUME NEW a \in Authors, NEW d \in Days, NEW b \in Nat
               PROVE  /\ IsFiniteSet(PostsOf(a, d, b)') /\ Cardinality(PostsOf(a, d, b)') <= PerDay
                      /\ b = boots' => Cardinality(PostsOf(a, d, b)') <= used'[<<"author", a>>][d]
                      /\ b > boots' => PostsOf(a, d, b)' = {}
    BY DEF Budgets
  <2>2. PICK S : S = PostsOf(a, d, b)
    OBVIOUS
  <2>3. /\ IsFiniteSet(S) /\ Cardinality(S) <= PerDay
        /\ b = boots => Cardinality(S) <= used[<<"author", a>>][d]
        /\ b > boots => S = {}
    BY <2>1, <2>2 DEF Budgets
  <2>4. PostsOf(a, d, b)' = S
    BY <1>3, <2>2
  <2>5. PICK c : c = Cardinality(S)
    OBVIOUS
  <2>6. c \in Nat
    BY <2>3, <2>5, FS_CardinalityType
  <2>7. b = boots => c <= used'[<<"author", a>>][d]
    <3>1. PICK x : x = used[<<"author", a>>][d]
      OBVIOUS
    <3>2. PICK y : y = used'[<<"author", a>>][d]
      OBVIOUS
    <3>3. x \in Nat /\ y \in Nat
      <4>1. <<"author", a>> \in Social!Buckets
        BY DEF Social!Buckets
      <4>2. used \in [Social!Buckets -> [Days -> 0..PerDay]] /\ used' \in [Social!Buckets -> [Days -> 0..PerDay]]
        BY DEF ProviderInv, ProviderTypes
      <4>3. x \in 0..PerDay /\ y \in 0..PerDay
        BY <3>1, <3>2, <4>1, <4>2
      <4> QED BY <4>3
    <3>4. x <= y
      BY <3>1, <3>2
    <3>5. b = boots => c <= x
      BY <2>3, <2>5, <3>1
    <3>6. b = boots => c <= y
      BY <2>6, <3>3, <3>4, <3>5
    <3> QED BY <3>2, <3>6
  <2> QED BY <2>3, <2>4, <2>5, <2>7
<1>5. \A n \in 1..Len(writes') : WriteGood(writes'[n], Len(served'))
  OBVIOUS
<1> QED BY <1>2, <1>4, <1>5 DEF ProviderInv, WriteGood, Social!PowPayload

(* The page changes what it sent and will send, and not what is stored.     *)
LEMMA PageStep ==
  ASSUME ProviderInv, UNCHANGED <<day, bits, used, served, profiles, boots>>, known' \in Nat \cup {None},
         writes' \in Seq(WriteType), Len(writes') = Len(writes),
         \A n \in 1..Len(writes) : /\ WriteGood(writes'[n], Len(served))
                                   /\ writes'[n].author = writes[n].author /\ writes'[n].kind = writes[n].kind
                                   /\ writes'[n].answer = writes[n].answer
  PROVE  ProviderInv'
<1>1. ProviderTypes'
  BY DEF ProviderInv, ProviderTypes
<1>2. Len(writes) \in Nat /\ Len(writes) <= Len(writes')
  BY DEF ProviderInv, ProviderTypes
<1>3. \A n \in 1..Len(writes) : /\ writes'[n].author = writes[n].author
                                /\ IsStored(writes'[n]) <=> IsStored(writes[n])
  BY DEF IsStored
<1>4. \A n \in 1..Len(writes') : n > Len(writes) => ~IsStored(writes'[n])
  BY <1>2
<1>5. \A a \in Authors, d \in Days : used[<<"author", a>>][d] <= used'[<<"author", a>>][d]
  <2> TAKE a \in Authors, d \in Days
  <2>1. used[<<"author", a>>][d] \in Nat
    BY UsedIs DEF Social!Buckets
  <2> QED BY <2>1
<1>6. \A n \in 1..Len(writes') : WriteGood(writes'[n], Len(served))
  OBVIOUS
<1> QED BY <1>1, <1>2, <1>3, <1>4, <1>5, <1>6, NothingServed

(* One write becomes another, the page's own doing.                         *)
LEMMA PageSets ==
  ASSUME ProviderInv, UNCHANGED <<day, bits, used, served, profiles, boots>>, known' \in Nat \cup {None},
         NEW n \in DOMAIN writes, NEW r \in WriteType, writes' = [writes EXCEPT ![n] = r],
         WriteGood(r, Len(served)), r.author = writes[n].author, r.kind = writes[n].kind,
         r.answer = writes[n].answer
  PROVE  ProviderInv'
<1>1. writes \in Seq(WriteType) /\ Len(writes) \in Nat /\ n \in 1..Len(writes)
  BY DEF ProviderInv, ProviderTypes
<1>2. writes' \in Seq(WriteType) /\ Len(writes') = Len(writes)
  <2>1. PICK T : T = WriteType
    OBVIOUS
  <2>2. writes \in Seq(T) /\ r \in T
    BY <1>1, <2>1
  <2>3. writes' \in Seq(T) /\ Len(writes') = Len(writes)
    BY <1>1, <2>2
  <2> QED BY <2>1, <2>3
<1>3. \A m \in 1..Len(writes) : writes'[m] = IF m = n THEN r ELSE writes[m]
  BY <1>1
<1>4. \A m \in 1..Len(writes) : WriteGood(writes[m], Len(served))
  BY DEF ProviderInv
<1>5. \A m \in 1..Len(writes) : /\ WriteGood(writes'[m], Len(served))
                                /\ writes'[m].author = writes[m].author /\ writes'[m].kind = writes[m].kind
                                /\ writes'[m].answer = writes[m].answer
  <2> TAKE m \in 1..Len(writes)
  <2>1. CASE m = n
    <3>1. writes'[m] = r
      BY <1>3, <2>1
    <3> QED BY <2>1, <3>1
  <2>2. CASE m # n
    <3>1. writes'[m] = writes[m]
      BY <1>3, <2>2
    <3> QED BY <1>4, <3>1
  <2> QED BY <2>1, <2>2
<1> QED BY <1>2, <1>5, PageStep

LEMMA DescribedKeeps ==
  ASSUME ProviderInv, NEW n \in DOMAIN writes, Social!Described(n)
  PROVE  ProviderInv'
<1> DEFINE w == writes[n]
<1>1. n \in 1..Len(writes) /\ w \in WriteType /\ WriteGood(w, Len(served)) /\ bits \in Nat /\ known \in Nat \cup {None}
  BY WriteAt DEF ProviderInv, ProviderTypes
<1>2. PICK r : r = Rewritten(w, w.day, bits, w.proof, w.answer, w.needed, "read")
  OBVIOUS
<1>3. w.step = "asking" /\ UNCHANGED <<day, bits, used, served, profiles, boots, known>>
  BY DEF Social!Described, Social!provider
<1>4. writes' = [writes EXCEPT ![n] = r]
  <2>1. writes' = [writes EXCEPT ![n] = [[@ EXCEPT !.bits = bits] EXCEPT !.step = "read"]]
    BY DEF Social!Described
  <2>2. w = Rewritten(w, w.day, w.bits, w.proof, w.answer, w.needed, w.step)
    BY <1>1, WriteIs
  <2>3. PICK v : v = [w EXCEPT !.bits = bits]
    OBVIOUS
  <2>4. v = Rewritten(w, w.day, bits, w.proof, w.answer, w.needed, w.step)
    BY <2>2, <2>3 DEF Rewritten
  <2>5. [v EXCEPT !.step = "read"] = r
    BY <1>2, <2>4 DEF Rewritten
  <2> HIDE DEF w
  <2> QED BY <2>1, <2>3, <2>5 DEF w
<1>5. w.day \in Days \cup {None} /\ w.proof \in Proofs \cup {None} /\ w.answer \in Social!Answers \cup {None}
      /\ w.needed \in Nat \cup {None}
  BY <1>1, WriteIs
<1>6. /\ r \in WriteType
      /\ r.author = w.author /\ r.kind = w.kind /\ r.text = w.text /\ r.parent = w.parent
      /\ r.bits = bits /\ r.proof = w.proof /\ r.answer = w.answer /\ r.step = "read"
  <2>1. Fits(w.day, bits, w.proof, w.answer, w.needed, "read")
    BY <1>1, <1>5 DEF Fits, Steps
  <2> QED BY <1>1, <1>2, <2>1, RewrittenIs
<1>7. WriteGood(r, Len(served))
  <2>1. w.proof = None /\ w.answer = None /\ w.parent \in {None, 0} \cup 1..Len(served)
    BY <1>1, <1>3 DEF WriteGood
  <2> QED BY <1>1, <1>6, <2>1, ProviderAssumed DEF WriteGood
<1> HIDE DEF w
<1> QED BY <1>1, <1>3, <1>4, <1>6, <1>7, PageSets DEF w

LEMMA KnowsKeeps ==
  ASSUME ProviderInv, NEW n \in DOMAIN writes, NEW b \in Nat, writes[n].step \in {"asking", "read"},
         Social!Knows(n, b)
  PROVE  ProviderInv'
<1> DEFINE w == writes[n]
<1>1. n \in 1..Len(writes) /\ w \in WriteType /\ WriteGood(w, Len(served))
  BY WriteAt DEF ProviderInv, ProviderTypes
<1>2. PICK r : r = Rewritten(w, w.day, b, w.proof, w.answer, w.needed, "proving")
  OBVIOUS
<1>3. known' = b /\ UNCHANGED <<day, bits, used, served, profiles, boots>>
  BY DEF Social!Knows, Social!provider
<1>4. writes' = [writes EXCEPT ![n] = r]
  <2>1. writes' = [writes EXCEPT ![n] = [[@ EXCEPT !.bits = b] EXCEPT !.step = "proving"]]
    BY DEF Social!Knows
  <2>2. w = Rewritten(w, w.day, w.bits, w.proof, w.answer, w.needed, w.step)
    BY <1>1, WriteIs
  <2>3. PICK v : v = [w EXCEPT !.bits = b]
    OBVIOUS
  <2>4. v = Rewritten(w, w.day, b, w.proof, w.answer, w.needed, w.step)
    BY <2>2, <2>3 DEF Rewritten
  <2>5. [v EXCEPT !.step = "proving"] = r
    BY <1>2, <2>4 DEF Rewritten
  <2> HIDE DEF w
  <2> QED BY <2>1, <2>3, <2>5 DEF w
<1>5. w.day \in Days \cup {None} /\ w.proof \in Proofs \cup {None} /\ w.answer \in Social!Answers \cup {None}
      /\ w.needed \in Nat \cup {None}
  BY <1>1, WriteIs
<1>6. /\ r \in WriteType
      /\ r.author = w.author /\ r.kind = w.kind /\ r.text = w.text /\ r.parent = w.parent
      /\ r.bits = b /\ r.proof = w.proof /\ r.answer = w.answer /\ r.step = "proving"
  <2>1. Fits(w.day, b, w.proof, w.answer, w.needed, "proving")
    BY <1>1, <1>5 DEF Fits, Steps
  <2> QED BY <1>1, <1>2, <2>1, RewrittenIs
<1>7. WriteGood(r, Len(served))
  <2>1. w.proof = None /\ w.answer = None /\ w.parent \in {None, 0} \cup 1..Len(served)
    BY <1>1 DEF WriteGood
  <2> QED BY <1>1, <1>6, <2>1, ProviderAssumed DEF WriteGood
<1> HIDE DEF w
<1> QED BY <1>1, <1>3, <1>4, <1>6, <1>7, PageSets DEF w

LEMMA ProveKeeps ==
  ASSUME ProviderInv, NEW n \in DOMAIN writes, Social!Prove(n)
  PROVE  ProviderInv'
<1> DEFINE w == writes[n]
           binding == [bits |-> w.bits, of |-> Social!PowPayload(w)]
<1>1. n \in 1..Len(writes) /\ w \in WriteType /\ WriteGood(w, Len(served)) /\ day \in Days /\ known \in Nat \cup {None}
  BY WriteAt DEF ProviderInv, ProviderTypes
<1>2. w.step = "proving" /\ UNCHANGED <<day, bits, used, served, profiles, boots, known>>
  BY DEF Social!Prove, Social!provider
<1>3. PICK p \in {None, binding} :
        writes' = [writes EXCEPT ![n].proof = p, ![n].step = "sent",
                                 ![n].day = IF w.kind = "profile" THEN day ELSE @]
  BY DEF Social!Prove
<1>4. PICK d : d = IF w.kind = "profile" THEN day ELSE w.day
  OBVIOUS
<1>5. PICK r : r = Rewritten(w, d, w.bits, p, w.answer, w.needed, "sent")
  OBVIOUS
<1>6. writes' = [writes EXCEPT ![n] = r]
  <2>1. PICK g : g = [writes EXCEPT ![n].proof = p, ![n].step = "sent"]
    OBVIOUS
  <2>2. PICK v : v = [[w EXCEPT !.proof = p] EXCEPT !.step = "sent"]
    OBVIOUS
  <2>3. g = [writes EXCEPT ![n] = v]
    BY <2>1, <2>2
  <2>4. DOMAIN g = DOMAIN writes /\ g[n] = v
    BY <2>3
  <2>5. w = Rewritten(w, w.day, w.bits, w.proof, w.answer, w.needed, w.step)
    BY <1>1, WriteIs
  <2>6. v = Rewritten(w, w.day, w.bits, p, w.answer, w.needed, "sent")
    <3>1. PICK u : u = [w EXCEPT !.proof = p]
      OBVIOUS
    <3>2. u = Rewritten(w, w.day, w.bits, p, w.answer, w.needed, w.step)
      BY <2>5, <3>1 DEF Rewritten
    <3>3. [u EXCEPT !.step = "sent"] = Rewritten(w, w.day, w.bits, p, w.answer, w.needed, "sent")
      BY <3>2 DEF Rewritten
    <3> QED BY <2>2, <3>1, <3>3
  <2>7. v.day = w.day
    BY <2>6 DEF Rewritten
  <2>8. writes' = [g EXCEPT ![n].day = IF w.kind = "profile" THEN day ELSE @]
    BY <1>3, <2>1
  <2>9. writes' = [g EXCEPT ![n].day = d]
    <3> HIDE DEF w
    <3> QED BY <1>4, <2>4, <2>7, <2>8
  <2>10. writes' = [g EXCEPT ![n] = [v EXCEPT !.day = d]]
    BY <2>4, <2>9
  <2>11. [v EXCEPT !.day = d] = r
    BY <1>5, <2>6 DEF Rewritten
  <2> QED BY <2>3, <2>10, <2>11
<1>7. /\ w.day \in Days \cup {None} /\ w.answer \in Social!Answers \cup {None} /\ w.needed \in Nat \cup {None}
      /\ w.author \in Authors /\ w.kind \in Social!Kinds /\ w.text \in Nat /\ w.parent \in Nat \cup {None}
  BY <1>1, WriteIs
<1>8. w.bits \in Nat /\ w.answer = None /\ w.parent \in {None, 0} \cup 1..Len(served)
  BY <1>1, <1>2 DEF WriteGood
<1>9. p \in Proofs \cup {None} /\ d \in Days \cup {None}
  BY <1>1, <1>3, <1>4, <1>7, <1>8 DEF Proofs, Social!PowPayload
<1>10. /\ r \in WriteType
       /\ r.author = w.author /\ r.kind = w.kind /\ r.text = w.text /\ r.parent = w.parent
       /\ r.bits = w.bits /\ r.proof = p /\ r.answer = w.answer /\ r.step = "sent"
  <2>1. Fits(d, w.bits, p, w.answer, w.needed, "sent")
    BY <1>7, <1>8, <1>9 DEF Fits, Steps
  <2> HIDE DEF w, binding
  <2> QED BY <1>1, <1>5, <2>1, RewrittenIs
<1>11. WriteGood(r, Len(served))
  <2>1. Social!PowPayload(r) = Social!PowPayload(w)
    BY <1>10 DEF Social!PowPayload
  <2>2. p # None => p = [bits |-> r.bits, of |-> Social!PowPayload(r)] /\ r.bits \in Nat
    BY <1>3, <1>8, <1>10, <2>1
  <2> HIDE DEF w, binding
  <2> QED BY <1>8, <1>10, <2>2, ProviderAssumed DEF WriteGood
<1> HIDE DEF w, binding
<1> QED BY <1>1, <1>2, <1>6, <1>10, <1>11, PageSets DEF w

LEMMA ReloadKeeps ==
  ASSUME ProviderInv, Social!Reload
  PROVE  ProviderInv'
<1>1. known' = None /\ UNCHANGED <<day, bits, used, served, profiles, boots>>
  BY DEF Social!Reload, Social!provider
<1>2. writes \in Seq(WriteType) /\ Len(writes) \in Nat /\ DOMAIN writes = 1..Len(writes)
  BY DEF ProviderInv, ProviderTypes
<1>3. writes' = [n \in DOMAIN writes |->
                   [writes[n] EXCEPT !.step = IF @ \in {"sent", "done"} THEN @ ELSE "gone"]]
  BY DEF Social!Reload
<1>4. \A n \in 1..Len(writes) :
        /\ writes'[n] \in WriteType
        /\ WriteGood(writes'[n], Len(served))
        /\ writes'[n].author = writes[n].author /\ writes'[n].kind = writes[n].kind
        /\ writes'[n].answer = writes[n].answer
  <2> TAKE n \in 1..Len(writes)
  <2>1. PICK w : w = writes[n]
    OBVIOUS
  <2>2. w \in WriteType /\ WriteGood(w, Len(served))
    BY <1>2, <2>1, WriteAt
  <2>3. PICK s : s = IF w.step \in {"sent", "done"} THEN w.step ELSE "gone"
    OBVIOUS
  <2>4. PICK r : r = Rewritten(w, w.day, w.bits, w.proof, w.answer, w.needed, s)
    OBVIOUS
  <2>5. writes'[n] = r
    <3>1. writes'[n] = [w EXCEPT !.step = IF @ \in {"sent", "done"} THEN @ ELSE "gone"]
      BY <1>2, <1>3, <2>1
    <3>2. w = Rewritten(w, w.day, w.bits, w.proof, w.answer, w.needed, w.step)
      BY <2>2, WriteIs
    <3>3. [w EXCEPT !.step = IF @ \in {"sent", "done"} THEN @ ELSE "gone"] = [w EXCEPT !.step = s]
      BY <2>3, <3>2 DEF Rewritten
    <3>4. [w EXCEPT !.step = s] = r
      BY <2>4, <3>2 DEF Rewritten
    <3> QED BY <3>1, <3>3, <3>4
  <2>6. /\ w.day \in Days \cup {None} /\ w.bits \in Nat \cup {None} /\ w.proof \in Proofs \cup {None}
        /\ w.answer \in Social!Answers \cup {None} /\ w.needed \in Nat \cup {None} /\ s \in Steps
    BY <2>2, <2>3, WriteIs DEF Steps
  <2>7. /\ r \in WriteType
        /\ r.author = w.author /\ r.kind = w.kind /\ r.text = w.text /\ r.parent = w.parent
        /\ r.bits = w.bits /\ r.proof = w.proof /\ r.answer = w.answer /\ r.needed = w.needed /\ r.step = s
    <3>1. Fits(w.day, w.bits, w.proof, w.answer, w.needed, s)
      BY <2>6 DEF Fits
    <3> QED BY <2>2, <2>4, <3>1, RewrittenIs
  <2>8. WriteGood(r, Len(served))
    <3>1. Social!PowPayload(r) = Social!PowPayload(w)
      BY <2>7 DEF Social!PowPayload
    <3>2. /\ w.step \in {"sent", "done"} => s = w.step
          /\ s \notin {"read", "proving"}
          /\ w.answer # None => s = "done"
          /\ w.proof # None => s \in {"sent", "done"}
      BY <2>2, <2>3 DEF WriteGood
    <3> QED BY <2>2, <2>7, <3>1, <3>2 DEF WriteGood
  <2> QED BY <2>1, <2>5, <2>7, <2>8
<1>5. writes' \in Seq(WriteType) /\ Len(writes') = Len(writes)
  <2>1. PICK T : T = WriteType
    OBVIOUS
  <2>2. DOMAIN writes' = 1..Len(writes) /\ writes' = [n \in 1..Len(writes) |-> writes'[n]]
    BY <1>2, <1>3
  <2>3. writes' \in [1..Len(writes) -> T]
    BY <1>4, <2>1, <2>2
  <2>4. writes' \in Seq(T)
    BY <1>2, <2>3, SeqDef
  <2> QED BY <1>2, <2>1, <2>2, <2>4, LenProperties
<1> QED BY <1>1, <1>4, <1>5, PageStep

(* A new write, with what the page knows of the difficulty.                 *)
LEMMA BeginKeeps ==
  ASSUME ProviderInv, NEW a \in Authors, NEW kind \in Social!Kinds, Social!Begin(a, kind)
  PROVE  ProviderInv'
<1>1. /\ writes \in Seq(WriteType) /\ Len(writes) \in Nat /\ Len(served) \in Nat /\ DOMAIN served = 1..Len(served)
      /\ day \in Days /\ known \in Nat \cup {None}
  BY DEF ProviderInv, ProviderTypes
<1>2. UNCHANGED <<day, bits, used, served, profiles, boots, known>>
  BY DEF Social!Begin, Social!provider
<1>3. PICK p \in {None, 0} \cup DOMAIN served :
        writes' = Append(writes,
         [author |-> a, kind |-> kind, text |-> Len(writes) + 1, parent |-> p,
          day |-> IF kind = "post" THEN day ELSE None, bits |-> known,
          proof |-> None, answer |-> None, needed |-> None,
          step |-> IF known = None THEN "asking" ELSE "proving"])
  BY DEF Social!Begin
<1>4. PICK d : d = IF kind = "post" THEN day ELSE None
  OBVIOUS
<1>5. PICK s : s = IF known = None THEN "asking" ELSE "proving"
  OBVIOUS
<1>6. PICK w : w = [author |-> a, kind |-> kind, text |-> Len(writes) + 1, parent |-> p, day |-> d, bits |-> known,
                    proof |-> None, answer |-> None, needed |-> None, step |-> s]
  OBVIOUS
<1>7. writes' = Append(writes, w)
  BY <1>3, <1>4, <1>5, <1>6
<1>8. w \in WriteType
  <2>1. d \in Days \cup {None} /\ s \in Steps /\ p \in Nat \cup {None}
    BY <1>1, <1>3, <1>4, <1>5 DEF Steps
  <2> QED BY <1>1, <1>6, <2>1 DEF WriteType
<1>9. WriteGood(w, Len(served)) /\ ~IsStored(w)
  <2>1. /\ w.proof = None /\ w.answer = None /\ w.parent = p /\ w.bits = known /\ w.step = s
    BY <1>6
  <2>2. w.step \in {"read", "proving"} => w.bits \in Nat
    BY <1>1, <1>5, <2>1
  <2>3. w.parent \in {None, 0} \cup 1..Len(served)
    BY <1>1, <1>3, <2>1
  <2> QED BY <2>1, <2>2, <2>3, ProviderAssumed DEF WriteGood, IsStored
<1>10. /\ writes' \in Seq(WriteType) /\ Len(writes') = Len(writes) + 1 /\ writes'[Len(writes) + 1] = w
       /\ \A n \in 1..Len(writes) : writes'[n] = writes[n]
  <2>1. PICK T : T = WriteType
    OBVIOUS
  <2>2. writes \in Seq(T) /\ w \in T
    BY <1>1, <1>8, <2>1
  <2> QED BY <1>7, <2>1, <2>2, AppendProperties
<1>11. ProviderTypes'
  BY <1>2, <1>10 DEF ProviderInv, ProviderTypes
<1>12. \A n \in 1..Len(writes') : n > Len(writes) => n = Len(writes) + 1
  BY <1>1, <1>10
<1>13. \A n \in 1..Len(writes') : n > Len(writes) => ~IsStored(writes'[n])
  <2> TAKE n \in 1..Len(writes')
  <2> HAVE n > Len(writes)
  <2>1. n = Len(writes) + 1
    BY <1>12
  <2> QED BY <1>9, <1>10, <2>1
<1>14. \A n \in 1..Len(writes') : WriteGood(writes'[n], Len(served))
  <2> TAKE n \in 1..Len(writes')
  <2>1. CASE n \in 1..Len(writes)
    <3>1. WriteGood(writes[n], Len(served)) /\ writes'[n] = writes[n]
      BY <1>10, <2>1 DEF ProviderInv
    <3> QED BY <3>1
  <2>2. CASE n \notin 1..Len(writes)
    <3>1. n = Len(writes) + 1
      BY <1>1, <1>10, <1>12, <2>2
    <3> QED BY <1>9, <1>10, <3>1
  <2> QED BY <2>1, <2>2
<1>15. \A n \in 1..Len(writes) : /\ writes'[n].author = writes[n].author
                                 /\ IsStored(writes'[n]) <=> IsStored(writes[n])
  BY <1>10
<1>16. \A c \in Authors, e \in Days : used[<<"author", c>>][e] <= used'[<<"author", c>>][e]
  <2> TAKE c \in Authors, e \in Days
  <2>1. used[<<"author", c>>][e] \in Nat
    BY UsedIs DEF Social!Buckets
  <2> QED BY <1>2, <2>1
<1>17. Len(writes) <= Len(writes')
  BY <1>1, <1>10
<1> QED BY <1>2, <1>11, <1>13, <1>14, <1>15, <1>16, <1>17, NothingServed

-----------------------------------------------------------------------------
(* The provider: what an answer changes, and what it costs.                 *)
Settled(n, ans) ==
  /\ writes' \in Seq(WriteType) /\ Len(writes') = Len(writes)
  /\ \A m \in 1..Len(writes) : m # n => writes'[m] = writes[m]
  /\ writes'[n].author = writes[n].author /\ writes'[n].kind = writes[n].kind
  /\ writes'[n].parent = writes[n].parent /\ writes'[n].answer = ans
  /\ writes[n].answer = None
  /\ \A m \in 1..Len(writes) : WriteGood(writes'[m], Len(served))

LEMMA AnswerSettles ==
  ASSUME ProviderInv, NEW n \in DOMAIN writes, NEW ans \in Social!Answers, Social!Answer(n, ans),
         ans = "pow" => ~Social!VerifyJson(writes[n])
  PROVE  Settled(n, ans)
<1> DEFINE w == writes[n]
<1>1. n \in 1..Len(writes) /\ w \in WriteType /\ WriteGood(w, Len(served)) /\ bits \in Nat
      /\ writes \in Seq(WriteType) /\ Len(writes) \in Nat
  BY WriteAt DEF ProviderInv, ProviderTypes
<1>2. w.step = "sent" /\ writes' = [writes EXCEPT ![n].answer = ans, ![n].needed = bits, ![n].step = "done"]
  BY DEF Social!Answer
<1>3. PICK r : r = Rewritten(w, w.day, w.bits, w.proof, ans, bits, "done")
  OBVIOUS
<1>4. writes' = [writes EXCEPT ![n] = r]
  <2>1. writes' = [writes EXCEPT ![n] = [[[@ EXCEPT !.answer = ans] EXCEPT !.needed = bits] EXCEPT !.step = "done"]]
    BY <1>2
  <2>2. w = Rewritten(w, w.day, w.bits, w.proof, w.answer, w.needed, w.step)
    BY <1>1, WriteIs
  <2>3. PICK u : u = [w EXCEPT !.answer = ans]
    OBVIOUS
  <2>4. PICK v : v = [u EXCEPT !.needed = bits]
    OBVIOUS
  <2>5. u = Rewritten(w, w.day, w.bits, w.proof, ans, w.needed, w.step)
    BY <2>2, <2>3 DEF Rewritten
  <2>6. v = Rewritten(w, w.day, w.bits, w.proof, ans, bits, w.step)
    BY <2>4, <2>5 DEF Rewritten
  <2>7. [v EXCEPT !.step = "done"] = r
    BY <1>3, <2>6 DEF Rewritten
  <2> HIDE DEF w
  <2> QED BY <2>1, <2>3, <2>4, <2>7 DEF w
<1>5. w.day \in Days \cup {None} /\ w.proof \in Proofs \cup {None} /\ w.bits \in Nat \cup {None}
  BY <1>1, WriteIs
<1>6. /\ r \in WriteType
      /\ r.author = w.author /\ r.kind = w.kind /\ r.text = w.text /\ r.parent = w.parent
      /\ r.bits = w.bits /\ r.proof = w.proof /\ r.answer = ans /\ r.needed = bits /\ r.step = "done"
  <2>1. Fits(w.day, w.bits, w.proof, ans, bits, "done")
    BY <1>1, <1>5 DEF Fits, Steps
  <2> HIDE DEF w
  <2> QED BY <1>1, <1>3, <2>1, RewrittenIs
<1>7. w.answer = None /\ w.parent \in {None, 0} \cup 1..Len(served)
      /\ (w.proof # None => w.proof = [bits |-> w.bits, of |-> Social!PowPayload(w)] /\ w.bits \in Nat)
  BY <1>1, <1>2 DEF WriteGood
<1>8. ans = "pow" => w.proof = None \/ w.bits < bits
  <2> SUFFICES ASSUME ans = "pow", w.proof # None PROVE w.bits < bits
    OBVIOUS
  <2>1. ~(w.proof # None /\ w.proof.bits >= bits /\ w.proof.of = <<w.author, w.kind, w.text, w.parent>>)
    BY DEF Social!VerifyJson
  <2>2. w.proof.bits = w.bits /\ w.proof.of = <<w.author, w.kind, w.text, w.parent>>
    BY <1>7 DEF Social!PowPayload
  <2>3. ~(w.bits >= bits) /\ w.bits \in Nat
    BY <1>7, <2>1, <2>2
  <2> HIDE DEF w
  <2> QED BY <1>1, <2>3
<1>9. WriteGood(r, Len(served))
  <2>1. Social!PowPayload(r) = Social!PowPayload(w)
    BY <1>6 DEF Social!PowPayload
  <2> HIDE DEF w
  <2> QED BY <1>6, <1>7, <1>8, <2>1 DEF WriteGood
<1>10. writes' \in Seq(WriteType) /\ Len(writes') = Len(writes) /\ writes'[n] = r
       /\ \A m \in 1..Len(writes) : m # n => writes'[m] = writes[m]
  <2>1. PICK T : T = WriteType
    OBVIOUS
  <2>2. writes \in Seq(T) /\ r \in T
    BY <1>1, <1>6, <2>1
  <2>3. writes' \in Seq(T) /\ Len(writes') = Len(writes) /\ writes'[n] = r
        /\ \A m \in 1..Len(writes) : m # n => writes'[m] = writes[m]
    BY <1>1, <1>4, <2>2
  <2> QED BY <2>1, <2>3
<1>11. \A m \in 1..Len(writes) : WriteGood(writes'[m], Len(served))
  <2> TAKE m \in 1..Len(writes)
  <2>1. CASE m = n
    BY <1>9, <1>10, <2>1
  <2>2. CASE m # n
    <3>1. writes'[m] = writes[m] /\ WriteGood(writes[m], Len(served))
      BY <1>10, <2>2 DEF ProviderInv
    <3> QED BY <3>1
  <2> QED BY <2>1, <2>2
<1> HIDE DEF w
<1> QED BY <1>6, <1>7, <1>10, <1>11 DEF Settled, w

(* An answer that is no stored post.                                        *)
LEMMA SettledKeeps ==
  ASSUME ProviderInv, NEW n \in DOMAIN writes, NEW ans, Settled(n, ans), writes[n].kind = "post" => ans # "ok",
         UNCHANGED <<day, bits, served, boots, known>>,
         used' \in [Social!Buckets -> [Days -> 0..PerDay]],
         \A b \in Social!Buckets, d \in Days : used[b][d] <= used'[b][d]
  PROVE  ProviderInv'
<1>1. Len(writes) \in Nat /\ n \in 1..Len(writes)
  BY DEF ProviderInv, ProviderTypes
<1>2. ProviderTypes'
  BY DEF ProviderInv, ProviderTypes, Settled
<1>3. Len(writes') = Len(writes) /\ Len(writes) <= Len(writes')
  BY <1>1 DEF Settled
<1>4. \A m \in 1..Len(writes) : /\ writes'[m].author = writes[m].author
                                /\ IsStored(writes'[m]) <=> IsStored(writes[m])
  <2> TAKE m \in 1..Len(writes)
  <2>1. CASE m = n
    <3>1. writes'[n].author = writes[n].author /\ writes'[n].kind = writes[n].kind /\ writes'[n].answer = ans
          /\ writes[n].answer = None
      BY DEF Settled
    <3>2. ~IsStored(writes'[n]) /\ ~IsStored(writes[n])
      BY <3>1, ProviderAssumed DEF IsStored
    <3> QED BY <2>1, <3>1, <3>2
  <2>2. CASE m # n
    <3>1. writes'[m] = writes[m]
      BY <2>2 DEF Settled
    <3> QED BY <3>1
  <2> QED BY <2>1, <2>2
<1>5. \A m \in 1..Len(writes') : m > Len(writes) => ~IsStored(writes'[m])
  BY <1>1, <1>3
<1>6. \A a \in Authors, d \in Days : used[<<"author", a>>][d] <= used'[<<"author", a>>][d]
  BY DEF Social!Buckets
<1>7. \A m \in 1..Len(writes') : WriteGood(writes'[m], Len(served))
  BY <1>3 DEF Settled
<1> QED BY <1>2, <1>3, <1>4, <1>5, <1>6, <1>7, NothingServed

LEMMA RefuseKeeps ==
  ASSUME ProviderInv, NEW n \in DOMAIN writes, Social!Refuse(n)
  PROVE  ProviderInv'
<1>1. PICK ans : ans = Social!Refusal(writes[n])
  OBVIOUS
<1>2. Social!Answer(n, ans) /\ ans # None /\ UNCHANGED <<day, bits, used, served, profiles, boots, known>>
  BY <1>1 DEF Social!Refuse, Social!provider
<1>3. ans \in {"stale", "pow", "rate"} /\ (ans = "pow" => ~Social!VerifyJson(writes[n]))
  BY <1>1, <1>2 DEF Social!Refusal
<1>4. Settled(n, ans)
  <2>1. ans \in Social!Answers
    BY <1>3 DEF Social!Answers
  <2> QED BY <1>2, <1>3, <2>1, AnswerSettles
<1>5. used' \in [Social!Buckets -> [Days -> 0..PerDay]]
  BY <1>2 DEF ProviderInv, ProviderTypes
<1>6. \A b \in Social!Buckets, d \in Days : used[b][d] <= used'[b][d]
  <2> TAKE b \in Social!Buckets, d \in Days
  <2>1. used[b][d] \in Nat
    BY UsedIs
  <2> QED BY <1>2, <2>1
<1>7. ans # "ok"
  BY <1>3
<1> QED BY <1>2, <1>4, <1>5, <1>6, <1>7, SettledKeeps

(* A write that passed the guards spends one of its bucket's day.           *)
LEMMA AdmittedIs ==
  ASSUME ProviderInv, NEW n \in DOMAIN writes, Social!Admitted(n)
  PROVE  /\ used' \in [Social!Buckets -> [Days -> 0..PerDay]]
         /\ \A b \in Social!Buckets, d \in Days : used[b][d] <= used'[b][d]
         /\ Social!BucketOf(writes[n]) \in Social!Buckets
         /\ used'[Social!BucketOf(writes[n])][day] = used[Social!BucketOf(writes[n])][day] + 1
<1>1. PICK c : c = Social!BucketOf(writes[n])
  OBVIOUS
<1>2. c \in Social!Buckets
  <2>1. writes[n] \in WriteType
    BY WriteAt
  <2>2. writes[n].author \in Authors
    BY <2>1, WriteIs
  <2> QED BY <1>1, <2>2 DEF Social!BucketOf, Social!Buckets
<1>3. Social!Refusal(writes[n]) = None /\ used' = [used EXCEPT ![c][day] = @ + 1]
  BY <1>1 DEF Social!Admitted, Social!Spend
<1>4. day \in Days /\ used \in [Social!Buckets -> [Days -> 0..PerDay]]
  BY DEF ProviderInv, ProviderTypes
<1>5. ~(used[c][day] >= PerDay)
  <2>1. None \notin {"stale", "pow", "rate"}
    BY ProviderAssumed DEF Social!Answers
  <2> QED BY <1>1, <1>3, <2>1 DEF Social!Refusal
<1>6. PICK x : x = used[c][day]
  OBVIOUS
<1>7. x \in Nat /\ x + 1 \in 0..PerDay /\ x <= x + 1
  <2>1. x \in Nat /\ ~(x >= PerDay)
    BY <1>2, <1>4, <1>5, <1>6, UsedIs
  <2> QED BY <2>1, ProviderAssumed
<1>8. \A b \in Social!Buckets, d \in Days :
        used'[b][d] = IF b = c /\ d = day THEN x + 1 ELSE used[b][d]
  BY <1>2, <1>3, <1>4, <1>6
<1>9. used' \in [Social!Buckets -> [Days -> 0..PerDay]]
  <2>1. [used[c] EXCEPT ![day] = @ + 1] = [used[c] EXCEPT ![day] = x + 1]
    BY <1>6
  <2>2. [used[c] EXCEPT ![day] = x + 1] \in [Days -> 0..PerDay]
    <3>1. used[c] \in [Days -> 0..PerDay]
      BY <1>2, <1>4
    <3> QED BY <1>4, <1>7, <3>1
  <2>3. used' = [used EXCEPT ![c] = [used[c] EXCEPT ![day] = x + 1]]
    BY <1>2, <1>3, <1>4, <2>1
  <2> QED BY <1>2, <1>4, <2>2, <2>3
<1>10. \A b \in Social!Buckets, d \in Days : used[b][d] <= used'[b][d]
  <2> TAKE b \in Social!Buckets, d \in Days
  <2>1. used[b][d] \in Nat
    BY UsedIs
  <2>2. CASE b = c /\ d = day
    <3>1. used'[b][d] = x + 1 /\ used[b][d] = x
      BY <1>6, <1>8, <2>2
    <3> QED BY <1>7, <3>1
  <2>3. CASE ~(b = c /\ d = day)
    <3>1. used'[b][d] = used[b][d]
      BY <1>8, <2>3
    <3> QED BY <2>1, <3>1
  <2> QED BY <2>2, <2>3
<1>11. used'[c][day] = x + 1
  BY <1>2, <1>4, <1>8
<1> QED BY <1>1, <1>2, <1>6, <1>9, <1>10, <1>11

LEMMA RejectKeeps ==
  ASSUME ProviderInv, NEW n \in DOMAIN writes, Social!Reject(n)
  PROVE  ProviderInv'
<1>1. PICK ans : ans = IF writes[n].parent = 0 THEN "parent" ELSE "error"
  OBVIOUS
<1>2. Social!Answer(n, ans) /\ Social!Admitted(n) /\ UNCHANGED <<day, bits, served, profiles, boots, known>>
  BY <1>1 DEF Social!Reject
<1>3. ans \in Social!Answers /\ ans # "pow" /\ ans # "ok"
  BY <1>1 DEF Social!Answers
<1>4. Settled(n, ans)
  BY <1>2, <1>3, AnswerSettles
<1>5. used' \in [Social!Buckets -> [Days -> 0..PerDay]] /\ \A b \in Social!Buckets, d \in Days : used[b][d] <= used'[b][d]
  BY <1>2, AdmittedIs
<1> QED BY <1>2, <1>3, <1>4, <1>5, SettledKeeps

LEMMA OtherStoredKeeps ==
  ASSUME ProviderInv, NEW n \in DOMAIN writes, Social!UpsertProfile(n) \/ Social!StoreDm(n)
  PROVE  ProviderInv'
<1>1. /\ Social!Answer(n, "ok") /\ Social!Admitted(n) /\ writes[n].kind # "post"
      /\ UNCHANGED <<day, bits, served, boots, known>>
  BY DEF Social!UpsertProfile, Social!StoreDm
<1>2. Settled(n, "ok")
  <2>1. "ok" \in Social!Answers /\ "ok" # "pow"
    BY DEF Social!Answers
  <2> QED BY <1>1, <2>1, AnswerSettles
<1>3. used' \in [Social!Buckets -> [Days -> 0..PerDay]] /\ \A b \in Social!Buckets, d \in Days : used[b][d] <= used'[b][d]
  BY <1>1, AdmittedIs
<1> QED BY <1>1, <1>2, <1>3, SettledKeeps

(* A post is stored last, behind its parent, on the day it was paid for.    *)
LEMMA InsertPostKeeps ==
  ASSUME ProviderInv, NEW n \in DOMAIN writes, Social!InsertPost(n)
  PROVE  ProviderInv'
<1>1. /\ writes[n].kind = "post" /\ writes[n].parent # 0 /\ Social!Admitted(n) /\ Social!Answer(n, "ok")
      /\ served' = Append(served, [write |-> n, parent |-> writes[n].parent, on |-> day, boot |-> boots])
      /\ UNCHANGED <<day, bits, profiles, boots, known>>
  BY DEF Social!InsertPost
<1>2. Settled(n, "ok")
  <2>1. "ok" \in Social!Answers /\ "ok" # "pow"
    BY DEF Social!Answers
  <2> QED BY <1>1, <2>1, AnswerSettles
<1>3. /\ n \in 1..Len(writes) /\ Len(writes) \in Nat /\ Len(served) \in Nat /\ DOMAIN served = 1..Len(served)
      /\ served \in Seq(PostType) /\ day \in Days /\ boots \in Nat /\ n \in Nat
  BY DEF ProviderInv, ProviderTypes
<1>4. PICK a : a = writes[n].author
  OBVIOUS
<1>5. PICK p : p = writes[n].parent
  OBVIOUS
<1>6. a \in Authors /\ p \in {None} \cup 1..Len(served) /\ p \in Nat \cup {None}
  <2>1. writes[n] \in WriteType /\ WriteGood(writes[n], Len(served))
    BY WriteAt
  <2>2. writes[n].author \in Authors /\ writes[n].parent \in Nat \cup {None}
    BY <2>1, WriteIs
  <2>3. writes[n].parent \in {None, 0} \cup 1..Len(served)
    BY <2>1 DEF WriteGood
  <2> QED BY <1>1, <1>4, <1>5, <2>2, <2>3
<1>7. PICK q : q = [write |-> n, parent |-> p, on |-> day, boot |-> boots]
  OBVIOUS
<1>8. PICK k : k = Len(served) + 1
  OBVIOUS
<1>9. q \in PostType /\ q.write = n /\ q.parent = p /\ q.on = day /\ q.boot = boots
  <2>1. day \in Days
    BY <1>3
  <2> QED BY <1>3, <1>6, <1>7 DEF PostType
<1>10. /\ served' \in Seq(PostType) /\ Len(served') = k /\ served'[k] = q /\ DOMAIN served' = 1..k
       /\ \A i \in 1..Len(served) : served'[i] = served[i]
  <2>1. PICK T : T = PostType
    OBVIOUS
  <2>2. served \in Seq(T) /\ q \in T /\ served' = Append(served, q)
    BY <1>1, <1>3, <1>5, <1>7, <1>9, <2>1
  <2>3. served' \in Seq(T) /\ Len(served') = Len(served) + 1 /\ served'[Len(served) + 1] = q
        /\ \A i \in 1..Len(served) : served'[i] = served[i]
    BY <2>2, AppendProperties
  <2>4. DOMAIN served' = 1..Len(served')
    BY <2>3
  <2> QED BY <1>8, <2>1, <2>3, <2>4
<1>11. k \in Nat /\ k \notin 1..Len(served) /\ 1..k = (1..Len(served)) \cup {k} /\ 1..k - 1 = 1..Len(served)
       /\ \A i \in 1..k : i = k \/ i \in 1..Len(served)
  BY <1>3, <1>8
<1>12. Len(writes') = Len(writes) /\ writes'[n].author = a /\ writes'[n].kind = "post" /\ writes'[n].answer = "ok"
       /\ writes[n].answer = None /\ writes' \in Seq(WriteType)
       /\ \A m \in 1..Len(writes) : m # n => writes'[m] = writes[m]
  BY <1>1, <1>2, <1>4 DEF Settled
<1>13. IsStored(writes'[n]) /\ ~IsStored(writes[n])
  BY <1>12, ProviderAssumed DEF IsStored
<1>14. \A i \in 1..Len(served) : /\ served[i].write \in 1..Len(writes) /\ served[i].write # n
                                 /\ IsStored(writes[served[i].write])
                                 /\ writes'[served[i].write] = writes[served[i].write]
                                 /\ served[i].boot <= boots
                                 /\ served[i].parent # None => served[i].parent \in 1..i - 1
  <2> TAKE i \in 1..Len(served)
  <2>1. /\ served[i].write \in 1..Len(writes) /\ IsStored(writes[served[i].write])
        /\ served[i].boot <= boots
        /\ served[i].parent # None => served[i].parent \in 1..i - 1
    BY DEF ProviderInv, Stored
  <2>2. served[i].write # n
    BY <1>13, <2>1
  <2> QED BY <1>12, <2>1, <2>2
<1>15. ProviderTypes'
  <2>1. used' \in [Social!Buckets -> [Days -> 0..PerDay]]
    BY <1>1, AdmittedIs
  <2>2. day \in Days /\ bits \in Nat /\ boots \in Nat /\ known \in Nat \cup {None}
    BY DEF ProviderInv, ProviderTypes
  <2> QED BY <1>1, <1>10, <1>12, <2>1, <2>2 DEF ProviderTypes
<1>16. Stored'
  <2>1. \A i \in 1..Len(served') : /\ served'[i].write \in 1..Len(writes') /\ IsStored(writes'[served'[i].write])
                                   /\ served'[i].boot <= boots'
                                   /\ served'[i].parent # None => served'[i].parent \in 1..i - 1
    <3> TAKE i \in 1..Len(served')
    <3>1. CASE i = k
      <4>1. served'[i] = q
        BY <1>10, <3>1
      <4>2. IsStored(writes'[q.write]) /\ q.write \in 1..Len(writes') /\ q.boot <= boots'
        BY <1>1, <1>3, <1>9, <1>12, <1>13
      <4>3. q.parent # None => q.parent \in 1..i - 1
        BY <1>6, <1>9, <1>11, <3>1
      <4> QED BY <4>1, <4>2, <4>3
    <3>2. CASE i # k
      <4>1. i \in 1..Len(served)
        BY <1>10, <1>11, <3>2
      <4>2. served'[i] = served[i]
        BY <1>10, <4>1
      <4> QED BY <1>1, <1>12, <1>14, <4>1, <4>2
    <3> QED BY <3>1, <3>2
  <2>2. \A m \in 1..Len(writes') : IsStored(writes'[m]) => \E i \in 1..Len(served') : served'[i].write = m
    <3> SUFFICES ASSUME NEW m \in 1..Len(writes'), IsStored(writes'[m])
                 PROVE  \E i \in 1..Len(served') : served'[i].write = m
      OBVIOUS
    <3>1. CASE m = n
      <4>1. k \in 1..Len(served') /\ served'[k].write = m
        BY <1>9, <1>10, <1>11, <3>1
      <4> QED BY <4>1
    <3>2. CASE m # n
      <4>1. m \in 1..Len(writes) /\ IsStored(writes[m])
        BY <1>12, <3>2
      <4>2. PICK i \in 1..Len(served) : served[i].write = m
        BY <4>1 DEF ProviderInv, Stored
      <4>3. i \in 1..Len(served') /\ served'[i].write = m
        BY <1>10, <1>11, <4>2
      <4> QED BY <4>3
    <3> QED BY <3>1, <3>2
  <2>3. \A i, j \in 1..Len(served') : served'[i].write = served'[j].write => i = j
    <3> SUFFICES ASSUME NEW i \in 1..Len(served'), NEW j \in 1..Len(served'), served'[i].write = served'[j].write
                 PROVE  i = j
      OBVIOUS
    <3>1. i = k \/ i \in 1..Len(served)
      BY <1>10, <1>11
    <3>2. j = k \/ j \in 1..Len(served)
      BY <1>10, <1>11
    <3>3. \A m \in 1..Len(served) : served'[m].write # n
      BY <1>10, <1>14
    <3>4. served'[k].write = n
      BY <1>9, <1>10
    <3>5. CASE i \in 1..Len(served) /\ j \in 1..Len(served)
      <4>1. served[i].write = served[j].write
        BY <1>10, <3>5
      <4> QED BY <3>5, <4>1 DEF ProviderInv, Stored
    <3> QED BY <3>1, <3>2, <3>3, <3>4, <3>5
  <2> QED BY <2>1, <2>2, <2>3 DEF Stored, IsStored
<1>17. \A c, d, b : PostsOf(c, d, b)' = PostsOf(c, d, b) \cup {i \in {k} : c = a /\ d = day /\ b = boots}
  <2> TAKE c, d, b
  <2>1. PostsOf(c, d, b)' = {j \in DOMAIN served' : served'[j].on = d /\ served'[j].boot = b
                                                    /\ writes'[served'[j].write].author = c}
    BY DEF PostsOf
  <2>2. ASSUME NEW j \in 1..Len(served)
        PROVE  j \in PostsOf(c, d, b)' <=> j \in PostsOf(c, d, b)
    <3>1. served'[j] = served[j] /\ writes'[served[j].write] = writes[served[j].write]
      BY <1>10, <1>14
    <3>2. j \in DOMAIN served /\ j \in DOMAIN served'
      BY <1>3, <1>10, <1>11
    <3> QED BY <2>1, <3>1, <3>2 DEF PostsOf
  <2>3. k \in PostsOf(c, d, b)' <=> c = a /\ d = day /\ b = boots
    <3>1. k \in DOMAIN served' /\ served'[k].on = day /\ served'[k].boot = boots /\ served'[k].write = n
      BY <1>9, <1>10, <1>11
    <3>2. writes'[served'[k].write].author = a
      BY <1>12, <3>1
    <3> QED BY <2>1, <3>1, <3>2
  <2>4. PostsOf(c, d, b) \subseteq 1..Len(served) /\ PostsOf(c, d, b)' \subseteq (1..Len(served)) \cup {k}
    BY <1>3, <1>10, <1>11, <2>1 DEF PostsOf
  <2>5. k \notin PostsOf(c, d, b)
    BY <1>11, <2>4
  <2> QED BY <2>2, <2>3, <2>4, <2>5
<1>18. Budgets'
  <2> SUFFICES ASSUME NEW c \in Authors, NEW d \in Days, NEW b \in Nat
               PROVE  /\ IsFiniteSet(PostsOf(c, d, b)') /\ Cardinality(PostsOf(c, d, b)') <= PerDay
                      /\ b = boots' => Cardinality(PostsOf(c, d, b)') <= used'[<<"author", c>>][d]
                      /\ b > boots' => PostsOf(c, d, b)' = {}
    BY DEF Budgets
  <2>1. PICK S : S = PostsOf(c, d, b)
    OBVIOUS
  <2>2. PICK m : m = Cardinality(S)
    OBVIOUS
  <2>3. /\ IsFiniteSet(S) /\ m <= PerDay
        /\ b = boots => m <= used[<<"author", c>>][d]
        /\ b > boots => S = {}
    BY <2>1, <2>2 DEF ProviderInv, Budgets
  <2>4. m \in Nat
    BY <2>2, <2>3, FS_CardinalityType
  <2>5. PICK x : x = used[<<"author", c>>][d]
    OBVIOUS
  <2>6. PICK y : y = used'[<<"author", c>>][d]
    OBVIOUS
  <2>7. /\ used' \in [Social!Buckets -> [Days -> 0..PerDay]]
        /\ \A e \in Social!Buckets, f \in Days : used[e][f] <= used'[e][f]
        /\ used'[Social!BucketOf(writes[n])][day] = used[Social!BucketOf(writes[n])][day] + 1
    BY <1>1, AdmittedIs
  <2>8. <<"author", c>> \in Social!Buckets
    BY DEF Social!Buckets
  <2>9. x \in Nat /\ x <= y
    BY <2>5, <2>6, <2>7, <2>8, UsedIs
  <2>10. y \in 0..PerDay
    BY <2>6, <2>7, <2>8
  <2>11. y \in Nat /\ y <= PerDay
    BY <2>10, ProviderAssumed
  <2>12. CASE c = a /\ d = day /\ b = boots
    <3>1. PostsOf(c, d, b)' = S \cup {k}
      BY <1>17, <2>1, <2>12
    <3>2. k \notin S
      BY <1>3, <1>11, <2>1 DEF PostsOf
    <3>3. IsFiniteSet(S \cup {k}) /\ Cardinality(S \cup {k}) = m + 1
      BY <2>2, <2>3, <3>2, FS_AddElement
    <3>4. Social!BucketOf(writes[n]) = <<"author", c>>
      BY <1>1, <1>4, <2>12 DEF Social!BucketOf
    <3>5. y = x + 1
      BY <2>5, <2>6, <2>7, <2>12, <3>4
    <3>6. m <= x
      BY <2>3, <2>5, <2>12
    <3>7. m + 1 <= y /\ m + 1 <= PerDay
      BY <2>4, <2>9, <2>11, <3>5, <3>6, ProviderAssumed
    <3>8. ~(b > boots)
      BY <1>3, <2>12
    <3> QED BY <1>1, <2>6, <3>1, <3>3, <3>7, <3>8
  <2>13. CASE ~(c = a /\ d = day /\ b = boots)
    <3>1. PostsOf(c, d, b)' = S
      BY <1>17, <2>1, <2>13
    <3>2. b = boots => m <= y
      BY <2>3, <2>4, <2>5, <2>9, <2>11
    <3> QED BY <1>1, <2>2, <2>3, <2>6, <3>1, <3>2
  <2> QED BY <2>12, <2>13
<1>19. \A m \in 1..Len(writes') : WriteGood(writes'[m], Len(served'))
  <2> TAKE m \in 1..Len(writes')
  <2>1. PICK w : w = writes'[m]
    OBVIOUS
  <2>2. WriteGood(w, Len(served))
    BY <1>2, <1>12, <2>1 DEF Settled
  <2>3. w.parent \in {None, 0} \cup 1..Len(served) => w.parent \in {None, 0} \cup 1..k
    BY <1>11
  <2>4. WriteGood(w, k)
    BY <2>2, <2>3 DEF WriteGood
  <2> QED BY <1>10, <2>1, <2>4
<1> QED BY <1>15, <1>16, <1>18, <1>19 DEF ProviderInv, WriteGood, Social!PowPayload

(* A restart forgets the budgets; nothing is stored yet since.              *)
LEMMA RestartKeeps ==
  ASSUME ProviderInv, Social!Restart
  PROVE  ProviderInv'
<1>1. /\ boots' = boots + 1 /\ bits' \in Difficulties /\ used' = [b \in Social!Buckets |-> [d \in Days |-> 0]]
      /\ UNCHANGED <<day, served, profiles, known, writes>>
  BY DEF Social!Restart, Social!Unused
<1>2. ProviderTypes'
  <2>1. used' \in [Social!Buckets -> [Days -> 0..PerDay]]
    BY <1>1, ProviderAssumed
  <2> QED BY <1>1, <2>1, ProviderAssumed DEF ProviderInv, ProviderTypes
<1>3. boots \in Nat /\ boots' \in Nat /\ boots < boots' /\ DOMAIN served = 1..Len(served)
      /\ served \in Seq(PostType)
  BY <1>1 DEF ProviderInv, ProviderTypes
<1>4. \A i \in 1..Len(served) : served[i].boot \in Nat /\ served[i].boot <= boots
  <2> TAKE i \in 1..Len(served)
  <2>1. PICK T : T = PostType
    OBVIOUS
  <2>2. served[i] \in T
    BY <1>3, <2>1, ElementOfSeq
  <2>3. served[i].boot \in Nat
    BY <2>1, <2>2 DEF PostType
  <2> QED BY <2>3 DEF ProviderInv, Stored
<1>5. Stored'
  <2>1. \A i \in 1..Len(served) : /\ served[i].write \in 1..Len(writes) /\ IsStored(writes[served[i].write])
                                  /\ served[i].parent # None => served[i].parent \in 1..i - 1
    BY DEF ProviderInv, Stored
  <2>2. \A i \in 1..Len(served) : served[i].boot <= boots'
    BY <1>3, <1>4
  <2>3. \A n \in 1..Len(writes) : IsStored(writes[n]) => \E i \in 1..Len(served) : served[i].write = n
    BY DEF ProviderInv, Stored
  <2>4. \A i, j \in 1..Len(served) : served[i].write = served[j].write => i = j
    BY DEF ProviderInv, Stored
  <2> QED BY <1>1, <2>1, <2>2, <2>3, <2>4 DEF Stored, IsStored
<1>6. \A a, d, b : PostsOf(a, d, b)' = PostsOf(a, d, b)
  BY <1>1 DEF PostsOf
<1>7. Budgets'
  <2> SUFFICES ASSUME NEW a \in Authors, NEW d \in Days, NEW b \in Nat
               PROVE  /\ IsFiniteSet(PostsOf(a, d, b)') /\ Cardinality(PostsOf(a, d, b)') <= PerDay
                      /\ b = boots' => Cardinality(PostsOf(a, d, b)') <= used'[<<"author", a>>][d]
                      /\ b > boots' => PostsOf(a, d, b)' = {}
    BY DEF Budgets
  <2>1. PICK S : S = PostsOf(a, d, b)
    OBVIOUS
  <2>2. IsFiniteSet(S) /\ Cardinality(S) <= PerDay
    BY <2>1 DEF ProviderInv, Budgets
  <2>3. b >= boots' => S = {}
    <3>1. b >= boots' => b > boots
      BY <1>3
    <3> QED BY <2>1, <3>1 DEF ProviderInv, Budgets
  <2>4. b = boots' => S = {}
    BY <1>3, <2>3
  <2>5. b > boots' => S = {}
    BY <1>3, <2>3
  <2>6. Cardinality({}) = 0
    BY FS_EmptySet
  <2>7. used'[<<"author", a>>][d] = 0
    <3>1. <<"author", a>> \in Social!Buckets
      BY DEF Social!Buckets
    <3> QED BY <1>1, <3>1
  <2>8. PostsOf(a, d, b)' = S
    BY <1>6, <2>1
  <2>9. b = boots' => Cardinality(S) <= used'[<<"author", a>>][d]
    BY <2>4, <2>6, <2>7
  <2> QED BY <2>2, <2>5, <2>8, <2>9
<1>8. \A n \in 1..Len(writes) : WriteGood(writes[n], Len(served))
  BY DEF ProviderInv
<1> QED BY <1>1, <1>2, <1>5, <1>7, <1>8 DEF ProviderInv, WriteGood, Social!PowPayload

LEMMA StillKeeps ==
  ASSUME ProviderInv, day' \in Days, UNCHANGED <<bits, used, served, boots, known, writes>>
  PROVE  ProviderInv'
<1>1. ProviderTypes'
  BY DEF ProviderInv, ProviderTypes
<1>2. Stored'
  BY DEF ProviderInv, Stored, IsStored
<1>3. Budgets'
  <2> SUFFICES ASSUME NEW a \in Authors, NEW d \in Days, NEW b \in Nat
               PROVE  /\ IsFiniteSet(PostsOf(a, d, b)') /\ Cardinality(PostsOf(a, d, b)') <= PerDay
                      /\ b = boots' => Cardinality(PostsOf(a, d, b)') <= used'[<<"author", a>>][d]
                      /\ b > boots' => PostsOf(a, d, b)' = {}
    BY DEF Budgets
  <2>1. PICK S : S = PostsOf(a, d, b)
    OBVIOUS
  <2>2. PostsOf(a, d, b)' = S
    BY <2>1 DEF PostsOf
  <2>3. /\ IsFiniteSet(S) /\ Cardinality(S) <= PerDay
        /\ b = boots => Cardinality(S) <= used[<<"author", a>>][d]
        /\ b > boots => S = {}
    BY <2>1 DEF ProviderInv, Budgets
  <2> QED BY <2>2, <2>3
<1>4. \A n \in 1..Len(writes) : WriteGood(writes[n], Len(served))
  BY DEF ProviderInv
<1> QED BY <1>1, <1>2, <1>3, <1>4 DEF ProviderInv, WriteGood, Social!PowPayload

LEMMA ProviderSteps ==
  ASSUME ProviderInv, [Social!Next]_socialVars
  PROVE  ProviderInv'
<1>1. CASE UNCHANGED socialVars
  <2>1. UNCHANGED <<day, bits, used, served, boots, known, writes>> /\ day \in Days
    BY <1>1 DEF socialVars, ProviderInv, ProviderTypes
  <2> QED BY <2>1, StillKeeps
<1>2. CASE \E a \in Authors, kind \in Social!Kinds : Social!Begin(a, kind)
  BY <1>2, BeginKeeps
<1>3. ASSUME NEW n \in DOMAIN writes,
             \/ Social!Described(n) \/ Social!DescriptorRead(n) \/ Social!DescriptorFails(n) \/ Social!Prove(n)
             \/ Social!Refuse(n) \/ Social!Reject(n) \/ Social!InsertPost(n) \/ Social!UpsertProfile(n)
             \/ Social!StoreDm(n)
      PROVE  ProviderInv'
  <2>1. CASE Social!Described(n)
    BY <2>1, DescribedKeeps
  <2>2. CASE Social!DescriptorRead(n)
    <3>1. writes[n].step = "read" /\ Social!Knows(n, writes[n].bits)
      BY <2>2 DEF Social!DescriptorRead
    <3>2. WriteGood(writes[n], Len(served))
      BY WriteAt
    <3>3. writes[n].bits \in Nat
      BY <3>1, <3>2 DEF WriteGood
    <3> QED BY <3>1, <3>3, KnowsKeeps
  <2>3. CASE Social!DescriptorFails(n)
    <3>1. writes[n].step \in {"asking", "read"} /\ Social!Knows(n, 0)
      BY <2>3 DEF Social!DescriptorFails
    <3> QED BY <3>1, KnowsKeeps
  <2>4. CASE Social!Prove(n)
    BY <2>4, ProveKeeps
  <2>5. CASE Social!Refuse(n)
    BY <2>5, RefuseKeeps
  <2>6. CASE Social!Reject(n)
    BY <2>6, RejectKeeps
  <2>7. CASE Social!InsertPost(n)
    BY <2>7, InsertPostKeeps
  <2>8. CASE Social!UpsertProfile(n) \/ Social!StoreDm(n)
    BY <2>8, OtherStoredKeeps
  <2> QED BY <1>3, <2>1, <2>2, <2>3, <2>4, <2>5, <2>6, <2>7, <2>8
<1>4. CASE Social!Reload
  BY <1>4, ReloadKeeps
<1>5. CASE Social!Restart
  BY <1>5, RestartKeeps
<1>6. CASE Social!ClockSteps
  <2>1. day' \in Days /\ UNCHANGED <<bits, used, served, profiles, boots, known, writes>>
    BY <1>6 DEF Social!ClockSteps
  <2> QED BY <2>1, StillKeeps
<1> QED BY <1>1, <1>2, <1>3, <1>4, <1>5, <1>6 DEF Social!Next

-----------------------------------------------------------------------------
(* What the invariant says of the provider.                                 *)
LEMMA SocialCounts == \A S : Social!Cardinality(S) = Cardinality(S)
BY DEF Social!Cardinality, Cardinality, Social!IsFiniteSet, IsFiniteSet

LEMMA ProviderIsSound ==
  ASSUME ProviderInv
  PROVE  Social!ProofsAgree /\ Social!PostsAccounted
<1>1. /\ DOMAIN writes = 1..Len(writes) /\ DOMAIN served = 1..Len(served) /\ Len(served) \in Nat
      /\ served \in Seq(PostType)
  BY DEF ProviderInv, ProviderTypes
<1>2. Social!ProofsAgree
  <2> SUFFICES ASSUME NEW n \in DOMAIN writes, writes[n].answer = "pow"
               PROVE  writes[n].bits < writes[n].needed \/ writes[n].proof = None
    BY DEF Social!ProofsAgree
  <2>1. WriteGood(writes[n], Len(served))
    BY WriteAt
  <2> QED BY <2>1 DEF WriteGood
<1>3. ASSUME NEW n \in DOMAIN writes
      PROVE  Social!Cardinality({i \in DOMAIN served : served[i].write = n}) =
               IF writes[n].kind = "post" /\ writes[n].answer = "ok" THEN 1 ELSE 0
  <2>1. PICK S : S = {i \in DOMAIN served : served[i].write = n}
    OBVIOUS
  <2>2. CASE IsStored(writes[n])
    <3>1. PICK i \in 1..Len(served) : served[i].write = n
      BY <1>1, <2>2 DEF ProviderInv, Stored
    <3>2. \A j \in 1..Len(served) : served[j].write = n => j = i
      BY <3>1 DEF ProviderInv, Stored
    <3>3. S = {i}
      BY <1>1, <2>1, <3>1, <3>2
    <3>4. Cardinality({i}) = 1
      BY FS_Singleton
    <3> QED BY <2>1, <2>2, <3>3, <3>4, SocialCounts DEF IsStored
  <2>3. CASE ~IsStored(writes[n])
    <3>1. \A i \in 1..Len(served) : served[i].write # n
      BY <2>3 DEF ProviderInv, Stored
    <3>2. S = {}
      BY <1>1, <2>1, <3>1
    <3>3. Cardinality({}) = 0
      BY FS_EmptySet
    <3> QED BY <2>1, <2>3, <3>2, <3>3, SocialCounts DEF IsStored
  <2> QED BY <2>2, <2>3
<1>4. \A i \in DOMAIN served : served[i].parent # None => served[i].parent \in 1..i - 1
  BY <1>1 DEF ProviderInv, Stored
<1>5. ASSUME NEW i \in DOMAIN served
      PROVE  Social!Cardinality({j \in DOMAIN served :
               /\ served[j].on = served[i].on /\ served[j].boot = served[i].boot
               /\ writes[served[j].write].author = writes[served[i].write].author}) <= PerDay
  <2>1. PICK a : a = writes[served[i].write].author
    OBVIOUS
  <2>2. PICK T : T = PostType
    OBVIOUS
  <2>3. served[i] \in T
    BY <1>1, <2>2, ElementOfSeq
  <2>4. PICK d : d = served[i].on
    OBVIOUS
  <2>5. PICK b : b = served[i].boot
    OBVIOUS
  <2>6. d \in Days /\ b \in Nat
    BY <2>2, <2>3, <2>4, <2>5 DEF PostType
  <2>7. a \in Authors
    <3>1. served[i].write \in DOMAIN writes
      BY <1>1 DEF ProviderInv, Stored
    <3>2. writes[served[i].write] \in WriteType
      BY <3>1, WriteAt
    <3> QED BY <2>1, <3>2, WriteIs
  <2>8. Cardinality(PostsOf(a, d, b)) <= PerDay
    BY <2>6, <2>7 DEF ProviderInv, Budgets
  <2>9. {j \in DOMAIN served :
               /\ served[j].on = served[i].on /\ served[j].boot = served[i].boot
               /\ writes[served[j].write].author = writes[served[i].write].author} = PostsOf(a, d, b)
    BY <2>1, <2>4, <2>5 DEF PostsOf
  <2> QED BY <2>8, <2>9, SocialCounts
<1> QED BY <1>2, <1>3, <1>4, <1>5 DEF Social!PostsAccounted

-----------------------------------------------------------------------------
LEMMA ProviderFocus ==
  ASSUME [PortalsNext]_portalsVars
  PROVE  focus' = focus /\ (focus = "provider" => [Social!Next]_socialVars)
BY DEF PortalsNext, portalsVars

(* A provider answers for what it stores: a post is stored exactly if it    *)
(* was answered so, once and behind its parent, and no author has more than *)
(* PerDay posts of one day, however the clock is set and however requests   *)
(* and restarts interleave; and a proof is refused only to a page that knew *)
(* of a lower difficulty or found none (service.rs, rate.rs, pow.rs and     *)
(* usePow.ts).                                                              *)
THEOREM ProviderAlwaysSound == PortalsSpec => []ProviderSound
<1> DEFINE Inv == focus = "provider" => ProviderInv
<1>1. PortalsInit => Inv
  BY ProviderStart DEF PortalsInit
<1>2. Inv /\ [PortalsNext]_portalsVars => Inv'
  <2> SUFFICES ASSUME Inv, [PortalsNext]_portalsVars, focus' = "provider" PROVE ProviderInv'
    OBVIOUS
  <2>1. focus = "provider" /\ [Social!Next]_socialVars
    BY ProviderFocus
  <2> QED BY <2>1, ProviderSteps
<1>3. Inv => ProviderSound
  BY ProviderIsSound DEF ProviderSound
<1> HIDE DEF Inv
<1> QED BY <1>1, <1>2, <1>3, PTL DEF PortalsSpec, portalsVars

-----------------------------------------------------------------------------
(* workspaces: one author of each portal, and the old replica kept.         *)

Parts     == {"own", "old"}
JobType   == [step : {"asking", "saving"}, base : SUBSET Parts]
MountType ==
  [scope : Scopes, list : Seq(Scopes), loaded : BOOLEAN, key : Nat, replica : SUBSET Parts, offer : BOOLEAN,
   jobs : [Space!Jobs -> JobType \cup {None}]]
At == Len(mounts)

(* A workspace signs with the stored key, from when it is loaded.           *)
KeyFits(m, stored) == m.key = stored[m.scope] \/ (m.key = 0 /\ ~m.loaded)

(* What a workspace, or something under way in it, knows of its replica has *)
(* the old one exactly if the replica kept has it, for what may still be    *)
(* stored: that of the screen, and what is under way.                       *)
Knows(m, onScreen, stored) ==
  /\ m.jobs["import"] # None => m.jobs["import"].step = "saving"
  /\ \A j \in {"sync", "publish"} : m.jobs[j] # None => ("old" \in m.jobs[j].base <=> "old" \in stored[m.scope])
  /\ onScreen /\ m.loaded => ("old" \in m.replica <=> "old" \in stored[m.scope])
  /\ onScreen /\ ~m.loaded => \A j \in Space!Jobs : m.jobs[j] = None

(* An import is under way in the workspace on the screen, and nothing else. *)
ImportsAlone(list) ==
  \A n \in 1..Len(list) : list[n].jobs["import"] # None =>
    /\ n = Len(list)
    /\ \A i \in 1..Len(list), j \in Space!Jobs : list[i].jobs[j] # None => i = n /\ j = "import"

SpaceTypes ==
  /\ mounts \in Seq(MountType) /\ disk \in Seq(Scopes) /\ keys \in [Scopes -> Nat]
  /\ replicas \in [Scopes -> SUBSET Parts] /\ old \in BOOLEAN /\ dismissed \in BOOLEAN

Careful ==
  /\ \A s \in Scopes : keys[s] <= 1
  /\ \A n \in 1..Len(mounts) : Knows(mounts[n], n = Len(mounts), replicas)
  /\ ImportsAlone(mounts)
  /\ old \/ \E s \in Scopes : "old" \in replicas[s]

SpaceInv ==
  /\ SpaceTypes
  /\ mounts # <<>> => KeyFits(mounts[At], keys)
  /\ Careless \/ Careful

LEMMA SpaceAssumed ==
  Careless \in BOOLEAN /\ MaxWorkspaces \in Nat /\ None \notin Scopes /\ Space!Jobs = {"sync", "publish", "import"}
<1>1. Space!WorkspacesAssumption
  BY PortalsAssumption
<1> QED BY <1>1 DEF Space!WorkspacesAssumption, Space!Jobs

LEMMA SpaceStart ==
  ASSUME Space!Init
  PROVE  SpaceInv
<1>1. /\ disk = <<>> /\ keys = [s \in Scopes |-> 0] /\ replicas = [s \in Scopes |-> {}]
      /\ old = TRUE /\ dismissed = FALSE /\ mounts = <<>>
  BY DEF Space!Init
<1>2. mounts \in Seq(MountType) /\ disk \in Seq(Scopes) /\ Len(mounts) = 0
  BY <1>1
<1>3. SpaceTypes
  BY <1>1, <1>2 DEF SpaceTypes
<1>4. Careful
  BY <1>1, <1>2 DEF Careful, ImportsAlone
<1> QED BY <1>1, <1>3, <1>4 DEF SpaceInv

(* A mount, field by field.                                                 *)
MountOf(s, l, d, k, r, o, j) ==
  [scope |-> s, list |-> l, loaded |-> d, key |-> k, replica |-> r, offer |-> o, jobs |-> j]
Mounts(s, l, d, k, r, o, j) ==
  /\ s \in Scopes /\ l \in Seq(Scopes) /\ d \in BOOLEAN /\ k \in Nat /\ r \in SUBSET Parts /\ o \in BOOLEAN
  /\ j \in [Space!Jobs -> JobType \cup {None}]

LEMMA MountIs ==
  ASSUME NEW m \in MountType
  PROVE  /\ m = MountOf(m.scope, m.list, m.loaded, m.key, m.replica, m.offer, m.jobs)
         /\ Mounts(m.scope, m.list, m.loaded, m.key, m.replica, m.offer, m.jobs)
BY DEF MountType, MountOf, Mounts

LEMMA MountedIs ==
  ASSUME NEW s, NEW l, NEW d, NEW k, NEW r, NEW o, NEW j, Mounts(s, l, d, k, r, o, j),
         NEW m, m = MountOf(s, l, d, k, r, o, j)
  PROVE  /\ m \in MountType
         /\ m.scope = s /\ m.list = l /\ m.loaded = d /\ m.key = k /\ m.replica = r /\ m.offer = o /\ m.jobs = j
BY DEF MountType, MountOf, Mounts

LEMMA MountAt ==
  ASSUME SpaceInv, NEW n \in DOMAIN mounts
  PROVE  /\ n \in 1..Len(mounts) /\ mounts[n] \in MountType /\ Len(mounts) \in Nat /\ mounts # <<>>
         /\ Careless \/ Knows(mounts[n], n = Len(mounts), replicas)
<1>1. n \in 1..Len(mounts) /\ Len(mounts) \in Nat /\ mounts # <<>>
  BY DEF SpaceInv, SpaceTypes
<1>2. PICK T : T = MountType
  OBVIOUS
<1>3. mounts[n] \in T
  BY <1>1, <1>2, ElementOfSeq DEF SpaceInv, SpaceTypes
<1>4. Careless \/ Knows(mounts[n], n = Len(mounts), replicas)
  BY <1>1 DEF SpaceInv, Careful
<1> QED BY <1>1, <1>2, <1>3, <1>4

LEMMA LastMount ==
  ASSUME SpaceInv, mounts # <<>>
  PROVE  At \in DOMAIN mounts /\ mounts[At] \in MountType /\ KeyFits(mounts[At], keys) /\ Space!Current = mounts[At]
<1>1. Len(mounts) \in Nat /\ Len(mounts) # 0 /\ DOMAIN mounts = 1..Len(mounts)
  BY DEF SpaceInv, SpaceTypes
<1>2. At \in DOMAIN mounts
  BY <1>1 DEF At
<1> QED BY <1>2, MountAt DEF SpaceInv, Space!Current, At

-----------------------------------------------------------------------------
(* One mount changes and the replicas kept have the old one as before.      *)
SameOld == \A s \in Scopes : "old" \in replicas'[s] <=> "old" \in replicas[s]

LEMMA StillKnows ==
  ASSUME NEW m \in MountType, NEW b \in BOOLEAN, Knows(m, b, replicas), SameOld
  PROVE  Knows(m, b, replicas')
<1>1. m.scope \in Scopes
  BY DEF MountType
<1>2. "old" \in replicas'[m.scope] <=> "old" \in replicas[m.scope]
  BY <1>1 DEF SameOld
<1> QED BY <1>2 DEF Knows

LEMMA MountSet ==
  ASSUME SpaceInv, NEW n \in DOMAIN mounts, NEW r \in MountType, mounts' = [mounts EXCEPT ![n] = r]
  PROVE  /\ n \in 1..Len(mounts) /\ Len(mounts) \in Nat /\ mounts \in Seq(MountType) /\ mounts # <<>>
         /\ mounts' \in Seq(MountType) /\ Len(mounts') = Len(mounts) /\ mounts'[n] = r
         /\ \A i \in 1..Len(mounts) : i # n => mounts'[i] = mounts[i]
<1>1. n \in 1..Len(mounts) /\ Len(mounts) \in Nat /\ mounts \in Seq(MountType) /\ mounts # <<>>
  BY MountAt DEF SpaceInv, SpaceTypes
<1>2. PICK T : T = MountType
  OBVIOUS
<1>3. mounts \in Seq(T) /\ r \in T
  BY <1>1, <1>2
<1>4. mounts' \in Seq(T) /\ Len(mounts') = Len(mounts) /\ mounts'[n] = r
      /\ \A i \in 1..Len(mounts) : i # n => mounts'[i] = mounts[i]
  BY <1>1, <1>3
<1> QED BY <1>1, <1>2, <1>4

LEMMA MountFits ==
  ASSUME SpaceInv, NEW n \in DOMAIN mounts, NEW r \in MountType, mounts' = [mounts EXCEPT ![n] = r],
         r.scope = mounts[n].scope,
         disk' \in Seq(Scopes), keys' \in [Scopes -> Nat], replicas' \in [Scopes -> SUBSET Parts],
         old' \in BOOLEAN, dismissed' \in BOOLEAN,
         n = Len(mounts) => KeyFits(r, keys'), n # Len(mounts) => keys' = keys,
         Careless \/ Careful'
  PROVE  SpaceInv'
<1>1. n \in 1..Len(mounts) /\ Len(mounts) \in Nat /\ mounts \in Seq(MountType) /\ mounts # <<>>
  BY MountSet
<1>2. /\ mounts' \in Seq(MountType) /\ Len(mounts') = Len(mounts) /\ mounts'[n] = r
      /\ \A i \in 1..Len(mounts) : i # n => mounts'[i] = mounts[i]
  BY MountSet
<1>3. SpaceTypes'
  BY <1>2 DEF SpaceTypes
<1>4. KeyFits(mounts'[Len(mounts)], keys')
  <2>1. CASE n = Len(mounts)
    BY <1>2, <2>1
  <2>2. CASE n # Len(mounts)
    <3>1. KeyFits(mounts[Len(mounts)], keys)
      BY <1>1 DEF SpaceInv, At
    <3>2. Len(mounts) \in 1..Len(mounts)
      BY <1>1
    <3>3. mounts'[Len(mounts)] = mounts[Len(mounts)]
      BY <1>2, <2>2, <3>2
    <3> QED BY <2>2, <3>1, <3>3
  <2> QED BY <2>1, <2>2
<1>5. KeyFits(mounts[At], keys)'
  BY <1>2, <1>4 DEF At, KeyFits
<1> QED BY <1>3, <1>5 DEF SpaceInv

LEMMA MountChanges ==
  ASSUME SpaceInv, NEW n \in DOMAIN mounts, NEW r \in MountType, mounts' = [mounts EXCEPT ![n] = r],
         r.scope = mounts[n].scope,
         disk' \in Seq(Scopes), keys' \in [Scopes -> Nat], replicas' \in [Scopes -> SUBSET Parts],
         old' \in BOOLEAN, dismissed' \in BOOLEAN,
         n = Len(mounts) => KeyFits(r, keys'), n # Len(mounts) => keys' = keys,
         ~Careless => /\ \A s \in Scopes : keys'[s] <= 1
                      /\ SameOld /\ old' = old
                      /\ Knows(r, n = Len(mounts), replicas)
                      /\ ImportsAlone(mounts')
  PROVE  SpaceInv'
<1>1. n \in 1..Len(mounts) /\ Len(mounts) \in Nat /\ mounts \in Seq(MountType) /\ mounts # <<>>
  BY MountSet
<1>2. /\ mounts' \in Seq(MountType) /\ Len(mounts') = Len(mounts) /\ mounts'[n] = r
      /\ \A i \in 1..Len(mounts) : i # n => mounts'[i] = mounts[i]
  BY MountSet
<1>3. ASSUME ~Careless PROVE Careful'
  <2>1. Careful
    BY <1>3 DEF SpaceInv
  <2>2. \A i \in 1..Len(mounts) : Knows(mounts'[i], i = Len(mounts), replicas')
    <3> TAKE i \in 1..Len(mounts)
    <3>1. CASE i = n
      BY <1>2, <1>3, <3>1, StillKnows
    <3>2. CASE i # n
      <4>1. Knows(mounts[i], i = Len(mounts), replicas) /\ mounts'[i] = mounts[i]
        BY <1>2, <2>1, <3>2 DEF Careful
      <4>2. mounts[i] \in MountType
        BY <1>1, MountAt
      <4> QED BY <1>3, <4>1, <4>2, StillKnows
    <3> QED BY <3>1, <3>2
  <2>3. old' \/ \E s \in Scopes : "old" \in replicas'[s]
    BY <1>3, <2>1 DEF Careful, SameOld
  <2>4. (\A i \in 1..Len(mounts) : Knows(mounts[i], i = Len(mounts), replicas))'
    BY <1>2, <2>2
  <2>5. ImportsAlone(mounts)'
    BY <1>3 DEF ImportsAlone
  <2>6. (\A s \in Scopes : keys[s] <= 1)'
    BY <1>3
  <2> QED BY <2>3, <2>4, <2>5, <2>6 DEF Careful
<1> QED BY <1>3, MountFits

(* Nothing that was not under way is: imports are alone still.              *)
LEMMA AloneStays ==
  ASSUME SpaceInv, ~Careless, NEW n \in DOMAIN mounts, NEW r \in MountType, mounts' = [mounts EXCEPT ![n] = r],
         \A j \in Space!Jobs : r.jobs[j] # None => mounts[n].jobs[j] # None
  PROVE  ImportsAlone(mounts')
<1>1. n \in 1..Len(mounts) /\ Len(mounts) \in Nat /\ mounts \in Seq(MountType) /\ ImportsAlone(mounts)
  BY MountAt DEF SpaceInv, SpaceTypes, Careful
<1>2. /\ Len(mounts') = Len(mounts) /\ mounts'[n] = r
      /\ \A i \in 1..Len(mounts) : i # n => mounts'[i] = mounts[i]
  BY MountSet
<1>3. \A i \in 1..Len(mounts), j \in Space!Jobs : mounts'[i].jobs[j] # None => mounts[i].jobs[j] # None
  <2> TAKE i \in 1..Len(mounts), j \in Space!Jobs
  <2>1. CASE i = n
    BY <1>2, <2>1
  <2>2. CASE i # n
    BY <1>2, <2>2
  <2> QED BY <2>1, <2>2
<1>4. "import" \in Space!Jobs
  BY SpaceAssumed
<1> QED BY <1>1, <1>2, <1>3, <1>4 DEF ImportsAlone

LEMMA NoneUnderWay ==
  ASSUME SpaceInv
  PROVE  /\ Space!UnderWay = {} => \A i \in 1..Len(mounts), j \in Space!Jobs : mounts[i].jobs[j] = None
         /\ ~Space!Importing => \A i \in 1..Len(mounts) : mounts[i].jobs["import"] = None
<1>1. DOMAIN mounts = 1..Len(mounts)
  BY DEF SpaceInv, SpaceTypes
<1>2. ASSUME Space!UnderWay = {}, NEW i \in 1..Len(mounts), NEW j \in Space!Jobs PROVE mounts[i].jobs[j] = None
  <2>1. <<i, j>> \in (DOMAIN mounts) \X Space!Jobs
    BY <1>1
  <2>2. ~(mounts[<<i, j>>[1]].jobs[<<i, j>>[2]] # None)
    BY <1>2, <2>1 DEF Space!UnderWay
  <2> QED BY <2>2
<1>3. ASSUME ~Space!Importing, NEW i \in 1..Len(mounts) PROVE mounts[i].jobs["import"] = None
  BY <1>1, <1>3 DEF Space!Importing
<1> QED BY <1>2, <1>3

(* Something begins: not beside an import, which begins beside nothing.     *)
LEMMA AloneBegins ==
  ASSUME SpaceInv, ~Careless, NEW n \in DOMAIN mounts, NEW r \in MountType, mounts' = [mounts EXCEPT ![n] = r],
         n = Len(mounts), NEW job \in Space!Jobs, ~Space!Importing, job # "import" \/ Space!UnderWay = {},
         \A j \in Space!Jobs : j # job => r.jobs[j] = mounts[n].jobs[j]
  PROVE  ImportsAlone(mounts')
<1>1. n \in 1..Len(mounts) /\ Len(mounts) \in Nat /\ mounts \in Seq(MountType)
  BY MountAt DEF SpaceInv, SpaceTypes
<1>2. /\ Len(mounts') = Len(mounts) /\ mounts'[n] = r
      /\ \A i \in 1..Len(mounts) : i # n => mounts'[i] = mounts[i]
  BY MountSet
<1>3. "import" \in Space!Jobs
  BY SpaceAssumed
<1>4. CASE job = "import"
  <2>1. \A i \in 1..Len(mounts), j \in Space!Jobs : mounts[i].jobs[j] = None
    BY <1>4, NoneUnderWay
  <2>2. \A i \in 1..Len(mounts), j \in Space!Jobs : mounts'[i].jobs[j] # None => i = n /\ j = "import"
    <3> SUFFICES ASSUME NEW i \in 1..Len(mounts), NEW j \in Space!Jobs, mounts'[i].jobs[j] # None
                 PROVE  i = n /\ j = "import"
      OBVIOUS
    <3>1. i = n
      BY <1>2, <2>1
    <3> QED BY <1>2, <1>4, <2>1, <3>1
  <2> QED BY <1>2, <1>3, <2>2 DEF ImportsAlone
<1>5. CASE job # "import"
  <2>1. \A i \in 1..Len(mounts) : mounts[i].jobs["import"] = None
    BY NoneUnderWay
  <2>2. \A i \in 1..Len(mounts) : mounts'[i].jobs["import"] = None
    <3> TAKE i \in 1..Len(mounts)
    <3>1. CASE i = n
      BY <1>2, <1>3, <1>5, <2>1, <3>1
    <3>2. CASE i # n
      BY <1>2, <2>1, <3>2
    <3> QED BY <3>1, <3>2
  <2> QED BY <1>2, <2>2 DEF ImportsAlone
<1> QED BY <1>4, <1>5

-----------------------------------------------------------------------------
(* The list of records.                                                     *)
LEMMA UpsertIs ==
  ASSUME NEW list \in Seq(Scopes), NEW s \in Scopes
  PROVE  Space!UpsertWorkspace(list, s) \in Seq(Scopes)
<1>1. PICK rest : rest = Kept(list, Scopes \ {s})
  OBVIOUS
<1>2. rest \in Seq(Scopes)
  <2>1. rest \in Seq(Scopes \cap (Scopes \ {s}))
    BY <1>1, KeptSeq
  <2>2. PICK T : T = Scopes \cap (Scopes \ {s})
    OBVIOUS
  <2>3. T \subseteq Scopes /\ rest \in Seq(T)
    BY <2>1, <2>2
  <2> QED BY <2>3
<1>3. PICK all : all = <<s>> \o rest
  OBVIOUS
<1>4. all \in Seq(Scopes)
  <2>1. <<s>> \in Seq(Scopes)
    OBVIOUS
  <2> QED BY <1>2, <1>3, <2>1, ConcatProperties
<1>5. Space!UpsertWorkspace(list, s) = Space!Shortened(all)
  BY <1>1, <1>3 DEF Space!UpsertWorkspace, Space!Kept, Kept
<1>6. PICK k : k = IF Len(all) < MaxWorkspaces THEN Len(all) ELSE MaxWorkspaces
  OBVIOUS
<1>7. k \in Nat /\ k <= Len(all)
  BY <1>4, <1>6, SpaceAssumed
<1>8. SubSeq(all, 1, k) \in Seq(Scopes)
  <2>1. SubSeq(all, 1, k) = [i \in 1..k |-> all[i]]
    BY <1>4, <1>7
  <2>2. \A i \in 1..k : all[i] \in Scopes
    <3> TAKE i \in 1..k
    <3>1. i \in 1..Len(all)
      BY <1>4, <1>7
    <3> QED BY <1>4, <3>1, ElementOfSeq
  <2>3. PICK T : T = Scopes
    OBVIOUS
  <2>4. PICK g : g = SubSeq(all, 1, k)
    OBVIOUS
  <2>5. g \in [1..k -> T]
    BY <2>1, <2>2, <2>3, <2>4
  <2>6. g \in Seq(T)
    BY <1>7, <2>5, SeqDef
  <2> QED BY <2>3, <2>4, <2>6
<1> QED BY <1>5, <1>6, <1>8 DEF Space!Shortened

LEMMA RememberIs ==
  ASSUME SpaceInv, NEW n \in DOMAIN mounts, NEW m \in MountType, Space!Remember(n, m)
  PROVE  /\ disk' \in Seq(Scopes)
         /\ \E r \in MountType : /\ mounts' = [mounts EXCEPT ![n] = r]
                                 /\ r.scope = m.scope /\ r.loaded = m.loaded /\ r.key = m.key
                                 /\ r.replica = m.replica /\ r.offer = m.offer /\ r.jobs = m.jobs
<1>1. disk \in Seq(Scopes)
  BY DEF SpaceInv, SpaceTypes
<1>2. Mounts(m.scope, m.list, m.loaded, m.key, m.replica, m.offer, m.jobs)
      /\ m = MountOf(m.scope, m.list, m.loaded, m.key, m.replica, m.offer, m.jobs)
  BY MountIs
<1>3. PICK list : list = Space!UpsertWorkspace(m.list, m.scope)
  OBVIOUS
<1>4. list \in Seq(Scopes)
  <2>1. m.list \in Seq(Scopes) /\ m.scope \in Scopes
    BY <1>2 DEF Mounts
  <2> QED BY <1>3, <2>1, UpsertIs
<1>5. CASE disk' = list /\ mounts' = [mounts EXCEPT ![n] = [m EXCEPT !.list = list]]
  <2>1. PICK r : r = MountOf(m.scope, list, m.loaded, m.key, m.replica, m.offer, m.jobs)
    OBVIOUS
  <2>2. [m EXCEPT !.list = list] = r
    BY <1>2, <2>1 DEF MountOf
  <2>3. /\ r \in MountType
        /\ r.scope = m.scope /\ r.loaded = m.loaded /\ r.key = m.key /\ r.replica = m.replica
        /\ r.offer = m.offer /\ r.jobs = m.jobs
    <3>1. Mounts(m.scope, list, m.loaded, m.key, m.replica, m.offer, m.jobs)
      BY <1>2, <1>4 DEF Mounts
    <3> QED BY <2>1, <3>1, MountedIs
  <2> QED BY <1>4, <1>5, <2>2, <2>3
<1>6. CASE disk' = disk /\ mounts' = [mounts EXCEPT ![n] = m]
  BY <1>1, <1>6
<1> QED BY <1>3, <1>5, <1>6 DEF Space!Remember

-----------------------------------------------------------------------------
(* What is opened is not loaded and has nothing under way; what is under    *)
(* way elsewhere stays.                                                     *)
LEMMA OpenKeeps ==
  ASSUME SpaceInv, NEW s \in Scopes, Space!Open(s)
  PROVE  SpaceInv'
<1>1. PICK others : others = Kept(mounts, {m \in Space!Elems(mounts) : Space!Busy(m)})
  OBVIOUS
<1>2. PICK m : m = MountOf(s, disk, FALSE, 0, {}, FALSE, Space!Idle)
  OBVIOUS
<1>3. /\ (Careless \/ ~Space!Importing) /\ mounts' = Append(others, m)
      /\ UNCHANGED <<disk, keys, replicas, old, dismissed>>
  <2>1. Space!Kept(mounts, {n \in Space!Elems(mounts) : Space!Busy(n)}) = others
    BY <1>1 DEF Space!Kept, Kept
  <2> QED BY <1>2, <2>1 DEF Space!Open, MountOf
<1>4. mounts \in Seq(MountType) /\ Len(mounts) \in Nat /\ disk \in Seq(Scopes)
  BY DEF SpaceInv, SpaceTypes
<1>5. m \in MountType /\ m.scope = s /\ m.loaded = FALSE /\ m.key = 0 /\ m.jobs = Space!Idle
  <2>1. PICK none : none = Space!Idle
    OBVIOUS
  <2>2. none \in [Space!Jobs -> JobType \cup {None}]
    BY <2>1 DEF Space!Idle
  <2>3. m = MountOf(s, disk, FALSE, 0, {}, FALSE, none)
    BY <1>2, <2>1
  <2> QED BY <1>4, <2>1, <2>2, <2>3 DEF MountOf, MountType
<1>6. \A j \in Space!Jobs : m.jobs[j] = None
  BY <1>5 DEF Space!Idle
<1>7. others \in Seq(MountType) /\ \A i \in 1..Len(others) : \E k \in 1..Len(mounts) : mounts[k] = others[i]
  <2>1. PICK S : S = {n \in Space!Elems(mounts) : Space!Busy(n)}
    OBVIOUS
  <2>2. PICK T : T = MountType
    OBVIOUS
  <2>3. mounts \in Seq(T) /\ others = Kept(mounts, S)
    BY <1>1, <1>4, <2>1, <2>2
  <2>4. others \in Seq(T \cap S)
    BY <2>3, KeptSeq
  <2>5. others \in Seq(T)
    <3>1. PICK U : U = T \cap S
      OBVIOUS
    <3>2. others \in Seq(U) /\ U \subseteq T
      BY <2>4, <3>1
    <3> QED BY <3>2
  <2>6. \A i \in 1..Len(others) : \E k \in 1..Len(mounts) : mounts[k] = others[i]
    BY <2>3, KeptFrom
  <2> QED BY <2>2, <2>5, <2>6
<1>8. PICK last : last = Len(others) + 1
  OBVIOUS
<1>9. /\ mounts' \in Seq(MountType) /\ Len(mounts') = last /\ mounts'[last] = m /\ last \in Nat
      /\ \A i \in 1..Len(others) : mounts'[i] = others[i]
      /\ \A i \in 1..last : i = last \/ (i \in 1..Len(others) /\ i # last)
  <2>1. PICK T : T = MountType
    OBVIOUS
  <2>2. others \in Seq(T) /\ m \in T
    BY <1>5, <1>7, <2>1
  <2>3. mounts' \in Seq(T) /\ Len(mounts') = Len(others) + 1 /\ mounts'[Len(others) + 1] = m
        /\ \A i \in 1..Len(others) : mounts'[i] = others[i]
    BY <1>3, <2>2, AppendProperties
  <2>4. Len(others) \in Nat
    BY <2>2
  <2>5. last \in Nat /\ \A i \in 1..last : i = last \/ (i \in 1..Len(others) /\ i # last)
    BY <1>8, <2>4
  <2> QED BY <1>8, <2>1, <2>3, <2>5
<1>10. SpaceTypes'
  BY <1>3, <1>9 DEF SpaceInv, SpaceTypes
<1>11. KeyFits(mounts[At], keys)'
  BY <1>5, <1>9 DEF At, KeyFits
<1>12. ASSUME ~Careless PROVE Careful'
  <2>1. Careful
    BY <1>12 DEF SpaceInv
  <2>2. \A i \in 1..last : Knows(mounts'[i], i = last, replicas)
    <3> TAKE i \in 1..last
    <3>1. CASE i = last
      <4>1. Knows(m, TRUE, replicas)
        <5>1. "import" \in Space!Jobs /\ "sync" \in Space!Jobs /\ "publish" \in Space!Jobs
          BY SpaceAssumed
        <5> QED BY <1>5, <1>6, <5>1 DEF Knows
      <4> QED BY <1>9, <3>1, <4>1
    <3>2. CASE i # last
      <4>1. i \in 1..Len(others)
        BY <1>9, <3>2
      <4>2. PICK k \in 1..Len(mounts) : mounts[k] = others[i]
        BY <1>7, <4>1
      <4>3. Knows(mounts[k], k = Len(mounts), replicas)
        BY <2>1 DEF Careful
      <4>4. Knows(others[i], FALSE, replicas)
        BY <4>2, <4>3 DEF Knows
      <4> QED BY <1>9, <3>2, <4>1, <4>4
    <3> QED BY <3>1, <3>2
  <2>3. \A i \in 1..last : mounts'[i].jobs["import"] = None
    <3> TAKE i \in 1..last
    <3>1. CASE i = last
      <4>1. "import" \in Space!Jobs
        BY SpaceAssumed
      <4> QED BY <1>6, <1>9, <3>1, <4>1
    <3>2. CASE i # last
      <4>1. i \in 1..Len(others)
        BY <1>9, <3>2
      <4>2. PICK k \in 1..Len(mounts) : mounts[k] = others[i]
        BY <1>7, <4>1
      <4>3. mounts[k].jobs["import"] = None
        BY <1>3, <1>12, NoneUnderWay
      <4> QED BY <1>9, <4>1, <4>2, <4>3
    <3> QED BY <3>1, <3>2
  <2>4. ImportsAlone(mounts)'
    BY <1>9, <2>3 DEF ImportsAlone
  <2>5. (\A i \in 1..Len(mounts) : Knows(mounts[i], i = Len(mounts), replicas))'
    <3>1. \A i \in 1..last : Knows(mounts'[i], i = last, replicas')
      BY <1>3, <2>2
    <3> QED BY <1>9, <3>1
  <2>6. (\A e \in Scopes : keys[e] <= 1)' /\ (old \/ \E e \in Scopes : "old" \in replicas[e])'
    BY <1>3, <2>1 DEF Careful
  <2> QED BY <2>4, <2>5, <2>6 DEF Careful
<1> QED BY <1>10, <1>11, <1>12 DEF SpaceInv

Offered(s) == replicas[s] = {} /\ ~dismissed /\ old

LEMMA LoadKeeps ==
  ASSUME SpaceInv, Space!Load
  PROVE  SpaceInv'
<1>1. mounts # <<>> /\ ~Space!Current.loaded
  BY DEF Space!Load
<1>2. /\ At \in DOMAIN mounts /\ mounts[At] \in MountType /\ Space!Current = mounts[At]
      /\ disk \in Seq(Scopes) /\ keys \in [Scopes -> Nat] /\ replicas \in [Scopes -> SUBSET Parts]
      /\ old \in BOOLEAN /\ dismissed \in BOOLEAN
  BY <1>1, LastMount DEF SpaceInv, SpaceTypes
<1>3. PICK m : m = mounts[At]
  OBVIOUS
<1>4. m \in MountType /\ m = MountOf(m.scope, m.list, m.loaded, m.key, m.replica, m.offer, m.jobs)
      /\ Mounts(m.scope, m.list, m.loaded, m.key, m.replica, m.offer, m.jobs)
  BY <1>2, <1>3, MountIs
<1>5. PICK list : list = IF Space!Contains(disk, m.scope) THEN disk ELSE Space!UpsertWorkspace(disk, m.scope)
  OBVIOUS
<1>6. list \in Seq(Scopes) /\ m.scope \in Scopes
  <2>1. m.scope \in Scopes
    BY <1>4 DEF Mounts
  <2> QED BY <1>2, <1>5, <2>1, UpsertIs
<1>7. PICK o : o = Offered(m.scope)
  OBVIOUS
<1> PICK k : k = keys[m.scope]
  OBVIOUS
<1> PICK held : held = replicas[m.scope]
  OBVIOUS
<1>y. PICK yes : yes = TRUE
  OBVIOUS
<1>8. PICK r : r = MountOf(m.scope, list, yes, k, held, o, m.jobs)
  OBVIOUS
<1>9. disk' = list /\ mounts' = [mounts EXCEPT ![At] = r] /\ UNCHANGED <<keys, replicas, old, dismissed>>
  <2>1. disk' = list /\ UNCHANGED <<keys, replicas, old, dismissed>>
    BY <1>2, <1>3, <1>5 DEF Space!Load
  <2>2. mounts' = [mounts EXCEPT ![At] = [m EXCEPT
             !.loaded = TRUE, !.list = list, !.key = keys[m.scope], !.replica = replicas[m.scope],
             !.offer = replicas[m.scope] = {} /\ ~dismissed /\ old]]
    BY <1>2, <1>3, <1>5 DEF Space!Load, Space!AtCurrent, At
  <2>3. [m EXCEPT !.loaded = TRUE, !.list = list, !.key = keys[m.scope], !.replica = replicas[m.scope],
                  !.offer = replicas[m.scope] = {} /\ ~dismissed /\ old]
          = [m EXCEPT !.loaded = yes, !.list = list, !.key = k, !.replica = held, !.offer = o]
    BY <1>7, <1>y DEF Offered
  <2>4. PICK a : a = [m EXCEPT !.loaded = yes, !.list = list]
    OBVIOUS
  <2>5. PICK b : b = [a EXCEPT !.key = k]
    OBVIOUS
  <2>6. PICK c : c = [b EXCEPT !.replica = held]
    OBVIOUS
  <2>7. a = MountOf(m.scope, list, yes, m.key, m.replica, m.offer, m.jobs)
    BY <1>4, <2>4 DEF MountOf
  <2>8. b = MountOf(m.scope, list, yes, k, m.replica, m.offer, m.jobs)
    BY <2>5, <2>7 DEF MountOf
  <2>9. c = MountOf(m.scope, list, yes, k, held, m.offer, m.jobs)
    BY <2>6, <2>8 DEF MountOf
  <2>10. [c EXCEPT !.offer = o] = r
    BY <1>8, <2>9 DEF MountOf
  <2>11. [m EXCEPT !.loaded = yes, !.list = list, !.key = k, !.replica = held, !.offer = o] = r
    BY <2>4, <2>5, <2>6, <2>10
  <2> QED BY <2>1, <2>2, <2>3, <2>11
<1>10. /\ r \in MountType
       /\ r.scope = m.scope /\ r.loaded = TRUE /\ r.key = k /\ r.replica = held /\ r.jobs = m.jobs
  <2>1. k \in Nat /\ held \in SUBSET Parts /\ o \in BOOLEAN
    BY <1>2, <1>6, <1>7 DEF Offered
  <2>2. Mounts(m.scope, list, yes, k, held, o, m.jobs)
    BY <1>4, <1>6, <1>y, <2>1 DEF Mounts
  <2>3. r \in MountType /\ r.scope = m.scope /\ r.loaded = yes /\ r.key = k /\ r.replica = held /\ r.jobs = m.jobs
    BY <1>8, <2>2, MountedIs
  <2> QED BY <1>y, <2>3
<1>11. KeyFits(r, keys')
  BY <1>9, <1>10 DEF KeyFits
<1>12. ASSUME ~Careless
       PROVE  /\ \A s \in Scopes : keys'[s] <= 1
              /\ SameOld /\ old' = old
              /\ Knows(r, At = Len(mounts), replicas)
              /\ ImportsAlone(mounts')
  <2>1. Knows(m, TRUE, replicas)
    BY <1>2, <1>3, <1>12, MountAt DEF At
  <2>2. Knows(r, TRUE, replicas)
    BY <1>10, <2>1 DEF Knows
  <2>3. ImportsAlone(mounts')
    BY <1>2, <1>3, <1>9, <1>10, <1>12, AloneStays
  <2>4. \A s \in Scopes : keys'[s] <= 1
    BY <1>9, <1>12 DEF SpaceInv, Careful
  <2> QED BY <1>9, <2>2, <2>3, <2>4 DEF SameOld, At
<1>13. disk' \in Seq(Scopes) /\ keys' \in [Scopes -> Nat] /\ replicas' \in [Scopes -> SUBSET Parts]
       /\ old' \in BOOLEAN /\ dismissed' \in BOOLEAN
  BY <1>2, <1>6, <1>9
<1> QED BY <1>2, <1>3, <1>9, <1>10, <1>11, <1>12, <1>13, MountChanges DEF At

-----------------------------------------------------------------------------
(* What the user does in the workspace on the screen.  A key is drawn only  *)
(* if there is none, once the workspace is loaded.                          *)
LEMMA EnsureIs ==
  ASSUME SpaceInv, mounts # <<>>, NEW jobs \in [Space!Jobs -> JobType \cup {None}], Space!EnsureIdentity(jobs)
  PROVE  /\ disk' \in Seq(Scopes) /\ keys' \in [Scopes -> Nat]
         /\ ~Careless /\ mounts[At].loaded => \A s \in Scopes : keys'[s] <= 1
         /\ \E r \in MountType : /\ mounts' = [mounts EXCEPT ![At] = r] /\ KeyFits(r, keys')
                                 /\ r.scope = mounts[At].scope /\ r.loaded = mounts[At].loaded
                                 /\ r.replica = mounts[At].replica /\ r.jobs = jobs
<1>1. PICK m : m = mounts[At]
  OBVIOUS
<1>2. /\ At \in DOMAIN mounts /\ m \in MountType /\ Space!Current = m /\ KeyFits(m, keys)
      /\ m = MountOf(m.scope, m.list, m.loaded, m.key, m.replica, m.offer, m.jobs)
      /\ Mounts(m.scope, m.list, m.loaded, m.key, m.replica, m.offer, m.jobs)
      /\ disk \in Seq(Scopes) /\ keys \in [Scopes -> Nat] /\ m.scope \in Scopes
  BY <1>1, LastMount, MountIs DEF SpaceInv, SpaceTypes, Mounts
<1>3. ~Careless => \A s \in Scopes : keys[s] <= 1
  BY DEF SpaceInv, Careful
<1>4. CASE Space!NeedsKey(m)
  <2>1. PICK k : k = keys[m.scope] + 1
    OBVIOUS
  <2>2. PICK v : v = MountOf(m.scope, m.list, m.loaded, k, m.replica, m.offer, jobs)
    OBVIOUS
  <2>3. keys' = [keys EXCEPT ![m.scope] = k] /\ Space!Remember(Len(mounts), v)
    <3>1. [m EXCEPT !.key = k, !.jobs = jobs] = v
      <4>1. PICK u : u = [m EXCEPT !.key = k]
        OBVIOUS
      <4>2. u = MountOf(m.scope, m.list, m.loaded, k, m.replica, m.offer, m.jobs)
        BY <1>2, <4>1 DEF MountOf
      <4>3. [u EXCEPT !.jobs = jobs] = v
        BY <2>2, <4>2 DEF MountOf
      <4> QED BY <4>1, <4>3
    <3>2. keys' = [keys EXCEPT ![m.scope] = k] /\ Space!Remember(Len(mounts), [m EXCEPT !.key = k, !.jobs = jobs])
      BY <1>2, <1>4, <2>1 DEF Space!EnsureIdentity
    <3> QED BY <3>1, <3>2
  <2>4. k \in Nat
    BY <1>2, <2>1
  <2>5. /\ v \in MountType
        /\ v.scope = m.scope /\ v.loaded = m.loaded /\ v.key = k /\ v.replica = m.replica /\ v.jobs = jobs
    <3>1. Mounts(m.scope, m.list, m.loaded, k, m.replica, m.offer, jobs)
      BY <1>2, <2>4 DEF Mounts
    <3> QED BY <2>2, <3>1, MountedIs
  <2>6. /\ disk' \in Seq(Scopes)
        /\ \E r \in MountType : /\ mounts' = [mounts EXCEPT ![At] = r]
                                /\ r.scope = v.scope /\ r.loaded = v.loaded /\ r.key = v.key
                                /\ r.replica = v.replica /\ r.offer = v.offer /\ r.jobs = v.jobs
    BY <1>2, <2>3, <2>5, RememberIs DEF At
  <2>7. keys' \in [Scopes -> Nat] /\ keys'[m.scope] = k /\ \A s \in Scopes : s # m.scope => keys'[s] = keys[s]
    BY <1>2, <2>3, <2>4
  <2>8. ~Careless /\ m.loaded => \A s \in Scopes : keys'[s] <= 1
    <3> SUFFICES ASSUME ~Careless, m.loaded, NEW s \in Scopes PROVE keys'[s] <= 1
      OBVIOUS
    <3>1. keys[m.scope] = 0
      BY <1>2, <1>4 DEF KeyFits, Space!NeedsKey
    <3>2. k = 1
      BY <2>1, <3>1
    <3> QED BY <1>3, <2>7, <3>2
  <2>9. PICK r \in MountType : /\ mounts' = [mounts EXCEPT ![At] = r]
                               /\ r.scope = v.scope /\ r.loaded = v.loaded /\ r.key = v.key
                               /\ r.replica = v.replica /\ r.offer = v.offer /\ r.jobs = v.jobs
    BY <2>6
  <2>10. KeyFits(r, keys')
    BY <2>5, <2>7, <2>9 DEF KeyFits
  <2> QED BY <1>1, <2>5, <2>6, <2>7, <2>8, <2>9, <2>10
<1>5. CASE ~Space!NeedsKey(m)
  <2>1. PICK r : r = MountOf(m.scope, m.list, m.loaded, m.key, m.replica, m.offer, jobs)
    OBVIOUS
  <2>2. mounts' = [mounts EXCEPT ![At] = r] /\ disk' = disk /\ keys' = keys
    <3>1. [m EXCEPT !.jobs = jobs] = r
      <4>1. m = MountOf(m.scope, m.list, m.loaded, m.key, m.replica, m.offer, m.jobs)
        BY <1>2
      <4> QED BY <2>1, <4>1 DEF MountOf
    <3>2. mounts' = [mounts EXCEPT ![At] = [m EXCEPT !.jobs = jobs]] /\ disk' = disk /\ keys' = keys
      BY <1>2, <1>5 DEF Space!EnsureIdentity, Space!AtCurrent, At
    <3> QED BY <3>1, <3>2
  <2>3. /\ r \in MountType
        /\ r.scope = m.scope /\ r.loaded = m.loaded /\ r.key = m.key /\ r.replica = m.replica /\ r.jobs = jobs
    <3>1. Mounts(m.scope, m.list, m.loaded, m.key, m.replica, m.offer, jobs)
      BY <1>2 DEF Mounts
    <3> QED BY <2>1, <3>1, MountedIs
  <2>4. KeyFits(r, keys')
    BY <1>2, <2>2, <2>3 DEF KeyFits
  <2> QED BY <1>1, <1>2, <1>3, <2>2, <2>3, <2>4
<1> QED BY <1>4, <1>5

LEMMA BegunIs ==
  ASSUME SpaceInv, mounts # <<>>, NEW job \in {"sync", "publish"}
  PROVE  /\ Space!Begun(job) \in [Space!Jobs -> JobType \cup {None}]
         /\ Space!Begun(job)[job] = [step |-> "asking", base |-> mounts[At].replica]
         /\ \A j \in Space!Jobs : j # job => Space!Begun(job)[j] = mounts[At].jobs[j]
<1>1. PICK m : m = mounts[At]
  OBVIOUS
<1>2. Space!Current = m /\ m.jobs \in [Space!Jobs -> JobType \cup {None}] /\ m.replica \in SUBSET Parts
  BY <1>1, LastMount, MountIs DEF Mounts
<1>3. PICK t : t = [step |-> "asking", base |-> m.replica]
  OBVIOUS
<1>4. t \in JobType
  BY <1>2, <1>3 DEF JobType
<1>5. Space!Begun(job) = [m.jobs EXCEPT ![job] = t]
  BY <1>2, <1>3 DEF Space!Begun
<1>6. job \in Space!Jobs
  BY SpaceAssumed
<1> QED BY <1>1, <1>2, <1>3, <1>4, <1>5, <1>6

(* What begins starts with the replica on the screen.                       *)
LEMMA BegunFits ==
  ASSUME SpaceInv, ~Careless, NEW job \in {"sync", "publish"}, Space!MayBegin(job), NEW r \in MountType,
         mounts' = [mounts EXCEPT ![At] = r], r.scope = mounts[At].scope, r.loaded = mounts[At].loaded,
         r.replica = mounts[At].replica, r.jobs = Space!Begun(job)
  PROVE  Knows(r, At = Len(mounts), replicas) /\ ImportsAlone(mounts')
<1>1. mounts # <<>> /\ Space!Current.loaded /\ ~Space!Importing
  BY DEF Space!MayBegin, Space!MayAsk
<1>2. PICK m : m = mounts[At]
  OBVIOUS
<1>3. At \in DOMAIN mounts /\ m \in MountType /\ m.loaded /\ Knows(m, TRUE, replicas)
  BY <1>1, <1>2, LastMount, MountAt DEF At
<1>4. /\ r.jobs[job] = [step |-> "asking", base |-> m.replica]
      /\ \A j \in Space!Jobs : j # job => r.jobs[j] = m.jobs[j]
  BY <1>1, <1>2, BegunIs
<1>5. "import" \in Space!Jobs /\ "sync" \in Space!Jobs /\ "publish" \in Space!Jobs /\ job \in Space!Jobs /\ job # "import"
  BY SpaceAssumed
<1>6. Knows(r, TRUE, replicas)
  <2>1. r.jobs["import"] # None => r.jobs["import"].step = "saving"
    BY <1>3, <1>4, <1>5 DEF Knows
  <2>2. \A j \in {"sync", "publish"} : r.jobs[j] # None => ("old" \in r.jobs[j].base <=> "old" \in replicas[r.scope])
    <3> TAKE j \in {"sync", "publish"}
    <3>1. CASE j = job
      <4>1. r.jobs[j].base = m.replica
        BY <1>4, <3>1
      <4>2. "old" \in m.replica <=> "old" \in replicas[m.scope]
        BY <1>3 DEF Knows
      <4> QED BY <1>2, <4>1, <4>2
    <3>2. CASE j # job
      <4>1. r.jobs[j] = m.jobs[j]
        BY <1>4, <1>5, <3>2
      <4>2. m.jobs[j] # None => ("old" \in m.jobs[j].base <=> "old" \in replicas[m.scope])
        BY <1>3 DEF Knows
      <4> QED BY <1>2, <4>1, <4>2
    <3> QED BY <3>1, <3>2
  <2>3. r.loaded /\ ("old" \in r.replica <=> "old" \in replicas[r.scope])
    BY <1>2, <1>3 DEF Knows
  <2> QED BY <2>1, <2>2, <2>3 DEF Knows
<1>7. ImportsAlone(mounts')
  <2>1. At = Len(mounts)
    BY DEF At
  <2>2. \A j \in Space!Jobs : j # job => r.jobs[j] = mounts[At].jobs[j]
    BY <1>2, <1>4
  <2>3. At \in DOMAIN mounts /\ ~Space!Importing
    BY <1>1, <1>3
  <2> QED BY <1>5, <2>1, <2>2, <2>3, AloneBegins
<1> QED BY <1>6, <1>7 DEF At

LEMMA CreateKeeps ==
  ASSUME SpaceInv, Space!CreateIdentity
  PROVE  SpaceInv'
<1>1. /\ mounts # <<>> /\ (Space!Current.loaded \/ Careless) /\ Space!EnsureIdentity(Space!Current.jobs)
      /\ UNCHANGED <<replicas, old, dismissed>>
  BY DEF Space!CreateIdentity, Space!MayAsk
<1>2. PICK m : m = mounts[At]
  OBVIOUS
<1>3. /\ At \in DOMAIN mounts /\ m \in MountType /\ Space!Current = m /\ m.jobs \in [Space!Jobs -> JobType \cup {None}]
      /\ replicas \in [Scopes -> SUBSET Parts] /\ old \in BOOLEAN /\ dismissed \in BOOLEAN
  BY <1>1, <1>2, LastMount, MountIs DEF Mounts, SpaceInv, SpaceTypes
<1>4. /\ disk' \in Seq(Scopes) /\ keys' \in [Scopes -> Nat]
      /\ ~Careless /\ m.loaded => \A s \in Scopes : keys'[s] <= 1
      /\ \E r \in MountType : /\ mounts' = [mounts EXCEPT ![At] = r] /\ KeyFits(r, keys')
                              /\ r.scope = m.scope /\ r.loaded = m.loaded
                              /\ r.replica = m.replica /\ r.jobs = m.jobs
  BY <1>1, <1>2, <1>3, EnsureIs
<1>5. PICK r \in MountType : /\ mounts' = [mounts EXCEPT ![At] = r] /\ KeyFits(r, keys')
                             /\ r.scope = m.scope /\ r.loaded = m.loaded
                             /\ r.replica = m.replica /\ r.jobs = m.jobs
  BY <1>4
<1>6. ASSUME ~Careless
      PROVE  /\ \A s \in Scopes : keys'[s] <= 1
             /\ SameOld /\ old' = old
             /\ Knows(r, At = Len(mounts), replicas)
             /\ ImportsAlone(mounts')
  <2>1. Knows(m, TRUE, replicas)
    BY <1>2, <1>3, <1>6, MountAt DEF At
  <2>2. Knows(r, TRUE, replicas)
    BY <1>5, <2>1 DEF Knows
  <2>3. ImportsAlone(mounts')
    BY <1>2, <1>3, <1>5, <1>6, AloneStays
  <2> QED BY <1>1, <1>3, <1>4, <1>6, <2>2, <2>3 DEF SameOld, At
<1>7. replicas' \in [Scopes -> SUBSET Parts] /\ old' \in BOOLEAN /\ dismissed' \in BOOLEAN
  BY <1>1, <1>3
<1> QED BY <1>2, <1>3, <1>4, <1>5, <1>6, <1>7, MountChanges DEF At

LEMMA PublishKeeps ==
  ASSUME SpaceInv, Space!Publish
  PROVE  SpaceInv'
<1>1. /\ mounts # <<>> /\ (Space!Current.loaded \/ Careless) /\ Space!MayBegin("publish")
      /\ Space!EnsureIdentity(Space!Begun("publish")) /\ UNCHANGED <<replicas, old, dismissed>>
  BY DEF Space!Publish, Space!MayBegin, Space!MayAsk
<1>2. PICK m : m = mounts[At]
  OBVIOUS
<1>3. /\ At \in DOMAIN mounts /\ m \in MountType /\ Space!Current = m
      /\ replicas \in [Scopes -> SUBSET Parts] /\ old \in BOOLEAN /\ dismissed \in BOOLEAN
  BY <1>1, <1>2, LastMount DEF SpaceInv, SpaceTypes
<1>4. /\ disk' \in Seq(Scopes) /\ keys' \in [Scopes -> Nat]
      /\ ~Careless /\ m.loaded => \A s \in Scopes : keys'[s] <= 1
      /\ \E r \in MountType : /\ mounts' = [mounts EXCEPT ![At] = r] /\ KeyFits(r, keys')
                              /\ r.scope = m.scope /\ r.loaded = m.loaded
                              /\ r.replica = m.replica /\ r.jobs = Space!Begun("publish")
  <2>1. Space!Begun("publish") \in [Space!Jobs -> JobType \cup {None}]
    BY <1>1, BegunIs
  <2> QED BY <1>1, <1>2, <2>1, EnsureIs
<1>5. PICK r \in MountType : /\ mounts' = [mounts EXCEPT ![At] = r] /\ KeyFits(r, keys')
                             /\ r.scope = m.scope /\ r.loaded = m.loaded
                             /\ r.replica = m.replica /\ r.jobs = Space!Begun("publish")
  BY <1>4
<1>6. ASSUME ~Careless
      PROVE  /\ \A s \in Scopes : keys'[s] <= 1
             /\ SameOld /\ old' = old
             /\ Knows(r, At = Len(mounts), replicas)
             /\ ImportsAlone(mounts')
  <2>1. Knows(r, At = Len(mounts), replicas) /\ ImportsAlone(mounts')
    BY <1>1, <1>2, <1>5, <1>6, BegunFits
  <2> QED BY <1>1, <1>3, <1>4, <1>6, <2>1 DEF SameOld
<1>7. replicas' \in [Scopes -> SUBSET Parts] /\ old' \in BOOLEAN /\ dismissed' \in BOOLEAN
  BY <1>1, <1>3
<1> QED BY <1>2, <1>3, <1>4, <1>5, <1>6, <1>7, MountChanges DEF At

LEMMA SyncKeeps ==
  ASSUME SpaceInv, Space!Sync
  PROVE  SpaceInv'
<1>1. /\ mounts # <<>> /\ Space!MayBegin("sync") /\ UNCHANGED <<disk, keys, replicas, old, dismissed>>
  BY DEF Space!Sync, Space!MayBegin, Space!MayAsk
<1>2. PICK m : m = mounts[At]
  OBVIOUS
<1>3. /\ At \in DOMAIN mounts /\ m \in MountType /\ Space!Current = m /\ KeyFits(m, keys)
      /\ m = MountOf(m.scope, m.list, m.loaded, m.key, m.replica, m.offer, m.jobs)
      /\ Mounts(m.scope, m.list, m.loaded, m.key, m.replica, m.offer, m.jobs)
  BY <1>1, <1>2, LastMount, MountIs
<1>4. PICK jobs : jobs = Space!Begun("sync")
  OBVIOUS
<1>5. PICK r : r = MountOf(m.scope, m.list, m.loaded, m.key, m.replica, m.offer, jobs)
  OBVIOUS
<1>6. mounts' = [mounts EXCEPT ![At] = r]
  <2>1. [m EXCEPT !.jobs = jobs] = r
    BY <1>3, <1>5 DEF MountOf
  <2>2. mounts' = [mounts EXCEPT ![At] = [m EXCEPT !.jobs = jobs]]
    BY <1>3, <1>4 DEF Space!Sync, Space!AtCurrent, At
  <2> QED BY <2>1, <2>2
<1>7. /\ r \in MountType
      /\ r.scope = m.scope /\ r.loaded = m.loaded /\ r.key = m.key /\ r.replica = m.replica /\ r.jobs = jobs
  <2>1. jobs \in [Space!Jobs -> JobType \cup {None}]
    BY <1>1, <1>4, BegunIs
  <2>2. Mounts(m.scope, m.list, m.loaded, m.key, m.replica, m.offer, jobs)
    BY <1>3, <2>1 DEF Mounts
  <2> QED BY <1>5, <2>2, MountedIs
<1>8. KeyFits(r, keys')
  BY <1>1, <1>3, <1>7 DEF KeyFits
<1>9. ASSUME ~Careless
      PROVE  /\ \A s \in Scopes : keys'[s] <= 1
             /\ SameOld /\ old' = old
             /\ Knows(r, At = Len(mounts), replicas)
             /\ ImportsAlone(mounts')
  <2>1. Knows(r, At = Len(mounts), replicas) /\ ImportsAlone(mounts')
    BY <1>1, <1>2, <1>4, <1>6, <1>7, <1>9, BegunFits
  <2>2. \A s \in Scopes : keys'[s] <= 1
    BY <1>1, <1>9 DEF SpaceInv, Careful
  <2> QED BY <1>1, <2>1, <2>2 DEF SameOld
<1>10. /\ disk' \in Seq(Scopes) /\ keys' \in [Scopes -> Nat] /\ replicas' \in [Scopes -> SUBSET Parts]
       /\ old' \in BOOLEAN /\ dismissed' \in BOOLEAN
  BY <1>1 DEF SpaceInv, SpaceTypes
<1> QED BY <1>2, <1>3, <1>6, <1>7, <1>8, <1>9, <1>10, MountChanges DEF At

-----------------------------------------------------------------------------
(* A workspace goes on: what is under way ends or goes on, with the old     *)
(* replica if it is kept.                                                   *)
GoesOn(r, m) ==
  \A j \in Space!Jobs : \/ r.jobs[j] = None
                        \/ /\ m.jobs[j] # None /\ (j = "import" => r.jobs[j] = m.jobs[j])
                           /\ "old" \in r.jobs[j].base <=> "old" \in m.jobs[j].base

LEMMA GoneOnFits ==
  ASSUME SpaceInv, ~Careless, NEW n \in DOMAIN mounts, NEW r \in MountType, mounts' = [mounts EXCEPT ![n] = r],
         r.scope = mounts[n].scope, r.loaded = mounts[n].loaded, GoesOn(r, mounts[n]),
         n = Len(mounts) /\ r.loaded => ("old" \in r.replica <=> "old" \in replicas[r.scope])
  PROVE  Knows(r, n = Len(mounts), replicas) /\ ImportsAlone(mounts')
<1>1. PICK m : m = mounts[n]
  OBVIOUS
<1>2. m \in MountType /\ Knows(m, n = Len(mounts), replicas)
  BY <1>1, MountAt
<1>3. "import" \in Space!Jobs /\ "sync" \in Space!Jobs /\ "publish" \in Space!Jobs
  BY SpaceAssumed
<1>4. r.jobs["import"] # None => r.jobs["import"].step = "saving"
  BY <1>1, <1>2, <1>3 DEF Knows, GoesOn
<1>5. \A j \in {"sync", "publish"} : r.jobs[j] # None => ("old" \in r.jobs[j].base <=> "old" \in replicas[r.scope])
  BY <1>1, <1>2, <1>3 DEF Knows, GoesOn
<1>6. n = Len(mounts) /\ ~r.loaded => \A j \in Space!Jobs : r.jobs[j] = None
  BY <1>1, <1>2 DEF Knows, GoesOn
<1>7. ImportsAlone(mounts')
  <2>1. \A j \in Space!Jobs : r.jobs[j] # None => mounts[n].jobs[j] # None
    BY DEF GoesOn
  <2> QED BY <2>1, AloneStays
<1>8. Knows(r, n = Len(mounts), replicas)
  BY <1>4, <1>5, <1>6 DEF Knows
<1> QED BY <1>7, <1>8

LEMMA ToggleKeeps ==
  ASSUME SpaceInv, Space!ToggleFollow
  PROVE  SpaceInv'
<1>1. mounts # <<>> /\ Space!Remember(Len(mounts), Space!Current) /\ UNCHANGED <<keys, replicas, old, dismissed>>
  BY DEF Space!ToggleFollow
<1>2. PICK m : m = mounts[At]
  OBVIOUS
<1>3. At \in DOMAIN mounts /\ m \in MountType /\ Space!Current = m /\ KeyFits(m, keys) /\ At = Len(mounts)
  BY <1>1, <1>2, LastMount DEF At
<1>4. /\ disk' \in Seq(Scopes)
      /\ \E r \in MountType : /\ mounts' = [mounts EXCEPT ![At] = r]
                              /\ r.scope = m.scope /\ r.loaded = m.loaded /\ r.key = m.key
                              /\ r.replica = m.replica /\ r.offer = m.offer /\ r.jobs = m.jobs
  <2>1. Space!Remember(At, m)
    BY <1>1, <1>3
  <2> QED BY <1>3, <2>1, RememberIs
<1>5. PICK r \in MountType : /\ mounts' = [mounts EXCEPT ![At] = r]
                             /\ r.scope = m.scope /\ r.loaded = m.loaded /\ r.key = m.key
                             /\ r.replica = m.replica /\ r.offer = m.offer /\ r.jobs = m.jobs
  BY <1>4
<1>6. KeyFits(r, keys')
  BY <1>1, <1>3, <1>5 DEF KeyFits
<1>7. ASSUME ~Careless
      PROVE  /\ \A s \in Scopes : keys'[s] <= 1
             /\ SameOld /\ old' = old
             /\ Knows(r, At = Len(mounts), replicas)
             /\ ImportsAlone(mounts')
  <2>1. Knows(m, TRUE, replicas)
    BY <1>2, <1>3, <1>7, MountAt
  <2>3. GoesOn(r, mounts[At])
    BY <1>2, <1>5 DEF GoesOn
  <2>4. Knows(r, At = Len(mounts), replicas) /\ ImportsAlone(mounts')
    <3>1. r.loaded => ("old" \in r.replica <=> "old" \in replicas[r.scope])
      BY <1>5, <2>1 DEF Knows
    <3> QED BY <1>2, <1>3, <1>5, <1>7, <2>3, <3>1, GoneOnFits
  <2>5. \A s \in Scopes : keys'[s] <= 1
    BY <1>1, <1>7 DEF SpaceInv, Careful
  <2> QED BY <1>1, <2>4, <2>5 DEF SameOld
<1>8. /\ keys' \in [Scopes -> Nat] /\ replicas' \in [Scopes -> SUBSET Parts]
      /\ old' \in BOOLEAN /\ dismissed' \in BOOLEAN
  BY <1>1 DEF SpaceInv, SpaceTypes
<1> QED BY <1>2, <1>3, <1>4, <1>5, <1>6, <1>7, <1>8, MountChanges

(* The offer to import is withdrawn.                                        *)
LEMMA WithdrawnKeeps ==
  ASSUME SpaceInv, mounts # <<>>, Space!AtCurrent([Space!Current EXCEPT !.offer = FALSE]),
         dismissed' \in BOOLEAN, UNCHANGED <<disk, keys, replicas, old>>
  PROVE  SpaceInv'
<1>1. PICK m : m = mounts[At]
  OBVIOUS
<1>2. /\ At \in DOMAIN mounts /\ m \in MountType /\ Space!Current = m /\ KeyFits(m, keys) /\ At = Len(mounts)
      /\ m = MountOf(m.scope, m.list, m.loaded, m.key, m.replica, m.offer, m.jobs)
      /\ Mounts(m.scope, m.list, m.loaded, m.key, m.replica, m.offer, m.jobs)
  BY <1>1, LastMount, MountIs DEF At
<1>3. PICK no : no = FALSE
  OBVIOUS
<1>4. PICK r : r = MountOf(m.scope, m.list, m.loaded, m.key, m.replica, no, m.jobs)
  OBVIOUS
<1>5. mounts' = [mounts EXCEPT ![At] = r]
  <2>1. [m EXCEPT !.offer = no] = r
    BY <1>2, <1>4 DEF MountOf
  <2>2. mounts' = [mounts EXCEPT ![At] = [m EXCEPT !.offer = no]]
    BY <1>2, <1>3 DEF Space!AtCurrent, At
  <2> QED BY <2>1, <2>2
<1>6. /\ r \in MountType
      /\ r.scope = m.scope /\ r.loaded = m.loaded /\ r.key = m.key /\ r.replica = m.replica /\ r.jobs = m.jobs
  <2>1. Mounts(m.scope, m.list, m.loaded, m.key, m.replica, no, m.jobs)
    BY <1>2, <1>3 DEF Mounts
  <2> QED BY <1>4, <2>1, MountedIs
<1>7. KeyFits(r, keys')
  BY <1>2, <1>6 DEF KeyFits
<1>8. ASSUME ~Careless
      PROVE  /\ \A s \in Scopes : keys'[s] <= 1
             /\ SameOld /\ old' = old
             /\ Knows(r, At = Len(mounts), replicas)
             /\ ImportsAlone(mounts')
  <2>1. Knows(m, TRUE, replicas)
    BY <1>1, <1>2, <1>8, MountAt
  <2>2. GoesOn(r, mounts[At])
    BY <1>1, <1>6 DEF GoesOn
  <2>3. r.loaded => ("old" \in r.replica <=> "old" \in replicas[r.scope])
    BY <1>6, <2>1 DEF Knows
  <2>4. Knows(r, At = Len(mounts), replicas) /\ ImportsAlone(mounts')
    BY <1>1, <1>2, <1>5, <1>6, <1>8, <2>2, <2>3, GoneOnFits
  <2>5. \A s \in Scopes : keys'[s] <= 1
    BY <1>8 DEF SpaceInv, Careful
  <2> QED BY <2>4, <2>5 DEF SameOld
<1>9. /\ disk' \in Seq(Scopes) /\ keys' \in [Scopes -> Nat] /\ replicas' \in [Scopes -> SUBSET Parts] /\ old' \in BOOLEAN
  BY DEF SpaceInv, SpaceTypes
<1> QED BY <1>1, <1>2, <1>5, <1>6, <1>7, <1>8, <1>9, MountChanges

LEMMA ImportLegacyKeeps ==
  ASSUME SpaceInv, Space!ImportLegacy
  PROVE  SpaceInv'
<1>1. mounts # <<>> /\ Space!MayBegin("import") /\ UNCHANGED <<disk, keys, replicas, old, dismissed>>
  BY DEF Space!ImportLegacy, Space!MayBegin, Space!MayAsk
<1>2. PICK m : m = mounts[At]
  OBVIOUS
<1>3. /\ At \in DOMAIN mounts /\ m \in MountType /\ Space!Current = m /\ KeyFits(m, keys) /\ At = Len(mounts)
      /\ m = MountOf(m.scope, m.list, m.loaded, m.key, m.replica, m.offer, m.jobs)
      /\ Mounts(m.scope, m.list, m.loaded, m.key, m.replica, m.offer, m.jobs)
  BY <1>1, <1>2, LastMount, MountIs DEF At
<1>4. CASE Space!AtCurrent([Space!Current EXCEPT !.offer = FALSE])
  <2>1. dismissed' \in BOOLEAN
    BY <1>1 DEF SpaceInv, SpaceTypes
  <2> QED BY <1>1, <1>4, <2>1, WithdrawnKeeps
<1>5. CASE Space!AtCurrent([m EXCEPT !.jobs["import"] = [step |-> "saving", base |-> {}]])
  <2>1. PICK t : t = [step |-> "saving", base |-> {}]
    OBVIOUS
  <2>2. PICK jobs : jobs = [m.jobs EXCEPT !["import"] = t]
    OBVIOUS
  <2>3. PICK r : r = MountOf(m.scope, m.list, m.loaded, m.key, m.replica, m.offer, jobs)
    OBVIOUS
  <2>4. mounts' = [mounts EXCEPT ![At] = r]
    <3>1. [m EXCEPT !.jobs = jobs] = r
      BY <1>3, <2>3 DEF MountOf
    <3>2. [m EXCEPT !.jobs["import"] = t] = [m EXCEPT !.jobs = jobs]
      BY <2>2
    <3>3. mounts' = [mounts EXCEPT ![At] = [m EXCEPT !.jobs["import"] = t]]
      BY <1>5, <2>1 DEF Space!AtCurrent, At
    <3> QED BY <3>1, <3>2, <3>3
  <2>5. jobs \in [Space!Jobs -> JobType \cup {None}] /\ jobs["import"] = t
        /\ \A j \in Space!Jobs : j # "import" => jobs[j] = m.jobs[j]
    <3>1. t \in JobType
      BY <2>1 DEF JobType
    <3>2. m.jobs \in [Space!Jobs -> JobType \cup {None}]
      BY <1>3 DEF Mounts
    <3>3. "import" \in Space!Jobs
      BY SpaceAssumed
    <3> QED BY <2>2, <3>1, <3>2, <3>3
  <2>6. /\ r \in MountType
        /\ r.scope = m.scope /\ r.loaded = m.loaded /\ r.key = m.key /\ r.replica = m.replica /\ r.jobs = jobs
    <3>1. Mounts(m.scope, m.list, m.loaded, m.key, m.replica, m.offer, jobs)
      BY <1>3, <2>5 DEF Mounts
    <3> QED BY <2>3, <3>1, MountedIs
  <2>7. KeyFits(r, keys')
    BY <1>1, <1>3, <2>6 DEF KeyFits
  <2>8. ASSUME ~Careless
        PROVE  /\ \A s \in Scopes : keys'[s] <= 1
               /\ SameOld /\ old' = old
               /\ Knows(r, At = Len(mounts), replicas)
               /\ ImportsAlone(mounts')
    <3>1. Knows(m, TRUE, replicas) /\ m.loaded /\ ~Space!Importing /\ Space!UnderWay = {}
      <4>1. Knows(m, TRUE, replicas)
        BY <1>2, <1>3, <2>8, MountAt
      <4>2. m.loaded /\ ~Space!Importing /\ Space!UnderWay = {}
        BY <1>1, <1>3, <2>8 DEF Space!MayBegin, Space!MayAsk
      <4> QED BY <4>1, <4>2
    <3>2. "import" \in Space!Jobs /\ "sync" \in Space!Jobs /\ "publish" \in Space!Jobs
      BY SpaceAssumed
    <3>3. Knows(r, TRUE, replicas)
      <4>1. r.jobs["import"].step = "saving"
        BY <2>1, <2>5, <2>6
      <4>2. \A j \in {"sync", "publish"} : r.jobs[j] = m.jobs[j]
        BY <2>5, <2>6, <3>2
      <4> QED BY <2>6, <3>1, <4>1, <4>2 DEF Knows
    <3>4. ImportsAlone(mounts')
      <4>1. \A j \in Space!Jobs : j # "import" => r.jobs[j] = mounts[At].jobs[j]
        BY <1>2, <2>5, <2>6
      <4> QED BY <1>3, <2>4, <2>6, <2>8, <3>1, <3>2, <4>1, AloneBegins
    <3>5. \A s \in Scopes : keys'[s] <= 1
      BY <1>1, <2>8 DEF SpaceInv, Careful
    <3> QED BY <1>1, <1>3, <3>3, <3>4, <3>5 DEF SameOld
  <2>9. /\ disk' \in Seq(Scopes) /\ keys' \in [Scopes -> Nat] /\ replicas' \in [Scopes -> SUBSET Parts]
        /\ old' \in BOOLEAN /\ dismissed' \in BOOLEAN
    BY <1>1 DEF SpaceInv, SpaceTypes
  <2> QED BY <1>2, <1>3, <2>4, <2>6, <2>7, <2>8, <2>9, MountChanges
<1> QED BY <1>3, <1>4, <1>5 DEF Space!ImportLegacy

LEMMA DismissKeeps ==
  ASSUME SpaceInv, Space!DismissLegacy
  PROVE  SpaceInv'
<1>1. /\ mounts # <<>> /\ dismissed' = TRUE /\ Space!AtCurrent([Space!Current EXCEPT !.offer = FALSE])
      /\ UNCHANGED <<disk, keys, replicas, old>>
  BY DEF Space!DismissLegacy
<1>2. dismissed' \in BOOLEAN
  BY <1>1
<1> QED BY <1>1, <1>2, WithdrawnKeeps

(* The entries of an author leave the replica, and the old replica does not.*)
LEMMA ResetKeeps ==
  ASSUME SpaceInv, Space!ResetAuthor
  PROVE  SpaceInv'
<1>1. /\ mounts # <<>> /\ (Space!Current.loaded \/ Careless)
      /\ Space!AtCurrent([Space!Current EXCEPT !.replica = @ \ {"own"}])
      /\ replicas' = [replicas EXCEPT ![Space!Current.scope] = Space!Current.replica \ {"own"}]
      /\ UNCHANGED <<disk, keys, old, dismissed>>
  BY DEF Space!ResetAuthor, Space!MayAsk
<1>2. PICK m : m = mounts[At]
  OBVIOUS
<1>3. /\ At \in DOMAIN mounts /\ m \in MountType /\ Space!Current = m /\ KeyFits(m, keys) /\ At = Len(mounts)
      /\ m = MountOf(m.scope, m.list, m.loaded, m.key, m.replica, m.offer, m.jobs)
      /\ Mounts(m.scope, m.list, m.loaded, m.key, m.replica, m.offer, m.jobs)
  BY <1>1, <1>2, LastMount, MountIs DEF At
<1>4. PICK less : less = m.replica \ {"own"}
  OBVIOUS
<1>5. less \in SUBSET Parts /\ ("old" \in less <=> "old" \in m.replica) /\ m.scope \in Scopes
  BY <1>3, <1>4 DEF Mounts
<1>6. PICK r : r = MountOf(m.scope, m.list, m.loaded, m.key, less, m.offer, m.jobs)
  OBVIOUS
<1>7. mounts' = [mounts EXCEPT ![At] = r]
  <2>1. [m EXCEPT !.replica = less] = r
    BY <1>3, <1>6 DEF MountOf
  <2>2. [m EXCEPT !.replica = @ \ {"own"}] = [m EXCEPT !.replica = less]
    BY <1>4
  <2>3. mounts' = [mounts EXCEPT ![At] = [m EXCEPT !.replica = @ \ {"own"}]]
    BY <1>1, <1>3 DEF Space!AtCurrent, At
  <2> QED BY <2>1, <2>2, <2>3
<1>8. /\ r \in MountType
      /\ r.scope = m.scope /\ r.loaded = m.loaded /\ r.key = m.key /\ r.replica = less /\ r.jobs = m.jobs
  <2>1. Mounts(m.scope, m.list, m.loaded, m.key, less, m.offer, m.jobs)
    BY <1>3, <1>5 DEF Mounts
  <2> QED BY <1>6, <2>1, MountedIs
<1>9. KeyFits(r, keys')
  BY <1>1, <1>3, <1>8 DEF KeyFits
<1>10. replicas \in [Scopes -> SUBSET Parts] /\ replicas' = [replicas EXCEPT ![m.scope] = less]
  BY <1>1, <1>3, <1>4 DEF SpaceInv, SpaceTypes
<1>11. ASSUME ~Careless
       PROVE  /\ \A s \in Scopes : keys'[s] <= 1
              /\ SameOld /\ old' = old
              /\ Knows(r, At = Len(mounts), replicas)
              /\ ImportsAlone(mounts')
  <2>1. Knows(m, TRUE, replicas) /\ m.loaded
    BY <1>1, <1>2, <1>3, <1>11, MountAt
  <2>2. "old" \in m.replica <=> "old" \in replicas[m.scope]
    BY <2>1 DEF Knows
  <2>3. SameOld
    BY <1>5, <1>10, <2>2 DEF SameOld
  <2>4. GoesOn(r, mounts[At])
    BY <1>2, <1>8 DEF GoesOn
  <2>5. "old" \in r.replica <=> "old" \in replicas[r.scope]
    BY <1>5, <1>8, <2>2
  <2>6. Knows(r, At = Len(mounts), replicas) /\ ImportsAlone(mounts')
    BY <1>2, <1>3, <1>7, <1>8, <1>11, <2>4, <2>5, GoneOnFits
  <2>7. \A s \in Scopes : keys'[s] <= 1
    BY <1>1, <1>11 DEF SpaceInv, Careful
  <2> QED BY <1>1, <2>3, <2>6, <2>7
<1>12. replicas' \in [Scopes -> SUBSET Parts]
  BY <1>5, <1>10
<1>13. /\ disk' \in Seq(Scopes) /\ keys' \in [Scopes -> Nat] /\ old' \in BOOLEAN /\ dismissed' \in BOOLEAN
  BY <1>1 DEF SpaceInv, SpaceTypes
<1> QED BY <1>2, <1>3, <1>7, <1>8, <1>9, <1>11, <1>12, <1>13, MountChanges

-----------------------------------------------------------------------------
(* How what is under way ends.                                              *)
LEMMA JobAt ==
  ASSUME SpaceInv, NEW n \in DOMAIN mounts, NEW job \in Space!Jobs, mounts[n].jobs[job] # None
  PROVE  mounts[n].jobs[job] \in JobType
<1>1. PICK m : m = mounts[n]
  OBVIOUS
<1>2. m.jobs \in [Space!Jobs -> JobType \cup {None}]
  BY <1>1, MountAt, MountIs DEF Mounts
<1>3. m.jobs[job] \in JobType \cup {None}
  BY <1>2
<1> QED BY <1>1, <1>3

LEMMA AnsweredKeeps ==
  ASSUME SpaceInv, NEW n \in DOMAIN mounts, NEW job \in Space!Jobs, Space!Answered(n, job)
  PROVE  SpaceInv'
<1>1. PICK m : m = mounts[n]
  OBVIOUS
<1>2. PICK t : t = m.jobs[job]
  OBVIOUS
<1>3. PICK more : more = t.base \cup {"own"}
  OBVIOUS
<1>4. PICK u : u = [step |-> "saving", base |-> more]
  OBVIOUS
<1>5. /\ t # None /\ t.step = "asking" /\ UNCHANGED <<disk, keys, replicas, old, dismissed>>
      /\ mounts' = [mounts EXCEPT ![n].replica = more, ![n].jobs[job] = u]
  BY <1>1, <1>2, <1>3, <1>4 DEF Space!Answered
<1>6. /\ m \in MountType /\ m.jobs \in [Space!Jobs -> JobType \cup {None}]
      /\ m = MountOf(m.scope, m.list, m.loaded, m.key, m.replica, m.offer, m.jobs)
      /\ Mounts(m.scope, m.list, m.loaded, m.key, m.replica, m.offer, m.jobs)
  BY <1>1, MountAt, MountIs DEF Mounts
<1>7. t \in JobType /\ u \in JobType /\ more \in SUBSET Parts /\ ("old" \in more <=> "old" \in t.base)
  <2>1. t \in JobType
    BY <1>1, <1>2, <1>5, JobAt
  <2>2. more \in SUBSET Parts /\ ("old" \in more <=> "old" \in t.base)
    BY <1>3, <2>1 DEF JobType, Parts
  <2> QED BY <1>4, <2>1, <2>2 DEF JobType
<1>8. PICK jobs : jobs = [m.jobs EXCEPT ![job] = u]
  OBVIOUS
<1>9. PICK r : r = MountOf(m.scope, m.list, m.loaded, m.key, more, m.offer, jobs)
  OBVIOUS
<1>10. mounts' = [mounts EXCEPT ![n] = r]
  <2>1. PICK v : v = [m EXCEPT !.replica = more]
    OBVIOUS
  <2>2. v = MountOf(m.scope, m.list, m.loaded, m.key, more, m.offer, m.jobs)
    BY <1>6, <2>1 DEF MountOf
  <2>3. [v EXCEPT !.jobs = jobs] = r /\ v.jobs = m.jobs
    BY <1>9, <2>2 DEF MountOf
  <2>4. PICK g : g = [mounts EXCEPT ![n].replica = more]
    OBVIOUS
  <2>5. g = [mounts EXCEPT ![n] = v]
    BY <1>1, <2>1, <2>4
  <2>6. DOMAIN g = DOMAIN mounts /\ g[n] = v
    BY <2>5
  <2>7. mounts' = [g EXCEPT ![n].jobs[job] = u]
    BY <1>5, <2>4
  <2>8. mounts' = [g EXCEPT ![n] = [v EXCEPT !.jobs[job] = u]]
    BY <2>6, <2>7
  <2>9. [v EXCEPT !.jobs[job] = u] = [v EXCEPT !.jobs = jobs]
    BY <1>8, <2>3
  <2> QED BY <2>3, <2>5, <2>8, <2>9
<1>11. jobs \in [Space!Jobs -> JobType \cup {None}] /\ jobs[job] = u
       /\ \A j \in Space!Jobs : j # job => jobs[j] = m.jobs[j]
  BY <1>6, <1>7, <1>8
<1>12. /\ r \in MountType
       /\ r.scope = m.scope /\ r.loaded = m.loaded /\ r.key = m.key /\ r.replica = more /\ r.jobs = jobs
  <2>1. Mounts(m.scope, m.list, m.loaded, m.key, more, m.offer, jobs)
    BY <1>6, <1>7, <1>11 DEF Mounts
  <2> QED BY <1>9, <2>1, MountedIs
<1>13. n = Len(mounts) => KeyFits(r, keys')
  <2>1. n = Len(mounts) => KeyFits(m, keys)
    BY <1>1, MountAt, LastMount DEF At
  <2> QED BY <1>5, <1>12, <2>1 DEF KeyFits
<1>14. ASSUME ~Careless
       PROVE  /\ \A s \in Scopes : keys'[s] <= 1
              /\ SameOld /\ old' = old
              /\ Knows(r, n = Len(mounts), replicas)
              /\ ImportsAlone(mounts')
  <2>1. Knows(m, n = Len(mounts), replicas)
    BY <1>1, <1>14, MountAt
  <2>2. job # "import" /\ job \in {"sync", "publish"}
    <3>1. job # "import"
      BY <1>2, <1>5, <2>1 DEF Knows
    <3> QED BY <3>1, SpaceAssumed
  <2>3. "old" \in t.base <=> "old" \in replicas[m.scope]
    BY <1>2, <1>5, <2>1, <2>2 DEF Knows
  <2>4. GoesOn(r, mounts[n])
    <3> SUFFICES ASSUME NEW j \in Space!Jobs
                 PROVE  \/ r.jobs[j] = None
                        \/ /\ m.jobs[j] # None /\ (j = "import" => r.jobs[j] = m.jobs[j])
                           /\ "old" \in r.jobs[j].base <=> "old" \in m.jobs[j].base
      BY <1>1 DEF GoesOn
    <3>1. CASE j = job
      <4>1. r.jobs[j].base = more
        BY <1>4, <1>11, <1>12, <3>1
      <4> QED BY <1>2, <1>5, <1>7, <2>2, <3>1, <4>1
    <3>2. CASE j # job
      BY <1>11, <1>12, <3>2
    <3> QED BY <3>1, <3>2
  <2>5. "old" \in r.replica <=> "old" \in replicas[r.scope]
    BY <1>7, <1>12, <2>3
  <2>6. Knows(r, n = Len(mounts), replicas) /\ ImportsAlone(mounts')
    BY <1>1, <1>10, <1>12, <1>14, <2>4, <2>5, GoneOnFits
  <2>7. \A s \in Scopes : keys'[s] <= 1
    BY <1>5, <1>14 DEF SpaceInv, Careful
  <2> QED BY <1>5, <2>6, <2>7 DEF SameOld
<1>15. /\ disk' \in Seq(Scopes) /\ keys' \in [Scopes -> Nat] /\ replicas' \in [Scopes -> SUBSET Parts]
       /\ old' \in BOOLEAN /\ dismissed' \in BOOLEAN
  BY <1>5 DEF SpaceInv, SpaceTypes
<1>16. keys' = keys
  BY <1>5
<1> QED BY <1>1, <1>10, <1>12, <1>13, <1>14, <1>15, <1>16, MountChanges

LEMMA FailsKeeps ==
  ASSUME SpaceInv, NEW n \in DOMAIN mounts, NEW job \in Space!Jobs, Space!Fails(n, job)
  PROVE  SpaceInv'
<1>1. PICK m : m = mounts[n]
  OBVIOUS
<1>2. mounts' = [mounts EXCEPT ![n].jobs[job] = None] /\ UNCHANGED <<disk, keys, replicas, old, dismissed>>
  BY DEF Space!Fails
<1>3. /\ m \in MountType /\ m.jobs \in [Space!Jobs -> JobType \cup {None}]
      /\ m = MountOf(m.scope, m.list, m.loaded, m.key, m.replica, m.offer, m.jobs)
      /\ Mounts(m.scope, m.list, m.loaded, m.key, m.replica, m.offer, m.jobs)
  BY <1>1, MountAt, MountIs DEF Mounts
<1>4. PICK jobs : jobs = [m.jobs EXCEPT ![job] = None]
  OBVIOUS
<1>5. PICK r : r = MountOf(m.scope, m.list, m.loaded, m.key, m.replica, m.offer, jobs)
  OBVIOUS
<1>6. mounts' = [mounts EXCEPT ![n] = r]
  <2>1. [m EXCEPT !.jobs = jobs] = r
    BY <1>3, <1>5 DEF MountOf
  <2>2. [m EXCEPT !.jobs[job] = None] = [m EXCEPT !.jobs = jobs]
    BY <1>4
  <2>3. mounts' = [mounts EXCEPT ![n] = [m EXCEPT !.jobs[job] = None]]
    BY <1>1, <1>2
  <2> QED BY <2>1, <2>2, <2>3
<1>7. jobs \in [Space!Jobs -> JobType \cup {None}] /\ jobs[job] = None
      /\ \A j \in Space!Jobs : j # job => jobs[j] = m.jobs[j]
  BY <1>3, <1>4
<1>8. /\ r \in MountType
      /\ r.scope = m.scope /\ r.loaded = m.loaded /\ r.key = m.key /\ r.replica = m.replica /\ r.jobs = jobs
  <2>1. Mounts(m.scope, m.list, m.loaded, m.key, m.replica, m.offer, jobs)
    BY <1>3, <1>7 DEF Mounts
  <2> QED BY <1>5, <2>1, MountedIs
<1>9. n = Len(mounts) => KeyFits(r, keys')
  <2>1. n = Len(mounts) => KeyFits(m, keys)
    BY <1>1, MountAt, LastMount DEF At
  <2> QED BY <1>2, <1>8, <2>1 DEF KeyFits
<1>10. ASSUME ~Careless
       PROVE  /\ \A s \in Scopes : keys'[s] <= 1
              /\ SameOld /\ old' = old
              /\ Knows(r, n = Len(mounts), replicas)
              /\ ImportsAlone(mounts')
  <2>1. Knows(m, n = Len(mounts), replicas)
    BY <1>1, <1>10, MountAt
  <2>2. GoesOn(r, mounts[n])
    BY <1>1, <1>7, <1>8 DEF GoesOn
  <2>3. n = Len(mounts) /\ r.loaded => ("old" \in r.replica <=> "old" \in replicas[r.scope])
    BY <1>8, <2>1 DEF Knows
  <2>4. Knows(r, n = Len(mounts), replicas) /\ ImportsAlone(mounts')
    BY <1>1, <1>6, <1>8, <1>10, <2>2, <2>3, GoneOnFits
  <2>5. \A s \in Scopes : keys'[s] <= 1
    BY <1>2, <1>10 DEF SpaceInv, Careful
  <2> QED BY <1>2, <2>4, <2>5 DEF SameOld
<1>11. /\ disk' \in Seq(Scopes) /\ keys' \in [Scopes -> Nat] /\ replicas' \in [Scopes -> SUBSET Parts]
       /\ old' \in BOOLEAN /\ dismissed' \in BOOLEAN
  BY <1>2 DEF SpaceInv, SpaceTypes
<1>12. keys' = keys
  BY <1>2
<1> QED BY <1>1, <1>6, <1>8, <1>9, <1>10, <1>11, <1>12, MountChanges

(* A replica is kept that has the old one if the last one kept had it.      *)
StillOffered(m, job) == m.offer /\ job # "sync"

LEMMA SavedKeeps ==
  ASSUME SpaceInv, NEW n \in DOMAIN mounts, NEW job \in Space!Jobs, NEW ok \in BOOLEAN, Space!Saved(n, job, ok)
  PROVE  SpaceInv'
<1>1. PICK m : m = mounts[n]
  OBVIOUS
<1>2. PICK t : t = m.jobs[job]
  OBVIOUS
<1>3. PICK o : o = StillOffered(m, job)
  OBVIOUS
<1>4. /\ job # "import" /\ t # None /\ UNCHANGED <<keys, old, dismissed>>
      /\ replicas' = IF ok THEN [replicas EXCEPT ![m.scope] = t.base] ELSE replicas
  BY <1>1, <1>2 DEF Space!Saved, Space!Stored
<1>5. /\ m \in MountType /\ m.jobs \in [Space!Jobs -> JobType \cup {None}] /\ m.scope \in Scopes
      /\ m = MountOf(m.scope, m.list, m.loaded, m.key, m.replica, m.offer, m.jobs)
      /\ Mounts(m.scope, m.list, m.loaded, m.key, m.replica, m.offer, m.jobs)
  BY <1>1, MountAt, MountIs DEF Mounts
<1>6. PICK jobs : jobs = [m.jobs EXCEPT ![job] = None]
  OBVIOUS
<1>7. PICK v : v = MountOf(m.scope, m.list, m.loaded, m.key, m.replica, o, jobs)
  OBVIOUS
<1>8. Space!Remember(n, v)
  <2>1. Space!Remember(n, [m EXCEPT !.jobs[job] = None, !.offer = @ /\ job # "sync"])
    BY <1>1 DEF Space!Saved
  <2>2. PICK u : u = [m EXCEPT !.jobs = jobs]
    OBVIOUS
  <2>3. u = MountOf(m.scope, m.list, m.loaded, m.key, m.replica, m.offer, jobs) /\ u.offer = m.offer
    BY <1>5, <2>2 DEF MountOf
  <2>4. [u EXCEPT !.offer = o] = v
    BY <1>7, <2>3 DEF MountOf
  <2>5. [m EXCEPT !.jobs[job] = None, !.offer = @ /\ job # "sync"] = [u EXCEPT !.offer = @ /\ job # "sync"]
    BY <1>6, <2>2
  <2>6. [u EXCEPT !.offer = @ /\ job # "sync"] = [u EXCEPT !.offer = o]
    BY <1>3, <2>3 DEF StillOffered
  <2> QED BY <2>1, <2>4, <2>5, <2>6
<1>9. jobs \in [Space!Jobs -> JobType \cup {None}] /\ jobs[job] = None
      /\ \A j \in Space!Jobs : j # job => jobs[j] = m.jobs[j]
  BY <1>5, <1>6
<1>10. /\ v \in MountType
       /\ v.scope = m.scope /\ v.loaded = m.loaded /\ v.key = m.key /\ v.replica = m.replica /\ v.jobs = jobs
  <2>1. o \in BOOLEAN
    BY <1>3 DEF StillOffered
  <2>2. Mounts(m.scope, m.list, m.loaded, m.key, m.replica, o, jobs)
    BY <1>5, <1>9, <2>1 DEF Mounts
  <2> QED BY <1>7, <2>2, MountedIs
<1>11. disk' \in Seq(Scopes)
  BY <1>8, <1>10, RememberIs
<1>12. PICK r \in MountType : /\ mounts' = [mounts EXCEPT ![n] = r]
                              /\ r.scope = v.scope /\ r.loaded = v.loaded /\ r.key = v.key
                              /\ r.replica = v.replica /\ r.offer = v.offer /\ r.jobs = v.jobs
  BY <1>8, <1>10, RememberIs
<1>13. n = Len(mounts) => KeyFits(r, keys')
  <2>1. n = Len(mounts) => KeyFits(m, keys)
    BY <1>1, MountAt, LastMount DEF At
  <2> QED BY <1>4, <1>10, <1>12, <2>1 DEF KeyFits
<1>14. t \in JobType /\ t.base \in SUBSET Parts
  <2>1. t \in JobType
    BY <1>1, <1>2, <1>4, JobAt
  <2> QED BY <2>1 DEF JobType
<1>15. replicas \in [Scopes -> SUBSET Parts] /\ replicas' \in [Scopes -> SUBSET Parts]
  <2>1. replicas \in [Scopes -> SUBSET Parts]
    BY DEF SpaceInv, SpaceTypes
  <2> QED BY <1>4, <1>5, <1>14, <2>1
<1>16. ASSUME ~Careless
       PROVE  /\ \A s \in Scopes : keys'[s] <= 1
              /\ SameOld /\ old' = old
              /\ Knows(r, n = Len(mounts), replicas)
              /\ ImportsAlone(mounts')
  <2>1. Knows(m, n = Len(mounts), replicas)
    BY <1>1, <1>16, MountAt
  <2>2. job \in {"sync", "publish"}
    BY <1>4, SpaceAssumed
  <2>3. "old" \in t.base <=> "old" \in replicas[m.scope]
    BY <1>2, <1>4, <2>1, <2>2 DEF Knows
  <2>4. SameOld
    BY <1>4, <1>5, <1>15, <2>3 DEF SameOld
  <2>5. GoesOn(r, mounts[n])
    BY <1>1, <1>9, <1>10, <1>12 DEF GoesOn
  <2>6. n = Len(mounts) /\ r.loaded => ("old" \in r.replica <=> "old" \in replicas[r.scope])
    BY <1>10, <1>12, <2>1 DEF Knows
  <2>7. Knows(r, n = Len(mounts), replicas) /\ ImportsAlone(mounts')
    BY <1>1, <1>10, <1>12, <1>16, <2>5, <2>6, GoneOnFits
  <2>8. \A s \in Scopes : keys'[s] <= 1
    BY <1>4, <1>16 DEF SpaceInv, Careful
  <2> QED BY <1>4, <2>4, <2>7, <2>8
<1>17. keys' \in [Scopes -> Nat] /\ old' \in BOOLEAN /\ dismissed' \in BOOLEAN /\ keys' = keys
  BY <1>4 DEF SpaceInv, SpaceTypes
<1> QED BY <1>1, <1>10, <1>11, <1>12, <1>13, <1>15, <1>16, <1>17, MountChanges

(* The old replica is kept before it is forgotten.                          *)
LEMMA ImportedKeeps ==
  ASSUME SpaceInv, NEW n \in DOMAIN mounts, NEW ok \in BOOLEAN, Space!Imported(n, ok)
  PROVE  SpaceInv'
<1>1. PICK m : m = mounts[n]
  OBVIOUS
<1>2. /\ m.jobs["import"] # None /\ (ok \/ Careless) /\ old' = FALSE /\ dismissed' = TRUE
      /\ replicas' = IF ok THEN [replicas EXCEPT ![m.scope] = {"old"}] ELSE replicas
      /\ mounts' = [mounts EXCEPT ![n].replica = {"old"}, ![n].offer = FALSE, ![n].jobs["import"] = None]
      /\ UNCHANGED <<disk, keys>>
  BY <1>1 DEF Space!Imported
<1>3. /\ m \in MountType /\ m.jobs \in [Space!Jobs -> JobType \cup {None}] /\ m.scope \in Scopes
      /\ m = MountOf(m.scope, m.list, m.loaded, m.key, m.replica, m.offer, m.jobs)
      /\ Mounts(m.scope, m.list, m.loaded, m.key, m.replica, m.offer, m.jobs)
  BY <1>1, MountAt, MountIs DEF Mounts
<1>4. PICK jobs : jobs = [m.jobs EXCEPT !["import"] = None]
  OBVIOUS
<1>5. PICK no : no = FALSE
  OBVIOUS
<1>6. PICK held : held = {"old"}
  OBVIOUS
<1>7. PICK r : r = MountOf(m.scope, m.list, m.loaded, m.key, held, no, jobs)
  OBVIOUS
<1>8. mounts' = [mounts EXCEPT ![n] = r]
  <2>1. PICK u : u = [m EXCEPT !.replica = held]
    OBVIOUS
  <2>2. u = MountOf(m.scope, m.list, m.loaded, m.key, held, m.offer, m.jobs)
    BY <1>3, <2>1 DEF MountOf
  <2>3. PICK v : v = [u EXCEPT !.offer = no]
    OBVIOUS
  <2>4. v = MountOf(m.scope, m.list, m.loaded, m.key, held, no, m.jobs) /\ v.jobs = m.jobs
    BY <2>2, <2>3 DEF MountOf
  <2>5. [v EXCEPT !.jobs = jobs] = r
    BY <1>7, <2>4 DEF MountOf
  <2>6. [v EXCEPT !.jobs["import"] = None] = [v EXCEPT !.jobs = jobs]
    BY <1>4, <2>4
  <2>7. PICK g : g = [mounts EXCEPT ![n].replica = held]
    OBVIOUS
  <2>8. g = [mounts EXCEPT ![n] = u] /\ DOMAIN g = DOMAIN mounts /\ g[n] = u
    BY <1>1, <2>1, <2>7
  <2>9. PICK h : h = [g EXCEPT ![n].offer = no]
    OBVIOUS
  <2>10. h = [mounts EXCEPT ![n] = v] /\ DOMAIN h = DOMAIN mounts /\ h[n] = v
    <3>1. h = [g EXCEPT ![n] = v] /\ DOMAIN h = DOMAIN g /\ h[n] = v
      BY <2>3, <2>8, <2>9
    <3>2. [g EXCEPT ![n] = v] = [mounts EXCEPT ![n] = v]
      BY <2>8
    <3> QED BY <2>8, <3>1, <3>2
  <2>11. mounts' = [h EXCEPT ![n].jobs["import"] = None]
    BY <1>2, <1>5, <1>6, <2>7, <2>9
  <2>12. mounts' = [h EXCEPT ![n] = [v EXCEPT !.jobs["import"] = None]]
    BY <2>10, <2>11
  <2> QED BY <2>5, <2>6, <2>10, <2>12
<1>9. jobs \in [Space!Jobs -> JobType \cup {None}] /\ jobs["import"] = None
      /\ \A j \in Space!Jobs : j # "import" => jobs[j] = m.jobs[j]
  BY <1>3, <1>4, SpaceAssumed
<1>10. /\ r \in MountType
       /\ r.scope = m.scope /\ r.loaded = m.loaded /\ r.key = m.key /\ r.replica = held /\ r.jobs = jobs
  <2>1. held \in SUBSET Parts /\ no \in BOOLEAN
    BY <1>5, <1>6 DEF Parts
  <2>2. Mounts(m.scope, m.list, m.loaded, m.key, held, no, jobs)
    BY <1>3, <1>9, <2>1 DEF Mounts
  <2> QED BY <1>7, <2>2, MountedIs
<1>11. n = Len(mounts) => KeyFits(r, keys')
  <2>1. n = Len(mounts) => KeyFits(m, keys)
    BY <1>1, MountAt, LastMount DEF At
  <2> QED BY <1>2, <1>10, <2>1 DEF KeyFits
<1>12. replicas \in [Scopes -> SUBSET Parts] /\ replicas' \in [Scopes -> SUBSET Parts]
  <2>1. replicas \in [Scopes -> SUBSET Parts]
    BY DEF SpaceInv, SpaceTypes
  <2>2. {"old"} \in SUBSET Parts
    BY DEF Parts
  <2> QED BY <1>2, <1>3, <2>1, <2>2
<1>13. ASSUME ~Careless PROVE Careful'
  <2>1. /\ n \in 1..Len(mounts) /\ Len(mounts) \in Nat /\ Len(mounts') = Len(mounts) /\ mounts'[n] = r
        /\ \A i \in 1..Len(mounts) : i # n => mounts'[i] = mounts[i]
    BY <1>8, <1>10, MountSet
  <2>2. ImportsAlone(mounts) /\ \A s \in Scopes : keys[s] <= 1
    BY <1>13 DEF SpaceInv, Careful
  <2>3. n = Len(mounts) /\ \A i \in 1..Len(mounts), j \in Space!Jobs :
                             mounts[i].jobs[j] # None => i = n /\ j = "import"
    BY <1>1, <1>2, <2>1, <2>2 DEF ImportsAlone
  <2>4. \A i \in 1..Len(mounts), j \in Space!Jobs : mounts'[i].jobs[j] = None
    <3> TAKE i \in 1..Len(mounts), j \in Space!Jobs
    <3>1. CASE i = n
      <4>1. mounts'[i].jobs[j] = jobs[j]
        BY <1>10, <2>1, <3>1
      <4>2. j # "import" => m.jobs[j] = None
        BY <1>1, <2>3, <3>1
      <4> QED BY <1>9, <4>1, <4>2
    <3>2. CASE i # n
      BY <2>1, <2>3, <3>2
    <3> QED BY <3>1, <3>2
  <2>5. replicas'[m.scope] = {"old"}
    BY <1>2, <1>3, <1>12, <1>13
  <2>6. "import" \in Space!Jobs /\ "sync" \in Space!Jobs /\ "publish" \in Space!Jobs
    BY SpaceAssumed
  <2>7. \A i \in 1..Len(mounts) : Knows(mounts'[i], i = Len(mounts), replicas')
    <3> TAKE i \in 1..Len(mounts)
    <3>1. i = Len(mounts) => "old" \in mounts'[i].replica /\ "old" \in replicas'[mounts'[i].scope]
      BY <1>6, <1>10, <2>1, <2>3, <2>5
    <3>2. \A j \in Space!Jobs : mounts'[i].jobs[j] = None
      BY <2>4
    <3> QED BY <2>6, <3>1, <3>2 DEF Knows
  <2>8. ImportsAlone(mounts')
    BY <2>1, <2>4, <2>6 DEF ImportsAlone
  <2>9. \E s \in Scopes : "old" \in replicas'[s]
    BY <1>3, <2>5
  <2>10. (\A i \in 1..Len(mounts) : Knows(mounts[i], i = Len(mounts), replicas))'
    BY <2>1, <2>7
  <2>11. ImportsAlone(mounts)' /\ (\A s \in Scopes : keys[s] <= 1)' /\ (\E s \in Scopes : "old" \in replicas[s])'
    BY <1>2, <2>2, <2>8, <2>9 DEF ImportsAlone
  <2> QED BY <2>10, <2>11 DEF Careful
<1>14. disk' \in Seq(Scopes) /\ keys' \in [Scopes -> Nat] /\ old' \in BOOLEAN /\ dismissed' \in BOOLEAN /\ keys' = keys
  BY <1>2 DEF SpaceInv, SpaceTypes
<1> QED BY <1>1, <1>8, <1>10, <1>11, <1>12, <1>13, <1>14, MountFits

LEMMA SpaceRestartKeeps ==
  ASSUME SpaceInv, Space!Restart
  PROVE  SpaceInv'
<1>1. mounts' = <<>> /\ UNCHANGED <<disk, keys, replicas, old, dismissed>>
  BY DEF Space!Restart
<1>2. mounts' \in Seq(MountType) /\ Len(mounts') = 0
  BY <1>1
<1>3. SpaceTypes'
  BY <1>1, <1>2 DEF SpaceInv, SpaceTypes
<1>4. ASSUME ~Careless PROVE Careful'
  <2>1. ImportsAlone(mounts)' /\ (\A n \in 1..Len(mounts) : Knows(mounts[n], n = Len(mounts), replicas))'
    BY <1>2 DEF ImportsAlone
  <2>2. (\A s \in Scopes : keys[s] <= 1)' /\ (old \/ \E s \in Scopes : "old" \in replicas[s])'
    BY <1>1, <1>4 DEF SpaceInv, Careful
  <2> QED BY <2>1, <2>2 DEF Careful
<1> QED BY <1>1, <1>3, <1>4 DEF SpaceInv

LEMMA SpaceSteps ==
  ASSUME SpaceInv, [Space!Next]_spaceVars
  PROVE  SpaceInv'
<1>1. CASE UNCHANGED spaceVars
  <2>1. UNCHANGED <<mounts, disk, keys, replicas, old, dismissed>>
    BY <1>1 DEF spaceVars
  <2>2. SpaceTypes'
    BY <2>1 DEF SpaceInv, SpaceTypes
  <2>3. mounts' # <<>> => KeyFits(mounts[At], keys)'
    BY <2>1 DEF SpaceInv, KeyFits, At
  <2>4. ASSUME Careful PROVE Careful'
    <3>1. (\A n \in 1..Len(mounts) : Knows(mounts[n], n = Len(mounts), replicas))'
      BY <2>1, <2>4 DEF Careful, Knows
    <3>2. ImportsAlone(mounts)'
      BY <2>1, <2>4 DEF Careful, ImportsAlone
    <3>3. (\A s \in Scopes : keys[s] <= 1)' /\ (old \/ \E s \in Scopes : "old" \in replicas[s])'
      BY <2>1, <2>4 DEF Careful
    <3> QED BY <3>1, <3>2, <3>3 DEF Careful
  <2> QED BY <2>2, <2>3, <2>4 DEF SpaceInv
<1>2. CASE \E s \in Scopes : Space!Open(s)
  BY <1>2, OpenKeeps
<1>3. CASE Space!Load
  BY <1>3, LoadKeeps
<1>4. CASE Space!CreateIdentity
  BY <1>4, CreateKeeps
<1>5. CASE Space!Publish
  BY <1>5, PublishKeeps
<1>6. CASE Space!Sync
  BY <1>6, SyncKeeps
<1>7. CASE Space!ToggleFollow
  BY <1>7, ToggleKeeps
<1>8. CASE Space!ImportLegacy
  BY <1>8, ImportLegacyKeeps
<1>9. CASE Space!DismissLegacy
  BY <1>9, DismissKeeps
<1>10. CASE Space!ResetAuthor
  BY <1>10, ResetKeeps
<1>11. CASE Space!Restart
  BY <1>11, SpaceRestartKeeps
<1>12. ASSUME NEW n \in DOMAIN mounts, NEW job \in Space!Jobs,
              Space!Answered(n, job) \/ Space!Fails(n, job) \/ Space!Saved(n, job, TRUE) \/ Space!Saved(n, job, FALSE)
       PROVE  SpaceInv'
  <2>1. CASE Space!Answered(n, job)
    BY <2>1, AnsweredKeeps
  <2>2. CASE Space!Fails(n, job)
    BY <2>2, FailsKeeps
  <2>3. CASE Space!Saved(n, job, TRUE)
    BY <2>3, SavedKeeps
  <2>4. CASE Space!Saved(n, job, FALSE)
    BY <2>4, SavedKeeps
  <2> QED BY <1>12, <2>1, <2>2, <2>3, <2>4
<1>13. ASSUME NEW n \in DOMAIN mounts, Space!Imported(n, TRUE) \/ Space!Imported(n, FALSE)
       PROVE  SpaceInv'
  <2>1. CASE Space!Imported(n, TRUE)
    BY <2>1, ImportedKeeps
  <2>2. CASE Space!Imported(n, FALSE)
    BY <2>2, ImportedKeeps
  <2> QED BY <1>13, <2>1, <2>2
<1> QED
  BY <1>1, <1>2, <1>3, <1>4, <1>5, <1>6, <1>7, <1>8, <1>9, <1>10, <1>11, <1>12, <1>13 DEF Space!Next

LEMMA SpaceIsSound ==
  ASSUME SpaceInv
  PROVE  Space!NothingReplaced
<1>1. Space!OneAuthor
  <2>1. mounts # <<>> /\ Space!Current.key # 0 => Space!Current.key = keys[Space!Current.scope]
    BY LastMount DEF KeyFits
  <2>2. Careless \/ \A s \in Scopes : keys[s] <= 1
    BY DEF SpaceInv, Careful
  <2> QED BY <2>1, <2>2 DEF Space!OneAuthor
<1>2. Space!OldKept
  BY DEF SpaceInv, Careful, Space!OldKept
<1> QED BY <1>1, <1>2 DEF Space!NothingReplaced

LEMMA SpaceFocus ==
  ASSUME [PortalsNext]_portalsVars
  PROVE  focus' = focus /\ (focus = "workspaces" => [Space!Next]_spaceVars)
BY DEF PortalsNext, portalsVars

(* A portal has one author: what the workspace on the screen signs with is  *)
(* the key in storage, whatever earlier mounts of it still do; and unless   *)
(* the user asks before a workspace is loaded, or imports beside something  *)
(* else, no second key is ever drawn, and the old replica is not lost, in   *)
(* whatever order syncs, publishings, resets and an import end, and portals *)
(* are opened (PortalWorkspace.tsx, portalIdentity.ts, portalMigration.ts). *)
THEOREM WorkspacesReplaceNothing == PortalsSpec => [](focus = "workspaces" => Space!NothingReplaced)
<1> DEFINE Inv == focus = "workspaces" => SpaceInv
           Sound == focus = "workspaces" => Space!NothingReplaced
<1>1. PortalsInit => Inv
  BY SpaceStart DEF PortalsInit
<1>2. Inv /\ [PortalsNext]_portalsVars => Inv'
  <2> SUFFICES ASSUME Inv, [PortalsNext]_portalsVars, focus' = "workspaces" PROVE SpaceInv'
    OBVIOUS
  <2>1. focus = "workspaces" /\ [Space!Next]_spaceVars
    BY SpaceFocus
  <2> QED BY <2>1, SpaceSteps
<1>3. Inv => Sound
  BY SpaceIsSound
<1>4. PortalsSpec => []Sound
  <2> HIDE DEF Inv, Sound
  <2> QED BY <1>1, <1>2, <1>3, PTL DEF PortalsSpec, portalsVars
<1> QED BY <1>4
=============================================================================
