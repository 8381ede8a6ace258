------------------------ MODULE CommunityFeedProofs ------------------------
(***************************************************************************)
(* What is proved about the timeline of a community, for any number of      *)
(* posts, any size of a page and of the timeline, and any overlap of        *)
(* refreshes:                                                               *)
(*   TypeCorrect     every variable keeps its type (TypeOK);                *)
(*   NothingPassed   the cursor passes no post unseen (NothingSkipped).     *)
(* The second needs to know what mergeFeedPosts keeps - the newest posts,   *)
(* as many as fit (KeepsNewest) - which is a fact about finite sets of      *)
(* numbers, and that a page on its way begins no later than the cursor      *)
(* unless it is the page of a first sync (PagesInReach).                    *)
(***************************************************************************)
EXTENDS CommunityFeed, FiniteSetTheorems, SequenceTheorems, NaturalsInduction,
        WellFoundedInduction, TLAPS

-----------------------------------------------------------------------------
(* A set of naturals has a least element.                                   *)
LEMMA LeastNat ==
  ASSUME NEW S \in SUBSET Nat, S # {}
  PROVE  \E n \in S : \A m \in S : n <= m
<1> DEFINE Below == {pair \in Nat \X Nat : pair[1] < pair[2]}
<1>1. IsWellFoundedOn(Below, Nat)
  BY NatLessThanWellFounded DEF OpToRel
<1>2. PICK n \in S : \A m \in S : <<m, n>> \notin Below
  <2> HIDE DEF Below
  <2> QED BY <1>1, WFMin
<1>3. \A m \in S : ~(m < n)
  BY <1>2
<1> QED
  BY <1>3

LEMMA MinProperty ==
  ASSUME NEW S \in SUBSET Nat, S # {}
  PROVE  Min(S) \in S /\ \A m \in S : Min(S) <= m
<1>1. PICK n \in S : \A m \in S : n <= m
  BY LeastNat
<1> QED
  BY <1>1 DEF Min

LEMMA MaxOfTwo ==
  ASSUME NEW a \in Int, NEW b \in Int
  PROVE  Max({a, b}) = IF a >= b THEN a ELSE b
BY DEF Max

(* Of a number and an interval, the interval's end if that is the greater.  *)
LEMMA MaxWithInterval ==
  ASSUME NEW c \in Nat, NEW a \in Nat, NEW b \in Nat
  PROVE  Max({c} \cup (a .. b)) = IF a <= b /\ c < b THEN b ELSE c
<1> DEFINE S == {c} \cup (a .. b)
           top == IF a <= b /\ c < b THEN b ELSE c
<1>1. top \in S /\ \A y \in S : top >= y
  OBVIOUS
<1>2. \A x \in S : (\A y \in S : x >= y) => x = top
  <2> TAKE x \in S
  <2> HAVE \A y \in S : x >= y
  <2>1. x >= top /\ top >= x /\ x \in Int /\ top \in Int
    BY <1>1
  <2> QED
    BY <2>1
<1> HIDE DEF S, top
<1>3. Max(S) = top
  BY <1>1, <1>2 DEF Max
<1> QED
  BY <1>3 DEF S, top

-----------------------------------------------------------------------------
(* The newest posts of A, room of them at most: what Merged keeps.          *)
Newest(A, room) == {q \in A : Cardinality({p \in A : p > q}) < room}

(* Of a finite set of numbers the newest are at most as many as there is    *)
(* room for; and if one is left out, there are just as many, all newer.     *)
LEMMA KeepsNewest ==
  ASSUME NEW A \in SUBSET Nat, IsFiniteSet(A), NEW room \in Nat \ {0}
  PROVE  /\ IsFiniteSet(Newest(A, room)) /\ Newest(A, room) \in SUBSET A
         /\ Cardinality(Newest(A, room)) <= room
         /\ \A q \in A \ Newest(A, room) :
              /\ Cardinality(Newest(A, room)) = room
              /\ \A r \in Newest(A, room) : q < r
<1> DEFINE Above(n) == {p \in A : p > n}
           T == Newest(A, room)
<1>0. \A p \in A : p \in Nat
  OBVIOUS
<1>1. \A n \in Nat : /\ Above(n) \in SUBSET A /\ IsFiniteSet(Above(n))
                     /\ Cardinality(Above(n)) \in Nat
  <2> TAKE n \in Nat
  <2>1. Above(n) \in SUBSET A
    OBVIOUS
  <2>2. IsFiniteSet(Above(n))
    BY <2>1, FS_Subset
  <2> QED
    BY <2>1, <2>2, FS_CardinalityType
<1>2. \A m, n \in Nat : m <= n => Cardinality(Above(n)) <= Cardinality(Above(m))
  <2> TAKE m, n \in Nat
  <2> HAVE m <= n
  <2>1. Above(n) \in SUBSET Above(m)
    <3>1. ASSUME NEW p \in A, p > n PROVE p > m
      <4>1. p \in Nat
        BY <1>0
      <4> QED
        BY <3>1, <4>1
    <3> QED
      BY <3>1
  <2>2. IsFiniteSet(Above(m))
    BY <1>1
  <2> HIDE DEF Above
  <2> QED
    BY <2>1, <2>2, FS_Subset
<1>3. \A n \in Nat : Cardinality(Above(n)) <= Cardinality(Above(n + 1)) + 1
  <2> TAKE n \in Nat
  <2>1. Above(n) \in SUBSET (Above(n + 1) \cup {n + 1})
    <3>1. ASSUME NEW p \in A, p > n PROVE p > n + 1 \/ p = n + 1
      <4>1. p \in Nat
        BY <1>0
      <4> QED
        BY <3>1, <4>1
    <3> QED
      BY <3>1
  <2>2. IsFiniteSet(Above(n + 1)) /\ Cardinality(Above(n + 1)) \in Nat /\ Cardinality(Above(n)) \in Nat
    BY <1>1
  <2> HIDE DEF Above
  <2>3. /\ IsFiniteSet(Above(n + 1) \cup {n + 1})
        /\ Cardinality(Above(n + 1) \cup {n + 1}) =
             IF n + 1 \in Above(n + 1) THEN Cardinality(Above(n + 1))
             ELSE Cardinality(Above(n + 1)) + 1
    BY <2>2, FS_AddElement
  <2>4. Cardinality(Above(n)) <= Cardinality(Above(n + 1) \cup {n + 1})
    BY <2>1, <2>3, FS_Subset
  <2> QED
    BY <2>2, <2>3, <2>4
<1>4. \E n \in Nat : Cardinality(Above(n)) < room
  <2> DEFINE Sizes == {Cardinality(Above(n)) : n \in Nat}
  <2>1. Sizes \in SUBSET Nat
    BY <1>1
  <2>5. Sizes # {}
    <3>1. Cardinality(Above(0)) \in Sizes
      OBVIOUS
    <3> QED
      BY <3>1
  <2>2. PICK s \in Sizes : \A t \in Sizes : s <= t
    <3> HIDE DEF Sizes
    <3> QED
      BY <2>1, <2>5, LeastNat
  <2>3. PICK n \in Nat : s = Cardinality(Above(n))
    BY <2>2
  <2>4. s = 0
    <3> SUFFICES ASSUME s # 0 PROVE FALSE
      OBVIOUS
    <3>1. PICK p \in Above(n) : TRUE
      BY <1>1, <2>3, FS_EmptySet
    <3>2. p \in Nat /\ Above(p) \in SUBSET Above(n) /\ p \in Above(n) /\ p \notin Above(p)
      BY <2>3, <3>1
    <3>3. Cardinality(Above(p)) <= s /\ Cardinality(Above(p)) # s
      BY <1>1, <2>3, <3>2, FS_Subset
    <3>4. s <= Cardinality(Above(p))
      BY <2>2, <3>2
    <3>5. Cardinality(Above(p)) \in Nat /\ s \in Nat
      BY <1>1, <2>3, <3>2
    <3> QED
      BY <3>3, <3>4, <3>5
  <2>6. Cardinality(Above(n)) < room
    BY <2>3, <2>4
  <2> QED
    BY <2>6
<1>5. PICK m \in Nat : /\ Cardinality(Above(m)) < room
                       /\ \A n \in Nat : Cardinality(Above(n)) < room => m <= n
  <2> DEFINE Small == {n \in Nat : Cardinality(Above(n)) < room}
  <2>1. Small \in SUBSET Nat /\ Small # {}
    BY <1>4
  <2>2. PICK m \in Small : \A n \in Small : m <= n
    <3> HIDE DEF Small
    <3> QED
      BY <2>1, LeastNat
  <2>3. m \in Nat /\ Cardinality(Above(m)) < room
    BY <2>2
  <2>4. \A n \in Nat : Cardinality(Above(n)) < room => m <= n
    BY <2>2
  <2> QED
    BY <2>3, <2>4
<1>6. T = {q \in A : Cardinality(Above(q)) < room}
  BY DEF Newest
<1>7. T = {q \in A : q >= m}
  <2>1. ASSUME NEW q \in A PROVE Cardinality(Above(q)) < room <=> q >= m
    <3>1. q \in Nat
      OBVIOUS
    <3>2. q >= m => Cardinality(Above(q)) <= Cardinality(Above(m))
      BY <1>2, <3>1
    <3>3. Cardinality(Above(q)) \in Nat /\ Cardinality(Above(m)) \in Nat
      BY <1>1, <3>1
    <3> HIDE DEF Above
    <3> QED
      BY <1>5, <3>1, <3>2, <3>3
  <2> HIDE DEF Above, T
  <2> QED
    BY <1>6, <2>1
<1>8. T \in SUBSET A /\ IsFiniteSet(T) /\ Cardinality(T) \in Nat
  <2>1. T \in SUBSET A
    BY <1>7
  <2>2. IsFiniteSet(T)
    BY <2>1, FS_Subset
  <2> QED
    BY <2>1, <2>2, FS_CardinalityType
<1>9. CASE m = 0
  <2>7. \A q \in A : q >= m
    <3>1. \A n \in Nat : n >= 0
      OBVIOUS
    <3> QED
      BY <1>0, <1>9, <3>1
  <2>6. T = A
    <3> HIDE DEF T
    <3> QED
      BY <1>7, <2>7
  <2>1. T = A /\ Above(0) \in SUBSET A /\ T \in SUBSET (Above(0) \cup {0})
    BY <1>0, <2>6
  <2>2. IsFiniteSet(Above(0)) /\ Cardinality(Above(0)) \in Nat /\ Cardinality(Above(0)) < room
    BY <1>1, <1>5, <1>9
  <2> HIDE DEF Above, T
  <2>3. /\ IsFiniteSet(Above(0) \cup {0})
        /\ Cardinality(Above(0) \cup {0}) =
             IF 0 \in Above(0) THEN Cardinality(Above(0)) ELSE Cardinality(Above(0)) + 1
    BY <2>2, FS_AddElement
  <2>4. Cardinality(T) <= Cardinality(Above(0) \cup {0})
    BY <2>1, <2>3, FS_Subset
  <2>5. Cardinality(T) <= room
    BY <1>8, <2>2, <2>3, <2>4
  <2> QED
    BY <1>8, <2>1, <2>5 DEF T
<1>10. CASE m # 0
  <2>5. \A p \in A : p >= m <=> p > m - 1
    BY <1>0
  <2>6. m - 1 \in Nat
    BY <1>10
  <2>1. m - 1 \in Nat /\ T = Above(m - 1)
    <3> HIDE DEF T
    <3> QED
      BY <1>7, <2>5, <2>6
  <2>2. Cardinality(T) >= room
    <3>1. ~(Cardinality(Above(m - 1)) < room)
      BY <1>5, <2>1
    <3> QED
      BY <1>8, <2>1, <3>1
  <2>3. Cardinality(T) <= room
    <3>1. Cardinality(Above(m - 1)) <= Cardinality(Above(m)) + 1
      <4>1. m - 1 + 1 = m
        OBVIOUS
      <4> HIDE DEF Above
      <4> QED
        BY <1>3, <2>1, <4>1
    <3>2. Cardinality(Above(m)) \in Nat
      BY <1>1
    <3> HIDE DEF Above
    <3> QED
      BY <1>5, <1>8, <2>1, <3>1, <3>2
  <2>4. ASSUME NEW q \in A \ T, NEW r \in T PROVE q < r
    <3>1. q \in A /\ ~(q >= m) /\ r \in A /\ r >= m
      <4> HIDE DEF T
      <4> QED BY <1>7
    <3>2. q \in Nat /\ r \in Nat
      BY <1>0, <3>1
    <3> HIDE DEF T
    <3> QED
      BY <3>1, <3>2
  <2> QED
    BY <1>8, <2>2, <2>3, <2>4 DEF T
<1> QED
  BY <1>9, <1>10

-----------------------------------------------------------------------------
(* The types TypeOK leaves open: what a request is, and that the wire and   *)
(* the feed are sequences.                                                  *)
Requests ==
  [by : Clicks \cup {"open", "poll", "composer", "older"}, kind : {"health", "page", "older"},
   since : Nat, below : Nat, first : BOOLEAN, served : BOOLEAN, seen : Nat]

WireTypeOK ==
  /\ wire \in Seq(Requests)
  /\ \A i \in 1..Len(wire) : /\ wire[i].since <= Len(feed) /\ wire[i].seen <= Len(feed)
                             /\ i > 1 => ~wire[i].served

ViewTypeOK ==
  /\ shown \in SUBSET (1..Len(feed)) /\ Cardinality(shown) <= MaxKept
  /\ cursor \in 0..Len(feed) /\ unasked \in SUBSET (1..Len(feed))
  /\ poll \in {"timer", "running", "ended"}
  /\ refreshing \in BOOLEAN /\ stopped \in BOOLEAN

FeedTypeOK == feed \in Seq(BOOLEAN) /\ Len(feed) <= MaxPosts

TypeInv == FeedTypeOK /\ WireTypeOK /\ ViewTypeOK

(* A page asked for begins no later than the cursor, but for those of first *)
(* syncs.                                                                   *)
PagesInReach ==
  \A i \in 1..Len(wire) :
    wire[i].kind = "page" /\ ~wire[i].first => wire[i].since <= cursor

(* q has its place in A: it is there, or as many newer ones as fit are.     *)
Placed(q, A) == q \in A \/ (Cardinality(A) = MaxKept /\ \A r \in A : q < r)

(* NothingSkipped without the minimum.                                      *)
AllPlaced == \A q \in 1..cursor \ unasked : feed[q] => Placed(q, shown)

FeedInv == TypeInv /\ PagesInReach /\ AllPlaced

-----------------------------------------------------------------------------
(* A request that is sent, and one that is done with.                       *)
LEMMA SendKeepsWire ==
  ASSUME FeedTypeOK, WireTypeOK, FeedTypeOK', Len(feed) <= Len(feed)',
         NEW r \in Requests, ~r.served, r.since <= Len(feed)', r.seen <= Len(feed)',
         NEW w \in {wire, Tail(wire)}, w = wire \/ wire # <<>>, wire' = Append(w, r)
  PROVE  /\ WireTypeOK'
         /\ \A i \in 1..Len(wire') : wire'[i] = r \/ \E j \in 1..Len(wire) : wire'[i] = wire[j]
<1>1. w \in Seq(Requests) /\ Len(w) \in Nat
  BY DEF WireTypeOK
<1>2. \A i \in 1..Len(w) : /\ \E j \in 1..Len(wire) : w[i] = wire[j]
                           /\ w[i].since <= Len(feed) /\ w[i].seen <= Len(feed)
                           /\ i > 1 => ~w[i].served
  <2>1. CASE w = wire
    BY <2>1 DEF WireTypeOK
  <2>2. CASE w = Tail(wire) /\ wire # <<>>
    <3>1. /\ Len(w) = Len(wire) - 1 /\ Len(wire) \in Nat
          /\ \A i \in 1..Len(w) : w[i] = wire[i + 1]
      BY <2>2, HeadTailProperties DEF WireTypeOK
    <3>2. \A i \in 1..Len(w) : i + 1 \in 1..Len(wire) /\ i + 1 > 1
      BY <3>1
    <3> QED
      BY <3>1, <3>2 DEF WireTypeOK
  <2> QED
    BY <2>1, <2>2
<1>3. /\ wire' \in Seq(Requests) /\ Len(wire') = Len(w) + 1
      /\ \A i \in 1..Len(w) : wire'[i] = w[i]
      /\ wire'[Len(w) + 1] = r
  BY <1>1, AppendProperties
<1>4. \A i \in 1..Len(wire') : i \in 1..Len(w) \/ i = Len(w) + 1
  BY <1>1, <1>3
<1>5. Len(feed) \in Nat /\ Len(feed)' \in Nat
  BY DEF FeedTypeOK
<1>6. ASSUME NEW i \in 1..Len(w) PROVE w[i].since \in Nat /\ w[i].seen \in Nat
  <2>1. w[i] \in Requests
    BY <1>1, ElementOfSeq
  <2> QED
    BY <2>1 DEF Requests
<1>7. ASSUME NEW i \in 1..Len(wire')
      PROVE  /\ wire'[i].since <= Len(feed)' /\ wire'[i].seen <= Len(feed)'
             /\ i > 1 => ~wire'[i].served
  <2>1. CASE i = Len(w) + 1
    BY <1>3, <2>1
  <2>2. CASE i \in 1..Len(w)
    <3>1. wire'[i] = w[i]
      BY <1>3, <2>2
    <3>2. w[i].since <= Len(feed) /\ w[i].seen <= Len(feed) /\ (i > 1 => ~w[i].served)
      BY <1>2, <2>2
    <3>3. w[i].since \in Nat /\ w[i].seen \in Nat
      BY <1>6, <2>2
    <3>4. w[i].since <= Len(feed)' /\ w[i].seen <= Len(feed)'
      BY <1>5, <3>2, <3>3
    <3> QED
      BY <3>1, <3>2, <3>4
  <2> QED
    BY <1>4, <2>1, <2>2
<1> QED
  BY <1>2, <1>3, <1>4, <1>7 DEF WireTypeOK

LEMMA DoneKeepsWire ==
  ASSUME FeedTypeOK, WireTypeOK, UNCHANGED feed, wire # <<>>, wire' = Tail(wire)
  PROVE  WireTypeOK' /\ \A i \in 1..Len(wire') : \E j \in 1..Len(wire) : wire'[i] = wire[j]
<1>1. /\ wire' \in Seq(Requests) /\ Len(wire') = Len(wire) - 1 /\ Len(wire) \in Nat
      /\ \A i \in 1..Len(wire') : wire'[i] = wire[i + 1]
  BY HeadTailProperties DEF WireTypeOK
<1>2. \A i \in 1..Len(wire') : i + 1 \in 1..Len(wire) /\ i + 1 > 1
  BY <1>1
<1> QED
  BY <1>1, <1>2 DEF WireTypeOK

(* The request that is out: it is one of the wire.                          *)
LEMMA HeadOfWire ==
  ASSUME WireTypeOK, wire # <<>>
  PROVE  /\ Head(wire) \in Requests /\ Head(wire) = wire[1] /\ 1 \in 1..Len(wire)
         /\ Head(wire).since <= Len(feed) /\ Head(wire).seen <= Len(feed)
<1>1. wire \in Seq(Requests) /\ Len(wire) \in Nat \ {0}
  BY EmptySeq DEF WireTypeOK
<1> QED
  BY <1>1 DEF WireTypeOK

-----------------------------------------------------------------------------
(* mergeFeedPosts takes no place from a post.                               *)
LEMMA MergedPlaces ==
  ASSUME FeedTypeOK, ViewTypeOK, NEW P \in SUBSET (1..Len(feed))
  PROVE  /\ Merged(P) \in SUBSET (1..Len(feed)) /\ Cardinality(Merged(P)) <= MaxKept
         /\ \A q \in Nat : q \in P \/ Placed(q, shown) => Placed(q, Merged(P))
<1> DEFINE A == shown \cup P
           T == Newest(A, MaxKept)
<1>1. Merged(P) = T
  BY DEF Merged, Newest
<1>2. Len(feed) \in Nat /\ MaxKept \in Nat \ {0}
  BY FeedAssumption DEF FeedTypeOK
<1>3. A \in SUBSET (1..Len(feed)) /\ shown \in SUBSET A
  BY DEF ViewTypeOK
<1>4. A \in SUBSET Nat
  BY <1>2, <1>3
<1>5. IsFiniteSet(1..Len(feed))
  BY <1>2, FS_Interval
<1>6. IsFiniteSet(A) /\ IsFiniteSet(shown)
  <2>1. IsFiniteSet(A)
    BY <1>3, <1>5, FS_Subset
  <2> HIDE DEF A
  <2> QED
    BY <1>3, <2>1, FS_Subset
<1> HIDE DEF A
<1>7. /\ IsFiniteSet(T) /\ T \in SUBSET A /\ Cardinality(T) <= MaxKept
      /\ \A q \in A \ T : Cardinality(T) = MaxKept /\ \A r \in T : q < r
  BY <1>2, <1>4, <1>6, KeepsNewest
<1>8. ASSUME NEW q \in A PROVE Placed(q, T)
  BY <1>7, <1>8 DEF Placed
<1>9. ASSUME NEW q \in Nat, Cardinality(shown) = MaxKept, \A r \in shown : q < r
      PROVE  Placed(q, T)
  <2>1. Cardinality(T) = MaxKept
    <3>1. CASE T = A
      <4>1. Cardinality(shown) <= Cardinality(A) /\ Cardinality(A) \in Nat
        BY <1>3, <1>6, FS_Subset, FS_CardinalityType
      <4> HIDE DEF T
      <4> QED
        BY <1>2, <1>7, <1>9, <3>1, <4>1
    <3>2. CASE T # A
      <4> HIDE DEF T
      <4> QED
        BY <1>7, <3>2
    <3> QED
      BY <3>1, <3>2
  <2>2. ASSUME NEW s \in T, ~(q < s) PROVE FALSE
    <3>1. s \in A /\ s \in Nat /\ Cardinality({p \in A : p > s}) < MaxKept
      BY <1>4, <2>2 DEF Newest
    <3>2. \A r \in shown : r \in A /\ r > s
      <4>1. \A r \in shown : r \in A /\ r \in Nat /\ q < r
        BY <1>3, <1>4, <1>9
      <4> QED
        BY <2>2, <3>1, <4>1
    <3>3. shown \in SUBSET {p \in A : p > s} /\ {p \in A : p > s} \in SUBSET A
      BY <3>2
    <3>4. IsFiniteSet({p \in A : p > s})
      BY <1>6, <3>3, FS_Subset
    <3>5. Cardinality(shown) <= Cardinality({p \in A : p > s})
      BY <3>3, <3>4, FS_Subset
    <3>6. Cardinality({p \in A : p > s}) \in Nat
      BY <3>4, FS_CardinalityType
    <3> QED
      BY <1>2, <1>9, <3>1, <3>5, <3>6
  <2> QED
    BY <2>1, <2>2 DEF Placed
<1>10. ASSUME NEW q \in Nat, q \in P \/ Placed(q, shown) PROVE Placed(q, T)
  <2>1. CASE q \in A
    BY <1>8, <2>1
  <2>2. CASE q \notin A
    <3>1. q \notin shown /\ q \notin P
      BY <2>2 DEF A
    <3> QED
      BY <1>9, <1>10, <3>1 DEF Placed
  <2> QED
    BY <2>1, <2>2
<1> HIDE DEF T
<1>11. T \in SUBSET (1..Len(feed))
  BY <1>3, <1>7
<1> QED
  BY <1>1, <1>7, <1>10, <1>11

-----------------------------------------------------------------------------
(* While what is shown and the cursor stay, posts keep their place.         *)
LEMMA PlacedStays ==
  ASSUME AllPlaced, UNCHANGED <<shown, cursor, unasked>>, ViewTypeOK, FeedTypeOK,
         \A q \in 1..Len(feed) : feed'[q] = feed[q]
  PROVE  AllPlaced'
<1> SUFFICES ASSUME NEW q \in 1..cursor \ unasked, feed'[q] PROVE Placed(q, shown)
  BY DEF AllPlaced, Placed
<1>1. Len(feed) \in Nat /\ cursor \in Nat /\ cursor <= Len(feed)
  BY DEF FeedTypeOK, ViewTypeOK
<1>2. q \in 1..Len(feed)
  BY <1>1
<1>3. feed[q]
  BY <1>2
<1> QED
  BY <1>2, <1>3 DEF AllPlaced

(* The requests a refresh sends.                                            *)
LEMMA BeginSends ==
  ASSUME FeedInv, FeedTypeOK', Len(feed) <= Len(feed)',
         NEW by \in Clicks \cup {"open", "poll", "composer", "older"},
         NEW force \in BOOLEAN, Begin(by, force),
         UNCHANGED <<cursor, unasked>>
  PROVE  WireTypeOK' /\ PagesInReach' /\ refreshing' \in BOOLEAN /\ stopped' \in BOOLEAN
<1> DEFINE r == IF cursor = 0 THEN Request(by, "health", 0, 0)
                              ELSE Request(by, "page", cursor, 0)
<1>1. Len(feed) \in Nat /\ Len(feed)' \in Nat /\ cursor \in Nat /\ cursor <= Len(feed)
  BY DEF FeedInv, TypeInv, FeedTypeOK, ViewTypeOK
<1>2. r \in Requests /\ ~r.served /\ r.since = cursor /\ r.seen = 0
  BY <1>1 DEF Request, Requests
<1>3. r.since <= Len(feed)' /\ r.seen <= Len(feed)'
  BY <1>1, <1>2
<1>4. wire' = Append(wire, r)
  BY DEF Begin
<1> HIDE DEF r
<1>5. /\ WireTypeOK'
      /\ \A i \in 1..Len(wire') : wire'[i] = r \/ \E j \in 1..Len(wire) : wire'[i] = wire[j]
  BY <1>2, <1>3, <1>4, SendKeepsWire DEF FeedInv, TypeInv
<1>6. r.since <= cursor
  BY <1>1, <1>2
<1>7. PagesInReach'
  BY <1>5, <1>6 DEF PagesInReach, FeedInv
<1>8. refreshing' \in BOOLEAN /\ stopped' \in BOOLEAN
  BY DEF Begin, FeedInv, TypeInv, ViewTypeOK
<1> QED
  BY <1>5, <1>7, <1>8

(* A first sync asks for its page.                                          *)
LEMMA AskPageKeeps ==
  ASSUME FeedInv, HeadIs("health"), NEW since \in 0..Len(feed), AskPage(since)
  PROVE  FeedInv'
<1> DEFINE r == [Request(Head(wire).by, "page", since, 0) EXCEPT !.first = TRUE]
<1>1. Len(feed) \in Nat /\ since \in Nat /\ since <= Len(feed)
  BY DEF FeedInv, TypeInv, FeedTypeOK, ViewTypeOK
<1>2. wire # <<>> /\ Head(wire) \in Requests
  BY HeadOfWire DEF HeadIs, FeedInv, TypeInv
<1>3. r \in Requests /\ ~r.served /\ r.since = since /\ r.seen = 0 /\ r.first
  BY <1>1, <1>2 DEF Request, Requests
<1>4. /\ wire' = Append(Tail(wire), r)
      /\ UNCHANGED <<feed, shown, cursor, refreshing, poll, stopped, unasked>>
  BY DEF AskPage
<1> HIDE DEF r
<1>6. /\ WireTypeOK'
      /\ \A i \in 1..Len(wire') : wire'[i] = r \/ \E j \in 1..Len(wire) : wire'[i] = wire[j]
  <2>1. FeedTypeOK' /\ Len(feed) <= Len(feed)' /\ r.since <= Len(feed)' /\ r.seen <= Len(feed)'
    BY <1>1, <1>3, <1>4 DEF FeedInv, TypeInv, FeedTypeOK
  <2> QED
    BY <1>2, <1>3, <1>4, <2>1, SendKeepsWire DEF FeedInv, TypeInv
<1>7. PagesInReach'
  <2> SUFFICES ASSUME NEW i \in 1..Len(wire'), wire'[i].kind = "page", ~wire'[i].first
               PROVE  wire'[i].since <= cursor'
    BY DEF PagesInReach
  <2>1. PICK j \in 1..Len(wire) : wire'[i] = wire[j]
    BY <1>3, <1>6
  <2>2. wire[j].since <= cursor
    BY <2>1 DEF FeedInv, PagesInReach
  <2> QED
    BY <1>4, <2>1, <2>2
<1>8. ViewTypeOK' /\ FeedTypeOK'
  BY <1>4 DEF FeedInv, TypeInv, ViewTypeOK, FeedTypeOK
<1>9. AllPlaced'
  BY <1>4, PlacedStays DEF FeedInv, TypeInv
<1> QED
  BY <1>6, <1>7, <1>8, <1>9 DEF FeedInv, TypeInv

(* The timeline and the cursor after a page: the cursor reaches the page's  *)
(* end, and every good post up to there has its place.                      *)
LEMMA PageKeeps ==
  ASSUME FeedInv, HeadIs("page"), UNCHANGED feed, unasked' = unasked \cup Jumped,
         NEW page, page = PageOf(Head(wire), Page),
         shown' = Merged(Verified(page)), AdvanceCursor(page)
  PROVE  /\ shown' \in SUBSET (1..Len(feed)) /\ Cardinality(shown') <= MaxKept
         /\ cursor' \in 0..Len(feed) /\ cursor <= cursor' /\ AllPlaced'
         /\ unasked' \in SUBSET (1..Len(feed))
<1> DEFINE since == Head(wire).since
           last == Min({since + Page, Head(wire).seen})
<1>1. /\ Len(feed) \in Nat /\ cursor \in Nat /\ cursor <= Len(feed)
      /\ Page \in Nat \ {0}
  BY FeedAssumption DEF FeedInv, TypeInv, FeedTypeOK, ViewTypeOK
<1>2. /\ since \in Nat /\ Head(wire).seen \in Nat /\ Head(wire).seen <= Len(feed)
      /\ since <= Len(feed) /\ (since <= cursor \/ Jumped = cursor + 1 .. since)
  <2>1. /\ Head(wire) \in Requests /\ Head(wire) = wire[1] /\ 1 \in 1..Len(wire)
        /\ Head(wire).seen <= Len(feed) /\ Head(wire).since <= Len(feed)
    BY HeadOfWire DEF HeadIs, FeedInv, TypeInv
  <2> QED
    BY <2>1 DEF HeadIs, FeedInv, PagesInReach, Requests, Jumped
<1>3. last \in Nat /\ last <= Len(feed)
  <2>1. \A a, b \in Nat : Min({a, b}) = IF a <= b THEN a ELSE b
    BY DEF Min
  <2>2. since + Page \in Nat
    BY <1>1, <1>2
  <2> HIDE DEF since
  <2> QED
    BY <1>1, <1>2, <2>1, <2>2
<1>4. page = since + 1 .. last
  BY DEF PageOf
<1> HIDE DEF since, last
<1>5. cursor' = IF since + 1 <= last /\ cursor < last THEN last ELSE cursor
  <2>1. since + 1 \in Nat
    BY <1>2
  <2> QED
    BY <1>1, <1>3, <1>4, <2>1, MaxWithInterval DEF AdvanceCursor
<1>6. cursor' \in 0..Len(feed) /\ cursor <= cursor'
  BY <1>1, <1>3, <1>5
<1>7. Verified(page) \in SUBSET (1..Len(feed))
  BY <1>1, <1>2, <1>3, <1>4 DEF Verified
<1>8. /\ shown' \in SUBSET (1..Len(feed)) /\ Cardinality(shown') <= MaxKept
      /\ \A q \in Nat : q \in Verified(page) \/ Placed(q, shown) => Placed(q, shown')
  BY <1>7, MergedPlaces DEF FeedInv, TypeInv
<1>9. ASSUME NEW q \in 1..cursor' \ unasked', feed[q] PROVE Placed(q, shown')
  <2>1. q \in Nat
    BY <1>6
  <2>2. CASE q <= cursor
    <3>1. q \in 1..cursor \ unasked
      BY <1>1, <1>9, <2>1, <2>2
    <3>2. Placed(q, shown)
      BY <1>9, <3>1 DEF FeedInv, AllPlaced
    <3> QED
      BY <1>8, <2>1, <3>2
  <2>3. CASE ~(q <= cursor)
    <3>1. cursor' = last /\ q <= last
      BY <1>1, <1>3, <1>5, <2>1, <2>3
    <3>2. q > since
      BY <1>1, <1>2, <1>9, <2>1, <2>3
    <3>3. q \in page
      BY <1>2, <1>3, <1>4, <2>1, <3>1, <3>2
    <3>4. q \in Verified(page)
      BY <1>9, <3>3 DEF Verified
    <3> QED
      BY <1>8, <2>1, <3>4
  <2> QED
    BY <2>2, <2>3
<1>10. AllPlaced'
  BY <1>9 DEF AllPlaced, Placed
<1>11. unasked' \in SUBSET (1..Len(feed))
  <2>1. Jumped \in SUBSET (1..Len(feed))
    BY <1>1, <1>2 DEF Jumped, since
  <2> QED
    BY <2>1 DEF FeedInv, TypeInv, ViewTypeOK
<1> QED
  BY <1>6, <1>8, <1>10, <1>11

-----------------------------------------------------------------------------
(* A request that ends without effect on the timeline.                      *)
LEMMA DoneKeeps ==
  ASSUME FeedInv, UNCHANGED feed, wire # <<>>, wire' = Tail(wire),
         cursor' \in 0..Len(feed), cursor <= cursor'
  PROVE  FeedTypeOK' /\ WireTypeOK' /\ PagesInReach'
<1>1. /\ WireTypeOK'
      /\ \A i \in 1..Len(wire') : \E j \in 1..Len(wire) : wire'[i] = wire[j]
  BY DoneKeepsWire DEF FeedInv, TypeInv
<1>2. FeedTypeOK'
  BY DEF FeedInv, TypeInv, FeedTypeOK
<1>3. ASSUME NEW i \in 1..Len(wire'), wire'[i].kind = "page", ~wire'[i].first
      PROVE  wire'[i].since <= cursor'
  <2>1. PICK j \in 1..Len(wire) : wire'[i] = wire[j]
    BY <1>1
  <2>2. wire[j] \in Requests
    BY ElementOfSeq DEF FeedInv, TypeInv, WireTypeOK
  <2>3. wire[j].since \in Nat
    BY <2>2 DEF Requests
  <2>4. wire[j].since <= cursor
    BY <1>3, <2>1 DEF FeedInv, PagesInReach
  <2>5. Len(feed) \in Nat /\ cursor \in Nat /\ cursor' \in Nat
    BY DEF FeedInv, TypeInv, FeedTypeOK, ViewTypeOK
  <2> QED
    BY <2>1, <2>3, <2>4, <2>5
<1> QED
  BY <1>1, <1>2, <1>3 DEF PagesInReach

(* A post that is published: nothing on the page changes.                   *)
LEMMA PublishedKeeps ==
  ASSUME FeedInv, NEW good \in BOOLEAN, Len(feed) < MaxPosts, feed' = Append(feed, good)
  PROVE  /\ FeedTypeOK' /\ Len(feed) <= Len(feed)' /\ Len(feed)' \in Nat
         /\ \A q \in 1..Len(feed) : feed'[q] = feed[q]
         /\ UNCHANGED wire => WireTypeOK'
         /\ UNCHANGED <<shown, cursor, unasked>> => AllPlaced'
         /\ UNCHANGED <<shown, cursor, poll, unasked>> /\ refreshing' \in BOOLEAN
              /\ stopped' \in BOOLEAN => ViewTypeOK'
<1>1. /\ feed' \in Seq(BOOLEAN) /\ Len(feed') = Len(feed) + 1 /\ Len(feed) \in Nat
      /\ \A q \in 1..Len(feed) : feed'[q] = feed[q]
  BY AppendProperties DEF FeedInv, TypeInv, FeedTypeOK
<1>2. Len(feed') <= MaxPosts
  BY <1>1, FeedAssumption
<1>3. FeedTypeOK' /\ Len(feed) <= Len(feed)' /\ Len(feed)' \in Nat
  BY <1>1, <1>2 DEF FeedTypeOK
<1>4. ASSUME UNCHANGED wire PROVE WireTypeOK'
  <2>1. ASSUME NEW i \in 1..Len(wire) PROVE wire[i].since <= Len(feed)' /\ wire[i].seen <= Len(feed)'
    <3>1. wire[i] \in Requests
      BY ElementOfSeq DEF FeedInv, TypeInv, WireTypeOK
    <3>2. wire[i].since \in Nat /\ wire[i].seen \in Nat
      BY <3>1 DEF Requests
    <3>3. wire[i].since <= Len(feed) /\ wire[i].seen <= Len(feed)
      BY DEF FeedInv, TypeInv, WireTypeOK
    <3> QED
      BY <1>1, <1>3, <3>2, <3>3
  <2> QED
    BY <1>4, <2>1 DEF FeedInv, TypeInv, WireTypeOK
<1>5. ASSUME UNCHANGED <<shown, cursor, unasked>> PROVE AllPlaced'
  BY <1>1, <1>5, PlacedStays DEF FeedInv, TypeInv
<1>6. ASSUME UNCHANGED <<shown, cursor, poll, unasked>>, refreshing' \in BOOLEAN, stopped' \in BOOLEAN
      PROVE  ViewTypeOK'
  <2>1. 1..Len(feed) \in SUBSET (1..Len(feed)') /\ 0..Len(feed) \in SUBSET (0..Len(feed)')
    BY <1>1, <1>3
  <2> QED
    BY <1>6, <2>1 DEF FeedInv, TypeInv, ViewTypeOK
<1> QED
  BY <1>1, <1>3, <1>4, <1>5, <1>6

LEMMA InitInv == Init => FeedInv
<1> SUFFICES ASSUME Init PROVE FeedInv
  OBVIOUS
<1> USE DEF Init
<1>1. FeedTypeOK
  BY FeedAssumption, EmptySeq DEF FeedTypeOK
<1>2. Len(feed) = 0
  BY EmptySeq
<1>3. Request("open", "health", 0, 0) \in Requests
  BY DEF Request, Requests
<1>4. WireTypeOK
  BY <1>2, <1>3 DEF WireTypeOK, Request
<1>5. ViewTypeOK
  <2>1. Cardinality({}) = 0 /\ MaxKept \in Nat
    BY FS_EmptySet, FeedAssumption
  <2>2. Cardinality(shown) <= MaxKept
    BY <2>1
  <2>3. shown \in SUBSET (1..Len(feed)) /\ 0 \in 0..Len(feed)
    BY <1>2
  <2> QED
    BY <2>2, <2>3 DEF ViewTypeOK
<1>6. PagesInReach
  BY DEF PagesInReach, Request
<1>7. AllPlaced
  BY DEF AllPlaced
<1> QED
  BY <1>1, <1>4, <1>5, <1>6, <1>7 DEF FeedInv, TypeInv

LEMMA StepInv == FeedInv /\ [Next]_vars => FeedInv'
<1> SUFFICES ASSUME FeedInv, [Next]_vars PROVE FeedInv'
  OBVIOUS
<1> USE DEF FeedInv, TypeInv
<1>0. Len(feed) \in Nat /\ cursor \in Nat /\ cursor <= Len(feed)
  BY DEF FeedTypeOK, ViewTypeOK
<1>1. ASSUME NEW good \in BOOLEAN, Publish(good) PROVE FeedInv'
  <2>1. UNCHANGED <<wire, shown, cursor, refreshing, poll, stopped, unasked>>
    BY <1>1 DEF Publish
  <2>2. FeedTypeOK' /\ WireTypeOK' /\ AllPlaced' /\ ViewTypeOK'
    <3>1. refreshing' \in BOOLEAN /\ stopped' \in BOOLEAN
      BY <2>1 DEF ViewTypeOK
    <3> QED
      BY <1>1, <2>1, <3>1, PublishedKeeps DEF Publish
  <2>3. PagesInReach'
    BY <2>1 DEF PagesInReach
  <2> QED
    BY <2>2, <2>3
<1>2. ASSUME NEW c \in Clicks, Click(c) PROVE FeedInv'
  <2>1. Begin(c, TRUE) /\ UNCHANGED <<feed, shown, cursor, poll, unasked>>
    BY <1>2 DEF Click
  <2>2. FeedTypeOK' /\ AllPlaced' /\ Len(feed) <= Len(feed)'
    BY <1>0, <2>1 DEF FeedTypeOK, AllPlaced, Placed
  <2>3. WireTypeOK' /\ PagesInReach' /\ refreshing' \in BOOLEAN /\ stopped' \in BOOLEAN
    BY <2>1, <2>2, BeginSends
  <2> QED
    BY <2>1, <2>2, <2>3 DEF ViewTypeOK
<1>3. CASE Serve
  <2> DEFINE h == [Head(wire) EXCEPT !.served = TRUE, !.seen = Len(feed)]
  <2>1. /\ wire # <<>> /\ wire' = <<h>> \o Tail(wire)
        /\ UNCHANGED <<feed, shown, cursor, refreshing, poll, stopped, unasked>>
    BY <1>3 DEF Serve
  <2>2. /\ Head(wire) \in Requests /\ Head(wire) = wire[1] /\ 1 \in 1..Len(wire)
        /\ Head(wire).since <= Len(feed)
    BY <2>1, HeadOfWire
  <2>3. /\ h \in Requests /\ h.since = wire[1].since /\ h.kind = wire[1].kind
        /\ h.first = wire[1].first /\ h.seen = Len(feed)
    BY <1>0, <2>2 DEF Requests
  <2>4. /\ Tail(wire) \in Seq(Requests) /\ Len(Tail(wire)) = Len(wire) - 1
        /\ Len(wire) \in Nat /\ \A i \in 1..Len(Tail(wire)) : Tail(wire)[i] = wire[i + 1]
    BY <2>1, HeadTailProperties DEF WireTypeOK
  <2> HIDE DEF h
  <2>5. /\ <<h>> \in Seq(Requests) /\ Len(<<h>>) = 1 /\ <<h>>[1] = h
    BY <2>3
  <2>6. /\ wire' \in Seq(Requests) /\ Len(wire') = 1 + Len(Tail(wire))
        /\ \A i \in 1..1 + Len(Tail(wire)) : wire'[i] = IF i <= 1 THEN <<h>>[i] ELSE Tail(wire)[i - 1]
    BY <2>1, <2>4, <2>5, ConcatProperties
  <2>7. Len(wire') = Len(wire)
    BY <2>4, <2>6
  <2>8. ASSUME NEW i \in 1..Len(wire), i # 1 PROVE wire'[i] = wire[i]
    <3>1. i - 1 \in 1..Len(Tail(wire)) /\ i - 1 + 1 = i /\ ~(i <= 1)
      BY <2>4, <2>8
    <3>2. i \in 1..1 + Len(Tail(wire))
      BY <2>4
    <3>3. wire'[i] = Tail(wire)[i - 1]
      BY <2>6, <3>1, <3>2
    <3>4. Tail(wire)[i - 1] = wire[i - 1 + 1]
      BY <2>4, <3>1
    <3> QED
      BY <3>1, <3>3, <3>4
  <2>9. wire'[1] = h
    <3>1. 1 \in 1..1 + Len(Tail(wire))
      BY <2>4
    <3> QED
      BY <2>5, <2>6, <3>1
  <2>10. WireTypeOK'
    <3>1. ASSUME NEW i \in 1..Len(wire')
          PROVE  /\ wire'[i].since <= Len(feed)' /\ wire'[i].seen <= Len(feed)'
                 /\ i > 1 => ~wire'[i].served
      <4>1. CASE i = 1
        BY <1>0, <2>1, <2>2, <2>3, <2>9, <4>1
      <4>2. CASE i # 1
        BY <2>1, <2>7, <2>8, <4>2 DEF WireTypeOK
      <4> QED
        BY <4>1, <4>2
    <3> QED
      BY <2>6, <3>1 DEF WireTypeOK
  <2>11. PagesInReach'
    <3> SUFFICES ASSUME NEW i \in 1..Len(wire'), wire'[i].kind = "page", ~wire'[i].first
                 PROVE  wire'[i].since <= cursor
      BY <2>1 DEF PagesInReach
    <3>1. CASE i = 1
      BY <2>2, <2>3, <2>9, <3>1 DEF PagesInReach
    <3>2. CASE i # 1
      BY <2>7, <2>8, <3>2 DEF PagesInReach
    <3> QED
      BY <3>1, <3>2
  <2>12. FeedTypeOK' /\ ViewTypeOK' /\ AllPlaced'
    BY <2>1 DEF FeedTypeOK, ViewTypeOK, AllPlaced, Placed
  <2> QED
    BY <2>10, <2>11, <2>12
<1>4. CASE Compose
  <2>1. /\ Len(feed) < MaxPosts /\ feed' = Append(feed, TRUE)
        /\ UNCHANGED <<shown, cursor, poll, unasked>>
    BY <1>4 DEF Compose
  <2>2. FeedTypeOK' /\ AllPlaced' /\ Len(feed) <= Len(feed)' /\ (UNCHANGED wire => WireTypeOK')
    BY <2>1, PublishedKeeps
  <2>3. WireTypeOK' /\ PagesInReach' /\ refreshing' \in BOOLEAN /\ stopped' \in BOOLEAN
    <3>1. CASE Begin("composer", FALSE)
      BY <2>1, <2>2, <3>1, BeginSends
    <3>2. CASE UNCHANGED <<wire, refreshing, stopped>>
      BY <2>1, <2>2, <3>2 DEF PagesInReach, ViewTypeOK
    <3> QED
      BY <1>4, <3>1, <3>2 DEF Compose
  <2>4. ViewTypeOK'
    BY <2>1, <2>3, PublishedKeeps
  <2> QED
    BY <2>2, <2>3, <2>4
<1>5. CASE Tick
  <2>1. UNCHANGED <<feed, shown, cursor, unasked>> /\ poll = "timer"
    BY <1>5 DEF Tick
  <2>2. FeedTypeOK' /\ AllPlaced' /\ Len(feed) <= Len(feed)'
    BY <1>0, <2>1 DEF FeedTypeOK, AllPlaced, Placed
  <2>3. /\ WireTypeOK' /\ PagesInReach' /\ refreshing' \in BOOLEAN /\ stopped' \in BOOLEAN
        /\ poll' \in {"timer", "running", "ended"}
    <3>1. CASE Begin("poll", FALSE) /\ poll' = "running"
      BY <2>1, <2>2, <3>1, BeginSends
    <3>2. CASE UNCHANGED <<wire, refreshing, stopped>> /\ poll' \in {"ended", poll}
      BY <2>1, <3>2 DEF WireTypeOK, PagesInReach, ViewTypeOK
    <3> QED
      BY <1>5, <3>1, <3>2 DEF Tick
  <2> QED
    BY <2>1, <2>2, <2>3 DEF ViewTypeOK
<1>6. CASE HealthAnswered
  <2>1. HeadIs("health") /\ AskPage(FirstSince(Head(wire).seen))
    BY <1>6 DEF HealthAnswered
  <2>2. Head(wire).seen \in Nat /\ Head(wire).seen <= Len(feed)
    BY <2>1, HeadOfWire DEF HeadIs, Requests
  <2>3. FirstSince(Head(wire).seen) \in 0..Len(feed)
    BY <1>0, <2>2, FeedAssumption DEF FirstSince
  <2> QED
    BY <2>1, <2>3, AskPageKeeps
<1>7. CASE HealthFails
  BY <1>0, <1>7, AskPageKeeps DEF HealthFails
<1>8. ASSUME NEW stop \in BOOLEAN, HeadIs("page"), RefreshEnds(stop),
             cursor' \in 0..Len(feed), cursor <= cursor'
      PROVE  /\ FeedTypeOK' /\ WireTypeOK' /\ PagesInReach'
             /\ UNCHANGED feed /\ refreshing' \in BOOLEAN /\ stopped' \in BOOLEAN
             /\ poll' \in {"timer", "running", "ended"}
  <2>1. /\ UNCHANGED feed /\ wire # <<>> /\ wire' = Tail(wire)
        /\ refreshing' \in BOOLEAN /\ stopped' \in BOOLEAN
    BY <1>8 DEF RefreshEnds, HeadIs
  <2>2. poll' \in {"timer", "running", "ended"}
    BY <1>8 DEF RefreshEnds, ViewTypeOK
  <2> QED
    BY <1>8, <2>1, <2>2, DoneKeeps
<1>9. CASE PageAnswered
  <2> DEFINE page == PageOf(Head(wire), Page)
  <2>1. /\ HeadIs("page") /\ RefreshEnds(FALSE)
        /\ shown' = Merged(Verified(page)) /\ AdvanceCursor(page)
        /\ unasked' = unasked \cup Jumped
    BY <1>9 DEF PageAnswered
  <2>2. UNCHANGED feed
    BY <2>1 DEF RefreshEnds
  <2> HIDE DEF page
  <2>3. /\ shown' \in SUBSET (1..Len(feed)) /\ Cardinality(shown') <= MaxKept
        /\ cursor' \in 0..Len(feed) /\ cursor <= cursor' /\ AllPlaced'
        /\ unasked' \in SUBSET (1..Len(feed))
    BY <2>1, <2>2, PageKeeps DEF page
  <2> QED
    BY <1>8, <2>1, <2>2, <2>3 DEF ViewTypeOK
<1>10. ASSUME NEW stop \in BOOLEAN, HeadIs("page"), RefreshEnds(stop), UNCHANGED <<shown, cursor, unasked>>
       PROVE  FeedInv'
  <2>1. cursor' \in 0..Len(feed) /\ cursor <= cursor'
    BY <1>0, <1>10
  <2>2. /\ FeedTypeOK' /\ WireTypeOK' /\ PagesInReach' /\ UNCHANGED feed
        /\ refreshing' \in BOOLEAN /\ stopped' \in BOOLEAN
        /\ poll' \in {"timer", "running", "ended"}
    BY <1>8, <1>10, <2>1
  <2>3. AllPlaced'
    BY <1>10, <2>2 DEF AllPlaced, Placed
  <2> QED
    BY <1>10, <2>2, <2>3 DEF ViewTypeOK
<1>11. CASE PageRefused
  BY <1>10, <1>11 DEF PageRefused
<1>12. CASE PageFails
  BY <1>10, <1>12 DEF PageFails, ViewTypeOK
<1>13. CASE LoadOlder
  <2> DEFINE first == Max({0, Min(shown) - Back})
             r == Request("older", "older", first, Min(shown))
  <2>1. /\ wire' = Append(wire, r) /\ shown # {}
        /\ UNCHANGED <<feed, shown, cursor, refreshing, poll, stopped, unasked>>
    BY <1>13 DEF LoadOlder
  <2>2. shown \in SUBSET Nat /\ shown \in SUBSET (1..Len(feed))
    BY <1>0 DEF ViewTypeOK
  <2>3. Min(shown) \in Nat /\ Min(shown) <= Len(feed)
    <3>1. Min(shown) \in shown
      BY <2>1, <2>2, MinProperty
    <3>2. Min(shown) \in 1..Len(feed)
      BY <2>2, <3>1
    <3> QED
      BY <1>0, <3>2
  <2>4. first \in Nat /\ first <= Len(feed)
    <3>1. Min(shown) - Back \in Int /\ Min(shown) - Back <= Len(feed)
      BY <1>0, <2>3, FeedAssumption
    <3> QED
      BY <1>0, <3>1, MaxOfTwo
  <2> HIDE DEF first
  <2>5. r \in Requests /\ ~r.served /\ r.since = first /\ r.seen = 0 /\ r.kind = "older"
    BY <2>3, <2>4 DEF Request, Requests
  <2> HIDE DEF r
  <2>6. /\ WireTypeOK'
        /\ \A i \in 1..Len(wire') : wire'[i] = r \/ \E j \in 1..Len(wire) : wire'[i] = wire[j]
    <3>1. FeedTypeOK' /\ Len(feed) <= Len(feed)' /\ r.since <= Len(feed)' /\ r.seen <= Len(feed)'
      BY <1>0, <2>1, <2>4, <2>5 DEF FeedTypeOK
    <3> QED
      BY <2>1, <2>5, <3>1, SendKeepsWire
  <2>7. PagesInReach'
    BY <2>1, <2>5, <2>6 DEF PagesInReach
  <2>8. FeedTypeOK' /\ ViewTypeOK' /\ AllPlaced'
    BY <2>1 DEF FeedTypeOK, ViewTypeOK, AllPlaced, Placed
  <2> QED
    BY <2>6, <2>7, <2>8
<1>14. CASE OlderEnds
  <2> DEFINE P == Verified({q \in PageOf(Head(wire), OlderLimit) : q < Head(wire).below})
  <2>1. /\ HeadIs("older") /\ wire # <<>> /\ wire' = Tail(wire)
        /\ UNCHANGED <<feed, cursor, refreshing, poll, stopped, unasked>>
    BY <1>14 DEF OlderEnds, HeadIs
  <2>2. shown' = shown \/ shown' = Merged(P)
    BY <1>14 DEF OlderEnds
  <2>3. /\ Head(wire).since \in Nat /\ Head(wire).seen \in Nat /\ Head(wire).seen <= Len(feed)
    BY <2>1, HeadOfWire DEF Requests
  <2>4. P \in SUBSET (1..Len(feed))
    <3>1. \A a, b \in Nat : Min({a, b}) = IF a <= b THEN a ELSE b
      BY DEF Min
    <3>2. Head(wire).since + OlderLimit \in Nat
      BY <2>3, FeedAssumption
    <3>3. \A q \in PageOf(Head(wire), OlderLimit) : q \in 1..Len(feed)
      BY <1>0, <2>3, <3>1, <3>2 DEF PageOf
    <3> QED
      BY <3>3 DEF Verified
  <2> HIDE DEF P
  <2>5. /\ shown' \in SUBSET (1..Len(feed)) /\ Cardinality(shown') <= MaxKept
        /\ \A q \in Nat : Placed(q, shown) => Placed(q, shown')
    BY <2>2, <2>4, MergedPlaces DEF ViewTypeOK
  <2>6. AllPlaced'
    BY <1>0, <2>1, <2>5 DEF AllPlaced, Placed
  <2>7. FeedTypeOK' /\ WireTypeOK' /\ PagesInReach'
    <3>1. cursor' \in 0..Len(feed) /\ cursor <= cursor'
      BY <1>0, <2>1
    <3> QED
      BY <2>1, <3>1, DoneKeeps
  <2>8. ViewTypeOK'
    BY <2>1, <2>5 DEF ViewTypeOK
  <2> QED
    BY <2>6, <2>7, <2>8
<1>15. CASE UNCHANGED vars
  BY <1>15 DEF vars, FeedTypeOK, WireTypeOK, ViewTypeOK, PagesInReach, AllPlaced, Placed
<1> QED
  BY <1>1, <1>2, <1>3, <1>4, <1>5, <1>6, <1>7, <1>9, <1>11, <1>12, <1>13, <1>14, <1>15 DEF Next

LEMMA FeedInvAlways == Spec => []FeedInv
BY InitInv, StepInv, PTL DEF Spec

-----------------------------------------------------------------------------
(* Every variable of the timeline keeps its type: the wire holds well-formed*)
(* requests, only the first of them answered, nothing shown was unpublished *)
(* and no more than MAX_KEPT_POSTS is kept.                                 *)
THEOREM TypeCorrect == Spec => []TypeOK
<1>1. FeedInv => TypeOK
  <2> SUFFICES ASSUME FeedInv PROVE TypeOK
    OBVIOUS
  <2> USE DEF FeedInv, TypeInv
  <2>1. feed \in UNION {[1..n -> BOOLEAN] : n \in 0..MaxPosts}
    <3>1. feed \in [1..Len(feed) -> BOOLEAN] /\ Len(feed) \in 0..MaxPosts
      BY FeedAssumption, LenProperties DEF FeedTypeOK
    <3> QED
      BY <3>1
  <2>2. ASSUME NEW i \in DOMAIN wire
        PROVE  /\ wire[i].by \in Clicks \cup {"open", "poll", "composer", "older"}
               /\ wire[i].kind \in {"health", "page", "older"}
               /\ wire[i].since <= Len(feed) /\ wire[i].seen <= Len(feed)
               /\ i > 1 => ~wire[i].served
    <3>1. i \in 1..Len(wire)
      BY LenProperties DEF WireTypeOK
    <3>2. wire[i] \in Requests
      BY <3>1, ElementOfSeq DEF WireTypeOK
    <3> QED
      BY <3>1, <3>2 DEF WireTypeOK, Requests
  <2> QED
    BY <2>1, <2>2 DEF TypeOK, ViewTypeOK
<1> QED
  BY <1>1, FeedInvAlways, PTL

(* The cursor passes no post unseen: however refreshes overlap and fail and *)
(* whatever forged posts they find, every good post up to the cursor is     *)
(* shown, or displaced by as many newer ones as are kept, or was left out   *)
(* by a first sync - it lies before the page one began with, beyond where   *)
(* the cursor was by then.  For any number of posts and any size of page    *)
(* and timeline.                                                            *)
THEOREM NothingPassed == Spec => []NothingSkipped
<1>1. FeedInv => NothingSkipped
  <2> SUFFICES ASSUME FeedInv, NEW q \in 1..cursor \ unasked, feed[q], q \notin shown
               PROVE  Cardinality(shown) = MaxKept /\ q < Min(shown)
    BY DEF NothingSkipped
  <2>1. Cardinality(shown) = MaxKept /\ \A r \in shown : q < r
    BY DEF FeedInv, AllPlaced, Placed
  <2>2. shown # {}
    BY <2>1, FS_EmptySet, FeedAssumption
  <2>3. shown \in SUBSET Nat
    BY DEF FeedInv, TypeInv, ViewTypeOK
  <2> QED
    BY <2>1, <2>2, <2>3, MinProperty
<1> QED
  BY <1>1, FeedInvAlways, PTL
=============================================================================
