----------------------------- MODULE ListProofs -----------------------------
(***************************************************************************)
(* Facts about numbers and lists that the proofs of several components rest *)
(* on.  The induction they need is that of the least counterexample: a set  *)
(* of naturals has a least element (LeastNat), so if a fact fails of some   *)
(* length it fails of a least one.                                          *)
(***************************************************************************)
EXTENDS Lists, Integers, SequenceTheorems, NaturalsInduction, WellFoundedInduction, TLAPS

(* A set of naturals has a least element.                                   *)
LEMMA LeastNat ==
  ASSUME NEW S \in SUBSET Nat, S # {}
  PROVE  \E n \in S : \A m \in S : n <= m
<1> DEFINE Below == {pair \in Nat \X Nat : pair[1] < pair[2]}
<1>1. IsWellFoundedOn(Below, Nat)
  BY NatLessThanWellFounded DEF OpToRel
<1>2. PICK n \in S : \A m \in S : <<m, n>> \notin Below
  <2> HIDE DEF Below
  <2> QED BY <1>1, WFMin
<1>3. \A m \in S : ~(m < n)
  BY <1>2
<1> QED
  BY <1>3

-----------------------------------------------------------------------------
(* The function Kept is read from, for the first m elements of the list.    *)
IsFirst(f, list, S, m) ==
  f = [n \in 0..m |-> IF n = 0 THEN <<>>
                      ELSE IF list[n] \in S THEN Append(f[n - 1], list[n]) ELSE f[n - 1]]

LEMMA FirstExists ==
  ASSUME NEW list, NEW S, NEW m \in Nat
  PROVE  \E f : IsFirst(f, list, S, m)
<1> DEFINE Bad == {n \in Nat : ~\E f : IsFirst(f, list, S, n)}
<1> SUFFICES ASSUME Bad # {} PROVE FALSE
  OBVIOUS
<1>1. PICK n \in Bad : \A k \in Bad : n <= k
  <2>1. Bad \in SUBSET Nat
    OBVIOUS
  <2> HIDE DEF Bad
  <2> QED BY <2>1, LeastNat
<1>2. n \in Nat /\ ~\E f : IsFirst(f, list, S, n)
  BY <1>1
<1>3. CASE n = 0
  <2>1. IsFirst([k \in 0..0 |-> <<>>], list, S, 0)
    BY DEF IsFirst
  <2> QED
    BY <1>2, <1>3, <2>1
<1>4. CASE n # 0
  <2>1. n - 1 \in Nat /\ n - 1 \notin Bad
    BY <1>1, <1>2, <1>4
  <2>2. PICK f : IsFirst(f, list, S, n - 1)
    BY <2>1
  <2> DEFINE next == IF list[n] \in S THEN Append(f[n - 1], list[n]) ELSE f[n - 1]
             g == [k \in 0..n |-> IF k = n THEN next ELSE f[k]]
  <2>3. ASSUME NEW k \in 0..n
        PROVE  g[k] = IF k = 0 THEN <<>>
                      ELSE IF list[k] \in S THEN Append(g[k - 1], list[k]) ELSE g[k - 1]
    <3>1. CASE k = n
      <4>1. k - 1 \in 0..n /\ k - 1 # n /\ k # 0
        BY <1>2, <1>4, <3>1
      <4>2. g[k - 1] = f[n - 1] /\ g[k] = next
        BY <3>1, <4>1
      <4> HIDE DEF g
      <4> QED
        BY <3>1, <4>1, <4>2
    <3>2. CASE k # n
      <4>1. k \in 0..n - 1 /\ g[k] = f[k]
        BY <1>2, <3>2
      <4>2. f[k] = IF k = 0 THEN <<>>
                   ELSE IF list[k] \in S THEN Append(f[k - 1], list[k]) ELSE f[k - 1]
        BY <2>2, <4>1 DEF IsFirst
      <4>3. k # 0 => k - 1 \in 0..n /\ k - 1 # n
        BY <1>2, <3>2
      <4>4. k # 0 => g[k - 1] = f[k - 1]
        BY <4>3
      <4> HIDE DEF g
      <4> QED
        BY <4>1, <4>2, <4>4
    <3> QED
      BY <3>1, <3>2
  <2>4. g = [k \in 0..n |-> g[k]]
    OBVIOUS
  <2> HIDE DEF g
  <2>5. IsFirst(g, list, S, n)
    BY <2>3, <2>4 DEF IsFirst
  <2> QED
    BY <1>2, <2>5
<1> QED
  BY <1>3, <1>4

(* Two lists that begin the same are kept the same of.                      *)
Alike(f, g, low, m) == \A n \in low..m : f[n] = g[n]

LEMMA FirstUnique ==
  ASSUME NEW list, NEW more, NEW S, NEW m \in Nat, NEW k \in Nat, m <= k,
         NEW f, NEW g,
         Alike(list, more, 1, m), IsFirst(f, list, S, m), IsFirst(g, more, S, k)
  PROVE  Alike(f, g, 0, m)
<1> DEFINE Bad == {n \in 0..m : f[n] # g[n]}
<1> SUFFICES ASSUME Bad # {} PROVE FALSE
  BY DEF Alike
<1>1. PICK n \in Bad : \A j \in Bad : n <= j
  <2>1. Bad \in SUBSET Nat
    OBVIOUS
  <2> HIDE DEF Bad
  <2> QED BY <2>1, LeastNat
<1>2. n \in 0..m /\ n \in 0..k /\ f[n] # g[n]
  BY <1>1
<1>3. f[n] = IF n = 0 THEN <<>>
             ELSE IF list[n] \in S THEN Append(f[n - 1], list[n]) ELSE f[n - 1]
  BY <1>2 DEF IsFirst
<1>4. g[n] = IF n = 0 THEN <<>>
             ELSE IF more[n] \in S THEN Append(g[n - 1], more[n]) ELSE g[n - 1]
  BY <1>2 DEF IsFirst
<1>5. n # 0
  BY <1>2, <1>3, <1>4
<1>6. n - 1 \in 0..m /\ n - 1 \notin Bad /\ n \in 1..m
  BY <1>1, <1>2, <1>5
<1>7. f[n - 1] = g[n - 1] /\ list[n] = more[n]
  BY <1>6 DEF Alike
<1> QED
  BY <1>2, <1>3, <1>4, <1>7

LEMMA KeptFirst ==
  ASSUME NEW T, NEW list \in Seq(T), NEW S
  PROVE  \E f : IsFirst(f, list, S, Len(list)) /\ Kept(list, S) = f[Len(list)]
<1>1. Len(list) \in Nat
  OBVIOUS
<1>2. \E f : IsFirst(f, list, S, Len(list))
  BY <1>1, FirstExists
<1> DEFINE chosen == CHOOSE f : IsFirst(f, list, S, Len(list))
<1>3. IsFirst(chosen, list, S, Len(list))
  BY <1>2
<1>4. Kept(list, S) = chosen[Len(list)]
  BY DEF Kept, IsFirst
<1> QED
  BY <1>3, <1>4

(* Kept takes the elements one after another.                               *)
LEMMA KeptEmpty == \A S : Kept(<<>>, S) = <<>>
<1> TAKE S
<1>1. <<>> \in Seq({}) /\ Len(<<>>) = 0
  OBVIOUS
<1>2. PICK f : IsFirst(f, <<>>, S, 0) /\ Kept(<<>>, S) = f[0]
  BY <1>1, KeptFirst
<1> QED
  BY <1>2 DEF IsFirst

LEMMA KeptAppend ==
  ASSUME NEW T, NEW list \in Seq(T), NEW x \in T, NEW S
  PROVE  Kept(Append(list, x), S) = IF x \in S THEN Append(Kept(list, S), x) ELSE Kept(list, S)
<1> DEFINE more == Append(list, x)
           m == Len(list)
           k == m + 1
<1>1. more \in Seq(T) /\ Len(more) = k /\ m \in Nat /\ more[k] = x
      /\ \A n \in 1..m : list[n] = more[n]
  BY AppendProperties
<1>2. k \in Nat /\ m <= k /\ k \in 0..k /\ k # 0 /\ k - 1 = m /\ m \in 0..m
  BY <1>1
<1> HIDE DEF more, m, k
<1>3. PICK f : IsFirst(f, list, S, m) /\ Kept(list, S) = f[m]
  BY KeptFirst DEF m
<1>4. PICK g : IsFirst(g, more, S, k) /\ Kept(more, S) = g[k]
  BY <1>1, KeptFirst
<1>5. f[m] = g[m]
  <2>1. Alike(list, more, 1, m)
    BY <1>1 DEF Alike
  <2>2. Alike(f, g, 0, m)
    BY <1>1, <1>2, <1>3, <1>4, <2>1, FirstUnique
  <2> QED
    BY <1>2, <2>2 DEF Alike
<1>6. g[k] = IF more[k] \in S THEN Append(g[k - 1], more[k]) ELSE g[k - 1]
  BY <1>2, <1>4 DEF IsFirst
<1> QED
  BY <1>1, <1>2, <1>3, <1>4, <1>5, <1>6 DEF more

(* A fact of every list that holds of the empty one, and of one element     *)
(* more whenever it holds of a list, has no least counterexample: what the  *)
(* lemmas below rest on.                                                    *)
LEMMA LeastList ==
  ASSUME NEW T, NEW Wrong \in SUBSET Seq(T), Wrong # {}
  PROVE  \/ <<>> \in Wrong
         \/ \E list \in Seq(T), x \in T : list \notin Wrong /\ Append(list, x) \in Wrong
<1> DEFINE Lengths == {Len(list) : list \in Wrong}
<1>1. PICK n \in Lengths : \A m \in Lengths : n <= m
  <2>1. Lengths \in SUBSET Nat
    <3>1. \A list \in Wrong : Len(list) \in Nat
      OBVIOUS
    <3> QED BY <3>1
  <2>2. Lengths # {}
    OBVIOUS
  <2> HIDE DEF Lengths
  <2> QED BY <2>1, <2>2, LeastNat
<1>2. PICK long \in Wrong : n = Len(long)
  OBVIOUS
<1>3. CASE long = <<>>
  BY <1>2, <1>3
<1>4. CASE long # <<>>
  <2>1. PICK list \in Seq(T), x \in T : long = Append(list, x)
    BY <1>4, SequenceEmptyOrAppend
  <2>2. Len(long) = Len(list) + 1 /\ Len(list) \in Nat
    BY <2>1
  <2>3. list \notin Wrong
    BY <1>1, <1>2, <2>2
  <2> QED
    BY <2>1, <2>3
<1> QED
  BY <1>3, <1>4

LEMMA KeptSeq ==
  ASSUME NEW T, NEW list \in Seq(T), NEW S
  PROVE  Kept(list, S) \in Seq(T \cap S) /\ Len(Kept(list, S)) <= Len(list)
<1> DEFINE Fits(l) == Kept(l, S) \in Seq(T \cap S) /\ Len(Kept(l, S)) <= Len(l)
           Wrong == {l \in Seq(T) : ~Fits(l)}
<1> SUFFICES ASSUME Wrong # {} PROVE FALSE
  OBVIOUS
<1>1. \/ <<>> \in Wrong
      \/ \E l \in Seq(T), x \in T : l \notin Wrong /\ Append(l, x) \in Wrong
  <2>1. Wrong \in SUBSET Seq(T)
    OBVIOUS
  <2> HIDE DEF Wrong
  <2> QED BY <2>1, LeastList
<1>2. Fits(<<>>)
  <2>1. Kept(<<>>, S) = <<>>
    BY KeptEmpty
  <2>2. <<>> \in Seq(T \cap S) /\ Len(<<>>) <= Len(<<>>)
    OBVIOUS
  <2> QED BY <2>1, <2>2
<1>3. ASSUME NEW l \in Seq(T), NEW x \in T, Fits(l) PROVE Fits(Append(l, x))
  <2>1. Kept(Append(l, x), S) = IF x \in S THEN Append(Kept(l, S), x) ELSE Kept(l, S)
    BY KeptAppend
  <2>2. Len(Append(l, x)) = Len(l) + 1
    BY AppendProperties
  <2>3. CASE x \in S
    <3>1. x \in T \cap S
      BY <2>3
    <3>2. /\ Append(Kept(l, S), x) \in Seq(T \cap S)
          /\ Len(Append(Kept(l, S), x)) = Len(Kept(l, S)) + 1
      BY <1>3, <3>1, AppendProperties
    <3> QED
      BY <1>3, <2>1, <2>2, <2>3, <3>2
  <2>4. CASE x \notin S
    BY <1>3, <2>1, <2>2, <2>4
  <2> QED
    BY <2>3, <2>4
<1> QED
  BY <1>1, <1>2, <1>3

(* What is kept was in the list, and is in the set.                         *)
LEMMA KeptFrom ==
  ASSUME NEW T, NEW list \in Seq(T), NEW S, NEW j \in 1..Len(Kept(list, S))
  PROVE  Kept(list, S)[j] \in S /\ \E i \in 1..Len(list) : list[i] = Kept(list, S)[j]
<1> DEFINE Elements == {list[i] : i \in 1..Len(list)}
<1>1. list \in Seq(Elements)
  <2>1. list = [i \in 1..Len(list) |-> list[i]] /\ Len(list) \in Nat
    OBVIOUS
  <2>2. \A i \in 1..Len(list) : list[i] \in Elements
    OBVIOUS
  <2> HIDE DEF Elements
  <2> QED BY <2>1, <2>2, SeqDef
<1>2. Kept(list, S) \in Seq(Elements \cap S)
  <2> HIDE DEF Elements
  <2> QED BY <1>1, KeptSeq
<1>3. Kept(list, S)[j] \in Elements \cap S
  <2> HIDE DEF Elements
  <2> QED BY <1>2, ElementOfSeq
<1> QED
  BY <1>3

(* An element that is kept is no farther from the end than it was.          *)
LEMMA KeptPlace ==
  ASSUME NEW T, NEW list \in Seq(T), NEW S, NEW i \in 1..Len(list), list[i] \in S
  PROVE  \E j \in 1..Len(Kept(list, S)) :
           Kept(list, S)[j] = list[i] /\ Len(Kept(list, S)) - j <= Len(list) - i
<1> DEFINE Placed(l, n) == \E j \in 1..Len(Kept(l, S)) :
                             Kept(l, S)[j] = l[n] /\ Len(Kept(l, S)) - j <= Len(l) - n
           Fits(l) == \A n \in 1..Len(l) : l[n] \in S => Placed(l, n)
           Wrong == {l \in Seq(T) : ~Fits(l)}
<1> SUFFICES ASSUME Wrong # {} PROVE FALSE
  OBVIOUS
<1>1. \/ <<>> \in Wrong
      \/ \E l \in Seq(T), x \in T : l \notin Wrong /\ Append(l, x) \in Wrong
  <2>1. Wrong \in SUBSET Seq(T)
    OBVIOUS
  <2> HIDE DEF Wrong
  <2> QED BY <2>1, LeastList
<1>2. Fits(<<>>)
  OBVIOUS
<1>3. ASSUME NEW l \in Seq(T), NEW x \in T, Fits(l) PROVE Fits(Append(l, x))
  <2> DEFINE long == Append(l, x)
             kept == Kept(l, S)
  <2>1. Kept(long, S) = IF x \in S THEN Append(kept, x) ELSE kept
    BY KeptAppend
  <2>2. /\ Len(long) = Len(l) + 1 /\ Len(l) \in Nat /\ long[Len(l) + 1] = x
        /\ \A n \in 1..Len(l) : long[n] = l[n]
    BY AppendProperties
  <2>3. kept \in Seq(T \cap S) /\ Len(kept) \in Nat
    BY KeptSeq
  <2>4. \A n \in 1..Len(l) : l[n] \in S =>
          \E j \in 1..Len(kept) : kept[j] = l[n] /\ Len(kept) - j <= Len(l) - n
    BY <1>3
  <2> HIDE DEF long, kept
  <2>5. ASSUME NEW n \in 1..Len(long), long[n] \in S
        PROVE  \E j \in 1..Len(Kept(long, S)) :
                 Kept(long, S)[j] = long[n] /\ Len(Kept(long, S)) - j <= Len(long) - n
    <3>1. CASE x \in S
      <4>1. /\ Kept(long, S) = Append(kept, x) /\ Len(Append(kept, x)) = Len(kept) + 1
            /\ Append(kept, x)[Len(kept) + 1] = x
            /\ \A j \in 1..Len(kept) : Append(kept, x)[j] = kept[j]
        <5>1. x \in T \cap S
          BY <3>1
        <5> QED BY <2>1, <2>3, <3>1, <5>1, AppendProperties
      <4>2. CASE n = Len(l) + 1
        <5>1. Len(kept) + 1 \in 1..Len(Kept(long, S))
          BY <2>3, <4>1
        <5>2. /\ Kept(long, S)[Len(kept) + 1] = long[n]
              /\ Len(Kept(long, S)) - (Len(kept) + 1) <= Len(long) - n
          BY <2>2, <2>3, <4>1, <4>2
        <5> QED BY <5>1, <5>2
      <4>3. CASE n \in 1..Len(l)
        <5>1. PICK j \in 1..Len(kept) : kept[j] = l[n] /\ Len(kept) - j <= Len(l) - n
          BY <2>2, <2>4, <2>5, <4>3
        <5>2. j \in 1..Len(Kept(long, S))
          BY <2>3, <4>1
        <5>3. Kept(long, S)[j] = long[n] /\ Len(Kept(long, S)) - j <= Len(long) - n
          BY <2>2, <2>3, <4>1, <4>3, <5>1
        <5> QED BY <5>2, <5>3
      <4> QED
        BY <2>2, <2>5, <4>2, <4>3
    <3>2. CASE x \notin S
      <4>1. n \in 1..Len(l)
        BY <2>2, <2>5, <3>2
      <4>2. PICK j \in 1..Len(kept) : kept[j] = l[n] /\ Len(kept) - j <= Len(l) - n
        BY <2>2, <2>4, <2>5, <4>1
      <4> QED
        BY <2>1, <2>2, <2>3, <3>2, <4>1, <4>2
    <3> QED
      BY <3>1, <3>2
  <2> QED
    BY <2>5 DEF long
<1> QED
  BY <1>1, <1>2, <1>3

(* Keeping twice is keeping what both sets have.                            *)
LEMMA KeptTwice ==
  ASSUME NEW T, NEW list \in Seq(T), NEW S, NEW U
  PROVE  Kept(Kept(list, S), U) = Kept(list, S \cap U)
<1> DEFINE Fits(l) == Kept(Kept(l, S), U) = Kept(l, S \cap U)
           Wrong == {l \in Seq(T) : ~Fits(l)}
<1> SUFFICES ASSUME Wrong # {} PROVE FALSE
  OBVIOUS
<1>1. \/ <<>> \in Wrong
      \/ \E l \in Seq(T), x \in T : l \notin Wrong /\ Append(l, x) \in Wrong
  <2>1. Wrong \in SUBSET Seq(T)
    OBVIOUS
  <2> HIDE DEF Wrong
  <2> QED BY <2>1, LeastList
<1>2. Fits(<<>>)
  BY KeptEmpty
<1>3. ASSUME NEW l \in Seq(T), NEW x \in T, Fits(l) PROVE Fits(Append(l, x))
  <2>1. /\ Kept(Append(l, x), S) = IF x \in S THEN Append(Kept(l, S), x) ELSE Kept(l, S)
        /\ Kept(Append(l, x), S \cap U) =
             IF x \in S \cap U THEN Append(Kept(l, S \cap U), x) ELSE Kept(l, S \cap U)
    BY KeptAppend
  <2>2. Kept(l, S) \in Seq(T \cap S)
    BY KeptSeq
  <2>3. ASSUME x \in S
        PROVE  Kept(Append(Kept(l, S), x), U) = IF x \in U THEN Append(Kept(Kept(l, S), U), x)
                                                ELSE Kept(Kept(l, S), U)
    <3>1. x \in T \cap S
      BY <2>3
    <3> DEFINE R == T \cap S
               kept == Kept(l, S)
    <3>2. kept \in Seq(R) /\ x \in R
      BY <2>2, <3>1
    <3> HIDE DEF R, kept
    <3>3. Kept(Append(kept, x), U) = IF x \in U THEN Append(Kept(kept, U), x) ELSE Kept(kept, U)
      BY <3>2, KeptAppend
    <3> QED BY <3>3 DEF kept
  <2>4. CASE x \in S /\ x \in U
    <3>1. Kept(Kept(Append(l, x), S), U) = Append(Kept(Kept(l, S), U), x)
      BY <2>1, <2>3, <2>4
    <3>2. Kept(Append(l, x), S \cap U) = Append(Kept(l, S \cap U), x)
      BY <2>1, <2>4
    <3> QED BY <1>3, <3>1, <3>2
  <2>5. CASE x \in S /\ x \notin U
    <3>1. Kept(Kept(Append(l, x), S), U) = Kept(Kept(l, S), U)
      BY <2>1, <2>3, <2>5
    <3>2. Kept(Append(l, x), S \cap U) = Kept(l, S \cap U)
      BY <2>1, <2>5
    <3> QED BY <1>3, <3>1, <3>2
  <2>6. CASE x \notin S
    <3>1. Kept(Kept(Append(l, x), S), U) = Kept(Kept(l, S), U)
      BY <2>1, <2>6
    <3>2. Kept(Append(l, x), S \cap U) = Kept(l, S \cap U)
      BY <2>1, <2>6
    <3> QED BY <1>3, <3>1, <3>2
  <2> QED
    BY <2>4, <2>5, <2>6
<1> QED
  BY <1>1, <1>2, <1>3

(* Only which of its elements a set has matters to what is kept of a list.  *)
LEMMA KeptSame ==
  ASSUME NEW T, NEW list \in Seq(T), NEW S, NEW U,
         \A i \in 1..Len(list) : list[i] \in S <=> list[i] \in U
  PROVE  Kept(list, S) = Kept(list, U)
<1> DEFINE Fits(l) == (\A i \in 1..Len(l) : l[i] \in S <=> l[i] \in U) => Kept(l, S) = Kept(l, U)
           Wrong == {l \in Seq(T) : ~Fits(l)}
<1> SUFFICES ASSUME Wrong # {} PROVE FALSE
  OBVIOUS
<1>1. \/ <<>> \in Wrong
      \/ \E l \in Seq(T), x \in T : l \notin Wrong /\ Append(l, x) \in Wrong
  <2>1. Wrong \in SUBSET Seq(T)
    OBVIOUS
  <2> HIDE DEF Wrong
  <2> QED BY <2>1, LeastList
<1>2. Fits(<<>>)
  BY KeptEmpty
<1>3. ASSUME NEW l \in Seq(T), NEW x \in T, Fits(l) PROVE Fits(Append(l, x))
  <2> DEFINE long == Append(l, x)
  <2>1. /\ Kept(long, S) = IF x \in S THEN Append(Kept(l, S), x) ELSE Kept(l, S)
        /\ Kept(long, U) = IF x \in U THEN Append(Kept(l, U), x) ELSE Kept(l, U)
    BY KeptAppend
  <2>2. /\ Len(long) = Len(l) + 1 /\ Len(l) \in Nat /\ long[Len(l) + 1] = x
        /\ \A n \in 1..Len(l) : long[n] = l[n]
    BY AppendProperties
  <2> HIDE DEF long
  <2>3. ASSUME \A i \in 1..Len(long) : long[i] \in S <=> long[i] \in U
        PROVE  Kept(long, S) = Kept(long, U)
    <3>1. x \in S <=> x \in U
      <4>1. Len(l) + 1 \in 1..Len(long)
        BY <2>2
      <4> QED BY <2>2, <2>3, <4>1
    <3>2. ASSUME NEW i \in 1..Len(l) PROVE l[i] \in S <=> l[i] \in U
      <4>1. i \in 1..Len(long)
        BY <2>2
      <4> QED BY <2>2, <2>3, <4>1
    <3> QED
      BY <1>3, <2>1, <3>1, <3>2
  <2> QED
    BY <2>3 DEF long
<1> QED
  BY <1>1, <1>2, <1>3

(* What is kept of a list without repeats has none.                         *)
LEMMA KeptOnce ==
  ASSUME NEW T, NEW list \in Seq(T), NEW S, \A i, j \in 1..Len(list) : list[i] = list[j] => i = j
  PROVE  \A i, j \in 1..Len(Kept(list, S)) : Kept(list, S)[i] = Kept(list, S)[j] => i = j
<1> DEFINE Once(l) == \A i, j \in 1..Len(l) : l[i] = l[j] => i = j
           Fits(l) == Once(l) => Once(Kept(l, S))
           Wrong == {l \in Seq(T) : ~Fits(l)}
<1> SUFFICES ASSUME Wrong # {} PROVE FALSE
  OBVIOUS
<1>1. \/ <<>> \in Wrong
      \/ \E l \in Seq(T), x \in T : l \notin Wrong /\ Append(l, x) \in Wrong
  <2>1. Wrong \in SUBSET Seq(T)
    OBVIOUS
  <2> HIDE DEF Wrong
  <2> QED BY <2>1, LeastList
<1>2. Fits(<<>>)
  BY KeptEmpty
<1>3. ASSUME NEW l \in Seq(T), NEW x \in T, Fits(l) PROVE Fits(Append(l, x))
  <2>1. PICK long, kept, old : long = Append(l, x) /\ kept = Kept(long, S) /\ old = Kept(l, S)
    OBVIOUS
  <2>2. kept = IF x \in S THEN Append(old, x) ELSE old
    <3>1. old = Kept(l, S) /\ kept = Kept(Append(l, x), S)
      BY <2>1
    <3>2. Kept(Append(l, x), S) = IF x \in S THEN Append(Kept(l, S), x) ELSE Kept(l, S)
      <4> HIDE DEF Once, Fits, Wrong
      <4> QED BY KeptAppend
    <3> QED BY <3>1, <3>2
  <2>3. /\ Len(long) = Len(l) + 1 /\ Len(l) \in Nat /\ long[Len(l) + 1] = x
        /\ \A n \in 1..Len(l) : long[n] = l[n] /\ n \in 1..Len(long)
    BY <2>1, AppendProperties
  <2>4. old \in Seq(T \cap S) /\ \A j \in 1..Len(old) : \E i \in 1..Len(l) : l[i] = old[j]
    <3>1. old \in Seq(T \cap S)
      BY <2>1, KeptSeq
    <3>2. ASSUME NEW j \in 1..Len(old) PROVE \E i \in 1..Len(l) : l[i] = old[j]
      <4>1. old = Kept(l, S)
        BY <2>1
      <4>2. j \in 1..Len(Kept(l, S))
        BY <4>1
      <4>3. \E i \in 1..Len(l) : l[i] = Kept(l, S)[j]
        <5> HIDE DEF Once, Fits, Wrong
        <5> QED BY <4>2, KeptFrom
      <4> QED BY <4>1, <4>3
    <3> QED BY <3>1, <3>2
  <2>5. ASSUME Once(long) PROVE Once(kept)
    <3>1. Once(old)
      <4>1. Once(l)
        BY <2>3, <2>5
      <4> QED BY <1>3, <2>1, <4>1
    <3>2. CASE x \notin S
      BY <2>2, <3>1, <3>2
    <3>3. CASE x \in S
      <4>1. /\ Len(kept) = Len(old) + 1 /\ Len(old) \in Nat /\ kept[Len(old) + 1] = x
            /\ \A n \in 1..Len(old) : kept[n] = old[n]
        <5>1. PICK R : R = T \cap S
          OBVIOUS
        <5>2. old \in Seq(R) /\ x \in R /\ kept = Append(old, x)
          BY <2>2, <2>4, <3>3, <5>1
        <5> QED BY <5>2, AppendProperties
      <4>2. \A j \in 1..Len(old) : old[j] # x
        <5> SUFFICES ASSUME NEW j \in 1..Len(old), old[j] = x PROVE FALSE
          OBVIOUS
        <5>1. PICK i \in 1..Len(l) : l[i] = x
          BY <2>4
        <5>2. i \in 1..Len(long) /\ Len(l) + 1 \in 1..Len(long) /\ long[i] = long[Len(l) + 1]
          BY <2>3, <5>1
        <5>3. i = Len(l) + 1
          BY <2>5, <5>2
        <5> QED BY <2>3, <5>3
      <4>3. \A i \in 1..Len(kept) : i \in 1..Len(old) \/ i = Len(old) + 1
        <5>1. PICK n, m : n = Len(old) /\ m = Len(kept)
          OBVIOUS
        <5>2. n \in Nat /\ m = n + 1
          BY <4>1, <5>1
        <5> QED BY <5>1, <5>2
      <4> SUFFICES ASSUME NEW i \in 1..Len(kept), NEW j \in 1..Len(kept), kept[i] = kept[j]
                   PROVE  i = j
        OBVIOUS
      <4> QED BY <3>1, <4>1, <4>2, <4>3
    <3> QED BY <3>2, <3>3
  <2> QED BY <2>1, <2>5
<1> QED
  BY <1>1, <1>2, <1>3
=============================================================================
