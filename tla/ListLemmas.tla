----------------------------- MODULE ListLemmas -----------------------------
(***************************************************************************)
(* Facts about the list operations the models share: Dart's List.add       *)
(* (Append) and List.remove (RemoveFirst), and the lists a query returns   *)
(* (SetToSeqs of the set of its documents).                                *)
(***************************************************************************)
EXTENDS Integers, FiniteSets, SequencesExt, FiniteSetTheorems,
        SequenceTheorems, WellFoundedInduction, TLAPS

(* A nonempty set of naturals has a least element, which Min returns.  *)
LEMMA MinExists ==
    ASSUME NEW S \in SUBSET Nat, S # {}
    PROVE  Min(S) \in S /\ \A y \in S : Min(S) <= y
<1> DEFINE R == {p \in Nat \X Nat : p[1] < p[2]}
<1>1. R = OpToRel(<, Nat)
  BY Zenon DEF OpToRel
<1>2. IsWellFoundedOn(R, Nat)
  BY <1>1, NatLessThanWellFounded, Zenon
<1>3. \A x, y \in Nat : y < x => <<y, x>> \in R
  OBVIOUS
<1> HIDE DEF R
<1>4. \E x \in S : \A y \in S : ~(<<y, x>> \in R)
  BY <1>2, WFMin, Zenon
<1>5. PICK x \in S : \A y \in S : ~(<<y, x>> \in R)
  BY <1>4
<1>6. \A y \in S : x <= y
  <2> TAKE y \in S
  <2>1. ~(y < x)
    BY <1>3, <1>5
  <2> QED
    BY <2>1
<1> QED
  BY <1>6 DEF Min

(* List.add adds its argument to the elements, and keeps a list free of    *)
(* duplicates when the argument is new.                                    *)
LEMMA AddFacts ==
    ASSUME NEW S, NEW s \in Seq(S), NEW x \in S
    PROVE  /\ Append(s, x) \in Seq(S)
           /\ ToSet(Append(s, x)) = ToSet(s) \cup {x}
           /\ IsInjective(s) /\ x \notin ToSet(s) => IsInjective(Append(s, x))
<1>1. /\ Append(s, x) \in Seq(S)
      /\ DOMAIN s = 1 .. Len(s)
      /\ DOMAIN Append(s, x) = 1 .. Len(s) + 1
      /\ \A i \in 1 .. Len(s) : Append(s, x)[i] = s[i]
      /\ Append(s, x)[Len(s) + 1] = x
      /\ Len(s) \in Nat
  OBVIOUS
<1>2. ToSet(Append(s, x)) = ToSet(s) \cup {x}
  BY <1>1 DEF ToSet
<1>3. ASSUME IsInjective(s), x \notin ToSet(s)
      PROVE  IsInjective(Append(s, x))
  <2> SUFFICES ASSUME NEW a \in 1 .. Len(s) + 1, NEW b \in 1 .. Len(s) + 1,
                      Append(s, x)[a] = Append(s, x)[b]
               PROVE  a = b
    BY <1>1 DEF IsInjective
  <2>1. \A i \in 1 .. Len(s) : s[i] # x
    BY <1>1, <1>3 DEF ToSet
  <2>2. CASE a \in 1 .. Len(s) /\ b \in 1 .. Len(s)
    BY <1>1, <1>3, <2>2 DEF IsInjective
  <2>3. CASE a = Len(s) + 1 \/ b = Len(s) + 1
    BY <1>1, <2>1, <2>3
  <2> QED
    BY <1>1, <2>2, <2>3
<1> QED
  BY <1>1, <1>2, <1>3

(* What is before position k of s, what is behind it, and s without it.  *)
Before(S, s, k, left) ==
    left \in Seq(S) /\ Len(left) = k - 1 /\ \A i \in 1 .. k - 1 : left[i] = s[i]

Behind(S, s, k, right) ==
    /\ right \in Seq(S) /\ Len(right) = Len(s) - k
    /\ \A i \in 1 .. Len(s) - k : right[i] = s[k + i]

Without(S, s, k, r) ==
    /\ r \in Seq(S) /\ Len(r) = Len(s) - 1
    /\ \A i \in 1 .. Len(s) - 1 : r[i] = IF i < k THEN s[i] ELSE s[i + 1]

(* Joining the two parts closes the gap.  *)
LEMMA JoinFacts ==
    ASSUME NEW S, NEW s \in Seq(S), NEW k \in 1 .. Len(s),
           NEW left, Before(S, s, k, left), NEW right, Behind(S, s, k, right)
    PROVE  Without(S, s, k, left \o right)
<1> DEFINE r == left \o right
<1>0. left \in Seq(S) /\ right \in Seq(S)
  BY DEF Before, Behind
<1>1. /\ r \in Seq(S)
      /\ Len(r) = Len(left) + Len(right)
      /\ \A i \in 1 .. Len(left) + Len(right) :
            r[i] = IF i <= Len(left) THEN left[i] ELSE right[i - Len(left)]
  BY <1>0, ConcatProperties, Zenon
<1> HIDE DEF r
<1>2. Len(r) = Len(s) - 1
  BY <1>1 DEF Before, Behind
<1>3. ASSUME NEW i \in 1 .. Len(s) - 1
      PROVE  r[i] = IF i < k THEN s[i] ELSE s[i + 1]
  <2>1. r[i] = IF i <= k - 1 THEN left[i] ELSE right[i - (k - 1)]
    BY <1>1 DEF Before, Behind
  <2>2. CASE i < k
    BY <2>1, <2>2 DEF Before
  <2>3. CASE ~(i < k)
    <3>1. i - (k - 1) \in 1 .. Len(s) - k /\ k + (i - (k - 1)) = i + 1
      BY <2>3
    <3>2. right[i - (k - 1)] = s[i + 1]
      BY <3>1 DEF Behind
    <3> QED
      BY <2>1, <2>3, <3>2
  <2> QED
    BY <2>2, <2>3
<1> QED
  BY <1>1, <1>2, <1>3 DEF r, Without

(* RemoveAt returns the list without the element at position k.  *)
LEMMA RemoveAtFacts ==
    ASSUME NEW S, NEW s \in Seq(S), NEW k \in 1 .. Len(s)
    PROVE  Without(S, s, k, RemoveAt(s, k))
<1>1. Before(S, s, k, SubSeq(s, 1, k - 1))
  BY DEF Before
<1>2. Behind(S, s, k, SubSeq(s, k + 1, Len(s)))
  <2>1. CASE k < Len(s)
    BY <2>1 DEF Behind
  <2>2. CASE k = Len(s)
    <3>1. SubSeq(s, k + 1, Len(s)) = << >>
      BY <2>2, SubSeqEmpty
    <3> QED
      BY <2>2, <3>1 DEF Behind
  <2> QED
    BY <2>1, <2>2
<1> QED
  BY <1>1, <1>2, JoinFacts, Zenon DEF RemoveAt

(* List.remove takes away at most its argument, and takes it away for good *)
(* when the list has no duplicates.                                        *)
LEMMA RemoveFacts ==
    ASSUME NEW S, NEW s \in Seq(S), NEW x
    PROVE  /\ RemoveFirst(s, x) \in Seq(S)
           /\ ToSet(RemoveFirst(s, x)) \subseteq ToSet(s)
           /\ ToSet(s) \ {x} \subseteq ToSet(RemoveFirst(s, x))
           /\ IsInjective(s) => /\ IsInjective(RemoveFirst(s, x))
                                /\ x \notin ToSet(RemoveFirst(s, x))
<1> DEFINE r == RemoveFirst(s, x)
<1>1. DOMAIN s = 1 .. Len(s) /\ Len(s) \in Nat
  OBVIOUS
<1>2. CASE ~ \E i \in 1 .. Len(s) : s[i] = x
  <2>1. r = s
    BY <1>2 DEF RemoveFirst
  <2> QED
    BY <1>1, <1>2, <2>1 DEF ToSet
<1>3. CASE \E i \in 1 .. Len(s) : s[i] = x
  <2> DEFINE I == {i \in 1 .. Len(s) : s[i] = x}
             k == Min(I)
  <2>1. I \in SUBSET Nat /\ I # {}
    BY <1>1, <1>3
  <2>2. k \in I
    BY <2>1, MinExists
  <2>3. r = RemoveAt(s, k)
    BY <1>3, <2>1, Zenon DEF RemoveFirst, SelectInSeq
  <2> HIDE DEF k, r
  <2>4. k \in 1 .. Len(s) /\ s[k] = x
    BY <2>2
  <2>5. /\ r \in Seq(S)
        /\ Len(r) = Len(s) - 1
        /\ \A i \in 1 .. Len(s) - 1 : r[i] = IF i < k THEN s[i] ELSE s[i + 1]
    <3>1. Without(S, s, k, r)
      BY <2>3, <2>4, RemoveAtFacts, Zenon
    <3> QED
      BY <3>1 DEF Without
  <2>6. DOMAIN r = 1 .. Len(s) - 1
    BY <1>1, <2>5
  <2>7. ToSet(r) \subseteq ToSet(s)
    BY <1>1, <2>4, <2>5, <2>6 DEF ToSet
  <2>8. ToSet(s) \ {x} \subseteq ToSet(r)
    <3> SUFFICES ASSUME NEW i \in 1 .. Len(s), s[i] # x
                 PROVE  \E j \in 1 .. Len(s) - 1 : r[j] = s[i]
      BY <1>1, <2>6 DEF ToSet
    <3>1. CASE i < k
      BY <1>1, <2>4, <2>5, <3>1
    <3>2. CASE i > k
      <4>1. i - 1 \in 1 .. Len(s) - 1 /\ r[i - 1] = s[i]
        BY <1>1, <2>4, <2>5, <3>2
      <4> QED
        BY <4>1
    <3> QED
      BY <1>1, <2>4, <3>1, <3>2
  <2>9. ASSUME IsInjective(s)
        PROVE  IsInjective(r) /\ x \notin ToSet(r)
    <3>1. \A a, b \in 1 .. Len(s) : s[a] = s[b] => a = b
      BY <1>1, <2>9 DEF IsInjective
    <3>2. x \notin ToSet(r)
      BY <1>1, <2>4, <2>5, <2>6, <3>1 DEF ToSet
    <3>3. \A a, b \in 1 .. Len(s) - 1 : r[a] = r[b] => a = b
      BY <1>1, <2>4, <2>5, <3>1
    <3> QED
      BY <2>6, <3>2, <3>3 DEF IsInjective
  <2> QED
    BY <2>5, <2>7, <2>8, <2>9 DEF r
<1> QED
  BY <1>2, <1>3

(* The result of a query holds each of its documents once.  *)
LEMMA QueryFacts ==
    ASSUME NEW S, IsFiniteSet(S), NEW s \in SetToSeqs(S)
    PROVE  s \in Seq(S) /\ IsInjective(s) /\ ToSet(s) = S
<1>1. Cardinality(S) \in Nat
  BY FS_CardinalityType
<1>2. /\ s \in [1 .. Cardinality(S) -> S]
      /\ \A i, j \in 1 .. Cardinality(S) : i # j => s[i] # s[j]
  BY DEF SetToSeqs
<1>3. s \in Seq(S)
  BY <1>1, <1>2
<1>4. IsInjective(s)
  BY <1>2 DEF IsInjective
<1>5. ToSet(s) = S
  <2> DEFINE D == 1 .. Cardinality(S)
  <2>1. IsFiniteSet(D) /\ Cardinality(D) = Cardinality(S)
    BY <1>1, FS_Interval
  <2>2. s \in Injection(D, S)
    BY <1>2, <1>4 DEF Injection
  <2> HIDE DEF D
  <2>3. s \in Surjection(D, S)
    BY <2>1, <2>2, FS_Injection
  <2> QED
    BY <1>2, <2>3 DEF ToSet, Surjection, D
<1> QED
  BY <1>3, <1>4, <1>5

(* So does the one order of a finite set that SetToSeq picks.  *)
LEMMA OrderFacts ==
    ASSUME NEW S, IsFiniteSet(S)
    PROVE  /\ SetToSeq(S) \in Seq(S)
           /\ IsInjective(SetToSeq(S))
           /\ ToSet(SetToSeq(S)) = S
<1> DEFINE D == 1 .. Cardinality(S)
<1>1. Cardinality(S) \in Nat /\ ExistsBijection(D, S)
  BY FS_CardinalityType
<1>2. PICK f \in Bijection(D, S) : TRUE
  BY <1>1 DEF ExistsBijection
<1>3. f \in [D -> S] /\ IsInjective(f)
  BY <1>2 DEF Bijection, Injection, IsInjective
<1>4. SetToSeq(S) \in [D -> S] /\ IsInjective(SetToSeq(S))
  BY <1>3 DEF SetToSeq
<1>5. SetToSeq(S) \in SetToSeqs(S)
  BY <1>4 DEF SetToSeqs, IsInjective
<1> QED
  BY <1>5, QueryFacts
=============================================================================
