--------------------------- MODULE DashboardProofs ---------------------------
(***************************************************************************)
(* Proofs about the start of the panel and its dashboard, for any finite   *)
(* shop and any prices: what the seven queries of callBackFunction leave   *)
(* in the lists, the earnings and the tiles while the shop goes on.        *)
(***************************************************************************)
EXTENDS Dashboard, ListLemmas

-----------------------------------------------------------------------------
(* Sums of prices.  *)

(* Earned is a sum over a set that a recursive function defines: the       *)
(* chosen order's price and the sum over the rest.                         *)
Pick(s) == CHOOSE o \in s : TRUE

Body(D, f) == [s \in SUBSET D |->
                 IF s = {} THEN 0 ELSE Price[Pick(s)] + f[s \ {Pick(s)}]]

(* The rest of a set of orders is one order smaller.  *)
LEMMA PickFacts ==
    ASSUME NEW S \in SUBSET Orders, S # {}
    PROVE  /\ Pick(S) \in S
           /\ Price[Pick(S)] \in Nat
           /\ IsFiniteSet(S)
           /\ S \ {Pick(S)} \in SUBSET Orders
           /\ Cardinality(S) \in Nat
           /\ Cardinality(S \ {Pick(S)}) = Cardinality(S) - 1
<1>1. Pick(S) \in S
  BY DEF Pick
<1>2. IsFiniteSet(S)
  BY DashboardFinite, FS_Subset
<1>3. Cardinality(S) \in Nat /\ Cardinality(S \ {Pick(S)}) = Cardinality(S) - 1
  BY <1>1, <1>2, FS_RemoveElement, FS_CardinalityType
<1> QED
  BY <1>1, <1>2, <1>3, PriceType

(* The recursion has a solution: one for sets of at most n orders, for     *)
(* each n, for otherwise there were a least n without one.                 *)
LEMMA SolutionExists == \E f : f = Body(Orders, f)
<1> DEFINE Upto(n, f) == \A s \in SUBSET Orders :
                            Cardinality(s) <= n => f[s] = Body(Orders, f)[s]
           Good == {n \in Nat : \E f \in [SUBSET Orders -> Nat] : Upto(n, f)}
<1>1. 0 \in Good
  <2> DEFINE f == [s \in SUBSET Orders |-> 0]
  <2>1. f \in [SUBSET Orders -> Nat]
    OBVIOUS
  <2>2. ASSUME NEW s \in SUBSET Orders, Cardinality(s) <= 0
        PROVE  f[s] = Body(Orders, f)[s]
    <3>1. s = {}
      <4> SUFFICES ASSUME s # {} PROVE FALSE
        OBVIOUS
      <4>1. Cardinality(s) \in Nat /\ Cardinality(s \ {Pick(s)}) = Cardinality(s) - 1
        BY PickFacts
      <4>2. IsFiniteSet(s \ {Pick(s)})
        BY DashboardFinite, FS_Subset
      <4>3. Cardinality(s \ {Pick(s)}) \in Nat
        BY <4>2, FS_CardinalityType
      <4> QED
        BY <2>2, <4>1, <4>3
    <3> QED
      BY <3>1 DEF Body
  <2>3. Upto(0, f)
    BY <2>2
  <2> QED
    BY <2>1, <2>3
<1>2. ASSUME NEW n \in Nat, n \in Good PROVE n + 1 \in Good
  <2>1. PICK f \in [SUBSET Orders -> Nat] : Upto(n, f)
    BY <1>2
  <2> DEFINE g == [s \in SUBSET Orders |->
                     IF Cardinality(s) = n + 1
                     THEN Price[Pick(s)] + f[s \ {Pick(s)}] ELSE f[s]]
  <2>2. ASSUME NEW s \in SUBSET Orders, Cardinality(s) = n + 1
        PROVE  s # {}
    BY <2>2, FS_EmptySet
  <2>3. g \in [SUBSET Orders -> Nat]
    <3> SUFFICES ASSUME NEW s \in SUBSET Orders PROVE g[s] \in Nat
      BY DEF g
    <3>1. CASE Cardinality(s) = n + 1
      <4>1. f[s \ {Pick(s)}] \in Nat /\ Price[Pick(s)] \in Nat
        BY <3>1, <2>2, PickFacts
      <4> QED
        BY <3>1, <4>1
    <3>2. CASE Cardinality(s) # n + 1
      BY <3>2
    <3> QED
      BY <3>1, <3>2
  <2>4. ASSUME NEW s \in SUBSET Orders, Cardinality(s) <= n + 1
        PROVE  g[s] = Body(Orders, g)[s]
    <3>0. CASE s = {}
      <4>1. Cardinality(s) = 0
        BY <3>0, FS_EmptySet
      <4>2. g[s] = f[s]
        BY <4>1
      <4>3. f[s] = Body(Orders, f)[s]
        BY <2>1, <4>1
      <4> QED
        BY <3>0, <4>2, <4>3 DEF Body
    <3>1. CASE s # {}
      <4> DEFINE r == s \ {Pick(s)}
      <4>1. r \in SUBSET Orders /\ Cardinality(s) \in Nat /\ Cardinality(r) = Cardinality(s) - 1
        BY <3>1, PickFacts
      <4>2. g[r] = f[r]
        <5>1. Cardinality(r) # n + 1
          BY <4>1, <2>4
        <5> QED
          BY <4>1, <5>1
      <4>3. Body(Orders, g)[s] = Price[Pick(s)] + f[r]
        BY <3>1, <4>2 DEF Body
      <4>4. CASE Cardinality(s) = n + 1
        BY <4>3, <4>4
      <4>5. CASE Cardinality(s) # n + 1
        <5>1. g[s] = f[s]
          BY <4>5
        <5>2. f[s] = Body(Orders, f)[s]
          BY <2>1, <2>4, <4>1, <4>5
        <5> QED
          BY <5>1, <5>2, <4>3, <3>1 DEF Body
      <4> QED
        BY <4>4, <4>5
    <3> QED
      BY <3>0, <3>1
  <2>5. Upto(n + 1, g)
    BY <2>4
  <2> HIDE DEF g
  <2> QED
    BY <2>3, <2>5
<1> HIDE DEF Good
<1>3. Nat \subseteq Good
  <2> DEFINE Bad == Nat \ Good
  <2> SUFFICES ASSUME Bad # {} PROVE FALSE
    OBVIOUS
  <2>1. Min(Bad) \in Bad /\ \A y \in Bad : Min(Bad) <= y
    BY MinExists
  <2> DEFINE m == Min(Bad)
  <2>2. m \in Nat /\ m # 0
    BY <2>1, <1>1
  <2>3. m - 1 \in Nat /\ m - 1 \in Good
    BY <2>1, <2>2
  <2>4. (m - 1) + 1 \in Good
    BY <2>3, <1>2
  <2> QED
    BY <2>1, <2>2, <2>4
<1>4. Cardinality(Orders) \in Nat
  BY DashboardFinite, FS_CardinalityType
<1>5. PICK f \in [SUBSET Orders -> Nat] : Upto(Cardinality(Orders), f)
  BY <1>3, <1>4 DEF Good
<1>6. \A s \in SUBSET Orders : Cardinality(s) <= Cardinality(Orders)
  BY DashboardFinite, FS_Subset
<1>7. f = Body(Orders, f)
  <2>1. Body(Orders, f) = [s \in SUBSET Orders |-> Body(Orders, f)[s]]
    BY DEF Body
  <2>2. \A s \in SUBSET Orders : f[s] = Body(Orders, f)[s]
    BY <1>5, <1>6
  <2> QED
    BY <2>1, <2>2
<1> QED
  BY <1>7

(* Among some sets of orders there is one that no other is smaller than.   *)
LEMMA SmallestSet ==
    ASSUME NEW B \in SUBSET (SUBSET Orders), B # {}
    PROVE  \E s \in B : \A r \in SUBSET Orders :
              Cardinality(r) < Cardinality(s) => r \notin B
<1> DEFINE sizes == {Cardinality(s) : s \in B}
<1>0. \A s \in SUBSET Orders : Cardinality(s) \in Nat
  BY DashboardFinite, FS_Subset, FS_CardinalityType
<1>1. sizes \in SUBSET Nat /\ sizes # {}
  BY <1>0
<1>2. Min(sizes) \in sizes /\ \A y \in sizes : Min(sizes) <= y
  BY <1>1, MinExists
<1>3. PICK s \in B : Cardinality(s) = Min(sizes)
  BY <1>2
<1>4. ASSUME NEW r \in SUBSET Orders, Cardinality(r) < Cardinality(s), r \in B
      PROVE  FALSE
  <2>1. Min(sizes) <= Cardinality(r)
    BY <1>2, <1>4
  <2> QED
    BY <1>0, <1>3, <1>4, <2>1
<1> QED
  BY <1>4

(* The solution, and what it is for one set.  *)
SumOf == CHOOSE f : f = Body(Orders, f)

(* One unfolding of the solution.  *)
LEMMA SumOfFacts ==
    /\ SumOf[{}] = 0
    /\ \A s \in SUBSET Orders : s # {} =>
          SumOf[s] = Price[Pick(s)] + SumOf[s \ {Pick(s)}]
<1>1. SumOf = Body(Orders, SumOf)
  BY SolutionExists DEF SumOf
<1>2. \A s \in SUBSET Orders : SumOf[s] = Body(Orders, SumOf)[s]
  BY <1>1
<1>3. \A s \in SUBSET Orders : Body(Orders, SumOf)[s] =
          IF s = {} THEN 0 ELSE Price[Pick(s)] + SumOf[s \ {Pick(s)}]
  BY Zenon DEF Body
<1> QED
  BY <1>2, <1>3

(* Earned is that solution, whatever set it is asked for.  *)
LEMMA EarnedIsSum == \A D \in SUBSET Orders : Earned(D) = SumOf[D]
<1> SUFFICES ASSUME NEW D \in SUBSET Orders PROVE Earned(D) = SumOf[D]
  OBVIOUS
<1> DEFINE h == CHOOSE f : f = Body(D, f)
           g == [s \in SUBSET D |-> SumOf[s]]
<1>1. Earned(D) = h[D]
  BY Zenon DEF Earned, MapThenSumSet, MapThenFoldSet, Body, Pick
<1>2. g = Body(D, g)
  <2>1. ASSUME NEW s \in SUBSET D PROVE g[s] = Body(D, g)[s]
    <3>1. CASE s = {}
      BY <3>1, SumOfFacts DEF Body
    <3>2. CASE s # {}
      <4>1. s \ {Pick(s)} \in SUBSET D /\ s \in SUBSET Orders
        OBVIOUS
      <4>2. g[s \ {Pick(s)}] = SumOf[s \ {Pick(s)}] /\ g[s] = SumOf[s]
        BY <4>1
      <4>3. Body(D, g)[s] = Price[Pick(s)] + g[s \ {Pick(s)}]
        BY <3>2 DEF Body
      <4> QED
        BY <3>2, <4>1, <4>2, <4>3, SumOfFacts
    <3> QED
      BY <3>1, <3>2
  <2> QED
    BY <2>1 DEF Body
<1>3. h = Body(D, h)
  BY <1>2
<1> HIDE DEF h, g
<1>4. \A s \in SUBSET D : h[s] =
          IF s = {} THEN 0 ELSE Price[Pick(s)] + h[s \ {Pick(s)}]
  <2>1. \A s \in SUBSET D : h[s] = Body(D, h)[s]
    BY <1>3
  <2>2. \A s \in SUBSET D : Body(D, h)[s] =
          IF s = {} THEN 0 ELSE Price[Pick(s)] + h[s \ {Pick(s)}]
    BY Zenon DEF Body
  <2> QED
    BY <2>1, <2>2
<1> DEFINE B == {s \in SUBSET D : h[s] # SumOf[s]}
<1>5. B = {}
  <2> SUFFICES ASSUME B # {} PROVE FALSE
    OBVIOUS
  <2>0. B \in SUBSET (SUBSET Orders)
    OBVIOUS
  <2>1. PICK s \in B : \A r \in SUBSET Orders :
              Cardinality(r) < Cardinality(s) => r \notin B
    BY <2>0, SmallestSet
  <2>2. s # {}
    BY <1>4, SumOfFacts
  <2> DEFINE r == s \ {Pick(s)}
  <2>3. r \in SUBSET Orders /\ r \in SUBSET D /\ Cardinality(r) < Cardinality(s)
    BY <2>2, PickFacts
  <2>4. h[r] = SumOf[r]
    BY <2>1, <2>3
  <2>5. h[s] = Price[Pick(s)] + h[r]
    BY <1>4, <2>2
  <2>6. SumOf[s] = Price[Pick(s)] + SumOf[r]
    BY <2>2, SumOfFacts
  <2> QED
    BY <2>4, <2>5, <2>6
<1> QED
  BY <1>1, <1>5

(* A sum of prices is a natural number.  *)
LEMMA EarnedType == \A S \in SUBSET Orders : Earned(S) \in Nat
<1> DEFINE B == {s \in SUBSET Orders : SumOf[s] \notin Nat}
<1>1. B = {}
  <2> SUFFICES ASSUME B # {} PROVE FALSE
    OBVIOUS
  <2>1. PICK s \in B : \A r \in SUBSET Orders :
              Cardinality(r) < Cardinality(s) => r \notin B
    BY SmallestSet
  <2>2. s # {}
    <3>1. SumOf[s] \notin Nat
      OBVIOUS
    <3>2. SumOf[{}] \in Nat
      BY SumOfFacts
    <3> QED
      BY <3>1, <3>2, Zenon
  <2> DEFINE r == s \ {Pick(s)}
  <2>3. r \in SUBSET Orders /\ Cardinality(r) < Cardinality(s) /\ Price[Pick(s)] \in Nat
    BY <2>2, PickFacts
  <2>4. SumOf[r] \in Nat
    BY <2>1, <2>3
  <2>5. SumOf[s] = Price[Pick(s)] + SumOf[r]
    BY <2>2, SumOfFacts
  <2> QED
    BY <2>3, <2>4, <2>5
<1> QED
  BY <1>1, EarnedIsSum

(* Any order of the set may be counted first.  *)
LEMMA EarnedSplit ==
    \A S \in SUBSET Orders : \A x \in S :
        Earned(S) = Price[x] + Earned(S \ {x})
<1> DEFINE B == {s \in SUBSET Orders : \E x \in s :
                    SumOf[s] # Price[x] + SumOf[s \ {x}]}
<1>0. \A s \in SUBSET Orders : SumOf[s] \in Nat
  BY EarnedType, EarnedIsSum
<1>1. B = {}
  <2> SUFFICES ASSUME B # {} PROVE FALSE
    OBVIOUS
  <2>1. PICK s \in B : \A r \in SUBSET Orders :
              Cardinality(r) < Cardinality(s) => r \notin B
    BY SmallestSet
  <2>2. PICK x \in s : SumOf[s] # Price[x] + SumOf[s \ {x}]
    OBVIOUS
  <2> DEFINE c == Pick(s)
             both == (s \ {x}) \ {c}
  <2>3. /\ s \in SUBSET Orders /\ s # {} /\ c \in s
        /\ Cardinality(s \ {c}) < Cardinality(s)
        /\ IsFiniteSet(s) /\ Cardinality(s) \in Nat
    <3>1. s \in SUBSET Orders /\ s # {}
      BY <2>2
    <3>2. /\ c \in s /\ IsFiniteSet(s) /\ Cardinality(s) \in Nat
          /\ Cardinality(s \ {c}) = Cardinality(s) - 1
      BY <3>1, PickFacts
    <3> QED
      BY <3>1, <3>2
  <2>4. SumOf[s] = Price[c] + SumOf[s \ {c}]
    BY <2>3, SumOfFacts
  <2>5. x # c
    BY <2>2, <2>4
  <2>6. Cardinality(s \ {x}) < Cardinality(s)
    <3>1. Cardinality(s \ {x}) = Cardinality(s) - 1
      BY <2>3, <2>2, FS_RemoveElement
    <3> QED
      BY <3>1, <2>3
  <2>7. s \ {c} \notin B /\ s \ {x} \notin B
    BY <2>1, <2>3, <2>6
  <2>8. x \in s \ {c} /\ c \in s \ {x} /\ (s \ {c}) \ {x} = both
    BY <2>3, <2>5
  <2>9. SumOf[s \ {c}] = Price[x] + SumOf[(s \ {c}) \ {x}]
    BY <2>7, <2>8, <2>3
  <2>10. SumOf[s \ {x}] = Price[c] + SumOf[both]
    BY <2>7, <2>8, <2>3
  <2>11. /\ Price[x] \in Nat /\ Price[c] \in Nat /\ SumOf[both] \in Nat
         /\ SumOf[s \ {c}] = Price[x] + SumOf[both]
    BY <1>0, <2>3, <2>8, <2>9, PriceType
  <2> QED
    BY <2>2, <2>4, <2>10, <2>11
<1>2. ASSUME NEW S \in SUBSET Orders, NEW x \in S
      PROVE  Earned(S) = Price[x] + Earned(S \ {x})
  <2>1. SumOf[S] = Price[x] + SumOf[S \ {x}]
    BY <1>1
  <2> QED
    BY <2>1, EarnedIsSum
<1> QED
  BY <1>2

(* More orders do not earn less, and no order earns nothing.  *)
LEMMA EarnedGrows ==
    /\ Earned({}) = 0
    /\ \A S \in SUBSET Orders : \A T \in SUBSET S : Earned(T) <= Earned(S)
<1> DEFINE B == {s \in SUBSET Orders : \E q \in SUBSET s : ~(Earned(q) <= Earned(s))}
<1>1. B = {}
  <2> SUFFICES ASSUME B # {} PROVE FALSE
    OBVIOUS
  <2>1. PICK s \in B : \A r \in SUBSET Orders :
              Cardinality(r) < Cardinality(s) => r \notin B
    BY SmallestSet
  <2>2. PICK q \in SUBSET s : ~(Earned(q) <= Earned(s))
    OBVIOUS
  <2>3. q # s
    BY <2>2, EarnedType
  <2>4. PICK x \in s : x \notin q
    BY <2>3
  <2>5. Cardinality(s \ {x}) = Cardinality(s) - 1 /\ Cardinality(s) \in Nat
    <3>1. IsFiniteSet(s)
      BY DashboardFinite, FS_Subset
    <3> QED
      BY <3>1, FS_RemoveElement, FS_CardinalityType
  <2>6. s \ {x} \in SUBSET Orders /\ s \ {x} \notin B
    BY <2>1, <2>5
  <2>7. Earned(q) <= Earned(s \ {x})
    <3>1. q \in SUBSET (s \ {x})
      BY <2>4
    <3> QED
      BY <2>6, <3>1
  <2>8. Earned(s) = Price[x] + Earned(s \ {x}) /\ Price[x] \in Nat
    BY EarnedSplit, PriceType
  <2>9. Earned(q) \in Nat /\ Earned(s) \in Nat /\ Earned(s \ {x}) \in Nat
    BY <2>6, EarnedType
  <2> QED
    BY <2>2, <2>7, <2>8, <2>9
<1>2. Earned({}) = 0
  BY EarnedIsSum, SumOfFacts
<1> QED
  BY <1>1, <1>2

-----------------------------------------------------------------------------
(* The inductive invariant.  *)

(* What can become of an order that has a status.  *)
Reach(s) ==
    CASE s = "Absent"   -> {"Absent", "Pending", "Delivery", "Cancel", "Completed"}
      [] s = "Pending"  -> {"Pending", "Delivery", "Cancel", "Completed"}
      [] s = "Delivery" -> {"Delivery", "Cancel", "Completed"}
      [] OTHER          -> {s}

(* Where getData is once a query has returned.  *)
Past(q) ==
    CASE q = "users"      -> {"categories", "products", "Completed", "Cancel",
                              "Pending", "Delivery", "frame", "open"}
      [] q = "categories" -> {"products", "Completed", "Cancel", "Pending",
                              "Delivery", "frame", "open"}
      [] q = "products"   -> {"Completed", "Cancel", "Pending", "Delivery",
                              "frame", "open"}
      [] q = "Completed"  -> {"Cancel", "Pending", "Delivery", "frame", "open"}
      [] q = "Cancel"     -> {"Pending", "Delivery", "frame", "open"}
      [] q = "Pending"    -> {"Delivery", "frame", "open"}
      [] q = "Delivery"   -> {"frame", "open"}

(* Each list and each late answer is of what its query asks for.  *)
ListsFit ==
    /\ \A s \in Stored : lists[s] \subseteq Orders
    /\ lists["users"] \subseteq people
    /\ lists["categories"] \subseteq Categories
    /\ lists["products"] \subseteq Products
    /\ early["users"].rows \subseteq people
    /\ early["categories"].rows \subseteq Categories

(* The shop only moves on.  *)
ShopMovesOn ==
    /\ atStart.people \subseteq people
    /\ \A o \in Orders : orders[o] \in Reach(atStart.orders[o])

(* An order on a list had its status at some moment since the start; one   *)
(* that kept its status is on its list.                                    *)
ListsDated ==
    \A s \in Stored :
        /\ \A o \in lists[s] : /\ s \in Reach(atStart.orders[o])
                               /\ orders[o] \in Reach(s)
        /\ loading \in Past(s) => \A o \in Orders :
              atStart.orders[o] = s /\ orders[o] = s => o \in lists[s]

(* Of the orders there at the start, the pending ones are listed once      *)
(* their query is over, and those in delivery once the next one is.        *)
WorkListed ==
    \A o \in Orders : atStart.orders[o] # "Absent" =>
        /\ loading \in Past("Pending") /\ orders[o] = "Pending"
              => o \in lists["Pending"]
        /\ loading \in Past("Delivery") /\ orders[o] = "Delivery"
              => o \in lists["Pending"] \cup lists["Delivery"]

(* The total is 0 until the completed orders arrive, once.  *)
EarningsOnce ==
    /\ totalEarning = Earned(lists["Completed"])
    /\ loading \in {"boot", "users", "categories", "products", "Completed"}
          => lists["Completed"] = {}

(* An empty list of categories that an error explains.  *)
Emptied == \/ "awaited" \in erred
           \/ "early" \in erred /\ early["categories"].phase = "over"

(* The other lists, and what the late answers will replace them by: a late *)
(* answer is empty only for an error, which empties the list for good.     *)
OthersWhole ==
    /\ loading \in Past("users") => atStart.people \subseteq lists["users"]
    /\ early["users"].phase = "answered" => atStart.people \subseteq early["users"].rows
    /\ loading \in Past("categories") =>
          lists["categories"] = Categories \/ (lists["categories"] = {} /\ Emptied)
    /\ early["categories"].phase = "answered" =>
          \/ early["categories"].rows = Categories
          \/ early["categories"].rows = {} /\ "early" \in erred
    /\ loading \in Past("products") => lists["products"] = Products

(* What the tiles show of lists that no longer change, and of the others.  *)
TilesDrawn ==
    loading = "open" =>
        /\ \A s \in Stored : tiles[s] = Cardinality(lists[s])
        /\ tiles["users"] \in Cardinality(atStart.people) .. Cardinality(people)
        /\ \/ tiles["categories"] = Cardinality(Categories)
           \/ tiles["categories"] = 0 /\ erred # {}
        /\ tiles["products"] = Cardinality(Products)
        /\ tiles["earning"] = totalEarning

DashboardInv ==
    /\ TypeOK
    /\ ListsFit
    /\ ShopMovesOn
    /\ ListsDated
    /\ WorkListed
    /\ EarningsOnce
    /\ OthersWhole
    /\ TilesDrawn

-----------------------------------------------------------------------------
(* Every step keeps it.  *)

(* The names of statuses and queries, spelled out.  *)
LEMMA Names ==
    /\ Stored = {"Pending", "Delivery", "Cancel", "Completed"}
    /\ Ledger!Statuses = {"Pending", "Delivery", "Cancel", "Completed", "Absent"}
    /\ Awaited = {"users", "categories", "products",
                  "Pending", "Delivery", "Cancel", "Completed"}
    /\ Forked = {"users", "categories"}
BY DEF Stored, Awaited, Forked, Ledger!Stored, Ledger!Statuses

(* A query finds what it asks for.  *)
LEMMA FoundFacts ==
    ASSUME TypeOK, NEW q \in Awaited
    PROVE  /\ q = "users" => Found(q) = people
           /\ q = "categories" => Found(q) = Categories
           /\ q = "products" => Found(q) = Products
           /\ q \in Stored => Found(q) = {o \in Orders : orders[o] = q}
BY Names DEF Found

(* An order moves on.  *)
LEMMA AdvanceFacts ==
    ASSUME TypeOK, NEW o \in Orders, Advance(o)
    PROVE  \E s \in Ledger!Statuses :
              /\ orders' = [orders EXCEPT ![o] = s]
              /\ s \in Reach(orders[o]) /\ s # orders[o] /\ s # "Absent"
              /\ s = "Pending" => orders[o] = "Absent"
              /\ s = "Delivery" => orders[o] = "Pending"
BY Names DEF Advance, Ledger!Advance, Ledger!Moves, Reach, TypeOK

(* Reach is a partial order.  *)
LEMMA ReachFacts ==
    /\ \A s \in Ledger!Statuses : s \in Reach(s)
    /\ \A s, r, u \in Ledger!Statuses :
          r \in Reach(s) /\ u \in Reach(r) => u \in Reach(s)
    /\ \A s, r \in Ledger!Statuses : r \in Reach(s) /\ s \in Reach(r) => r = s
BY Names DEF Reach

(* It holds at the start.  *)
LEMMA InitInv == Init => DashboardInv
<1> SUFFICES ASSUME Init PROVE DashboardInv
  OBVIOUS
<1> USE Names DEF Init
<1>1. TypeOK
  BY SuspectsType DEF TypeOK, NoLists, EarlyAt, EarlyQueries
<1>2. ListsFit
  BY DEF ListsFit, NoLists, EarlyAt
<1>3. ShopMovesOn
  BY ReachFacts DEF ShopMovesOn
<1>4. ListsDated
  BY DEF ListsDated, NoLists, Past
<1>5. WorkListed
  BY DEF WorkListed, Past
<1>6. EarningsOnce
  BY EarnedGrows DEF EarningsOnce, NoLists
<1>7. OthersWhole
  BY DEF OthersWhole, NoLists, EarlyAt, Past
<1>8. TilesDrawn
  BY DEF TilesDrawn
<1> QED
  BY <1>1, <1>2, <1>3, <1>4, <1>5, <1>6, <1>7, <1>8 DEF DashboardInv

(* Every step keeps the types, of lists and late answers in detail.  *)
LEMMA TypeStep ==
    ASSUME DashboardInv, [Next]_vars
    PROVE  TypeOK' /\ ListsFit'
<1> USE Names DEF DashboardInv, backend, provider, history
<1>1. CASE InitializeApp
  BY <1>1 DEF InitializeApp, TypeOK, ListsFit, EarlyAt, EarlyQueries
<1>2. CASE InitializeFails
  BY <1>2 DEF InitializeFails, TypeOK, ListsFit
<1>3. ASSUME NEW q \in Awaited, Return(q) PROVE TypeOK' /\ ListsFit'
  <2>1. lists'[q] = Found(q) /\ \A r \in Awaited \ {q} : lists'[r] = lists[r]
    BY <1>3 DEF Return, TypeOK
  <2>2. loading' \in Awaited \cup {"frame"}
    BY <1>3 DEF Return, After
  <2>3. totalEarning' \in Nat
    BY <1>3, EarnedType, FoundFacts DEF Return, TypeOK
  <2>4. lists' \in [Awaited -> (SUBSET Orders) \cup (SUBSET People)
                               \cup (SUBSET Categories) \cup (SUBSET Products)]
    BY <1>3, FoundFacts DEF Return, TypeOK
  <2>5. tiles' = NoTiles
    BY <1>3 DEF Return, TypeOK
  <2>6. TypeOK'
    BY <1>3, <2>2, <2>3, <2>4, <2>5 DEF Return, TypeOK
  <2>7. ListsFit'
    BY <1>3, <2>1, FoundFacts DEF Return, ListsFit
  <2> QED
    BY <2>6, <2>7
<1>4. ASSUME NEW q \in Awaited, Throw(q) PROVE TypeOK' /\ ListsFit'
  BY <1>4 DEF Throw, TypeOK, ListsFit, After
<1>5. CASE Frame
  <2>1. \A q \in Awaited : Cardinality(lists[q]) \in Nat
    <3> SUFFICES ASSUME NEW q \in Awaited PROVE IsFiniteSet(lists[q])
      BY FS_CardinalityType
    <3> QED
      BY DashboardFinite, FS_Subset DEF TypeOK, ListsFit
  <2>2. tiles' \in [Awaited \cup {"earning"} -> Nat]
    BY <1>5, <2>1 DEF Frame, Drawn, TypeOK
  <2> QED
    BY <1>5, <2>2 DEF Frame, TypeOK, ListsFit
<1>6. ASSUME NEW q \in Forked, AnswerEarly(q) PROVE TypeOK' /\ ListsFit'
  <2>1. \/ q = "users" /\ Found(q) = people
        \/ q = "categories" /\ Found(q) = Categories
    BY FoundFacts
  <2> QED
    BY <1>6, <2>1 DEF AnswerEarly, TypeOK, ListsFit, EarlyQueries
<1>7. ASSUME NEW q \in Forked, ThrowEarly(q) PROVE TypeOK' /\ ListsFit'
  BY <1>7 DEF ThrowEarly, TypeOK, ListsFit, EarlyAt, EarlyQueries
<1>8. ASSUME NEW q \in Forked, ArriveEarly(q) PROVE TypeOK' /\ ListsFit'
  BY <1>8 DEF ArriveEarly, TypeOK, ListsFit, EarlyAt, EarlyQueries
<1>9. ASSUME NEW o \in Orders, Advance(o) PROVE TypeOK' /\ ListsFit'
  <2>1. orders' \in [Orders -> Ledger!Statuses]
    BY <1>9, AdvanceFacts DEF TypeOK
  <2> QED
    BY <1>9, <2>1 DEF Advance, TypeOK, ListsFit
<1>10. ASSUME NEW p \in People, SignUp(p) PROVE TypeOK' /\ ListsFit'
  BY <1>10 DEF SignUp, TypeOK, ListsFit
<1>11. CASE Restart
  BY <1>11 DEF Restart, TypeOK, ListsFit, NoLists, EarlyAt, EarlyQueries
<1>12. CASE UNCHANGED vars
  BY <1>12 DEF vars, TypeOK, ListsFit
<1> QED
  BY <1>1, <1>2, <1>3, <1>4, <1>5, <1>6, <1>7, <1>8, <1>9, <1>10, <1>11, <1>12
     DEF Next, Load

(* Nothing moves an order, or the number of users, backwards.  *)
LEMMA ShopStep ==
    ASSUME DashboardInv, [Next]_vars
    PROVE  ShopMovesOn'
<1> USE Names DEF DashboardInv, backend, provider, history
<1>1. ASSUME NEW o \in Orders, Advance(o) PROVE ShopMovesOn'
  <2>1. PICK s \in Ledger!Statuses :
            orders' = [orders EXCEPT ![o] = s] /\ s \in Reach(orders[o])
    BY <1>1, AdvanceFacts
  <2>2. atStart' = atStart /\ people' = people
    BY <1>1 DEF Advance
  <2>3. ASSUME NEW p \in Orders PROVE orders'[p] \in Reach(atStart.orders[p])
    <3>1. /\ orders[p] \in Ledger!Statuses
          /\ atStart.orders[p] \in Ledger!Statuses
          /\ orders[p] \in Reach(atStart.orders[p])
      BY DEF TypeOK, ShopMovesOn
    <3>2. orders'[p] = IF p = o THEN s ELSE orders[p]
      BY <2>1 DEF TypeOK
    <3> QED
      BY <2>1, <3>1, <3>2, ReachFacts
  <2> QED
    BY <2>2, <2>3 DEF ShopMovesOn
<1>2. CASE Restart
  BY <1>2, ReachFacts DEF Restart, ShopMovesOn, TypeOK
<1>3. ASSUME NEW p \in People, SignUp(p) PROVE ShopMovesOn'
  BY <1>3 DEF SignUp, ShopMovesOn
<1>4. CASE UNCHANGED <<orders, people, atStart>>
  BY <1>4 DEF ShopMovesOn
<1>5. \/ UNCHANGED <<orders, people, atStart>>
      \/ Restart
      \/ \E o \in Orders : Advance(o)
      \/ \E p \in People : SignUp(p)
  BY DEF Next, Load, vars, InitializeApp, InitializeFails, Return, Throw, Frame,
         AnswerEarly, ThrowEarly, ArriveEarly
<1> QED
  BY <1>1, <1>2, <1>3, <1>4, <1>5

(* What a step does to the lists of orders and to how far getData is.  *)
LEMMA BoardSteps ==
    ASSUME DashboardInv, [Next]_vars
    PROVE  \/ /\ UNCHANGED <<orders, atStart, online>>
              /\ \A s \in Stored : lists'[s] = lists[s]
              /\ \A s \in Stored : loading' \in Past(s) => loading \in Past(s)
              /\ totalEarning' = totalEarning
              /\ loading' \in {"boot", "users", "categories", "products", "Completed"}
                    => loading \in {"boot", "users", "categories", "products", "Completed"}
           \/ \E q \in Stored : Return(q)
           \/ \E o \in Orders : Advance(o)
           \/ Restart
<1> USE Names DEF DashboardInv, backend, provider, history, TypeOK
<1>1. CASE InitializeApp
  BY <1>1 DEF InitializeApp, Past
<1>2. CASE InitializeFails
  BY <1>2 DEF InitializeFails, Past
<1>3. ASSUME NEW q \in Awaited \ Stored, Return(q)
      PROVE  /\ UNCHANGED <<orders, atStart, online, totalEarning>>
             /\ \A s \in Stored : lists'[s] = lists[s]
             /\ \A s \in Stored : loading' \in Past(s) => loading \in Past(s)
             /\ loading \in {"boot", "users", "categories", "products", "Completed"}
  BY <1>3 DEF Return, Past, After
<1>4. ASSUME NEW q \in Awaited, Throw(q)
      PROVE  /\ UNCHANGED <<orders, atStart, online, totalEarning>>
             /\ \A s \in Stored : lists'[s] = lists[s]
             /\ \A s \in Stored : loading' \in Past(s) => loading \in Past(s)
             /\ loading' \in {"boot", "users", "categories", "products", "Completed"}
                    => loading \in {"boot", "users", "categories", "products", "Completed"}
  BY <1>4 DEF Throw, Past, After
<1>5. CASE Frame
  BY <1>5 DEF Frame, Past
<1>6. ASSUME NEW q \in Forked, AnswerEarly(q) \/ ThrowEarly(q) \/ ArriveEarly(q)
      PROVE  /\ UNCHANGED <<orders, atStart, online, totalEarning, loading>>
             /\ \A s \in Stored : lists'[s] = lists[s]
  BY <1>6 DEF AnswerEarly, ThrowEarly, ArriveEarly
<1>7. ASSUME NEW p \in People, SignUp(p)
      PROVE  UNCHANGED <<orders, atStart, online, totalEarning, loading, lists>>
  BY <1>7 DEF SignUp
<1>8. CASE UNCHANGED vars
  BY <1>8 DEF vars
<1> QED
  BY <1>1, <1>2, <1>3, <1>4, <1>5, <1>6, <1>7, <1>8 DEF Next, Load

(* A query of the board: its list is what it finds.  *)
LEMMA BoardQuery ==
    ASSUME DashboardInv, NEW q \in Stored, Return(q)
    PROVE  /\ UNCHANGED <<orders, atStart, online>>
           /\ lists'[q] = {o \in Orders : orders[o] = q}
           /\ \A s \in Stored \ {q} : lists'[s] = lists[s]
           /\ \A s \in Stored \ {q} : loading' \in Past(s) <=> loading \in Past(s)
           /\ loading = q /\ loading' = After(q)
<1> USE Names DEF DashboardInv
<1>1. lists'[q] = {o \in Orders : orders[o] = q} /\ \A s \in Stored \ {q} : lists'[s] = lists[s]
  BY FoundFacts DEF Return, TypeOK
<1> QED
  BY <1>1 DEF Return, After, Past, backend, history

(* Every step keeps what the lists say about the past.  *)
LEMMA DatedStep ==
    ASSUME DashboardInv, [Next]_vars
    PROVE  ListsDated'
<1> USE Names DEF DashboardInv
<1>1. CASE /\ UNCHANGED <<orders, atStart, online>>
           /\ \A s \in Stored : lists'[s] = lists[s]
           /\ \A s \in Stored : loading' \in Past(s) => loading \in Past(s)
  BY <1>1 DEF ListsDated
<1>2. ASSUME NEW q \in Stored, Return(q) PROVE ListsDated'
  <2>1. ASSUME NEW o \in Orders, orders[o] = q
        PROVE  q \in Reach(atStart.orders[o]) /\ orders[o] \in Reach(q)
    BY <2>1, ReachFacts DEF ShopMovesOn
  <2> QED
    BY <1>2, <2>1, BoardQuery DEF ListsDated
<1>3. ASSUME NEW o \in Orders, Advance(o) PROVE ListsDated'
  <2>1. PICK s \in Ledger!Statuses :
            /\ orders' = [orders EXCEPT ![o] = s]
            /\ s \in Reach(orders[o]) /\ s # orders[o]
    BY <1>3, AdvanceFacts
  <2>2. UNCHANGED <<atStart, lists, loading>>
    BY <1>3 DEF Advance, provider, history
  <2>3. \A p \in Orders : orders'[p] = IF p = o THEN s ELSE orders[p]
    BY <2>1 DEF TypeOK
  <2>4. ASSUME NEW r \in Stored, NEW p \in lists[r]
        PROVE  r \in Reach(atStart.orders[p]) /\ orders'[p] \in Reach(r)
    <3>1. p \in Orders /\ r \in Reach(atStart.orders[p]) /\ orders[p] \in Reach(r)
      BY DEF ListsDated, ListsFit
    <3>2. orders[p] \in Ledger!Statuses
      BY <3>1 DEF TypeOK
    <3> QED
      BY <2>1, <2>3, <3>1, <3>2, ReachFacts
  <2>5. ASSUME NEW r \in Stored, loading \in Past(r), NEW p \in Orders,
               atStart.orders[p] = r, orders'[p] = r
        PROVE  p \in lists[r]
    <3>1. p # o
      <4> SUFFICES ASSUME p = o PROVE FALSE
        OBVIOUS
      <4>1. orders[o] \in Reach(r) /\ r \in Reach(orders[o]) /\ r # orders[o]
        BY <2>1, <2>3, <2>5 DEF ShopMovesOn
      <4> QED
        BY <4>1, ReachFacts DEF TypeOK
    <3> QED
      BY <2>3, <2>5, <3>1 DEF ListsDated
  <2> QED
    BY <2>2, <2>4, <2>5 DEF ListsDated
<1>4. CASE Restart
  BY <1>4 DEF Restart, ListsDated, NoLists, Past
<1> QED
  BY <1>1, <1>2, <1>3, <1>4, BoardSteps

(* Every step keeps the orders to be worked on in sight: one that is sent  *)
(* out after the pending query was pending when that was asked.            *)
LEMMA WorkStep ==
    ASSUME DashboardInv, [Next]_vars
    PROVE  WorkListed'
<1> USE Names DEF DashboardInv
<1>1. CASE /\ UNCHANGED <<orders, atStart, online>>
           /\ \A s \in Stored : lists'[s] = lists[s]
           /\ \A s \in Stored : loading' \in Past(s) => loading \in Past(s)
  BY <1>1 DEF WorkListed
<1>2. ASSUME NEW q \in Stored, Return(q) PROVE WorkListed'
  <2>1. q = "Delivery" => loading \in Past("Pending")
    BY <1>2, BoardQuery DEF Past
  <2>2. q = "Pending" => loading' \notin Past("Delivery")
    BY <1>2, BoardQuery DEF Past, After
  <2> QED
    BY <1>2, <2>1, <2>2, BoardQuery DEF WorkListed
<1>3. ASSUME NEW o \in Orders, Advance(o) PROVE WorkListed'
  <2>1. PICK s \in Ledger!Statuses :
            /\ orders' = [orders EXCEPT ![o] = s]
            /\ s = "Pending" => orders[o] = "Absent"
            /\ s = "Delivery" => orders[o] = "Pending"
    BY <1>3, AdvanceFacts
  <2>2. UNCHANGED <<atStart, lists, loading>>
    BY <1>3 DEF Advance, provider, history
  <2>3. \A p \in Orders : orders'[p] = IF p = o THEN s ELSE orders[p]
    BY <2>1 DEF TypeOK
  <2>4. atStart.orders[o] # "Absent" => orders[o] # "Absent"
    BY DEF ShopMovesOn, Reach, TypeOK
  <2>5. loading \in Past("Delivery") => loading \in Past("Pending")
    BY DEF Past
  <2> QED
    BY <2>1, <2>2, <2>3, <2>4, <2>5 DEF WorkListed
<1>4. CASE Restart
  BY <1>4 DEF Restart, WorkListed, Past
<1> QED
  BY <1>1, <1>2, <1>3, <1>4, BoardSteps

(* Only the first answer of completed orders adds to the total.  *)
LEMMA EarningsStep ==
    ASSUME DashboardInv, [Next]_vars
    PROVE  EarningsOnce'
<1> USE Names DEF DashboardInv
<1> DEFINE Early == {"boot", "users", "categories", "products", "Completed"}
<1>1. CASE /\ \A s \in Stored : lists'[s] = lists[s]
           /\ totalEarning' = totalEarning
           /\ loading' \in Early => loading \in Early
  BY <1>1 DEF EarningsOnce
<1>2. ASSUME NEW q \in Stored, Return(q) PROVE EarningsOnce'
  <2>1. loading' \notin Early
    BY <1>2, BoardQuery DEF After
  <2>2. CASE q = "Completed"
    <3>1. totalEarning = 0
      BY <1>2, <2>2, EarnedGrows DEF Return, EarningsOnce
    <3>2. totalEarning' = 0 + Earned(Found(q)) /\ lists'[q] = Found(q)
      BY <1>2, <2>2, <3>1 DEF Return, TypeOK
    <3>3. Found(q) \in SUBSET Orders
      BY FoundFacts
    <3>4. Earned(Found(q)) \in Nat
      BY <3>3, EarnedType
    <3> QED
      BY <2>1, <2>2, <3>2, <3>4 DEF EarningsOnce
  <2>3. CASE q # "Completed"
    BY <1>2, <2>1, <2>3, BoardQuery DEF EarningsOnce, Return
  <2> QED
    BY <2>2, <2>3
<1>3. ASSUME NEW o \in Orders, Advance(o) PROVE EarningsOnce'
  BY <1>3 DEF Advance, EarningsOnce, provider
<1>4. CASE Restart
  BY <1>4, EarnedGrows DEF Restart, EarningsOnce, NoLists
<1> QED
  BY <1>1, <1>2, <1>3, <1>4, BoardSteps

(* Every step keeps the lists of users, categories and products whole.  *)
LEMMA OthersStep ==
    ASSUME DashboardInv, [Next]_vars
    PROVE  OthersWhole'
<1> USE Names DEF DashboardInv, backend, provider, history, Emptied
<1>1. CASE InitializeApp
  BY <1>1 DEF InitializeApp, OthersWhole, Past, EarlyAt
<1>2. CASE InitializeFails
  BY <1>2 DEF InitializeFails, OthersWhole, Past
<1>3. ASSUME NEW q \in Awaited, Return(q) PROVE OthersWhole'
  <2>1. /\ \A r \in Awaited : lists'[r] = IF r = q THEN Found(q) ELSE lists[r]
        /\ loading = q /\ loading' = After(q)
        /\ UNCHANGED <<early, people, history>>
    BY <1>3 DEF Return, TypeOK
  <2>2. \A r \in {"users", "categories", "products"} :
            loading' \in Past(r) <=> loading \in Past(r) \/ r = q
    BY <2>1 DEF Past, After
  <2> QED
    BY <2>1, <2>2, FoundFacts DEF OthersWhole, ShopMovesOn
<1>4. ASSUME NEW q \in Awaited, Throw(q) PROVE OthersWhole'
  <2>1. CASE q = "categories"
    <3>1. /\ UNCHANGED <<early, people, atStart>>
          /\ lists'["categories"] = {} /\ erred' = erred \cup {"awaited"}
          /\ lists'["users"] = lists["users"] /\ lists'["products"] = lists["products"]
          /\ loading = "categories" /\ loading' = "products"
      BY <1>4, <2>1 DEF Throw, TypeOK, Readable, After
    <3> QED
      BY <3>1 DEF OthersWhole, Past
  <2>2. CASE q # "categories"
    BY <1>4, <2>2 DEF Throw, OthersWhole, Past
  <2> QED
    BY <2>1, <2>2
<1>5. CASE Frame
  BY <1>5 DEF Frame, OthersWhole, Past
<1>6. ASSUME NEW q \in Forked, AnswerEarly(q) PROVE OthersWhole'
  <2>1. /\ \A r \in Forked : early'[r] = IF r = q
                THEN [phase |-> "answered", rows |-> Found(q)] ELSE early[r]
        /\ early[q].phase = "asked"
        /\ UNCHANGED <<lists, loading, people, history>>
    BY <1>6 DEF AnswerEarly, TypeOK
  <2> QED
    BY <2>1, FoundFacts DEF OthersWhole, ShopMovesOn
<1>7. ASSUME NEW q \in Forked, ThrowEarly(q) PROVE OthersWhole'
  <2>1. /\ \A r \in Forked : early'[r] = IF r = q
                THEN EarlyAt(IF q = "categories" THEN "answered" ELSE "over") ELSE early[r]
        /\ erred' = IF q = "categories" THEN erred \cup {"early"} ELSE erred
        /\ early[q].phase = "asked"
        /\ UNCHANGED <<lists, loading, people, atStart>>
    BY <1>7 DEF ThrowEarly, TypeOK
  <2> QED
    BY <2>1 DEF OthersWhole, EarlyAt
<1>8. ASSUME NEW q \in Forked, ArriveEarly(q) PROVE OthersWhole'
  <2>1. /\ \A r \in Forked : early'[r] = IF r = q THEN EarlyAt("over") ELSE early[r]
        /\ \A r \in Awaited : lists'[r] = IF r = q THEN early[q].rows ELSE lists[r]
        /\ early[q].phase = "answered"
        /\ UNCHANGED <<loading, people, history>>
    BY <1>8 DEF ArriveEarly, TypeOK
  <2> QED
    BY <2>1 DEF OthersWhole, EarlyAt
<1>9. ASSUME NEW o \in Orders, Advance(o) PROVE OthersWhole'
  BY <1>9 DEF Advance, OthersWhole
<1>10. ASSUME NEW p \in People, SignUp(p) PROVE OthersWhole'
  BY <1>10 DEF SignUp, OthersWhole
<1>11. CASE Restart
  BY <1>11 DEF Restart, OthersWhole, Past, EarlyAt
<1>12. CASE UNCHANGED vars
  BY <1>12 DEF vars, OthersWhole
<1> QED
  BY <1>1, <1>2, <1>3, <1>4, <1>5, <1>6, <1>7, <1>8, <1>9, <1>10, <1>11, <1>12
     DEF Next, Load

(* Sizes of sets of users.  *)
LEMMA PeopleSizes ==
    ASSUME NEW A, NEW B \in SUBSET People, A \subseteq B
    PROVE  /\ Cardinality(A) \in Nat /\ Cardinality(B) \in Nat
           /\ Cardinality(A) <= Cardinality(B)
BY DashboardFinite, FS_Subset, FS_CardinalityType

(* Every step keeps the tiles within what they were drawn from.  *)
LEMMA TilesStep ==
    ASSUME DashboardInv, [Next]_vars
    PROVE  TilesDrawn'
<1> USE Names DEF DashboardInv, backend, provider, history
<1>1. CASE Frame
  <2>1. /\ \A q \in Awaited : tiles'[q] = Cardinality(lists[q])
        /\ tiles'["earning"] = totalEarning
        /\ UNCHANGED <<lists, people, history, totalEarning>>
        /\ loading = "frame"
    BY <1>1 DEF Frame, Drawn
  <2>2. /\ atStart.people \subseteq lists["users"]
        /\ lists["users"] \subseteq people
        /\ lists["categories"] = Categories \/ (lists["categories"] = {} /\ erred # {})
        /\ lists["products"] = Products
    BY <2>1 DEF OthersWhole, Emptied, ListsFit, Past
  <2>3. Cardinality(lists["users"]) \in Cardinality(atStart.people) .. Cardinality(people)
    BY <2>2, PeopleSizes DEF TypeOK
  <2> QED
    BY <2>1, <2>2, <2>3, FS_EmptySet DEF TilesDrawn
<1>2. ASSUME NEW p \in People, SignUp(p) PROVE TilesDrawn'
  <2>1. /\ UNCHANGED <<tiles, lists, history, totalEarning, loading>>
        /\ people \subseteq people' /\ people' \in SUBSET People
    BY <1>2 DEF SignUp, TypeOK
  <2>2. /\ Cardinality(people) <= Cardinality(people')
        /\ Cardinality(people) \in Nat /\ Cardinality(people') \in Nat
    BY <2>1, PeopleSizes
  <2>3. Cardinality(atStart.people) \in Nat
    BY PeopleSizes DEF TypeOK
  <2> QED
    BY <2>1, <2>2, <2>3 DEF TilesDrawn
<1>3. CASE loading' # "open"
  BY <1>3 DEF TilesDrawn
<1>4. CASE /\ UNCHANGED <<tiles, people, atStart, totalEarning, loading>>
           /\ erred \subseteq erred'
           /\ \A s \in Stored : lists'[s] = lists[s]
  BY <1>4 DEF TilesDrawn
<1>5. ASSUME NEW q \in Awaited, Return(q) \/ Throw(q) PROVE loading' # "open"
  BY <1>5 DEF Return, Throw, After
<1>6. ASSUME NEW q \in Forked, AnswerEarly(q) \/ ThrowEarly(q) \/ ArriveEarly(q)
      PROVE  /\ UNCHANGED <<tiles, people, atStart, totalEarning, loading>>
             /\ erred \subseteq erred'
             /\ \A s \in Stored : lists'[s] = lists[s]
  BY <1>6 DEF AnswerEarly, ThrowEarly, ArriveEarly, TypeOK
<1>7. ASSUME InitializeApp \/ InitializeFails \/ Restart PROVE loading' # "open"
  BY <1>7 DEF InitializeApp, InitializeFails, Restart
<1>8. ASSUME (\E o \in Orders : Advance(o)) \/ UNCHANGED vars
      PROVE  UNCHANGED <<tiles, people, history, totalEarning, loading, lists>>
  BY <1>8 DEF Advance, vars
<1> QED
  BY <1>1, <1>2, <1>3, <1>4, <1>5, <1>6, <1>7, <1>8 DEF Next, Load

(* The whole invariant is inductive, ...  *)
LEMMA InvStep == DashboardInv /\ [Next]_vars => DashboardInv'
<1> SUFFICES ASSUME DashboardInv, [Next]_vars PROVE DashboardInv'
  OBVIOUS
<1>1. TypeOK' /\ ListsFit'
  BY TypeStep
<1>2. ShopMovesOn' /\ ListsDated' /\ WorkListed'
  BY ShopStep, DatedStep, WorkStep
<1>3. EarningsOnce' /\ OthersWhole' /\ TilesDrawn'
  BY EarningsStep, OthersStep, TilesStep
<1> QED
  BY <1>1, <1>2, <1>3 DEF DashboardInv

(* ... and so it always holds.  *)
LEMMA DashboardInvariant == Spec => []DashboardInv
BY InitInv, InvStep, PTL DEF Spec

-----------------------------------------------------------------------------
(* What follows from it.  *)

(* The load, the lists and the tiles have the shape the code gives them.   *)
THEOREM TypeCorrect == Spec => []TypeOK
<1>1. DashboardInv => TypeOK
  BY DEF DashboardInv
<1> QED
  BY <1>1, DashboardInvariant, PTL

(* getCompletedOrder adds to a total that is never reset, but it is called *)
(* once per AppProvider: each completed order is counted once, and no      *)
(* other is.                                                               *)
THEOREM EarningsAreCounted == Spec => []EarningsCount
<1>1. DashboardInv => EarningsCount
  <2> SUFFICES ASSUME DashboardInv, NEW o \in lists["Completed"]
               PROVE  orders[o] = "Completed"
    BY DEF DashboardInv, EarningsOnce, EarningsCount
  <2>1. orders[o] \in Reach("Completed")
    BY Names DEF DashboardInv, ListsDated
  <2> QED
    BY <2>1 DEF Reach
<1> QED
  BY <1>1, DashboardInvariant, PTL

(* The seven answers of callBackFunction are of seven moments, but no      *)
(* order that is still to be worked on falls between them.                 *)
THEOREM NothingIsMissed == Spec => []NothingMissed
<1>1. DashboardInv => NothingMissed
  <2> SUFFICES ASSUME DashboardInv, Loaded PROVE NothingMissed
    BY DEF NothingMissed
  <2> USE Names DEF DashboardInv
  <2>1. \A s \in Stored : loading \in Past(s)
    BY DEF Loaded, Past
  <2>2. \A o \in Orders :
           atStart.orders[o] # "Absent" /\ orders[o] \in {"Pending", "Delivery"}
             => o \in lists["Pending"] \cup lists["Delivery"]
    BY <2>1 DEF WorkListed
  <2>3. ASSUME NEW o \in Orders \ Moved, NEW s \in Stored
        PROVE  o \in lists[s] <=> orders[o] = s
    <3>1. orders[o] = atStart.orders[o] /\ orders[o] \in Ledger!Statuses
      BY DEF Moved, TypeOK
    <3>2. o \in lists[s] => s \in Reach(orders[o]) /\ orders[o] \in Reach(s)
      BY <3>1 DEF ListsDated
    <3>3. orders[o] = s => o \in lists[s]
      BY <2>1, <3>1 DEF ListsDated
    <3> QED
      BY <3>1, <3>2, <3>3, ReachFacts
  <2> QED
    BY <2>2, <2>3 DEF NothingMissed
<1> QED
  BY <1>1, DashboardInvariant, PTL

(* The queries main starts and nobody awaits overwrite lists at any time.  *)
(* No user who was there at the start is lost by that.  The categories are *)
(* lost, all of them, exactly as getCategories turns an error into an      *)
(* empty list: only when one of its two calls threw, and if that is the    *)
(* one nobody awaits, only once its empty answer has been assigned.        *)
THEOREM OnlyErrorsEmptyLists == Spec => []OnlyErrorsEmpty
<1>1. DashboardInv => OnlyErrorsEmpty
  BY DEF DashboardInv, OnlyErrorsEmpty, Loaded, OthersWhole, Emptied, Past
<1> QED
  BY <1>1, DashboardInvariant, PTL

(* Sizes of sets of orders.  *)
LEMMA OrderSizes ==
    ASSUME NEW A, NEW B \in SUBSET Orders, A \subseteq B
    PROVE  /\ IsFiniteSet(A) /\ IsFiniteSet(B)
           /\ Cardinality(A) \in Nat /\ Cardinality(B) \in Nat
           /\ Cardinality(A) <= Cardinality(B)
BY DashboardFinite, FS_Subset, FS_CardinalityType

(* The tiles are drawn once: they are off by no more than what the other   *)
(* clients changed since the start, and never show too much money.         *)
THEOREM TilesAreClose == Spec => []TilesBracket
<1>1. DashboardInv => TilesBracket
  <2> SUFFICES ASSUME DashboardInv, loading = "open" PROVE TilesBracket
    BY DEF TilesBracket
  <2> USE Names DEF DashboardInv
  <2>1. ASSUME NEW s \in Stored
        PROVE  LET still == Cardinality({o \in Orders \ Moved : orders[o] = s})
               IN  tiles[s] \in still .. still + Cardinality(Moved)
    <3> DEFINE keep == {o \in Orders \ Moved : orders[o] = s}
    <3>1. ASSUME NEW o \in Orders \ Moved PROVE o \in lists[s] <=> orders[o] = s
      <4>1. orders[o] = atStart.orders[o] /\ orders[o] \in Ledger!Statuses
        BY DEF Moved, TypeOK
      <4>2. o \in lists[s] => s \in Reach(orders[o]) /\ orders[o] \in Reach(s)
        BY <4>1 DEF ListsDated
      <4>3. orders[o] = s => o \in lists[s]
        BY <4>1 DEF ListsDated, Past
      <4> QED
        BY <4>1, <4>2, <4>3, ReachFacts
    <3>2. keep \subseteq lists[s] /\ lists[s] \subseteq keep \cup Moved
      BY <3>1 DEF ListsFit
    <3>3. keep \cup Moved \in SUBSET Orders /\ keep \cap Moved = {}
      BY DEF Moved
    <3>4. /\ Cardinality(keep) <= Cardinality(lists[s])
          /\ Cardinality(lists[s]) <= Cardinality(keep \cup Moved)
          /\ Cardinality(keep) \in Nat /\ Cardinality(lists[s]) \in Nat
          /\ IsFiniteSet(keep)
      BY <3>2, <3>3, OrderSizes
    <3>5. IsFiniteSet(Moved) /\ Cardinality(Moved) \in Nat
      BY OrderSizes DEF Moved
    <3>6. Cardinality(keep \cup Moved) = Cardinality(keep) + Cardinality(Moved)
      BY <3>3, <3>4, <3>5, FS_Union, FS_EmptySet
    <3>7. tiles[s] = Cardinality(lists[s])
      BY DEF TilesDrawn
    <3> HIDE DEF keep
    <3>8. tiles[s] \in Cardinality(keep) .. Cardinality(keep) + Cardinality(Moved)
      BY <3>4, <3>5, <3>6, <3>7
    <3> QED
      BY <3>8 DEF keep
  <2>2. tiles["earning"] <= Earned({o \in Orders : orders[o] = "Completed"})
    <3>1. lists["Completed"] \in SUBSET {o \in Orders : orders[o] = "Completed"}
      BY DEF ListsDated, ListsFit, Reach
    <3>2. tiles["earning"] = Earned(lists["Completed"])
      BY DEF TilesDrawn, EarningsOnce
    <3> QED
      BY <3>1, <3>2, EarnedGrows
  <2> QED
    BY <2>1, <2>2 DEF TilesBracket, TilesDrawn
<1> QED
  BY <1>1, DashboardInvariant, PTL

==============================================================================
