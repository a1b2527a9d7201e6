-------------------------- MODULE OrderBoardProofs --------------------------
(***************************************************************************)
(* Proofs about the order board, for any finite set of orders and any set  *)
(* of taps.                                                                *)
(***************************************************************************)
EXTENDS OrderBoard, ListLemmas

-----------------------------------------------------------------------------
(* Type correctness.  *)

(* The statuses, spelled out.  *)
LEMMA StatusFacts ==
    /\ Stored = {"Pending", "Delivery", "Cancel", "Completed"}
    /\ Statuses = {"Pending", "Delivery", "Cancel", "Completed", "Absent"}
BY DEF Stored, Statuses, Ledger!Stored, Ledger!Statuses

(* The objects of a query are objects, of that query, and finitely many.  *)
LEMMA QuerySet ==
    ASSUME NEW s \in Stored
    PROVE  /\ IsFiniteSet(Query(s))
           /\ Query(s) \subseteq Objects
           /\ \A x \in Query(s) : x[2] = s
<1> DEFINE T == {p \in Orders : orders[p] = s}
           f == [o \in T |-> <<o, s>>]
<1>1. IsFiniteSet(T)
  BY OrdersFinite, FS_Subset
<1>2. f \in Surjection(T, Query(s))
  BY DEF Surjection, Query
<1>3. IsFiniteSet(Query(s))
  BY <1>1, <1>2, FS_Surjection
<1> QED
  BY <1>3 DEF Query, Objects

(* What a load step assigns to a list.  *)
LEMMA LoadedList ==
    ASSUME NEW s \in Stored, NEW list \in SetToSeqs(Query(s))
    PROVE  /\ list \in Seq(Objects)
           /\ IsInjective(list)
           /\ ToSet(list) = Query(s)
           /\ \A x \in ToSet(list) : x[2] = s
<1>1. /\ list \in Seq(Query(s))
      /\ IsInjective(list)
      /\ ToSet(list) = Query(s)
  BY QuerySet, QueryFacts
<1>2. list \in Seq(Objects)
  BY <1>1, QuerySet
<1> QED
  BY <1>1, <1>2, QuerySet

(* What a frame draws.  *)
LEMMA CardsType ==
    ASSUME TypeOK, NEW title
    PROVE  Cards(title) \in Seq([obj: Objects, status: Stored])
<1>1. GetOrderList(title) \in Seq(Objects)
  BY DEF TypeOK, GetOrderList
<1> QED
  BY <1>1 DEF Cards, TypeOK

(* What is known of one card.  *)
LEMMA CardFacts ==
    ASSUME NEW c \in Seq([obj: Objects, status: Stored]), NEW i \in DOMAIN c
    PROVE  i \in Nat \ {0} /\ c[i].obj \in Objects /\ c[i].status \in Stored
<1>1. i \in 1 .. Len(c) /\ Len(c) \in Nat
  OBVIOUS
<1> DEFINE R == [obj: Objects, status: Stored]
<1>2. c \in Seq(R)
  OBVIOUS
<1> HIDE DEF R
<1>3. c[i] \in R
  BY <1>1, <1>2
<1> QED
  BY <1>1, <1>3 DEF R

(* The statuses of a fresh start.  *)
LEMMA FreshStatusType == FreshStatus \in [Objects -> Stored]
BY DEF FreshStatus, Objects

(* A handler that has been started is a record of all five fields.  *)
LEMMA StartedHandler ==
    ASSUME TypeOK, NEW t \in Taps, handler[t].pc # "unused"
    PROVE  /\ handler[t] \in Handlers
           /\ OrderOf(handler[t]) \in Orders
           /\ Wanted(handler[t].kind) \in {"Delivery", "Cancel"}
<1>1. handler[t] \in Handlers
  BY DEF TypeOK, Unused
<1> QED
  BY <1>1 DEF Handlers, OrderOf, Objects, Wanted

(* Changing the phase, the position or the object of a handler.  *)
LEMMA HandlerUpdate ==
    ASSUME NEW h \in Handlers, NEW p \in Live \cup Stray \cup Ended,
           NEW n \in Nat, NEW x \in Objects
    PROVE  At(h, p, n, x) \in Handlers /\ Goes(h, p) \in Handlers
BY DEF Handlers, At, Goes

(* Disposing a card leaves its handlers handlers.  *)
LEMMA DetachType ==
    ASSUME TypeOK, NEW t \in Taps
    PROVE  Detach(handler[t]) \in {Unused} \cup Handlers
<1>1. CASE handler[t].pc \in Live
  <2>1. handler[t] \in Handlers
    BY <1>1, StartedHandler DEF Live, Writing
  <2> QED
    BY <1>1, <2>1, HandlerUpdate DEF Detach, Handlers
<1>2. CASE handler[t].pc \notin Live
  BY <1>2 DEF Detach, TypeOK
<1> QED
  BY <1>1, <1>2

(* The empty page, and the empty lists.  *)
LEMMA EmptyLists ==
    << >> \in Seq([obj: Objects, status: Stored]) /\ << >> \in Seq(Objects)
OBVIOUS

(* The types hold at the start.  *)
LEMMA TypeInit == Init => TypeOK
BY FreshStatusType, EmptyLists DEF Init, TypeOK, LoadSteps

(* Every step keeps the types: one case per action of Next.  *)
LEMMA TypeStep == TypeOK /\ [Next]_vars => TypeOK'
<1> SUFFICES ASSUME TypeOK, [Next]_vars PROVE TypeOK'
  OBVIOUS
<1> USE StatusFacts
<1>1. CASE Load
  <2>1. CASE LoadCompleted
    BY <2>1, LoadedList DEF LoadCompleted, TypeOK, backend, page, LoadSteps
  <2>2. CASE LoadCancel
    BY <2>2, LoadedList DEF LoadCancel, TypeOK, backend, page, LoadSteps
  <2>3. CASE LoadPending
    BY <2>3, LoadedList DEF LoadPending, TypeOK, backend, page, LoadSteps
  <2>4. CASE LoadDelivery
    BY <2>4, LoadedList DEF LoadDelivery, TypeOK, backend, page, LoadSteps
  <2> QED
    BY <1>1, <2>1, <2>2, <2>3, <2>4 DEF Load
<1>2. CASE LoadFails
  BY <1>2 DEF LoadFails, TypeOK, backend, lists, page
<1>3. ASSUME NEW title \in Titles, OpenOrderList(title) PROVE TypeOK'
  BY <1>3, CardsType DEF OpenOrderList, TypeOK, backend, lists
<1>4. CASE LeaveOrderList
  <2>1. handler' \in [Taps -> {Unused} \cup Handlers]
    BY <1>4, DetachType DEF LeaveOrderList
  <2> QED
    BY <1>4, <2>1, EmptyLists DEF LeaveOrderList, TypeOK, backend, lists
<1>5. CASE Rebuild
  <2>1. cards' \in Seq([obj: Objects, status: Stored])
    BY <1>5, CardsType DEF Rebuild
  <2>2. handler' \in [Taps -> {Unused} \cup Handlers]
    <3> SUFFICES ASSUME NEW t \in Taps PROVE handler'[t] \in {Unused} \cup Handlers
      BY <1>5 DEF Rebuild
    <3>1. CASE handler[t].pc \in Live /\ handler[t].slot > 0
      <4>1. handler[t] \in Handlers
        BY <3>1, StartedHandler DEF Live, Writing
      <4>2. CASE handler[t].slot \in DOMAIN cards'
        <5>1. cards'[handler[t].slot].obj \in Objects
          BY <2>1, <4>2, CardFacts
        <5>2. handler'[t] = At(handler[t], handler[t].pc, handler[t].slot,
                               cards'[handler[t].slot].obj)
          BY <1>5, <3>1, <4>2 DEF Rebuild
        <5> QED
          BY <4>1, <5>1, <5>2, HandlerUpdate DEF Handlers
      <4>3. CASE handler[t].slot \notin DOMAIN cards'
        BY <1>5, <3>1, <4>3, DetachType DEF Rebuild
      <4> QED
        BY <4>2, <4>3
    <3>2. CASE ~(handler[t].pc \in Live /\ handler[t].slot > 0)
      BY <1>5, <3>2 DEF Rebuild, TypeOK
    <3> QED
      BY <3>1, <3>2
  <2> QED
    BY <1>5, <2>1, <2>2 DEF Rebuild, TypeOK, backend, lists
<1>6. ASSUME NEW i \in DOMAIN cards, ScrollAway(i) PROVE TypeOK'
  <2>1. handler' \in [Taps -> {Unused} \cup Handlers]
    <3> SUFFICES ASSUME NEW t \in Taps PROVE handler'[t] \in {Unused} \cup Handlers
      BY <1>6 DEF ScrollAway
    <3>1. CASE handler[t].pc \in Live /\ handler[t].slot = i
      BY <1>6, <3>1, DetachType DEF ScrollAway
    <3>2. CASE ~(handler[t].pc \in Live /\ handler[t].slot = i)
      BY <1>6, <3>2 DEF ScrollAway, TypeOK
    <3> QED
      BY <3>1, <3>2
  <2> QED
    BY <1>6, <2>1 DEF ScrollAway, TypeOK, backend, lists, page
<1>7. ASSUME NEW t \in Taps, Serve(t) \/ Finish(t) \/ StrayWrite(t) PROVE TypeOK'
  <2>0. /\ handler[t] \in Handlers
        /\ OrderOf(handler[t]) \in Orders
        /\ Wanted(handler[t].kind) \in {"Delivery", "Cancel"}
        /\ handler[t].cur \in Objects
    <3>1. handler[t].pc # "unused"
      BY <1>7 DEF Serve, Finish, StrayWrite, WriteUserOrder, WriteOrder, WriteFails,
                  ResumeSend, ResumeCancelPending, ResumeCancelDelivery, Resume, Writing
    <3> QED
      BY <3>1, StartedHandler DEF Handlers
  <2>1. ASSUME NEW p \in Live \cup Stray \cup Ended,
               handler' = [handler EXCEPT ![t] = Goes(@, p)]
        PROVE  handler' \in [Taps -> {Unused} \cup Handlers]
    <3>1. Goes(handler[t], p) \in Handlers
      BY <2>0, HandlerUpdate
    <3> QED
      BY <2>1, <3>1 DEF TypeOK
  <2>2. CASE WriteUserOrder(t)
    BY <2>0, <2>1, <2>2 DEF WriteUserOrder, TypeOK, Live, Writing, lists, page
  <2>3. CASE WriteOrder(t)
    BY <2>0, <2>1, <2>3 DEF WriteOrder, TypeOK, Live, Writing, lists, page
  <2>4. CASE WriteFails(t)
    BY <2>0, <2>1, <2>4 DEF WriteFails, TypeOK, Ended, backend, lists, page
  <2>r. ASSUME NEW kind \in Kinds, Resume(t, kind)
        PROVE  handler' \in [Taps -> {Unused} \cup Handlers]
    <3>1. At(handler[t], "done", 0, handler[t].cur) \in Handlers
      BY <2>0, HandlerUpdate DEF Ended
    <3> QED
      BY <2>r, <3>1 DEF Resume, TypeOK
  <2>5. ASSUME NotifyListeners PROVE dirty' \in BOOLEAN
    BY <2>5, Zenon DEF NotifyListeners
  <2>6. CASE Finish(t)
    <3>1. CASE ResumeSend(t)
      <4>1. /\ deliveryOrdersList' \in Seq(Objects)
            /\ pendingOrderList' \in Seq(Objects)
        BY <2>0, <3>1, AddFacts, RemoveFacts DEF ResumeSend, UpdatePendingOrder, TypeOK
      <4> QED
        BY <2>0, <2>r, <2>5, <3>1, <4>1
        DEF ResumeSend, Resume, UpdatePendingOrder, TypeOK, Kinds, backend
    <3>2. CASE ResumeCancelPending(t)
      <4>1. /\ cancelOrderList' \in Seq(Objects)
            /\ pendingOrderList' \in Seq(Objects)
        BY <2>0, <3>2, AddFacts, RemoveFacts
        DEF ResumeCancelPending, UpdateCancelPendingOrder, TypeOK
      <4> QED
        BY <2>0, <2>r, <2>5, <3>2, <4>1
        DEF ResumeCancelPending, Resume, UpdateCancelPendingOrder, TypeOK, Kinds, backend
    <3>3. CASE ResumeCancelDelivery(t)
      <4>1. /\ cancelOrderList' \in Seq(Objects)
            /\ deliveryOrdersList' \in Seq(Objects)
        BY <2>0, <3>3, AddFacts, RemoveFacts
        DEF ResumeCancelDelivery, UpdateCancelDeliveryOrder, TypeOK
      <4> QED
        BY <2>0, <2>r, <2>5, <3>3, <4>1
        DEF ResumeCancelDelivery, Resume, UpdateCancelDeliveryOrder, TypeOK, Kinds, backend
    <3> QED
      BY <2>6, <3>1, <3>2, <3>3 DEF Finish
  <2>7. CASE StrayWrite(t)
    BY <2>0, <2>1, <2>7 DEF StrayWrite, TypeOK, Ended, lists, page
  <2> QED
    BY <1>7, <2>2, <2>3, <2>4, <2>6, <2>7 DEF Serve
<1>8. ASSUME NEW t \in Taps, Tap(t) PROVE TypeOK'
  <2>1. PICK i \in DOMAIN cards, kind \in Kinds : Start(t, i, kind)
    BY <1>8 DEF Tap, TapSend, TapCancel, Kinds
  <2>2. i \in Nat /\ cards[i].obj \in Objects
    BY CardFacts DEF TypeOK
  <2> QED
    <3> DEFINE h == [pc |-> "userWrite", kind |-> kind, target |-> cards[i].obj,
                     slot |-> i, cur |-> cards[i].obj]
    <3>1. h \in Handlers
      BY <2>2 DEF Handlers, Live, Writing
    <3>2. handler' = [handler EXCEPT ![t] = h]
      BY <2>1 DEF Start
    <3> HIDE DEF h
    <3>3. handler' \in [Taps -> {Unused} \cup Handlers]
      BY <3>1, <3>2 DEF TypeOK
    <3> QED
      BY <2>1, <3>3 DEF Start, TypeOK, backend, lists, page
<1>9. CASE Restart
  <2>1. handler' \in [Taps -> {Unused} \cup Handlers]
    <3> SUFFICES ASSUME NEW t \in Taps PROVE handler'[t] \in {Unused} \cup Handlers
      BY <1>9 DEF Restart
    <3>1. CASE handler[t].pc \in Live
      <4>1. handler[t] \in Handlers
        BY <3>1, StartedHandler DEF Live, Writing
      <4>2. Killed(handler[t].pc) \in Stray \cup Ended
        BY <3>1 DEF Killed, Live, Writing, Stray, Ended
      <4>3. handler[t].cur \in Objects
        BY <4>1 DEF Handlers
      <4>4. handler'[t] = At(handler[t], Killed(handler[t].pc), 0, handler[t].cur)
        BY <1>9, <3>1 DEF Restart
      <4> QED
        BY <4>1, <4>2, <4>3, <4>4, HandlerUpdate
    <3>2. CASE handler[t].pc \notin Live
      BY <1>9, <3>2 DEF Restart, TypeOK
    <3> QED
      BY <3>1, <3>2
  <2> QED
    BY <1>9, <2>1, FreshStatusType, EmptyLists DEF Restart, TypeOK, backend, LoadSteps
<1>10. ASSUME NEW o \in Orders, OtherClient(o) PROVE TypeOK'
  <2>1. PICK s \in Statuses : orders' = [orders EXCEPT ![o] = s]
    BY <1>10 DEF OtherClient, Ledger!Advance, Ledger!Moves, TypeOK
  <2> QED
    BY <1>10, <2>1 DEF OtherClient, TypeOK, lists, page
<1>11. CASE UNCHANGED vars
  BY <1>11 DEF TypeOK, vars, backend, lists, page
<1> QED
  BY <1>1, <1>2, <1>3, <1>4, <1>5, <1>6, <1>7, <1>8, <1>9, <1>10, <1>11 DEF Next, Ongoing

(* Every variable keeps its type: the statuses written and drawn are among *)
(* the known ones, and every list, card and handler refers to objects a    *)
(* query built.                                                            *)
THEOREM TypeCorrect == Spec => []TypeOK
BY TypeInit, TypeStep, PTL DEF Spec

-----------------------------------------------------------------------------
(* The inductive invariant.  PendingExclusive and StatusTracksList are not *)
(* inductive: a load step must find the later lists still empty and no     *)
(* handler running, and a frame needs to know when a page can be stale.    *)

LoadPhase ==
    /\ loading # "Ready" => /\ status = FreshStatus
                            /\ screen = "Home"
                            /\ \A t \in Taps : handler[t].pc \notin Live
    /\ loading = "Completed" => completedOrderList = << >>
    /\ loading \in {"Completed", "Cancel"} => cancelOrderList = << >>
    /\ loading \in {"Completed", "Cancel", "Pending"} => pendingOrderList = << >>
    /\ loading \in LoadSteps => deliveryOrdersList = << >>

HomeIdle == screen = "Home" => cards = << >> /\ dirty = FALSE

PendingFromQuery == \A x \in ToSet(pendingOrderList) : x[2] = "Pending"

BoardInv ==
    /\ TypeOK
    /\ PendingExclusive
    /\ StatusTracksList
    /\ FreshFrame
    /\ LoadPhase
    /\ HomeIdle
    /\ PendingFromQuery

(* The home page draws no cards.  *)
LEMMA HomeCards == Cards("Home") = << >>
<1>1. GetOrderList("Home") = << >>
  BY DEF GetOrderList
<1> QED
  BY <1>1 DEF Cards

(* The empty list has no elements and no repetition.  *)
LEMMA EmptyFacts == ToSet(<< >>) = {} /\ IsInjective(<< >>)
BY DEF ToSet, IsInjective

(* The board's invariant holds at the start.  *)
LEMMA BoardInit == Init => BoardInv
<1> SUFFICES ASSUME Init PROVE BoardInv
  OBVIOUS
<1>1. TypeOK
  BY TypeInit
<1>2. FreshFrame
  BY HomeCards DEF Init, FreshFrame
<1>3. LoadPhase
  BY DEF Init, LoadPhase, Unused, Live, Writing
<1> QED
  BY <1>1, <1>2, <1>3, EmptyFacts
  DEF BoardInv, Init, PendingExclusive, StatusTracksList, HomeIdle, PendingFromQuery

(* A step that only moves handlers and documents keeps the board as it is, *)
(* provided no handler starts during a load.                               *)
LEMMA BoardUnmoved ==
    ASSUME BoardInv, TypeOK', UNCHANGED <<lists, status, loading, page>>,
           loading # "Ready" =>
              \A t \in Taps : handler'[t].pc \in Live => handler[t].pc \in Live
    PROVE  BoardInv'
<1> USE DEF BoardInv, lists, page
<1>1. FreshFrame'
  BY DEF FreshFrame, Cards, GetOrderList
<1>2. LoadPhase'
  BY DEF LoadPhase
<1> QED
  BY <1>1, <1>2 DEF PendingExclusive, StatusTracksList, HomeIdle, PendingFromQuery

(* During a load nothing is on the page and no handler runs.  *)
LEMMA BoardLoad == BoardInv /\ TypeOK' /\ (Load \/ LoadFails) => BoardInv'
<1> SUFFICES ASSUME BoardInv, TypeOK', Load \/ LoadFails PROVE BoardInv'
  OBVIOUS
<1> USE DEF BoardInv, backend, lists, page
<1>1. loading # "Ready" /\ UNCHANGED <<status, page, handler>>
  BY DEF Load, LoadFails, LoadCompleted, LoadCancel, LoadPending, LoadDelivery, LoadSteps
<1>2. status = FreshStatus /\ screen = "Home" /\ cards = << >> /\ dirty = FALSE
  BY <1>1 DEF LoadPhase, HomeIdle
<1>3. Cards("Home")' = << >>
  <2>1. GetOrderList("Home")' = << >>
    BY DEF GetOrderList
  <2> QED
    BY <2>1 DEF Cards
<1>4. FreshFrame' /\ HomeIdle'
  BY <1>1, <1>2, <1>3 DEF FreshFrame, HomeIdle
<1>5. \A x \in Objects : status[x] = x[2]
  BY <1>2 DEF FreshStatus
<1>6. CASE LoadCompleted
  BY <1>1, <1>4, <1>6 DEF LoadCompleted, PendingExclusive, StatusTracksList, LoadPhase,
                          PendingFromQuery, LoadSteps
<1>7. CASE LoadCancel
  BY <1>1, <1>4, <1>7 DEF LoadCancel, PendingExclusive, StatusTracksList, LoadPhase,
                          PendingFromQuery, LoadSteps
<1>8. CASE LoadPending
  <2>1. /\ IsInjective(pendingOrderList')
        /\ ToSet(pendingOrderList') \subseteq Objects
        /\ \A x \in ToSet(pendingOrderList') : x[2] = "Pending"
    BY <1>8, StatusFacts, LoadedList, QuerySet DEF LoadPending
  <2>2. deliveryOrdersList' = << >>
    BY <1>8 DEF LoadPending, LoadPhase, LoadSteps
  <2>3. PendingExclusive' /\ StatusTracksList' /\ PendingFromQuery'
    BY <1>1, <1>5, <2>1, <2>2, EmptyFacts
    DEF PendingExclusive, StatusTracksList, PendingFromQuery
  <2> QED
    BY <1>1, <1>4, <1>8, <2>2, <2>3 DEF LoadPending, LoadPhase, LoadSteps
<1>9. CASE LoadDelivery
  <2>1. /\ ToSet(deliveryOrdersList') \subseteq Objects
        /\ \A x \in ToSet(deliveryOrdersList') : x[2] = "Delivery"
    BY <1>9, StatusFacts, LoadedList, QuerySet DEF LoadDelivery
  <2>2. PendingExclusive' /\ StatusTracksList' /\ PendingFromQuery'
    BY <1>1, <1>5, <1>9, <2>1
    DEF LoadDelivery, PendingExclusive, StatusTracksList, PendingFromQuery
  <2> QED
    BY <1>1, <1>4, <1>9, <2>2 DEF LoadDelivery, LoadPhase, LoadSteps
<1>10. CASE LoadFails
  BY <1>1, <1>4, <1>10 DEF LoadFails, PendingExclusive, StatusTracksList, LoadPhase,
                           PendingFromQuery, LoadSteps
<1> QED
  BY <1>6, <1>7, <1>8, <1>9, <1>10 DEF Load

(* Wherever a handler resumes, it takes its object off the pending list,   *)
(* or leaves that list alone; and it asks for a frame if a page is there.  *)
LEMMA BoardFinish ==
    ASSUME BoardInv, TypeOK', NEW t \in Taps, Finish(t)
    PROVE  BoardInv'
<1> USE DEF BoardInv
<1> DEFINE x == handler[t].cur
<1>1. PICK kind \in Kinds : Resume(t, kind)
  BY DEF Finish, ResumeSend, ResumeCancelPending, ResumeCancelDelivery, Kinds
<1>2. handler[t].pc = "resume" /\ x \in Objects
  <2>1. handler[t].pc = "resume"
    BY <1>1 DEF Resume
  <2> QED
    BY <2>1, StartedHandler DEF Handlers
<1>3. loading = "Ready" /\ loading' = loading
  BY <1>1, <1>2 DEF LoadPhase, Live, Resume
<1>4. LoadPhase'
  BY <1>3 DEF LoadPhase, LoadSteps
<1>5. dirty' = (screen # "Home") /\ UNCHANGED <<screen, cards>>
  BY <1>1 DEF Resume, Finish, ResumeSend, ResumeCancelPending, ResumeCancelDelivery,
              UpdatePendingOrder, UpdateCancelPendingOrder, UpdateCancelDeliveryOrder,
              NotifyListeners
<1>6. FreshFrame' /\ HomeIdle'
  <2>1. CASE screen = "Home"
    <3>1. Cards("Home")' = << >>
      <4>1. GetOrderList("Home")' = << >>
        BY DEF GetOrderList
      <4> QED
        BY <4>1 DEF Cards
    <3> QED
      BY <1>5, <2>1, <3>1 DEF FreshFrame, HomeIdle
  <2>2. CASE screen # "Home"
    BY <1>5, <2>2 DEF FreshFrame, HomeIdle
  <2> QED
    BY <2>1, <2>2
<1>7. PendingExclusive' /\ StatusTracksList' /\ PendingFromQuery'
  <2> DEFINE removed == RemoveFirst(pendingOrderList, x)
  <2>1. /\ IsInjective(removed)
        /\ ToSet(removed) \subseteq ToSet(pendingOrderList)
        /\ x \notin ToSet(removed)
    BY RemoveFacts DEF TypeOK, PendingExclusive
  <2>2. ToSet(pendingOrderList) \subseteq Objects /\ ToSet(deliveryOrdersList) \subseteq Objects
    BY DEF TypeOK, ToSet
  <2> HIDE DEF x, removed
  <2>3. CASE ResumeSend(t)
    <3>1. /\ pendingOrderList' = removed
          /\ deliveryOrdersList' = Append(deliveryOrdersList, x)
          /\ status' = [status EXCEPT ![x] = "Delivery"]
      BY <2>3 DEF ResumeSend, UpdatePendingOrder, x, removed
    <3>2. ToSet(deliveryOrdersList') = ToSet(deliveryOrdersList) \cup {x}
      BY <1>2, <3>1, AddFacts DEF TypeOK
    <3>3. \A y \in Objects : status'[y] = IF y = x THEN "Delivery" ELSE status[y]
      BY <1>2, <3>1 DEF TypeOK
    <3> QED
      BY <1>2, <2>1, <2>2, <3>1, <3>2, <3>3
      DEF PendingExclusive, StatusTracksList, PendingFromQuery
  <2>4. CASE ResumeCancelPending(t)
    <3>1. pendingOrderList' = removed /\ UNCHANGED <<deliveryOrdersList, status>>
      BY <2>4 DEF ResumeCancelPending, UpdateCancelPendingOrder, x, removed
    <3> QED
      BY <2>1, <3>1 DEF PendingExclusive, StatusTracksList, PendingFromQuery
  <2>5. CASE ResumeCancelDelivery(t)
    <3>1. /\ deliveryOrdersList' = RemoveFirst(deliveryOrdersList, x)
          /\ UNCHANGED <<pendingOrderList, status>>
      BY <2>5 DEF ResumeCancelDelivery, UpdateCancelDeliveryOrder, x
    <3>2. ToSet(deliveryOrdersList') \subseteq ToSet(deliveryOrdersList)
      BY <3>1, RemoveFacts DEF TypeOK
    <3> QED
      BY <3>1, <3>2 DEF PendingExclusive, StatusTracksList, PendingFromQuery
  <2> QED
    BY <2>3, <2>4, <2>5 DEF Finish
<1> QED
  BY <1>4, <1>6, <1>7

(* Every step keeps the board's invariant: one case per action of Next.  *)
LEMMA BoardStep == BoardInv /\ [Next]_vars => BoardInv'
<1> SUFFICES ASSUME BoardInv, [Next]_vars PROVE BoardInv'
  OBVIOUS
<1>t. TypeOK'
  BY TypeStep DEF BoardInv
<1>1. CASE Load \/ LoadFails
  BY <1>1, <1>t, BoardLoad
<1>2. ASSUME NEW title \in Titles, OpenOrderList(title) PROVE BoardInv'
  <2>1. UNCHANGED <<lists, status, loading, handler>> /\ loading = "Ready"
        /\ screen' = title /\ cards' = Cards(title) /\ dirty' = FALSE
    BY <1>2 DEF OpenOrderList
  <2>2. title # "Home"
    BY DEF Titles
  <2>3. FreshFrame' /\ HomeIdle'
    BY <2>1, <2>2 DEF FreshFrame, HomeIdle, Cards, GetOrderList, lists
  <2> QED
    BY <1>t, <2>1, <2>3 DEF BoardInv, PendingExclusive, StatusTracksList, LoadPhase,
                            PendingFromQuery, LoadSteps, lists
<1>3. CASE LeaveOrderList
  <2>1. UNCHANGED <<lists, status, loading>>
        /\ screen' = "Home" /\ cards' = << >> /\ dirty' = FALSE
    BY <1>3 DEF LeaveOrderList
  <2>2. loading = "Ready"
    BY <1>3 DEF LeaveOrderList, BoardInv, LoadPhase
  <2>3. FreshFrame' /\ HomeIdle'
    <3>1. GetOrderList("Home")' = << >>
      BY DEF GetOrderList
    <3> QED
      BY <2>1, <3>1 DEF FreshFrame, HomeIdle, Cards
  <2> QED
    BY <1>t, <2>1, <2>2, <2>3 DEF BoardInv, PendingExclusive, StatusTracksList, LoadPhase,
                                  PendingFromQuery, LoadSteps, lists
<1>4. CASE Rebuild
  <2>1. UNCHANGED <<lists, status, loading, screen>> /\ dirty = TRUE
        /\ cards' = Cards(screen) /\ dirty' = FALSE
    BY <1>4 DEF Rebuild, BoardInv, TypeOK
  <2>2. screen # "Home"
    BY <2>1 DEF BoardInv, HomeIdle
  <2>3. loading = "Ready"
    BY <2>2 DEF BoardInv, LoadPhase
  <2>4. FreshFrame' /\ HomeIdle'
    BY <2>1, <2>2 DEF FreshFrame, HomeIdle, Cards, GetOrderList, lists
  <2> QED
    BY <1>t, <2>1, <2>3, <2>4 DEF BoardInv, PendingExclusive, StatusTracksList, LoadPhase,
                                  PendingFromQuery, LoadSteps, lists
<1>5. ASSUME NEW i \in DOMAIN cards, ScrollAway(i) PROVE BoardInv'
  <2>1. UNCHANGED <<lists, status, loading, page>> /\ loading = "Ready"
    BY <1>5 DEF ScrollAway, BoardInv, LoadPhase
  <2> QED
    BY <1>t, <2>1, BoardUnmoved
<1>6. ASSUME NEW t \in Taps, Serve(t) \/ StrayWrite(t) PROVE BoardInv'
  <2>1. UNCHANGED <<lists, status, loading, page>>
    BY <1>6 DEF Serve, StrayWrite, WriteUserOrder, WriteOrder, WriteFails
  <2>2. \A u \in Taps : handler'[u].pc \in Live => handler[u].pc \in Live
    BY <1>6 DEF Serve, StrayWrite, WriteUserOrder, WriteOrder, WriteFails, BoardInv, TypeOK,
                Goes, At, Live, Writing
  <2> QED
    BY <1>t, <2>1, <2>2, BoardUnmoved
<1>7. ASSUME NEW t \in Taps, Finish(t) PROVE BoardInv'
  BY <1>7, <1>t, BoardFinish
<1>8. ASSUME NEW t \in Taps, Tap(t) PROVE BoardInv'
  <2>1. PICK i \in DOMAIN cards, kind \in Kinds : Start(t, i, kind)
    BY <1>8 DEF Tap, TapSend, TapCancel, Kinds
  <2>2. UNCHANGED <<lists, status, loading, page>>
    BY <2>1 DEF Start
  <2>3. loading = "Ready"
    <3>1. cards # << >>
      BY <2>1
    <3> QED
      BY <3>1 DEF BoardInv, LoadPhase, HomeIdle
  <2> QED
    BY <1>t, <2>2, <2>3, BoardUnmoved
<1>9. CASE Restart
  <2>1. FreshFrame' /\ HomeIdle'
    <3>1. GetOrderList("Home")' = << >>
      BY DEF GetOrderList
    <3> QED
      BY <1>9, <3>1 DEF Restart, FreshFrame, HomeIdle, Cards
  <2>2. \A t \in Taps : handler'[t].pc \notin Live
    <3> SUFFICES ASSUME NEW t \in Taps PROVE handler'[t].pc \notin Live
      OBVIOUS
    <3>1. CASE handler[t].pc \in Live
      <4>1. Killed(handler[t].pc) \notin Live
        BY <3>1 DEF Killed, Live, Writing
      <4> QED
        BY <1>9, <3>1, <4>1 DEF Restart, At
    <3>2. CASE handler[t].pc \notin Live
      BY <1>9, <3>2 DEF Restart
    <3> QED
      BY <3>1, <3>2
  <2> QED
    BY <1>9, <1>t, <2>1, <2>2, EmptyFacts
    DEF Restart, BoardInv, PendingExclusive, StatusTracksList, LoadPhase, PendingFromQuery
<1>10. ASSUME NEW o \in Orders, OtherClient(o) PROVE BoardInv'
  BY <1>10, <1>t, BoardUnmoved DEF OtherClient
<1>11. CASE UNCHANGED vars
  BY <1>11, <1>t, BoardUnmoved DEF vars
<1> QED
  BY <1>1, <1>2, <1>3, <1>4, <1>5, <1>6, <1>7, <1>8, <1>9, <1>10, <1>11 DEF Next, Ongoing

(* What the board keeps whatever the timing.  *)
LEMMA BoardInvariant == Spec => []BoardInv
BY BoardInit, BoardStep, PTL DEF Spec

(* However handlers, frames, other clients and restarts interleave, no     *)
(* object is pending twice, or both pending and in delivery.               *)
THEOREM PendingIsExclusive == Spec => []PendingExclusive
<1>1. BoardInv => PendingExclusive
  BY DEF BoardInv
<1> QED
  BY <1>1, BoardInvariant, PTL

(* The status of an object agrees with the pending and delivery lists.  *)
THEOREM StatusIsTracked == Spec => []StatusTracksList
<1>1. BoardInv => StatusTracksList
  BY DEF BoardInv
<1> QED
  BY <1>1, BoardInvariant, PTL

(* A page that is not due for a frame shows the provider's list.  *)
THEOREM FramesAreFresh == Spec => []FreshFrame
<1>1. BoardInv => FreshFrame
  BY DEF BoardInv
<1> QED
  BY <1>1, BoardInvariant, PTL

(* A handler that was started stays so, on the order it was started for.   *)
LEMMA HandlersStay ==
    ASSUME TypeOK, [Next]_vars, NEW t \in Taps, handler[t].pc # "unused"
    PROVE  handler'[t].pc # "unused" /\ OrderOf(handler'[t]) = OrderOf(handler[t])
<1>1. CASE UNCHANGED handler
  BY <1>1
<1>2. CASE LeaveOrderList
  BY <1>2 DEF LeaveOrderList, Detach, At, OrderOf
<1>3. CASE Rebuild
  BY <1>3 DEF Rebuild, Detach, At, OrderOf
<1>4. ASSUME NEW i \in DOMAIN cards, ScrollAway(i)
      PROVE  handler'[t].pc # "unused" /\ OrderOf(handler'[t]) = OrderOf(handler[t])
  BY <1>4 DEF ScrollAway, Detach, At, OrderOf
<1>5. ASSUME NEW u \in Taps, Serve(u) \/ Finish(u) \/ StrayWrite(u)
      PROVE  handler'[t].pc # "unused" /\ OrderOf(handler'[t]) = OrderOf(handler[t])
  <2>1. handler[u] \in Handlers
    BY <1>5, StartedHandler
    DEF Serve, WriteUserOrder, WriteOrder, WriteFails, Finish, ResumeSend, StrayWrite,
        ResumeCancelPending, ResumeCancelDelivery, Resume, Writing
  <2>2. handler[u].slot \in Nat /\ 0 \in Nat /\ handler[u].cur \in Objects
    BY <2>1 DEF Handlers
  <2>3. PICK p \in Live \cup Ended, n \in Nat, x \in Objects :
             handler' = [handler EXCEPT ![u] = At(handler[u], p, n, x)]
    BY <1>5, <2>2
    DEF Serve, WriteUserOrder, WriteOrder, WriteFails, Finish, ResumeSend, StrayWrite,
        ResumeCancelPending, ResumeCancelDelivery, Resume, Goes, Live, Writing, Ended
  <2> QED
    BY <2>3 DEF At, OrderOf, TypeOK, Live, Writing, Ended
<1>6. ASSUME NEW u \in Taps, Tap(u)
      PROVE  handler'[t].pc # "unused" /\ OrderOf(handler'[t]) = OrderOf(handler[t])
  <2>1. u # t
    BY <1>6 DEF Tap, TapSend, TapCancel, Start, Unused
  <2> QED
    BY <1>6, <2>1 DEF Tap, TapSend, TapCancel, Start, TypeOK
<1>7. CASE Restart
  BY <1>7 DEF Restart, At, Killed, OrderOf, Live, Writing
<1> QED
  BY <1>1, <1>2, <1>3, <1>4, <1>5, <1>6, <1>7
  DEF Next, Ongoing, Load, LoadCompleted, LoadCancel, LoadPending, LoadDelivery,
      LoadFails, OpenOrderList, OtherClient, vars

(* A step changes the documents of one order at most: one that a handler   *)
(* was started for, or one that another client leaves with equal copies.   *)
LEMMA OneOrderChanges ==
    ASSUME TypeOK, [Next]_vars, ~UNCHANGED backend
    PROVE  \E o \in Orders :
              /\ \A q \in Orders \ {o} : /\ userOrders'[q] = userOrders[q]
                                         /\ orders'[q] = orders[q]
              /\ \/ userOrders'[o] = orders'[o]
                 \/ \E t \in Taps : handler[t].pc # "unused" /\ OrderOf(handler[t]) = o
<1>1. ASSUME NEW t \in Taps, Serve(t) \/ StrayWrite(t)
      PROVE  \E o \in Orders :
                /\ \A q \in Orders \ {o} : /\ userOrders'[q] = userOrders[q]
                                           /\ orders'[q] = orders[q]
                /\ \E u \in Taps : handler[u].pc # "unused" /\ OrderOf(handler[u]) = o
  <2> DEFINE o == OrderOf(handler[t])
             w == Wanted(handler[t].kind)
  <2>1. handler[t].pc # "unused"
    BY <1>1 DEF Serve, WriteUserOrder, WriteOrder, WriteFails, StrayWrite, Writing
  <2>2. o \in Orders
    BY <2>1, StartedHandler
  <2>3. /\ userOrders' = [userOrders EXCEPT ![o] = w] \/ UNCHANGED userOrders
        /\ orders' = [orders EXCEPT ![o] = w] \/ UNCHANGED orders
    BY <1>1 DEF Serve, WriteUserOrder, WriteOrder, WriteFails, StrayWrite, backend
  <2> HIDE DEF o, w
  <2>4. \A q \in Orders \ {o} : /\ userOrders'[q] = userOrders[q]
                                /\ orders'[q] = orders[q]
    BY <2>2, <2>3 DEF TypeOK
  <2> QED
    BY <2>1, <2>2, <2>4 DEF o
<1>2. ASSUME NEW o \in Orders, OtherClient(o)
      PROVE  /\ \A q \in Orders \ {o} : /\ userOrders'[q] = userOrders[q]
                                        /\ orders'[q] = orders[q]
             /\ userOrders'[o] = orders'[o]
  <2>1. PICK s : orders' = [orders EXCEPT ![o] = s]
    BY <1>2 DEF OtherClient, Ledger!Advance
  <2>2. userOrders' = [userOrders EXCEPT ![o] = orders'[o]]
    BY <1>2 DEF OtherClient
  <2> QED
    BY <2>1, <2>2 DEF TypeOK
<1>3. \/ \E t \in Taps : Serve(t) \/ StrayWrite(t)
      \/ \E o \in Orders : OtherClient(o)
  BY DEF Next, Ongoing, Load, LoadCompleted, LoadCancel, LoadPending, LoadDelivery,
         LoadFails, OpenOrderList, LeaveOrderList, Rebuild, ScrollAway, Tap, TapSend,
         TapCancel, Start, Finish, ResumeSend, ResumeCancelPending,
         ResumeCancelDelivery, Resume, Restart, vars
<1> QED
  BY <1>1, <1>2, <1>3

(* The documents of an order that was never tapped agree at any moment,    *)
(* through rebound cards, kills, late writes and other clients: updateOrder *)
(* writes both times the order it was called with.                         *)
THEOREM TearsStayLocal == Spec => []TearsAreLocal
<1>1. Init => TearsAreLocal
  BY DEF Init, TearsAreLocal
<1>2. TypeOK /\ TearsAreLocal /\ [Next]_vars => TearsAreLocal'
  <2> SUFFICES ASSUME TypeOK, TearsAreLocal, [Next]_vars,
                      NEW q \in Orders, userOrders'[q] # orders'[q]
               PROVE  \E t \in Taps : handler'[t].pc # "unused" /\ OrderOf(handler'[t]) = q
    BY DEF TearsAreLocal, OrderOf
  <2>1. \E t \in Taps : handler[t].pc # "unused" /\ OrderOf(handler[t]) = q
    <3>1. CASE UNCHANGED backend
      BY <3>1 DEF backend, TearsAreLocal
    <3>2. CASE ~UNCHANGED backend
      BY <3>2, OneOrderChanges DEF TearsAreLocal
    <3> QED
      BY <3>1, <3>2
  <2> QED
    BY <2>1, HandlersStay
<1> QED
  BY <1>1, <1>2, TypeCorrect, PTL DEF Spec

(* No handler drops an object from the board: whatever it removes from one *)
(* list it has added to another, and a load only fills empty lists.        *)
THEOREM NothingIsLost == Spec => NothingVanishes
<1>1. BoardInv /\ [Next]_vars
        => [OnBoard \subseteq OnBoard' \/ loading' = "Completed"]_vars
  <2> SUFFICES ASSUME BoardInv, Next
               PROVE  OnBoard \subseteq OnBoard' \/ loading' = "Completed"
    OBVIOUS
  <2>1. CASE UNCHANGED lists
    BY <2>1 DEF OnBoard, lists
  <2>2. CASE Load
    <3>1. CASE LoadCompleted
      BY <3>1, EmptyFacts DEF LoadCompleted, BoardInv, LoadPhase, LoadSteps, OnBoard
    <3>2. CASE LoadCancel
      BY <3>2, EmptyFacts DEF LoadCancel, BoardInv, LoadPhase, LoadSteps, OnBoard
    <3>3. CASE LoadPending
      BY <3>3, EmptyFacts DEF LoadPending, BoardInv, LoadPhase, LoadSteps, OnBoard
    <3>4. CASE LoadDelivery
      BY <3>4, EmptyFacts DEF LoadDelivery, BoardInv, LoadPhase, LoadSteps, OnBoard
    <3> QED
      BY <2>2, <3>1, <3>2, <3>3, <3>4 DEF Load
  <2>3. ASSUME NEW t \in Taps, Finish(t) PROVE OnBoard \subseteq OnBoard'
    <3> DEFINE x == handler[t].cur
    <3>1. x \in Objects
      <4>1. handler[t].pc = "resume"
        BY <2>3 DEF Finish, ResumeSend, ResumeCancelPending, ResumeCancelDelivery, Resume
      <4> QED
        BY <4>1, StartedHandler DEF Handlers, BoardInv
    <3> HIDE DEF x
    <3>2. CASE ResumeSend(t)
      <4>1. /\ ToSet(deliveryOrdersList') = ToSet(deliveryOrdersList) \cup {x}
            /\ ToSet(pendingOrderList) \ {x} \subseteq ToSet(pendingOrderList')
            /\ UNCHANGED <<completedOrderList, cancelOrderList>>
        BY <3>1, <3>2, AddFacts, RemoveFacts
        DEF ResumeSend, UpdatePendingOrder, BoardInv, TypeOK, x
      <4> QED
        BY <4>1 DEF OnBoard
    <3>3. CASE ResumeCancelPending(t)
      <4>1. /\ ToSet(cancelOrderList') = ToSet(cancelOrderList) \cup {x}
            /\ ToSet(pendingOrderList) \ {x} \subseteq ToSet(pendingOrderList')
            /\ UNCHANGED <<completedOrderList, deliveryOrdersList>>
        BY <3>1, <3>3, AddFacts, RemoveFacts
        DEF ResumeCancelPending, UpdateCancelPendingOrder, BoardInv, TypeOK, x
      <4> QED
        BY <4>1 DEF OnBoard
    <3>4. CASE ResumeCancelDelivery(t)
      <4>1. /\ ToSet(cancelOrderList') = ToSet(cancelOrderList) \cup {x}
            /\ ToSet(deliveryOrdersList) \ {x} \subseteq ToSet(deliveryOrdersList')
            /\ UNCHANGED <<completedOrderList, pendingOrderList>>
        BY <3>1, <3>4, AddFacts, RemoveFacts
        DEF ResumeCancelDelivery, UpdateCancelDeliveryOrder, BoardInv, TypeOK, x
      <4> QED
        BY <4>1 DEF OnBoard
    <3> QED
      BY <2>3, <3>2, <3>3, <3>4 DEF Finish
  <2>4. CASE Restart
    BY <2>4 DEF Restart
  <2> QED
    BY <2>1, <2>2, <2>3, <2>4
    DEF Next, Ongoing, Tap, TapSend, TapCancel, Start, Serve, WriteUserOrder, WriteOrder,
        WriteFails, StrayWrite, LoadFails, OpenOrderList, LeaveOrderList, Rebuild,
        ScrollAway, OtherClient
<1> QED
  BY <1>1, BoardInvariant, PTL DEF Spec, NothingVanishes

-----------------------------------------------------------------------------
(* For the patient admin: the one handler that runs, runs on a fresh page, *)
(* on the object it was started on, which is still pending.                *)
OneAtATime ==
    \A t \in Taps : handler[t].pc \in Live =>
        /\ dirty = FALSE
        /\ handler[t].cur = handler[t].target
        /\ handler[t].target \in ToSet(pendingOrderList)
        /\ handler[t].kind # "cancelDelivery"
        /\ \A u \in Taps \ {t} : handler[u].pc \notin Live

LoadedFromQuery ==
    loading \in LoadSteps => \A x \in ToSet(cancelOrderList) : x[2] = "Cancel"

PatientInv == BoardInv /\ OneAtATime /\ LoadedFromQuery /\ BoardPartition


(* The patient admin's invariant holds at the start.  *)
LEMMA PatientInit == Init => PatientInv
<1> SUFFICES ASSUME Init PROVE PatientInv
  OBVIOUS
<1>1. OneAtATime
  BY DEF Init, OneAtATime, Unused, Live, Writing
<1> QED
  BY <1>1, BoardInit, EmptyFacts
  DEF PatientInv, Init, LoadedFromQuery, BoardPartition, BoardInv

(* A step of the patient admin is a step of the system.  *)
LEMMA PatientIsNext == [PatientNext]_vars => [Next]_vars
BY DEF PatientNext, PatientSteps, Next

(* A tap on a fresh page starts a handler on a pending object.  *)
LEMMA QuietTap ==
    ASSUME BoardInv, Quiet, NEW t \in Taps, Tap(t)
    PROVE  \E x \in ToSet(pendingOrderList), n \in Nat, kind \in {"send", "cancelPending"} :
              handler' = [handler EXCEPT ![t] =
                  [pc |-> "userWrite", kind |-> kind, target |-> x,
                   slot |-> n, cur |-> x]]
<1>1. PICK i \in DOMAIN cards : TapSend(t, i) \/ TapCancel(t, i)
  BY DEF Tap
<1>2. cards = Cards(screen)
  BY DEF Quiet, BoardInv, FreshFrame
<1>3. screen = "Pending"
  <2>1. CASE screen # "Pending"
    <3>1. GetOrderList(screen) = << >>
      BY <2>1 DEF BoardInv, TypeOK, Titles, GetOrderList
    <3>2. cards = << >>
      BY <1>2, <3>1 DEF Cards
    <3> QED
      BY <1>1, <3>2
  <2> QED
    BY <2>1
<1>4. GetOrderList("Pending") = pendingOrderList
  BY DEF GetOrderList
<1>5. i \in 1 .. Len(pendingOrderList) /\ cards[i].obj = pendingOrderList[i]
  BY <1>1, <1>2, <1>3, <1>4 DEF Cards
<1>6. cards[i].obj \in ToSet(pendingOrderList) /\ i \in Nat
  BY <1>5 DEF ToSet, BoardInv, TypeOK
<1>7. status[cards[i].obj] = "Pending"
  BY <1>6 DEF BoardInv, StatusTracksList
<1>8. PICK kind \in {"send", "cancelPending"} : Start(t, i, kind)
  BY <1>1, <1>7 DEF TapSend, TapCancel
<1> QED
  BY <1>6, <1>8 DEF Start

(* A step that changes no list, and no handler's phase, kind or objects.   *)
LEMMA PatientUnmoved ==
    ASSUME PatientInv, BoardInv', UNCHANGED lists, loading' = loading, dirty' = FALSE,
           \A t \in Taps : /\ handler'[t].pc \in Live => handler[t].pc \in Live
                           /\ handler'[t].pc \in Live =>
                                 /\ handler'[t].cur = handler[t].cur
                                 /\ handler'[t].target = handler[t].target
                                 /\ handler'[t].kind = handler[t].kind
    PROVE  PatientInv'
<1>1. OneAtATime'
  BY DEF PatientInv, OneAtATime, lists
<1> QED
  BY <1>1 DEF PatientInv, LoadedFromQuery, BoardPartition, PendingExclusive, lists

(* Every step of the patient admin, and of other clients, keeps it.  *)
LEMMA PatientStep == PatientInv /\ [PatientNext]_vars => PatientInv'
<1> SUFFICES ASSUME PatientInv, [PatientNext]_vars PROVE PatientInv'
  OBVIOUS
<1>b. BoardInv /\ BoardInv' /\ TypeOK
  BY BoardStep, PatientIsNext DEF PatientInv, BoardInv
<1>p. PendingExclusive'
  BY <1>b DEF BoardInv
<1>1. CASE Load \/ LoadFails
  <2>1. loading # "Ready" /\ handler' = handler
    BY <1>1 DEF Load, LoadFails, LoadCompleted, LoadCancel, LoadPending, LoadDelivery, LoadSteps
  <2>2. OneAtATime'
    BY <1>b, <2>1 DEF OneAtATime, BoardInv, LoadPhase
  <2>3. LoadedFromQuery' /\ BoardPartition'
    <3>1. CASE LoadCompleted
      BY <1>p, <3>1 DEF LoadCompleted, PatientInv, LoadedFromQuery, BoardPartition, LoadSteps
    <3>2. CASE LoadCancel
      <4>1. /\ IsInjective(cancelOrderList')
            /\ \A x \in ToSet(cancelOrderList') : x[2] = "Cancel"
        BY <3>2, StatusFacts, LoadedList DEF LoadCancel
      <4>2. pendingOrderList' = << >> /\ deliveryOrdersList' = << >>
        BY <1>b, <3>2 DEF LoadCancel, BoardInv, LoadPhase, LoadSteps
      <4> QED
        BY <1>p, <4>1, <4>2, EmptyFacts DEF LoadedFromQuery, BoardPartition
    <3>3. CASE LoadPending
      <4>1. \A x \in ToSet(pendingOrderList') : x[2] = "Pending"
        BY <3>3, StatusFacts, LoadedList DEF LoadPending
      <4>2. /\ \A x \in ToSet(cancelOrderList') : x[2] = "Cancel"
            /\ IsInjective(cancelOrderList')
        BY <3>3 DEF LoadPending, PatientInv, LoadedFromQuery, BoardPartition, LoadSteps
      <4>3. deliveryOrdersList' = << >>
        BY <1>b, <3>3 DEF LoadPending, BoardInv, LoadPhase, LoadSteps
      <4> QED
        BY <1>p, <4>1, <4>2, <4>3, EmptyFacts DEF LoadedFromQuery, BoardPartition
    <3>4. CASE LoadDelivery
      <4>1. /\ IsInjective(deliveryOrdersList')
            /\ \A x \in ToSet(deliveryOrdersList') : x[2] = "Delivery"
        BY <3>4, StatusFacts, LoadedList DEF LoadDelivery
      <4>2. /\ \A x \in ToSet(cancelOrderList') : x[2] = "Cancel"
            /\ IsInjective(cancelOrderList')
            /\ ToSet(cancelOrderList') \cap ToSet(pendingOrderList') = {}
        BY <3>4 DEF LoadDelivery, PatientInv, LoadedFromQuery, BoardPartition, LoadSteps
      <4>3. ToSet(cancelOrderList') \cap ToSet(deliveryOrdersList') = {}
        BY <4>1, <4>2
      <4> QED
        BY <1>p, <4>1, <4>2, <4>3 DEF LoadedFromQuery, BoardPartition
    <3>5. CASE LoadFails
      BY <1>p, <3>5 DEF LoadFails, PatientInv, LoadedFromQuery, BoardPartition, LoadSteps, lists
    <3> QED
      BY <1>1, <3>1, <3>2, <3>3, <3>4, <3>5 DEF Load
  <2> QED
    BY <1>b, <2>2, <2>3 DEF PatientInv
<1>2. ASSUME NEW title \in Titles, OpenOrderList(title) PROVE PatientInv'
  BY <1>2, <1>b, PatientUnmoved DEF OpenOrderList
<1>3. CASE LeaveOrderList
  <2>1. \A t \in Taps : /\ handler'[t].pc \in Live => handler[t].pc \in Live
                        /\ handler'[t].pc \in Live =>
                              /\ handler'[t].cur = handler[t].cur
                              /\ handler'[t].target = handler[t].target
                              /\ handler'[t].kind = handler[t].kind
    BY <1>3 DEF LeaveOrderList, Detach, At
  <2> QED
    BY <1>3, <1>b, <2>1, PatientUnmoved DEF LeaveOrderList
<1>4. CASE Rebuild
  <2>1. \A t \in Taps : handler[t].pc \notin Live
    BY <1>4 DEF Rebuild, PatientInv, OneAtATime
  <2>2. handler' = [t \in Taps |-> handler[t]]
    BY <1>4, <2>1 DEF Rebuild
  <2> QED
    BY <1>4, <1>b, <2>1, <2>2, PatientUnmoved DEF Rebuild
<1>5. ASSUME NEW i \in DOMAIN cards, ScrollAway(i) PROVE PatientInv'
  <2>1. \A t \in Taps : /\ handler'[t].pc \in Live => handler[t].pc \in Live
                        /\ handler'[t].pc \in Live =>
                              /\ handler'[t].cur = handler[t].cur
                              /\ handler'[t].target = handler[t].target
                              /\ handler'[t].kind = handler[t].kind
    BY <1>5 DEF ScrollAway, Detach, At
  <2>2. dirty = FALSE
    BY <1>5 DEF ScrollAway, PatientInv, OneAtATime
  <2> QED
    BY <1>5, <1>b, <2>1, <2>2, PatientUnmoved DEF ScrollAway, page
<1>6. ASSUME NEW t \in Taps, Serve(t) PROVE PatientInv'
  <2>1. handler[t].pc \in Live
    BY <1>6 DEF Serve, WriteUserOrder, WriteOrder, WriteFails, Live, Writing
  <2>2. dirty = FALSE
    BY <2>1 DEF PatientInv, OneAtATime
  <2>3. PICK p : handler' = [handler EXCEPT ![t] = Goes(handler[t], p)]
    BY <1>6 DEF Serve, WriteUserOrder, WriteOrder, WriteFails
  <2>4. \A u \in Taps : handler'[u] = IF u = t THEN Goes(handler[t], p) ELSE handler[u]
    BY <1>b, <2>3 DEF TypeOK
  <2>5. UNCHANGED <<lists, loading, dirty>>
    BY <1>6 DEF Serve, WriteUserOrder, WriteOrder, WriteFails, page
  <2>6. \A u \in Taps : /\ handler'[u].pc \in Live => handler[u].pc \in Live
                        /\ handler'[u].pc \in Live =>
                              /\ handler'[u].cur = handler[u].cur
                              /\ handler'[u].target = handler[u].target
                              /\ handler'[u].kind = handler[u].kind
    BY <2>1, <2>4 DEF Goes, At
  <2> QED
    BY <1>b, <2>2, <2>5, <2>6, PatientUnmoved
<1>7. ASSUME NEW t \in Taps, StrayWrite(t) PROVE PatientInv'
  <2>1. \A u \in Taps : handler'[u].pc \in Live => handler'[u] = handler[u]
    BY <1>7, <1>b DEF StrayWrite, TypeOK, Goes, At, Live, Writing
  <2>2. UNCHANGED <<lists, loading, dirty>>
    BY <1>7 DEF StrayWrite, page
  <2>3. OneAtATime'
    BY <2>1, <2>2 DEF PatientInv, OneAtATime, lists
  <2> QED
    BY <1>b, <2>2, <2>3 DEF PatientInv, LoadedFromQuery, BoardPartition, PendingExclusive, lists
<1>8. ASSUME NEW t \in Taps, Finish(t) PROVE PatientInv'
  <2> DEFINE x == handler[t].cur
  <2>1. handler[t].pc = "resume"
    BY <1>8 DEF Finish, ResumeSend, ResumeCancelPending, ResumeCancelDelivery, Resume
  <2>2. /\ x \in ToSet(pendingOrderList)
        /\ handler[t].kind # "cancelDelivery"
        /\ \A u \in Taps \ {t} : handler[u].pc \notin Live
    BY <2>1 DEF PatientInv, OneAtATime, Live
  <2>3. x \in Objects
    BY <1>b, <2>1, StartedHandler DEF Handlers
  <2>4. \A u \in Taps : handler'[u].pc \notin Live
    <3>1. handler' = [handler EXCEPT ![t] = At(handler[t], "done", 0, handler[t].cur)]
      BY <1>8 DEF Finish, ResumeSend, ResumeCancelPending, ResumeCancelDelivery, Resume
    <3> QED
      BY <1>b, <2>2, <3>1 DEF TypeOK, At, Live, Writing
  <2>5. OneAtATime'
    BY <2>4 DEF OneAtATime
  <2>6. LoadedFromQuery'
    <3>1. loading' = "Ready"
      BY <1>8, <1>b, <2>1 DEF BoardInv, LoadPhase, Live, Finish, ResumeSend,
                              ResumeCancelPending, ResumeCancelDelivery, Resume
    <3> QED
      BY <3>1 DEF LoadedFromQuery, LoadSteps
  <2>7. /\ IsInjective(deliveryOrdersList) /\ IsInjective(cancelOrderList)
        /\ ToSet(cancelOrderList) \cap ToSet(deliveryOrdersList) = {}
        /\ ToSet(cancelOrderList) \cap ToSet(pendingOrderList) = {}
        /\ ToSet(pendingOrderList) \cap ToSet(deliveryOrdersList) = {}
    BY <1>b DEF PatientInv, BoardPartition, BoardInv, PendingExclusive
  <2>8. x \notin ToSet(deliveryOrdersList) /\ x \notin ToSet(cancelOrderList)
    BY <2>2, <2>7
  <2> HIDE DEF x
  <2>9. ToSet(RemoveFirst(pendingOrderList, x)) \subseteq ToSet(pendingOrderList)
        /\ x \notin ToSet(RemoveFirst(pendingOrderList, x))
    BY <1>b, RemoveFacts DEF TypeOK, BoardInv, PendingExclusive
  <2>10. BoardPartition'
    <3>1. CASE ResumeSend(t)
      <4>1. /\ pendingOrderList' = RemoveFirst(pendingOrderList, x)
            /\ deliveryOrdersList' = Append(deliveryOrdersList, x)
            /\ cancelOrderList' = cancelOrderList
        BY <3>1 DEF ResumeSend, UpdatePendingOrder, x
      <4>2. /\ ToSet(deliveryOrdersList') = ToSet(deliveryOrdersList) \cup {x}
            /\ IsInjective(deliveryOrdersList')
        BY <1>b, <2>3, <2>7, <2>8, <4>1, AddFacts DEF TypeOK
      <4> QED
        BY <1>p, <2>7, <2>8, <2>9, <4>1, <4>2 DEF BoardPartition
    <3>2. CASE ResumeCancelPending(t)
      <4>1. /\ pendingOrderList' = RemoveFirst(pendingOrderList, x)
            /\ cancelOrderList' = Append(cancelOrderList, x)
            /\ deliveryOrdersList' = deliveryOrdersList
        BY <3>2 DEF ResumeCancelPending, UpdateCancelPendingOrder, x
      <4>2. /\ ToSet(cancelOrderList') = ToSet(cancelOrderList) \cup {x}
            /\ IsInjective(cancelOrderList')
        BY <1>b, <2>3, <2>7, <2>8, <4>1, AddFacts DEF TypeOK
      <4> QED
        BY <1>p, <2>7, <2>8, <2>9, <4>1, <4>2 DEF BoardPartition
    <3> QED
      BY <1>8, <2>2, <3>1, <3>2 DEF Finish, ResumeCancelDelivery, Resume
  <2> QED
    BY <1>b, <2>5, <2>6, <2>10 DEF PatientInv
<1>9. ASSUME NEW t \in Taps, Quiet, Tap(t) PROVE PatientInv'
  <2>1. PICK x \in ToSet(pendingOrderList), n \in Nat, kind \in {"send", "cancelPending"} :
              handler' = [handler EXCEPT ![t] =
                  [pc |-> "userWrite", kind |-> kind, target |-> x,
                   slot |-> n, cur |-> x]]
    BY <1>9, <1>b, QuietTap
  <2>2. UNCHANGED <<lists, loading, dirty>>
    BY <1>9 DEF Tap, TapSend, TapCancel, Start, page
  <2>3. /\ handler'[t] = [pc |-> "userWrite", kind |-> kind, target |-> x,
                          slot |-> n, cur |-> x]
        /\ \A u \in Taps \ {t} : handler'[u] = handler[u]
    BY <1>b, <2>1 DEF TypeOK
  <2>4. dirty = FALSE /\ \A u \in Taps : handler[u].pc \notin Live
    BY <1>9, <1>b DEF Quiet, TypeOK
  <2>5. OneAtATime'
    BY <2>2, <2>3, <2>4 DEF OneAtATime, lists
  <2> QED
    BY <1>b, <2>2, <2>5 DEF PatientInv, LoadedFromQuery, BoardPartition, PendingExclusive, lists
<1>10. CASE Quiet /\ Restart
  <2>1. \A t \in Taps : handler'[t].pc \notin Live
    BY <1>10 DEF Quiet, Restart
  <2>2. OneAtATime'
    BY <2>1 DEF OneAtATime
  <2> QED
    BY <1>10, <1>b, <1>p, <2>2, EmptyFacts DEF Restart, PatientInv, LoadedFromQuery, BoardPartition
<1>11. ASSUME NEW o \in Orders, OtherClient(o) PROVE PatientInv'
  <2>1. UNCHANGED <<lists, loading, dirty, handler>>
    BY <1>11 DEF OtherClient, page
  <2>2. OneAtATime'
    BY <2>1 DEF PatientInv, OneAtATime, lists
  <2> QED
    BY <1>b, <2>1, <2>2 DEF PatientInv, LoadedFromQuery, BoardPartition, PendingExclusive, lists
<1>12. CASE UNCHANGED vars
  <2>1. UNCHANGED <<lists, loading, dirty, handler>>
    BY <1>12 DEF vars, page
  <2>2. OneAtATime'
    BY <2>1 DEF PatientInv, OneAtATime, lists
  <2> QED
    BY <1>b, <2>1, <2>2 DEF PatientInv, LoadedFromQuery, BoardPartition, PendingExclusive, lists
<1> QED
  BY <1>1, <1>2, <1>3, <1>4, <1>5, <1>6, <1>7, <1>8, <1>9, <1>10, <1>11, <1>12
  DEF PatientNext, PatientSteps, Ongoing

(* What the board keeps for a patient admin.  *)
LEMMA PatientInvariant == PatientSpec => []PatientInv
BY PatientInit, PatientStep, PTL DEF PatientSpec

(* For an admin who waits for handler and frame, widget.orderModel after   *)
(* the await is the object the writes were for, whatever other clients and *)
(* restarts do.                                                            *)
THEOREM TappedIsMoved == PatientSpec => []MovedIsTapped
<1>1. PatientInv => MovedIsTapped
  BY DEF PatientInv, OneAtATime, MovedIsTapped
<1> QED
  BY <1>1, PatientInvariant, PTL

(* For such an admin every object stays on exactly one list, once.  *)
THEOREM BoardIsPartitioned == PatientSpec => []BoardPartition
<1>1. PatientInv => BoardPartition
  BY DEF PatientInv
<1> QED
  BY <1>1, PatientInvariant, PTL

-----------------------------------------------------------------------------
(* For the sole admin: what is listed as pending is pending in "orders",   *)
(* but for the object whose handler has written and not resumed; and no    *)
(* write outlives the process.                                             *)
PendingIsPending ==
    /\ \A x \in ToSet(pendingOrderList) :
          \/ orders[x[1]] = "Pending"
          \/ \E t \in Taps : handler[t].pc = "resume" /\ handler[t].target = x
    /\ \A t \in Taps : handler[t].pc \in Writing =>
                          orders[OrderOf(handler[t])] = "Pending"
    /\ \A t \in Taps : handler[t].pc \notin Stray

(* A handler between its two writes has written the user's copy.  *)
UserCopyWritten ==
    \A t \in Taps : handler[t].pc = "adminWrite" =>
        userOrders[OrderOf(handler[t])] = Wanted(handler[t].kind)

SoleInv == PatientInv /\ PendingIsPending /\ UserCopyWritten /\ CopiesAgree

(* The sole admin's invariant holds at the start.  *)
LEMMA SoleInit == Init => SoleInv
<1> SUFFICES ASSUME Init PROVE SoleInv
  OBVIOUS
<1>1. PendingIsPending /\ UserCopyWritten
  BY EmptyFacts DEF Init, PendingIsPending, UserCopyWritten, Unused, Writing, Stray
<1>2. CopiesAgree
  BY DEF Init, CopiesAgree
<1> QED
  BY <1>1, <1>2, PatientInit DEF SoleInv

(* A sole admin is a patient one.  *)
LEMMA SoleIsPatient == [PatientSteps]_vars => [PatientNext]_vars
BY DEF PatientNext

(* A step that writes no document, adds nothing to the pending list and    *)
(* leaves every handler in its phase, on its order.                        *)
LEMMA SoleUnmoved ==
    ASSUME SoleInv, PatientInv', UNCHANGED backend,
           ToSet(pendingOrderList') \subseteq ToSet(pendingOrderList),
           \A t \in Taps : /\ handler'[t].pc = handler[t].pc
                           /\ handler[t].pc # "unused" =>
                                 /\ handler'[t].target = handler[t].target
                                 /\ handler'[t].kind = handler[t].kind
    PROVE  SoleInv'
<1>1. PendingIsPending'
  BY DEF SoleInv, PendingIsPending, OrderOf, backend, Writing
<1>2. UserCopyWritten'
  BY DEF SoleInv, UserCopyWritten, OrderOf, backend
<1>3. CopiesAgree'
  BY DEF SoleInv, CopiesAgree, OrderOf, backend
<1> QED
  BY <1>1, <1>2, <1>3 DEF SoleInv

(* The objects of the pending list stand for different orders.  *)
LEMMA PendingOrders ==
    ASSUME BoardInv, NEW x \in ToSet(pendingOrderList), NEW y \in ToSet(pendingOrderList),
           x[1] = y[1]
    PROVE  x = y
<1>1. x \in Objects /\ y \in Objects /\ x[2] = "Pending" /\ y[2] = "Pending"
  BY DEF BoardInv, TypeOK, ToSet, PendingFromQuery
<1> QED
  BY <1>1 DEF Objects

(* Every step of the sole admin keeps it.  *)
LEMMA SoleStep == SoleInv /\ [PatientSteps]_vars => SoleInv'
<1> SUFFICES ASSUME SoleInv, [PatientSteps]_vars PROVE SoleInv'
  OBVIOUS
<1>b. PatientInv /\ PatientInv' /\ BoardInv /\ TypeOK /\ TypeOK'
  BY PatientStep, SoleIsPatient DEF SoleInv, PatientInv, BoardInv
<1>1. CASE Load \/ LoadFails
  <2>1. UNCHANGED <<backend, handler>>
    BY <1>1 DEF Load, LoadFails, LoadCompleted, LoadCancel, LoadPending, LoadDelivery
  <2>2. CASE LoadPending
    <3>1. ToSet(pendingOrderList') = Query("Pending")
      BY <2>2, StatusFacts, LoadedList DEF LoadPending
    <3>2. \A x \in ToSet(pendingOrderList') : orders[x[1]] = "Pending"
      BY <3>1 DEF Query
    <3>3. PendingIsPending' /\ UserCopyWritten' /\ CopiesAgree'
      BY <2>1, <3>2 DEF SoleInv, PendingIsPending, UserCopyWritten, CopiesAgree, OrderOf, backend
    <3> QED
      BY <1>b, <3>3 DEF SoleInv
  <2>3. CASE ~LoadPending
    <3>1. pendingOrderList' = pendingOrderList
      BY <1>1, <2>3 DEF Load, LoadFails, LoadCompleted, LoadCancel, LoadDelivery, lists
    <3> QED
      BY <1>b, <2>1, <3>1, SoleUnmoved
  <2> QED
    BY <2>2, <2>3
<1>2. ASSUME NEW title \in Titles, OpenOrderList(title) PROVE SoleInv'
  BY <1>2, <1>b, SoleUnmoved DEF OpenOrderList, lists
<1>3. CASE LeaveOrderList
  <2>1. \A t \in Taps : /\ handler'[t].pc = handler[t].pc
                        /\ handler[t].pc # "unused" =>
                              /\ handler'[t].target = handler[t].target
                              /\ handler'[t].kind = handler[t].kind
    BY <1>3 DEF LeaveOrderList, Detach, At
  <2> QED
    BY <1>3, <1>b, <2>1, SoleUnmoved DEF LeaveOrderList, lists
<1>4. CASE Rebuild
  <2>1. \A t \in Taps : /\ handler'[t].pc = handler[t].pc
                        /\ handler[t].pc # "unused" =>
                              /\ handler'[t].target = handler[t].target
                              /\ handler'[t].kind = handler[t].kind
    BY <1>4 DEF Rebuild, Detach, At
  <2> QED
    BY <1>4, <1>b, <2>1, SoleUnmoved DEF Rebuild, lists
<1>5. ASSUME NEW i \in DOMAIN cards, ScrollAway(i) PROVE SoleInv'
  <2>1. \A t \in Taps : /\ handler'[t].pc = handler[t].pc
                        /\ handler[t].pc # "unused" =>
                              /\ handler'[t].target = handler[t].target
                              /\ handler'[t].kind = handler[t].kind
    BY <1>5 DEF ScrollAway, Detach, At
  <2> QED
    BY <1>5, <1>b, <2>1, SoleUnmoved DEF ScrollAway, lists
<1>6. ASSUME NEW t \in Taps, Serve(t) PROVE SoleInv'
  <2> DEFINE h == handler[t]
             o == OrderOf(h)
  <2>1. h.pc \in Writing
    BY <1>6 DEF Serve, WriteUserOrder, WriteOrder, WriteFails, Writing
  <2>2. /\ o \in Orders
        /\ Wanted(h.kind) \in Statuses
        /\ h.target \in ToSet(pendingOrderList) /\ o = h.target[1]
        /\ \A u \in Taps \ {t} : handler[u].pc \notin Live
        /\ orders[o] = "Pending"
    BY <1>b, <2>1, StartedHandler, StatusFacts
    DEF Writing, Live, PatientInv, OneAtATime, SoleInv, PendingIsPending, OrderOf
  <2>3. PICK p \in {"adminWrite", "resume", "rejected", "torn"} :
            handler' = [handler EXCEPT ![t] = Goes(h, p)]
    BY <1>6 DEF Serve, WriteUserOrder, WriteOrder, WriteFails
  <2>4. /\ \A u \in Taps \ {t} : handler'[u] = handler[u]
        /\ handler'[t].pc = p
        /\ handler'[t].target = h.target /\ handler'[t].kind = h.kind
    BY <1>b, <2>3 DEF TypeOK, Goes, At
  <2>5. UNCHANGED lists
    BY <1>6 DEF Serve, WriteUserOrder, WriteOrder, WriteFails
  <2>6. CASE WriteUserOrder(t)
    <3>1. /\ h.pc = "userWrite" /\ p = "adminWrite"
          /\ userOrders' = [userOrders EXCEPT ![o] = Wanted(h.kind)]
          /\ orders' = orders
      BY <2>4, <2>6, <1>b DEF WriteUserOrder, Goes, At, TypeOK
    <3>2. PendingIsPending'
      BY <2>1, <2>2, <2>4, <2>5, <3>1
      DEF SoleInv, PendingIsPending, OrderOf, Writing, Stray, Live, lists
    <3>3. UserCopyWritten'
      <4> SUFFICES ASSUME NEW u \in Taps, handler'[u].pc = "adminWrite"
                   PROVE  userOrders'[OrderOf(handler'[u])] = Wanted(handler'[u].kind)
        BY DEF UserCopyWritten, OrderOf, Wanted
      <4>1. u = t
        BY <2>2, <2>4 DEF Live, Writing
      <4>2. OrderOf(handler'[u]) = o /\ handler'[u].kind = h.kind
        BY <2>4, <4>1 DEF OrderOf
      <4> HIDE DEF o, h
      <4>3. userOrders'[o] = Wanted(h.kind)
        BY <1>b, <2>2, <3>1 DEF TypeOK
      <4> QED
        BY <4>2, <4>3
    <3>4. CopiesAgree'
      <4> SUFFICES ASSUME NEW q \in Orders, userOrders'[q] # orders'[q]
                   PROVE  \E u \in Taps : /\ handler'[u].pc \in {"adminWrite", "torn"}
                                          /\ OrderOf(handler'[u]) = q
        BY DEF CopiesAgree, OrderOf
      <4>1. CASE q = o
        BY <2>4, <3>1, <4>1 DEF OrderOf
      <4>2. CASE q # o
        <5>1. userOrders[q] # orders[q]
          <6> HIDE DEF o
          <6> QED
            BY <1>b, <2>2, <3>1, <4>2 DEF TypeOK
        <5>2. PICK u \in Taps : /\ handler[u].pc \in {"adminWrite", "torn"}
                                /\ OrderOf(handler[u]) = q
          BY <5>1 DEF SoleInv, CopiesAgree
        <5>3. u # t
          BY <4>2, <5>2
        <5> QED
          BY <2>4, <5>2, <5>3
      <4> QED
        BY <4>1, <4>2
    <3> QED
      BY <1>b, <3>2, <3>3, <3>4 DEF SoleInv
  <2>7. CASE WriteOrder(t)
    <3>1. /\ h.pc = "adminWrite" /\ p = "resume"
          /\ orders' = [orders EXCEPT ![o] = Wanted(h.kind)]
          /\ userOrders' = userOrders
      BY <2>4, <2>7, <1>b DEF WriteOrder, Goes, At, TypeOK
    <3>2. ASSUME NEW x \in ToSet(pendingOrderList)
          PROVE  orders'[x[1]] = "Pending"
                 \/ \E u \in Taps : handler'[u].pc = "resume" /\ handler'[u].target = x
      <4>1. CASE x[1] = o
        <5>1. x = h.target
          BY <1>b, <2>2, <4>1, PendingOrders
        <5> QED
          BY <2>4, <3>1, <5>1
      <4>2. CASE x[1] # o
        <5>1. x[1] \in Orders
          BY <1>b DEF TypeOK, ToSet, Objects
        <5>2. orders[x[1]] = "Pending"
          BY <2>1, <2>2 DEF SoleInv, PendingIsPending, Live, Writing
        <5> QED
          BY <1>b, <3>1, <4>2, <5>1, <5>2 DEF TypeOK
      <4> QED
        BY <4>1, <4>2
    <3>3. PendingIsPending'
      BY <2>2, <2>4, <2>5, <3>1, <3>2
      DEF SoleInv, PendingIsPending, OrderOf, Writing, Stray, Live, lists
    <3>4. UserCopyWritten'
      BY <2>2, <2>4, <3>1 DEF UserCopyWritten, OrderOf, Live, Writing
    <3>5. userOrders[o] = Wanted(h.kind)
      BY <3>1 DEF SoleInv, UserCopyWritten
    <3>6. CopiesAgree'
      <4> SUFFICES ASSUME NEW q \in Orders, userOrders'[q] # orders'[q]
                   PROVE  \E u \in Taps : /\ handler'[u].pc \in {"adminWrite", "torn"}
                                          /\ OrderOf(handler'[u]) = q
        BY DEF CopiesAgree, OrderOf
      <4>1. q # o /\ userOrders[q] # orders[q]
        BY <1>b, <2>2, <3>1, <3>5 DEF TypeOK
      <4>2. PICK u \in Taps : /\ handler[u].pc \in {"adminWrite", "torn"}
                              /\ OrderOf(handler[u]) = q
        BY <4>1 DEF SoleInv, CopiesAgree
      <4>3. u # t
        BY <4>1, <4>2
      <4> QED
        BY <2>4, <4>2, <4>3
    <3> QED
      BY <1>b, <3>3, <3>4, <3>6 DEF SoleInv
  <2>8. CASE WriteFails(t)
    <3>1. /\ p = IF h.pc = "userWrite" THEN "rejected" ELSE "torn"
          /\ UNCHANGED backend
      BY <2>4, <2>8, <1>b DEF WriteFails, Goes, At, TypeOK
    <3>2. PendingIsPending'
      BY <2>1, <2>2, <2>4, <2>5, <3>1
      DEF SoleInv, PendingIsPending, OrderOf, Writing, Stray, Live, lists, backend
    <3>3. UserCopyWritten'
      BY <2>2, <2>4, <3>1 DEF SoleInv, UserCopyWritten, OrderOf, backend
    <3>4. CopiesAgree'
      BY <2>1, <2>4, <3>1 DEF SoleInv, CopiesAgree, OrderOf, Writing, backend
    <3> QED
      BY <1>b, <3>2, <3>3, <3>4 DEF SoleInv
  <2> QED
    BY <1>6, <2>6, <2>7, <2>8 DEF Serve
<1>7. ASSUME NEW t \in Taps, StrayWrite(t) PROVE SoleInv'
  BY <1>7 DEF StrayWrite, SoleInv, PendingIsPending, Stray
<1>8. ASSUME NEW t \in Taps, Finish(t) PROVE SoleInv'
  <2> DEFINE x == handler[t].cur
  <2>1. handler[t].pc = "resume" /\ UNCHANGED backend
        /\ handler' = [handler EXCEPT ![t] = At(handler[t], "done", 0, handler[t].cur)]
    BY <1>8 DEF Finish, ResumeSend, ResumeCancelPending, ResumeCancelDelivery, Resume
  <2>2. /\ x = handler[t].target
        /\ handler[t].kind # "cancelDelivery"
        /\ \A u \in Taps \ {t} : handler[u].pc \notin Live
    BY <1>b, <2>1 DEF PatientInv, OneAtATime, Live
  <2>3. /\ \A u \in Taps \ {t} : handler'[u] = handler[u]
        /\ handler'[t].pc = "done"
    BY <1>b, <2>1 DEF TypeOK, At
  <2>4. pendingOrderList' = RemoveFirst(pendingOrderList, x)
    BY <1>8, <2>2 DEF Finish, ResumeSend, ResumeCancelPending, ResumeCancelDelivery, Resume,
                      UpdatePendingOrder, UpdateCancelPendingOrder
  <2> HIDE DEF x
  <2>5. ToSet(pendingOrderList') \subseteq ToSet(pendingOrderList) \ {x}
    BY <1>b, <2>4, RemoveFacts DEF TypeOK, BoardInv, PendingExclusive
  <2>6. PendingIsPending'
    BY <2>1, <2>2, <2>3, <2>5
    DEF SoleInv, PendingIsPending, OrderOf, Writing, Stray, Live, backend
  <2>7. UserCopyWritten' /\ CopiesAgree'
    BY <2>1, <2>3 DEF SoleInv, UserCopyWritten, CopiesAgree, OrderOf, backend
  <2> QED
    BY <1>b, <2>6, <2>7 DEF SoleInv
<1>9. ASSUME NEW t \in Taps, Quiet, Tap(t) PROVE SoleInv'
  <2>1. PICK x \in ToSet(pendingOrderList), n \in Nat, kind \in {"send", "cancelPending"} :
              handler' = [handler EXCEPT ![t] =
                  [pc |-> "userWrite", kind |-> kind, target |-> x,
                   slot |-> n, cur |-> x]]
    BY <1>9, <1>b, QuietTap
  <2>2. UNCHANGED <<lists, backend>> /\ handler[t].pc = "unused"
    BY <1>9 DEF Tap, TapSend, TapCancel, Start, Unused
  <2>3. /\ handler'[t].pc = "userWrite" /\ handler'[t].target = x
        /\ \A u \in Taps \ {t} : handler'[u] = handler[u]
    BY <1>b, <2>1 DEF TypeOK
  <2>4. \A u \in Taps : handler[u].pc \notin Live
    BY <1>9 DEF Quiet
  <2>5. orders[x[1]] = "Pending"
    BY <2>4 DEF SoleInv, PendingIsPending, Live
  <2>6. PendingIsPending'
    BY <2>2, <2>3, <2>4, <2>5
    DEF SoleInv, PendingIsPending, OrderOf, Writing, Stray, Live, lists, backend
  <2>7. UserCopyWritten' /\ CopiesAgree'
    BY <2>2, <2>3 DEF SoleInv, UserCopyWritten, CopiesAgree, OrderOf, backend
  <2> QED
    BY <1>b, <2>6, <2>7 DEF SoleInv
<1>10. CASE Quiet /\ Restart
  <2>1. \A t \in Taps : handler'[t] = handler[t]
    BY <1>10 DEF Quiet, Restart
  <2>2. ToSet(pendingOrderList') = {} /\ UNCHANGED backend
    BY <1>10, EmptyFacts DEF Restart
  <2> QED
    BY <1>b, <2>1, <2>2, SoleUnmoved
<1>11. CASE UNCHANGED vars
  BY <1>11, <1>b, SoleUnmoved DEF vars, lists
<1> QED
  BY <1>1, <1>2, <1>3, <1>4, <1>5, <1>6, <1>7, <1>8, <1>9, <1>10, <1>11
  DEF PatientSteps, Ongoing

(* What the documents keep for a patient admin nobody interferes with.  *)
LEMMA SoleInvariant == SoleSpec => []SoleInv
BY SoleInit, SoleStep, PTL DEF SoleSpec

(* With a sole, patient admin the two documents of an order disagree only  *)
(* while updateOrder is between its two writes, or after it was stopped    *)
(* there by a rejected second write.                                       *)
THEOREM CopiesDoAgree == SoleSpec => []CopiesAgree
<1>1. SoleInv => CopiesAgree
  BY DEF SoleInv
<1> QED
  BY <1>1, SoleInvariant, PTL

(* The panel of a sole, patient admin implements the ledger: it changes an *)
(* order's status only from "Pending", to "Delivery" or "Cancel".          *)
THEOREM LedgerIsFollowed == SoleSpec => FollowsLedger
<1>1. Init => Ledger!Init
  BY DEF Init, Ledger!Init, Statuses
<1>2. SoleInv /\ [PatientSteps]_vars => [Ledger!Next]_orders
  <2> SUFFICES ASSUME SoleInv, PatientSteps, orders' # orders
               PROVE  Ledger!Next
    BY DEF vars, backend
  <2>1. PICK t \in Taps : WriteOrder(t) \/ StrayWrite(t)
    BY DEF PatientSteps, Ongoing, Load, LoadFails, LoadCompleted, LoadCancel, LoadPending,
           LoadDelivery, OpenOrderList, LeaveOrderList, Rebuild, ScrollAway, Serve,
           WriteUserOrder, WriteFails, Finish, ResumeSend, ResumeCancelPending,
           ResumeCancelDelivery, Resume, Tap, TapSend, TapCancel, Start, Restart, backend
  <2>2. WriteOrder(t)
    BY <2>1 DEF StrayWrite, SoleInv, PendingIsPending, Stray
  <2>3. orders[OrderOf(handler[t])] = "Pending"
    BY <2>2 DEF WriteOrder, SoleInv, PendingIsPending, Writing
  <2>4. /\ OrderOf(handler[t]) \in Orders
        /\ Wanted(handler[t].kind) \in {"Delivery", "Cancel"}
    BY <2>2, StartedHandler DEF WriteOrder, SoleInv, PatientInv, BoardInv
  <2>5. Ledger!Moves("Pending") = {"Delivery", "Cancel"}
    BY DEF Ledger!Moves
  <2>6. Ledger!Advance(OrderOf(handler[t]))
    BY <2>2, <2>3, <2>4, <2>5 DEF WriteOrder, Ledger!Advance
  <2> QED
    BY <2>4, <2>6 DEF Ledger!Next
<1> QED
  BY <1>1, <1>2, SoleInvariant, PTL DEF SoleSpec, FollowsLedger, Ledger!Spec

-----------------------------------------------------------------------------
(* For the sole admin: once loaded, a list holds the orders with its       *)
(* status in "orders", except that an order whose handler has written and  *)
(* not resumed is still pending.                                           *)
Loaded(s) ==
    \/ loading = "Ready"
    \/ s = "Completed" /\ loading \in {"Cancel", "Pending", "Delivery"}
    \/ s = "Cancel" /\ loading \in {"Pending", "Delivery"}
    \/ s = "Pending" /\ loading = "Delivery"

ListedUnder(o, s) == \E x \in ToSet(GetOrderList(s)) : x[1] = o
ResumesOn(o) == \E t \in Taps : handler[t].pc = "resume" /\ OrderOf(handler[t]) = o

ListsMirror ==
    \A o \in Orders, s \in Stored : Loaded(s) =>
        (ListedUnder(o, s) <=> IF ResumesOn(o) THEN s = "Pending" ELSE orders[o] = s)

(* Before it resumes a handler has written the status it was to write.  *)
OrderWritten ==
    \A t \in Taps : handler[t].pc = "resume" =>
        orders[OrderOf(handler[t])] = Wanted(handler[t].kind)

MirrorInv == ListsMirror /\ OrderWritten

(* Which list belongs to a status, before and after a step.  *)
LEMMA ListOf ==
    /\ GetOrderList("Pending") = pendingOrderList /\ GetOrderList("Delivery") = deliveryOrdersList
    /\ GetOrderList("Cancel") = cancelOrderList /\ GetOrderList("Completed") = completedOrderList
    /\ GetOrderList("Pending")' = pendingOrderList'
    /\ GetOrderList("Delivery")' = deliveryOrdersList'
    /\ GetOrderList("Cancel")' = cancelOrderList'
    /\ GetOrderList("Completed")' = completedOrderList'
<1>1. /\ GetOrderList("Pending") = pendingOrderList /\ GetOrderList("Delivery") = deliveryOrdersList
      /\ GetOrderList("Cancel") = cancelOrderList /\ GetOrderList("Completed") = completedOrderList
  BY DEF GetOrderList
<1>2. /\ GetOrderList("Pending")' = pendingOrderList'
      /\ GetOrderList("Delivery")' = deliveryOrdersList'
      /\ GetOrderList("Cancel")' = cancelOrderList'
      /\ GetOrderList("Completed")' = completedOrderList'
  BY DEF GetOrderList
<1> QED
  BY <1>1, <1>2

(* The four lists as sets, before and after a step.  *)
LEMMA ListedFacts ==
    ASSUME NEW o
    PROVE  /\ ListedUnder(o, "Pending") <=> \E x \in ToSet(pendingOrderList) : x[1] = o
           /\ ListedUnder(o, "Delivery") <=> \E x \in ToSet(deliveryOrdersList) : x[1] = o
           /\ ListedUnder(o, "Cancel") <=> \E x \in ToSet(cancelOrderList) : x[1] = o
           /\ ListedUnder(o, "Completed") <=> \E x \in ToSet(completedOrderList) : x[1] = o
           /\ ListedUnder(o, "Pending")' <=> \E x \in ToSet(pendingOrderList') : x[1] = o
           /\ ListedUnder(o, "Delivery")' <=> \E x \in ToSet(deliveryOrdersList') : x[1] = o
           /\ ListedUnder(o, "Cancel")' <=> \E x \in ToSet(cancelOrderList') : x[1] = o
           /\ ListedUnder(o, "Completed")' <=> \E x \in ToSet(completedOrderList') : x[1] = o
BY ListOf DEF ListedUnder

(* A step that writes no order, changes no list and lets nobody begin or   *)
(* cease to wait for its continuation.                                     *)
LEMMA MirrorUnmoved ==
    ASSUME MirrorInv, UNCHANGED <<orders, lists, loading>>,
           \A t \in Taps : /\ handler'[t].pc = "resume" <=> handler[t].pc = "resume"
                           /\ handler[t].pc = "resume" =>
                                 /\ handler'[t].target = handler[t].target
                                 /\ handler'[t].kind = handler[t].kind
    PROVE  MirrorInv'
<1>1. \A o : ResumesOn(o)' <=> ResumesOn(o)
  BY DEF ResumesOn, OrderOf
<1>2. \A o : \A s \in Stored : ListedUnder(o, s)' <=> ListedUnder(o, s)
  BY ListedFacts, StatusFacts DEF lists
<1>3. \A s : Loaded(s)' <=> Loaded(s)
  BY DEF Loaded
<1>4. ListsMirror'
  BY <1>1, <1>2, <1>3 DEF MirrorInv, ListsMirror
<1>5. OrderWritten'
  BY DEF MirrorInv, OrderWritten, OrderOf
<1> QED
  BY <1>4, <1>5 DEF MirrorInv

(* A query's list holds the orders with its status.  *)
LEMMA LoadMirrors ==
    ASSUME NEW s \in Stored, NEW list \in SetToSeqs(Query(s)), NEW o \in Orders
    PROVE  orders[o] = s <=> \E x \in ToSet(list) : x[1] = o
<1>1. ToSet(list) = Query(s)
  BY LoadedList
<1>2. orders[o] = s => <<o, s>> \in Query(s) /\ <<o, s>>[1] = o
  BY DEF Query
<1>3. ASSUME NEW x \in Query(s) PROVE orders[x[1]] = s
  <2>1. PICK p \in Orders : orders[p] = s /\ x = <<p, s>>
    BY <1>3 DEF Query
  <2> QED
    BY <2>1
<1> QED
  BY <1>1, <1>2, <1>3

(* The load steps.  *)
LEMMA MirrorLoad ==
    ASSUME SoleInv, MirrorInv, Load \/ LoadFails PROVE MirrorInv'
<1>1. /\ loading # "Ready" /\ UNCHANGED <<orders, handler>>
      /\ \A t \in Taps : handler[t].pc # "resume"
  <2>1. loading # "Ready" /\ UNCHANGED <<orders, handler>>
    BY DEF Load, LoadFails, LoadCompleted, LoadCancel, LoadPending, LoadDelivery, LoadSteps, backend
  <2> QED
    BY <2>1 DEF SoleInv, PatientInv, BoardInv, LoadPhase, Live
<1>2. (\A o : ~ResumesOn(o) /\ ~ResumesOn(o)') /\ OrderWritten'
  BY <1>1 DEF ResumesOn, OrderWritten
<1>3. \A o \in Orders, s \in Stored : Loaded(s) => (ListedUnder(o, s) <=> orders[o] = s)
  BY <1>2 DEF MirrorInv, ListsMirror
<1>4. \A s : s \in Stored <=> s \in {"Pending", "Delivery", "Cancel", "Completed"}
  BY StatusFacts
<1>5. ASSUME NEW o \in Orders, NEW s \in Stored, Loaded(s)'
      PROVE  ListedUnder(o, s)' <=> orders[o] = s
  <2>1. CASE LoadCompleted
    <3>1. s = "Completed" /\ completedOrderList' \in SetToSeqs(Query("Completed"))
      BY <1>5, <2>1 DEF LoadCompleted, Loaded
    <3> QED
      BY <3>1, LoadMirrors, ListedFacts
  <2>2. CASE LoadCancel
    <3>1. /\ s = "Cancel" \/ (s = "Completed" /\ Loaded(s))
          /\ cancelOrderList' \in SetToSeqs(Query("Cancel"))
          /\ completedOrderList' = completedOrderList
      BY <1>5, <2>2 DEF LoadCancel, Loaded
    <3> QED
      BY <1>3, <1>4, <3>1, LoadMirrors, ListedFacts
  <2>3. CASE LoadPending
    <3>1. /\ s = "Pending" \/ (s \in {"Completed", "Cancel"} /\ Loaded(s))
          /\ pendingOrderList' \in SetToSeqs(Query("Pending"))
          /\ UNCHANGED <<completedOrderList, cancelOrderList>>
      BY <1>5, <2>3 DEF LoadPending, Loaded
    <3> QED
      BY <1>3, <1>4, <3>1, LoadMirrors, ListedFacts
  <2>4. CASE LoadDelivery
    <3>1. /\ s = "Delivery" \/ (s \in {"Completed", "Cancel", "Pending"} /\ Loaded(s))
          /\ deliveryOrdersList' \in SetToSeqs(Query("Delivery"))
          /\ UNCHANGED <<completedOrderList, cancelOrderList, pendingOrderList>>
      BY <1>4, <1>5, <2>4 DEF LoadDelivery, Loaded
    <3> QED
      BY <1>3, <1>4, <3>1, LoadMirrors, ListedFacts
  <2>5. CASE LoadFails
    BY <1>5, <2>5 DEF LoadFails, Loaded
  <2> QED
    BY <2>1, <2>2, <2>3, <2>4, <2>5 DEF Load
<1> QED
  BY <1>1, <1>2, <1>5 DEF MirrorInv, ListsMirror

(* The handler of a step is the only one that runs, on a pending order.  *)
LEMMA SoleHandler ==
    ASSUME SoleInv, NEW t \in Taps, handler[t].pc \in Live
    PROVE  /\ loading = "Ready"
           /\ handler[t] \in Handlers /\ OrderOf(handler[t]) \in Orders
           /\ handler[t].target \in Objects
           /\ handler[t].cur = handler[t].target
           /\ handler[t].target \in ToSet(pendingOrderList)
           /\ handler[t].kind \in {"send", "cancelPending"}
           /\ Wanted(handler[t].kind) = IF handler[t].kind = "send" THEN "Delivery" ELSE "Cancel"
           /\ \A u \in Taps \ {t} : handler[u].pc \notin Live
<1>1. handler[t].pc # "unused"
  BY DEF Live, Writing
<1>2. handler[t] \in Handlers /\ handler[t].target \in Objects /\ OrderOf(handler[t]) \in Orders
      /\ handler[t].kind \in Kinds
  BY <1>1, StartedHandler DEF SoleInv, PatientInv, BoardInv, Handlers, Objects, OrderOf
<1> QED
  BY <1>2 DEF SoleInv, PatientInv, BoardInv, LoadPhase, OneAtATime, Kinds, Wanted

(* The second write: the order is still listed as pending.  *)
LEMMA MirrorWrite ==
    ASSUME SoleInv, MirrorInv, NEW t \in Taps, WriteOrder(t) PROVE MirrorInv'
<1> DEFINE o == OrderOf(handler[t])
<1>1. handler[t].pc = "adminWrite" /\ handler[t].pc \in Live
  BY DEF WriteOrder, Live, Writing
<1>2. /\ o \in Orders /\ \A u \in Taps \ {t} : handler[u].pc \notin Live
      /\ orders[o] = "Pending"
  BY <1>1, SoleHandler DEF SoleInv, PendingIsPending, Writing
<1>3. /\ handler'[t].pc = "resume" /\ handler'[t].target = handler[t].target
      /\ handler'[t].kind = handler[t].kind
      /\ \A u \in Taps \ {t} : handler'[u] = handler[u]
  BY DEF WriteOrder, Goes, At, SoleInv, PatientInv, BoardInv, TypeOK
<1>4. /\ orders'[o] = Wanted(handler[t].kind)
      /\ \A p \in Orders \ {o} : orders'[p] = orders[p]
      /\ UNCHANGED <<lists, loading>>
  BY <1>2 DEF WriteOrder, SoleInv, PatientInv, BoardInv, TypeOK
<1>5. \A p : ~ResumesOn(p) /\ (ResumesOn(p)' <=> p = o)
  BY <1>1, <1>2, <1>3 DEF ResumesOn, Live, OrderOf
<1>6. \A p : \A s \in Stored : /\ ListedUnder(p, s)' <=> ListedUnder(p, s)
                               /\ Loaded(s)' <=> Loaded(s)
  BY <1>4, ListedFacts, StatusFacts DEF lists, Loaded
<1>7. OrderWritten'
  BY <1>1, <1>2, <1>3, <1>4 DEF OrderWritten, OrderOf, Live
<1> HIDE DEF o
<1>8. ListsMirror'
  BY <1>2, <1>4, <1>5, <1>6 DEF MirrorInv, ListsMirror
<1> QED
  BY <1>7, <1>8 DEF MirrorInv

(* The rest of the handler moves the order where the write put it.  *)
LEMMA MirrorFinish ==
    ASSUME SoleInv, MirrorInv, NEW t \in Taps, Finish(t) PROVE MirrorInv'
<1> DEFINE x == handler[t].cur
           o == x[1]
<1>1. handler[t].pc = "resume" /\ handler[t].pc \in Live
  BY DEF Finish, ResumeSend, ResumeCancelPending, ResumeCancelDelivery, Resume, Live
<1>2. /\ o \in Orders /\ x \in Objects /\ x \in ToSet(pendingOrderList) /\ o = OrderOf(handler[t])
      /\ \A u \in Taps \ {t} : handler[u].pc \notin Live
      /\ orders[o] = Wanted(handler[t].kind)
      /\ handler[t].kind \in {"send", "cancelPending"}
      /\ Wanted(handler[t].kind) = IF handler[t].kind = "send" THEN "Delivery" ELSE "Cancel"
      /\ loading = "Ready"
  BY <1>1, SoleHandler DEF MirrorInv, OrderWritten, OrderOf
<1>3. UNCHANGED <<orders, loading, completedOrderList>>
  BY DEF Finish, ResumeSend, ResumeCancelPending, ResumeCancelDelivery, Resume, backend,
         UpdatePendingOrder, UpdateCancelPendingOrder, UpdateCancelDeliveryOrder
<1>4. \A u \in Taps : handler'[u].pc # "resume"
  <2>1. handler' = [handler EXCEPT ![t] = At(handler[t], "done", 0, handler[t].cur)]
    BY DEF Finish, ResumeSend, ResumeCancelPending, ResumeCancelDelivery, Resume
  <2> QED
    BY <1>2, <2>1 DEF SoleInv, PatientInv, BoardInv, TypeOK, At, Live
<1>5. (\A p : ~ResumesOn(p)' /\ (ResumesOn(p) <=> p = o)) /\ OrderWritten'
  BY <1>1, <1>2, <1>4 DEF ResumesOn, OrderWritten, Live
<1>6. \A p \in Orders, s \in Stored :
         ListedUnder(p, s) <=> IF p = o THEN s = "Pending" ELSE orders[p] = s
  BY <1>2, <1>5 DEF MirrorInv, ListsMirror, Loaded
<1> HIDE DEF x
<1>7. \A y \in ToSet(pendingOrderList) : y[1] = o => y = x
  BY <1>2, PendingOrders DEF SoleInv, PatientInv
<1>8. /\ pendingOrderList \in Seq(Objects) /\ IsInjective(pendingOrderList)
      /\ deliveryOrdersList \in Seq(Objects) /\ cancelOrderList \in Seq(Objects)
  BY DEF SoleInv, PatientInv, BoardInv, TypeOK, PendingExclusive
<1>9. ToSet(RemoveFirst(pendingOrderList, x)) = ToSet(pendingOrderList) \ {x}
  BY <1>8, RemoveFacts
<1>10. pendingOrderList' = RemoveFirst(pendingOrderList, x)
  BY <1>2 DEF Finish, ResumeSend, ResumeCancelPending, ResumeCancelDelivery, Resume,
              UpdatePendingOrder, UpdateCancelPendingOrder, x
<1>11. \A p \in Orders : ListedUnder(p, "Pending")' <=> ListedUnder(p, "Pending") /\ p # o
  BY <1>7, <1>9, <1>10, ListedFacts
<1>12. \A p \in Orders : ListedUnder(p, "Completed")' <=> ListedUnder(p, "Completed")
  BY <1>3, ListedFacts
<1>13. CASE handler[t].kind = "send"
  <2>1. deliveryOrdersList' = Append(deliveryOrdersList, x) /\ cancelOrderList' = cancelOrderList
    BY <1>13 DEF Finish, ResumeSend, ResumeCancelPending, ResumeCancelDelivery, Resume,
                 UpdatePendingOrder, x
  <2>2. ToSet(deliveryOrdersList') = ToSet(deliveryOrdersList) \cup {x}
    BY <1>2, <1>8, <2>1, AddFacts
  <2>3. \A p \in Orders :
           /\ ListedUnder(p, "Delivery")' <=> ListedUnder(p, "Delivery") \/ p = o
           /\ ListedUnder(p, "Cancel")' <=> ListedUnder(p, "Cancel")
    BY <2>1, <2>2, ListedFacts
  <2> HIDE DEF o
  <2> QED
    BY <1>2, <1>3, <1>5, <1>6, <1>11, <1>12, <1>13, <2>3, StatusFacts DEF MirrorInv, ListsMirror
<1>14. CASE handler[t].kind = "cancelPending"
  <2>1. cancelOrderList' = Append(cancelOrderList, x) /\ deliveryOrdersList' = deliveryOrdersList
    BY <1>14 DEF Finish, ResumeSend, ResumeCancelPending, ResumeCancelDelivery, Resume,
                 UpdateCancelPendingOrder, x
  <2>2. ToSet(cancelOrderList') = ToSet(cancelOrderList) \cup {x}
    BY <1>2, <1>8, <2>1, AddFacts
  <2>3. \A p \in Orders :
           /\ ListedUnder(p, "Cancel")' <=> ListedUnder(p, "Cancel") \/ p = o
           /\ ListedUnder(p, "Delivery")' <=> ListedUnder(p, "Delivery")
    BY <2>1, <2>2, ListedFacts
  <2> HIDE DEF o
  <2> QED
    BY <1>2, <1>3, <1>5, <1>6, <1>11, <1>12, <1>14, <2>3, StatusFacts DEF MirrorInv, ListsMirror
<1> QED
  BY <1>2, <1>13, <1>14

(* Every step of the sole admin keeps the lists where the documents are.  *)
LEMMA MirrorStep ==
    ASSUME SoleInv, MirrorInv, [PatientSteps]_vars PROVE MirrorInv'
<1>1. ASSUME NEW title \in Titles, OpenOrderList(title) PROVE MirrorInv'
  BY <1>1, MirrorUnmoved DEF OpenOrderList, backend
<1>2. CASE LeaveOrderList \/ Rebuild \/ \E i \in DOMAIN cards : ScrollAway(i)
  <2>1. UNCHANGED <<orders, lists, loading>>
    BY <1>2 DEF LeaveOrderList, Rebuild, ScrollAway, backend
  <2>2. \A t \in Taps : /\ handler'[t].pc = handler[t].pc
                        /\ handler[t].pc \in Live => /\ handler'[t].target = handler[t].target
                                                     /\ handler'[t].kind = handler[t].kind
    BY <1>2 DEF LeaveOrderList, Rebuild, ScrollAway, Detach, At
  <2> QED
    BY <2>1, <2>2, MirrorUnmoved DEF Live
<1>3. ASSUME NEW t \in Taps, WriteUserOrder(t) \/ WriteFails(t) PROVE MirrorInv'
  <2>1. PICK p \in {"adminWrite", "rejected", "torn"} :
           handler' = [handler EXCEPT ![t] = Goes(handler[t], p)]
    BY <1>3 DEF WriteUserOrder, WriteFails
  <2>2. /\ UNCHANGED <<orders, lists, loading>>
        /\ handler[t].pc # "resume"
    BY <1>3 DEF WriteUserOrder, WriteFails, backend, Writing
  <2>3. handler'[t].pc # "resume" /\ \A u \in Taps \ {t} : handler'[u] = handler[u]
    BY <2>1 DEF SoleInv, PatientInv, BoardInv, TypeOK, Goes, At
  <2> QED
    BY <2>2, <2>3, MirrorUnmoved
<1>4. ASSUME NEW t \in Taps, StrayWrite(t) PROVE MirrorInv'
  BY <1>4 DEF StrayWrite, SoleInv, PendingIsPending, Stray
<1>5. ASSUME NEW t \in Taps, Tap(t) PROVE MirrorInv'
  <2>1. /\ UNCHANGED <<orders, lists, loading>>
        /\ handler[t].pc # "resume" /\ handler'[t].pc # "resume"
        /\ \A u \in Taps \ {t} : handler'[u] = handler[u]
    BY <1>5 DEF Tap, TapSend, TapCancel, Start, backend, Unused, SoleInv, PatientInv, BoardInv, TypeOK
  <2> QED
    BY <2>1, MirrorUnmoved
<1>6. CASE Quiet /\ Restart
  <2>1. \A s : ~Loaded(s)'
    BY <1>6 DEF Restart, Loaded
  <2>2. \A t \in Taps : handler'[t].pc # "resume"
    BY <1>6 DEF Restart, Quiet, Live
  <2> QED
    BY <2>1, <2>2 DEF MirrorInv, ListsMirror, OrderWritten
<1>7. CASE UNCHANGED vars
  BY <1>7, MirrorUnmoved DEF vars, backend
<1> QED
  BY <1>1, <1>2, <1>3, <1>4, <1>5, <1>6, <1>7, MirrorLoad, MirrorWrite, MirrorFinish
  DEF PatientSteps, Ongoing, Serve

(* With a sole, patient admin the four lists are, once loaded, the         *)
(* documents of "orders" sorted by status, but for an order whose handler  *)
(* has not resumed yet: rejected and torn writes, restarts and reloads     *)
(* included.                                                               *)
THEOREM BoardIsMirrored == SoleSpec => []BoardMirrorsOrders
<1>1. Init => MirrorInv
  <2> SUFFICES ASSUME Init PROVE MirrorInv
    OBVIOUS
  <2>1. (\A s : ~Loaded(s)) /\ \A t \in Taps : handler[t].pc # "resume"
    BY DEF Init, Loaded, Unused
  <2> QED
    BY <2>1 DEF MirrorInv, ListsMirror, OrderWritten
<1>2. SoleInv /\ MirrorInv /\ [PatientSteps]_vars => MirrorInv'
  BY MirrorStep
<1>3. MirrorInv => BoardMirrorsOrders
  <2> SUFFICES ASSUME MirrorInv, loading = "Ready", NEW o \in Orders, NEW s \in Stored,
                      ~ResumesOn(o)
               PROVE  orders[o] = s <=> ListedUnder(o, s)
    BY DEF BoardMirrorsOrders, ResumesOn, ListedUnder
  <2>1. Loaded(s)
    BY DEF Loaded
  <2> QED
    BY <2>1 DEF MirrorInv, ListsMirror
<1> QED
  BY <1>1, <1>2, <1>3, SoleInvariant, PTL DEF SoleSpec
=============================================================================
