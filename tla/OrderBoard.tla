----------------------------- MODULE OrderBoard -----------------------------
(***************************************************************************)
(* The order board of the admin panel: the four order lists AppProvider    *)
(* keeps in memory, the OrderList page with its SingleOrderWidget cards,   *)
(* the asynchronous tap handlers of those cards and the two Firestore      *)
(* documents every order has.                                              *)
(*                                                                         *)
(* Dart runs one event at a time, so every action below is the code        *)
(* between two awaits.  What interleaves are the handlers (a second tap    *)
(* while an earlier one still awaits Firestore), the frames, the answers   *)
(* of the backend, the other clients of that backend, and the process      *)
(* being killed and started again.                                         *)
(***************************************************************************)
EXTENDS Integers, FiniteSets, SequencesExt

CONSTANTS Orders,  \* the orders of the shop (documents of "orders")
          Taps     \* taps of the admin; each is used once (bounds TLC)

ASSUME OrdersFinite == IsFiniteSet(Orders)

VARIABLES
    userOrders,          \* status in "user orders"/{userId}/"orders"/{o}
    orders,              \* status in "orders"/{o}
    completedOrderList, cancelOrderList,      \* the lists of AppProvider
    pendingOrderList, deliveryOrdersList,
    status,              \* OrderModel.status, a mutable field per object
    loading,             \* the query getData/callBackFunction waits for
    screen,              \* "Home", or the title of the OrderList on top
    cards,               \* what the last frame drew on that OrderList
    dirty,               \* notifyListeners was called since that frame
    handler              \* the tap handlers, running and finished

backend == <<userOrders, orders>>
lists   == <<completedOrderList, cancelOrderList, pendingOrderList,
             deliveryOrdersList>>
page    == <<screen, cards, dirty>>
vars    == <<backend, lists, status, loading, page, handler>>

-----------------------------------------------------------------------------
(* The statuses an order goes through; one not placed yet is "Absent".  *)
Ledger == INSTANCE OrderLedger WITH ledger <- orders

Stored   == Ledger!Stored
Statuses == Ledger!Statuses

(* Each query builds its own OrderModel objects, which have no == of their *)
(* own and are compared by identity: an object is an order together with   *)
(* the query that built it, and that query's status is its first status.   *)
Objects       == Orders \X Stored
FreshStatus   == [x \in Objects |-> x[2]]
Query(s)      == {<<o, s>> : o \in {p \in Orders : orders[p] = s}}

(* callBackFunction asks for the lists in this order.  Its earlier awaits  *)
(* (users, categories, products) touch nothing of the board.               *)
LoadSteps == {"Completed", "Cancel", "Pending", "Delivery"}

(* The titles HomePage passes to OrderList.  *)
Titles == {"Pending", "Completed Order", "Cancel Order", "Delivered Order"}

(* OrderList.getOrderList  *)
GetOrderList(title) ==
    CASE title = "Pending"   -> pendingOrderList
      [] title = "Completed" -> completedOrderList
      [] title = "Cancel"    -> cancelOrderList
      [] title = "Delivery"  -> deliveryOrdersList
      [] OTHER               -> << >>

(* OrderList.build draws one keyless card per element; a card shows the    *)
(* buttons its object's status calls for at that moment.                   *)
Cards(title) ==
    LET list == GetOrderList(title)
    IN  [i \in 1 .. Len(list) |-> [obj |-> list[i], status |-> status[list[i]]]]

(* A handler is an async closure of a card.  "target" is the object it     *)
(* passed to updateOrder, "slot" the list position of its card (0 once the *)
(* card is disposed) and "cur" what widget.orderModel evaluates to now.    *)
Kinds   == {"send", "cancelPending", "cancelDelivery"}
Writing == {"userWrite", "adminWrite"}
Live    == Writing \cup {"resume"}
Stray   == {"strayUser", "strayAdmin"}
Ended   == {"done", "rejected", "torn", "dead"}

Unused   == [pc |-> "unused"]
Handlers == [pc: Live \cup Stray \cup Ended, kind: Kinds, target: Objects,
             slot: Nat, cur: Objects]

(* Mutants of Wanted: a misspelt status, and the wrong one.  *)
WantedMisspelt(kind) == IF kind = "send" THEN "Delivery" ELSE "Cancelled"
WantedCompleted(kind) == IF kind = "send" THEN "Completed" ELSE "Cancel"

Wanted(kind) == IF kind = "send" THEN "Delivery" ELSE "Cancel"

(* The order a handler writes.  *)
OrderOf(h) == h.target[1]

(* The same handler, in phase p, with its card at position n showing x.    *)
At(h, p, n, x) == [pc |-> p, kind |-> h.kind, target |-> h.target,
                   slot |-> n, cur |-> x]
Goes(h, p)  == At(h, p, h.slot, h.cur)

(* Disposing a card freezes widget.orderModel of the handlers it started.  *)
Detach(h) == IF h.pc \in Live THEN At(h, h.pc, 0, h.cur) ELSE h

-----------------------------------------------------------------------------
Init ==
    /\ orders \in [Orders -> Statuses]
    /\ userOrders = orders
    /\ completedOrderList = << >>
    /\ cancelOrderList = << >>
    /\ pendingOrderList = << >>
    /\ deliveryOrdersList = << >>
    /\ status = FreshStatus
    /\ loading = "Completed"
    /\ screen = "Home"
    /\ cards = << >>
    /\ dirty = FALSE
    /\ handler = [t \in Taps |-> Unused]

-----------------------------------------------------------------------------
(* getData runs callBackFunction behind the spinner: one query at a time,  *)
(* each answered from the documents as they are when it is answered.       *)
LoadCompleted ==
    /\ loading = "Completed"
    /\ completedOrderList' \in SetToSeqs(Query("Completed"))
    /\ loading' = "Cancel"
    /\ UNCHANGED <<backend, cancelOrderList, pendingOrderList,
                   deliveryOrdersList, status, page, handler>>

LoadCancel ==
    /\ loading = "Cancel"
    /\ cancelOrderList' \in SetToSeqs(Query("Cancel"))
    /\ loading' = "Pending"
    /\ UNCHANGED <<backend, completedOrderList, pendingOrderList,
                   deliveryOrdersList, status, page, handler>>

LoadPending ==
    /\ loading = "Pending"
    /\ pendingOrderList' \in SetToSeqs(Query("Pending"))
    /\ loading' = "Delivery"
    /\ UNCHANGED <<backend, completedOrderList, cancelOrderList,
                   deliveryOrdersList, status, page, handler>>

LoadDelivery ==
    /\ loading = "Delivery"
    /\ deliveryOrdersList' \in SetToSeqs(Query("Delivery"))
    /\ loading' = "Ready"
    /\ UNCHANGED <<backend, completedOrderList, cancelOrderList,
                   pendingOrderList, status, page, handler>>

(* No query is guarded: an exception leaves isLoading true for good.  *)
LoadFails ==
    /\ loading \in LoadSteps
    /\ loading' = "Failed"
    /\ UNCHANGED <<backend, lists, status, page, handler>>

-----------------------------------------------------------------------------
OpenOrderList(title) ==
    /\ loading = "Ready"
    /\ screen = "Home"
    /\ screen' = title
    /\ cards' = Cards(title)
    /\ dirty' = FALSE
    /\ UNCHANGED <<backend, lists, status, loading, handler>>

LeaveOrderList ==
    /\ screen # "Home"
    /\ screen' = "Home"
    /\ cards' = << >>
    /\ dirty' = FALSE
    /\ handler' = [t \in Taps |-> Detach(handler[t])]
    /\ UNCHANGED <<backend, lists, status, loading>>

(* A frame.  Elements are matched by position: the card at a position gets *)
(* that position's object, and the handlers it started see it through      *)
(* widget.orderModel; a card beyond the new length is disposed.            *)
Rebuild ==
    /\ dirty
    /\ cards' = Cards(screen)
    /\ dirty' = FALSE
    /\ handler' = [t \in Taps |->
          IF handler[t].pc \in Live /\ handler[t].slot > 0
          THEN IF handler[t].slot \in DOMAIN cards'
               THEN At(handler[t], handler[t].pc, handler[t].slot,
                       cards'[handler[t].slot].obj)
               ELSE Detach(handler[t])
          ELSE handler[t]]
    /\ UNCHANGED <<backend, lists, status, loading, screen>>

(* ListView.builder disposes the card of a position that is scrolled away  *)
(* and builds another when it comes back.                                  *)
ScrollAway(i) ==
    /\ \E t \in Taps : handler[t].pc \in Live /\ handler[t].slot = i
    /\ handler' = [t \in Taps |->
          IF handler[t].pc \in Live /\ handler[t].slot = i
          THEN Detach(handler[t]) ELSE handler[t]]
    /\ UNCHANGED <<backend, lists, status, loading, page>>

-----------------------------------------------------------------------------
(* Mutant of Start: an optimistic update, the list changes before the await. *)
StartOptimistic(t, i, kind) ==
    /\ handler[t] = Unused
    /\ handler' = [handler EXCEPT ![t] =
          [pc |-> "userWrite", kind |-> kind, target |-> cards[i].obj,
           slot |-> i, cur |-> cards[i].obj]]
    /\ pendingOrderList' = RemoveFirst(pendingOrderList, cards[i].obj)
    /\ dirty' = TRUE
    /\ UNCHANGED <<backend, completedOrderList, cancelOrderList,
                   deliveryOrdersList, status, loading, screen, cards>>

(* Both buttons start with updateOrder(widget.orderModel, ...), whose      *)
(* argument is evaluated at the tap.                                       *)
Start(t, i, kind) ==
    /\ handler[t] = Unused
    /\ handler' = [handler EXCEPT ![t] =
          [pc |-> "userWrite", kind |-> kind, target |-> cards[i].obj,
           slot |-> i, cur |-> cards[i].obj]]
    /\ UNCHANGED <<backend, lists, status, loading, page>>

(* "Send to delivery" is drawn on a card whose status was "Pending".  *)
TapSend(t, i) ==
    /\ cards[i].status = "Pending"
    /\ Start(t, i, "send")

(* "Cancel the order" is drawn for "Pending" and "Delivery"; the handler   *)
(* branches on the status the object has now.  The statement               *)
(* `status == "Cancel"` in both branches compares and assigns nothing.     *)
TapCancel(t, i) ==
    /\ cards[i].status \in {"Pending", "Delivery"}
    /\ Start(t, i, IF status[cards[i].obj] = "Pending"
                   THEN "cancelPending" ELSE "cancelDelivery")

(* FirebaseFirestoreHelper.updateOrder: the user's copy, then the shop's.  *)
WriteUserOrder(t) ==
    /\ handler[t].pc = "userWrite"
    /\ userOrders' = [userOrders EXCEPT ![OrderOf(handler[t])] =
                                            Wanted(handler[t].kind)]
    /\ handler' = [handler EXCEPT ![t] = Goes(@, "adminWrite")]
    /\ UNCHANGED <<orders, lists, status, loading, page>>

(* Mutant of WriteOrder: only the user's copy is updated.  *)
WriteOrderForgotten(t) ==
    /\ handler[t].pc = "adminWrite"
    /\ handler' = [handler EXCEPT ![t] = Goes(@, "resume")]
    /\ UNCHANGED <<backend, lists, status, loading, page>>

(* Mutant of WriteOrder: the order is read from the widget again, as the   *)
(* rest of the handler does.                                               *)
WriteOrderRebound(t) ==
    /\ handler[t].pc = "adminWrite"
    /\ orders' = [orders EXCEPT ![handler[t].cur[1]] = Wanted(handler[t].kind)]
    /\ handler' = [handler EXCEPT ![t] = Goes(@, "resume")]
    /\ UNCHANGED <<userOrders, lists, status, loading, page>>

WriteOrder(t) ==
    /\ handler[t].pc = "adminWrite"
    /\ orders' = [orders EXCEPT ![OrderOf(handler[t])] =
                                            Wanted(handler[t].kind)]
    /\ handler' = [handler EXCEPT ![t] = Goes(@, "resume")]
    /\ UNCHANGED <<userOrders, lists, status, loading, page>>

(* Mutant of WriteFails: the error is swallowed, as updateSingleUser does. *)
WriteFailsSwallowed(t) ==
    /\ handler[t].pc \in Writing
    /\ handler' = [handler EXCEPT ![t] =
          Goes(@, IF @.pc = "userWrite" THEN "adminWrite" ELSE "resume")]
    /\ UNCHANGED <<backend, lists, status, loading, page>>

(* A rejected write throws through updateOrder and the handler, which have *)
(* no try: nothing after it runs, and the first write is not undone.       *)
WriteFails(t) ==
    /\ handler[t].pc \in Writing
    /\ handler' = [handler EXCEPT ![t] =
          Goes(@, IF @.pc = "userWrite" THEN "rejected" ELSE "torn")]
    /\ UNCHANGED <<backend, lists, status, loading, page>>

(* Mutant of NotifyListeners: the call is missing.  *)
NotifyNobody == UNCHANGED dirty

(* notifyListeners: the OrderList on top, if any, is due for a frame;      *)
(* HomePage does not listen.                                               *)
NotifyListeners == dirty' = (screen # "Home")

(* Mutant of UpdatePendingOrder: the order stays pending.  *)
UpdatePendingOrderKeeps(x) ==
    /\ deliveryOrdersList' = Append(deliveryOrdersList, x)
    /\ NotifyListeners
    /\ UNCHANGED <<completedOrderList, cancelOrderList, pendingOrderList>>

(* AppProvider.updatePendingOrder  *)
UpdatePendingOrder(x) ==
    /\ deliveryOrdersList' = Append(deliveryOrdersList, x)
    /\ pendingOrderList' = RemoveFirst(pendingOrderList, x)
    /\ NotifyListeners
    /\ UNCHANGED <<completedOrderList, cancelOrderList>>

(* Mutants of UpdateCancelPendingOrder: one of its two list updates only.  *)
UpdateCancelPendingOrderKeeps(x) ==
    /\ cancelOrderList' = Append(cancelOrderList, x)
    /\ NotifyListeners
    /\ UNCHANGED <<completedOrderList, deliveryOrdersList, pendingOrderList>>

UpdateCancelPendingOrderDrops(x) ==
    /\ pendingOrderList' = RemoveFirst(pendingOrderList, x)
    /\ NotifyListeners
    /\ UNCHANGED <<completedOrderList, deliveryOrdersList, cancelOrderList>>

(* AppProvider.updateCancelPendingOrder  *)
UpdateCancelPendingOrder(x) ==
    /\ cancelOrderList' = Append(cancelOrderList, x)
    /\ pendingOrderList' = RemoveFirst(pendingOrderList, x)
    /\ NotifyListeners
    /\ UNCHANGED <<completedOrderList, deliveryOrdersList>>

(* AppProvider.updateCancelDeliveryOrder  *)
UpdateCancelDeliveryOrder(x) ==
    /\ cancelOrderList' = Append(cancelOrderList, x)
    /\ deliveryOrdersList' = RemoveFirst(deliveryOrdersList, x)
    /\ NotifyListeners
    /\ UNCHANGED <<completedOrderList, pendingOrderList>>

(* The end of each handler, after its await: widget.orderModel is read     *)
(* again, and is by now "cur".                                             *)
Resume(t, kind) ==
    /\ handler[t].pc = "resume"
    /\ handler[t].kind = kind
    /\ handler' = [handler EXCEPT ![t] = At(@, "done", 0, @.cur)]
    /\ UNCHANGED <<backend, loading, screen, cards>>

(* Mutant of ResumeSend: "==" for "=", as in the cancel handler.  *)
ResumeSendCompares(t) ==
    /\ Resume(t, "send")
    /\ UpdatePendingOrder(handler[t].cur)
    /\ UNCHANGED status

ResumeSend(t) ==
    /\ Resume(t, "send")
    /\ status' = [status EXCEPT ![handler[t].cur] = "Delivery"]
    /\ UpdatePendingOrder(handler[t].cur)

ResumeCancelPending(t) ==
    /\ Resume(t, "cancelPending")
    /\ UpdateCancelPendingOrder(handler[t].cur)
    /\ UNCHANGED status

(* The closing setState only marks the card for the frame that             *)
(* notifyListeners already asked for.                                      *)
ResumeCancelDelivery(t) ==
    /\ Resume(t, "cancelDelivery")
    /\ UpdateCancelDeliveryOrder(handler[t].cur)
    /\ UNCHANGED status

-----------------------------------------------------------------------------
(* The shop and other clients place, deliver, cancel and complete orders,  *)
(* keeping both documents in step.                                         *)
OtherClient(o) ==
    /\ Ledger!Advance(o)
    /\ userOrders' = [userOrders EXCEPT ![o] = orders'[o]]
    /\ UNCHANGED <<lists, status, loading, page, handler>>

(* The process is killed and opened again: memory is gone and main starts  *)
(* over.  A write already handed to Firestore may still arrive.            *)
Killed(p) == CASE p = "userWrite"  -> "strayUser"
               [] p = "adminWrite" -> "strayAdmin"
               [] p = "resume"     -> "dead"

Restart ==
    /\ completedOrderList' = << >>
    /\ cancelOrderList' = << >>
    /\ pendingOrderList' = << >>
    /\ deliveryOrdersList' = << >>
    /\ status' = FreshStatus
    /\ loading' = "Completed"
    /\ screen' = "Home"
    /\ cards' = << >>
    /\ dirty' = FALSE
    /\ handler' = [t \in Taps |->
          IF handler[t].pc \in Live
          THEN At(handler[t], Killed(handler[t].pc), 0, handler[t].cur)
          ELSE handler[t]]
    /\ UNCHANGED backend

StrayWrite(t) ==
    /\ \/ /\ handler[t].pc = "strayUser"
          /\ userOrders' = [userOrders EXCEPT ![OrderOf(handler[t])] =
                                                  Wanted(handler[t].kind)]
          /\ UNCHANGED orders
       \/ /\ handler[t].pc = "strayAdmin"
          /\ orders' = [orders EXCEPT ![OrderOf(handler[t])] =
                                                  Wanted(handler[t].kind)]
          /\ UNCHANGED userOrders
    /\ handler' = [handler EXCEPT ![t] = Goes(@, "torn")]
    /\ UNCHANGED <<lists, status, loading, page>>

-----------------------------------------------------------------------------
Load == LoadCompleted \/ LoadCancel \/ LoadPending \/ LoadDelivery
Tap(t) == \E i \in DOMAIN cards : TapSend(t, i) \/ TapCancel(t, i)
Serve(t) == WriteUserOrder(t) \/ WriteOrder(t) \/ WriteFails(t)
Finish(t) == ResumeSend(t) \/ ResumeCancelPending(t) \/ ResumeCancelDelivery(t)

(* What goes on by itself, or is harmless at any moment.  *)
Ongoing ==
    \/ Load
    \/ LoadFails
    \/ \E title \in Titles : OpenOrderList(title)
    \/ LeaveOrderList
    \/ Rebuild
    \/ \E i \in DOMAIN cards : ScrollAway(i)
    \/ \E t \in Taps : Serve(t) \/ Finish(t) \/ StrayWrite(t)

Next ==
    \/ Ongoing
    \/ \E t \in Taps : Tap(t)
    \/ Restart
    \/ \E o \in Orders : OtherClient(o)

Spec == Init /\ [][Next]_vars

(* A patient admin taps, and closes the app, only when no handler runs and *)
(* the page has been redrawn.  Nothing in the code makes the admin wait.   *)
Quiet == ~dirty /\ \A t \in Taps : handler[t].pc \notin Live

PatientSteps ==
    \/ Ongoing
    \/ Quiet /\ \E t \in Taps : Tap(t)
    \/ Quiet /\ Restart

PatientNext == PatientSteps \/ \E o \in Orders : OtherClient(o)
PatientSpec == Init /\ [][PatientNext]_vars

(* ... and is the only one to change the status of an order.  *)
SoleSpec == Init /\ [][PatientSteps]_vars

-----------------------------------------------------------------------------
OnBoard == ToSet(completedOrderList) \cup ToSet(cancelOrderList)
             \cup ToSet(pendingOrderList) \cup ToSet(deliveryOrdersList)

(* Lists, cards and handlers hold objects some query built, and every      *)
(* status is one of the statuses the code spells.                          *)
TypeOK ==
    /\ userOrders \in [Orders -> Statuses]
    /\ orders \in [Orders -> Statuses]
    /\ completedOrderList \in Seq(Objects)
    /\ cancelOrderList \in Seq(Objects)
    /\ pendingOrderList \in Seq(Objects)
    /\ deliveryOrdersList \in Seq(Objects)
    /\ status \in [Objects -> Stored]
    /\ loading \in LoadSteps \cup {"Ready", "Failed"}
    /\ screen \in Titles \cup {"Home"}
    /\ cards \in Seq([obj: Objects, status: Stored])
    /\ dirty \in BOOLEAN
    /\ handler \in [Taps -> {Unused} \cup Handlers]

(* However hastily the admin taps, an object is pending once at most, and  *)
(* never both pending and in delivery.  (It can be pending and cancelled:  *)
(* the delivery branch of a cancel, resuming on a card that was rebound to *)
(* a pending order, adds that order to the cancel list only.)              *)
PendingExclusive ==
    /\ IsInjective(pendingOrderList)
    /\ ToSet(pendingOrderList) \cap ToSet(deliveryOrdersList) = {}

(* The status text of an object agrees with the pending and delivery lists *)
(* it is on: a pending card always shows both buttons, an object in        *)
(* delivery never the "Send to delivery" one.                              *)
StatusTracksList ==
    /\ \A x \in ToSet(pendingOrderList) : status[x] = "Pending"
    /\ \A x \in ToSet(deliveryOrdersList) : status[x] = "Delivery"

(* Every change of the lists asks for a frame: a page that is not due for  *)
(* one shows the provider's list, in its order, with the current statuses. *)
FreshFrame == ~dirty => cards = Cards(screen)

(* No handler, in whatever order the handlers resume, drops an object from *)
(* the board; only a new start of the app empties it.                      *)
NothingVanishes ==
    [][OnBoard \subseteq OnBoard' \/ loading' = "Completed"]_vars

(* The two documents of an order never differ unless the order itself was  *)
(* tapped: no rebound card, overlapping handler, kill or write that        *)
(* arrives after it damages another order.                                 *)
TearsAreLocal ==
    \A o \in Orders : userOrders[o] # orders[o] =>
        \E t \in Taps : handler[t].pc # "unused" /\ OrderOf(handler[t]) = o

(* The object a handler moves after its await is the one it wrote for.     *)
MovedIsTapped ==
    \A t \in Taps : handler[t].pc \in Live => handler[t].cur = handler[t].target

(* Every object is on one list, and on it once.  *)
BoardPartition ==
    /\ PendingExclusive
    /\ IsInjective(deliveryOrdersList)
    /\ IsInjective(cancelOrderList)
    /\ ToSet(cancelOrderList) \cap
          (ToSet(pendingOrderList) \cup ToSet(deliveryOrdersList)) = {}

(* The two documents of an order differ only because a handler is between  *)
(* its two writes, or was stopped there by a rejected write.               *)
CopiesAgree ==
    \A o \in Orders : userOrders[o] # orders[o] =>
        \E t \in Taps : /\ handler[t].pc \in {"adminWrite", "torn"}
                        /\ OrderOf(handler[t]) = o

(* Once loaded, the four lists are the documents of "orders" sorted by     *)
(* status, but for an order whose handler has not resumed yet.             *)
BoardMirrorsOrders ==
    loading = "Ready" =>
        \A o \in Orders, s \in Stored :
            \/ orders[o] = s <=> \E x \in ToSet(GetOrderList(s)) : x[1] = o
            \/ \E t \in Taps : handler[t].pc = "resume" /\ OrderOf(handler[t]) = o

(* The panel moves an order only along the ledger's transitions.  *)
FollowsLedger == Ledger!Spec

-----------------------------------------------------------------------------
(* The list whose length HomePage prints on the tile that opens a title.   *)
CountedOn(title) ==
    CASE title = "Pending"         -> pendingOrderList
      [] title = "Completed Order" -> completedOrderList
      [] title = "Cancel Order"    -> cancelOrderList
      [] title = "Delivered Order" -> deliveryOrdersList

(* A page that says "<title> is empty" was opened from a tile that counts  *)
(* no order.  Does not hold: see the README.                               *)
EmptyIsEmpty ==
    screen \in Titles /\ cards = << >> /\ ~dirty => CountedOn(screen) = << >>

(* An order is cancelled once the panel has said "Successfully Cancelled". *)
(* Does not hold for a hasty admin: see the README.                        *)
CancelSticks ==
    \A t \in Taps : handler[t].pc = "done" /\ handler[t].kind # "send" =>
                        orders[OrderOf(handler[t])] = "Cancel"

-----------------------------------------------------------------------------
(* Firestore answers every write, with success or with an error, Dart's    *)
(* event loop runs every continuation, and a dirty page gets its frame.    *)
Fairness ==
    /\ \A t \in Taps : WF_vars(Serve(t)) /\ WF_vars(Finish(t))
    /\ WF_vars(Rebuild)

FairSole == SoleSpec /\ Fairness

(* A tap whose writes are accepted ends with the order where the button    *)
(* said: in both documents, on the wanted list and off the pending one.    *)
Delivered(t) ==
    LET h == handler[t] IN
    /\ h.pc = "done"
    /\ userOrders[OrderOf(h)] = Wanted(h.kind)
    /\ orders[OrderOf(h)] = Wanted(h.kind)
    /\ h.target \in ToSet(GetOrderList(Wanted(h.kind)))
    /\ h.target \notin ToSet(pendingOrderList)

TapSettles ==
    \A t \in Taps : handler[t].pc \in Live ~>
                        (Delivered(t) \/ handler[t].pc \in {"rejected", "torn"})
=============================================================================
