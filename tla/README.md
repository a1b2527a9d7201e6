# Eane Mart admin panel: TLA+ models and proofs

The repository is a Flutter application (`src/lib`, about 3100 lines of Dart)
with which the owner of a shop looks after users, categories, products and
orders kept in Firebase, and the Windows runner in C++ that hosts it
(`src/windows/runner`). Everything else in the tree is generated code for other
platforms and vendored libraries. This directory models the panel's own logic,
model-checks it with TLC and proves the most important facts with TLAPS.

## 1. The system

Dart runs one event at a time: the code between two `await`s is atomic, and
what interleaves are event handlers, continuations of awaited calls, frames,
answers of Firebase and other clients of the same Firebase project. Pages are
drawn from one `AppProvider` object; `notifyListeners` asks for a frame, and in
the frame list items are matched **by position**, because no item has a key.

| Component | State | Operations | What makes it correct |
|---|---|---|---|
| Order board (`app_provider.dart`, `order_list.dart`, `single_order_widget.dart`, `firebase_firestore.dart` 148-204) | four lists of `OrderModel`, the mutable `status` of each object, two documents per order | four queries, open/leave a list, send, cancel | the order tapped is the order moved, in memory and in both documents; the lists mirror the documents; no order is lost, doubled or moved against the shop's rules |
| User desk (`user_view/`, `app_provider.dart` 21-23, 55-64, 85-90) | list of `UserModel`, spinner per row, edit form with an index | two start-up queries, delete, edit with or without picture | the list mirrors `users`; nobody is listed twice or lost; a deleted user stays deleted; spinners stop |
| Start-up and dashboard (`main.dart`, `home_page.dart`, `app_provider.dart` 21-83, `firebase_firestore.dart` 20-38, 88-181) | seven lists, total earning, `isLoading`, the tiles | two un-awaited queries of `main`, the seven awaited ones of `callBackFunction`, one frame | no order to be worked on is missed, earnings count completed orders once, tiles are off by no more than what changed, the spinner ends |
| Product desk (`product_view/`, `app_provider.dart` 119-151, `firebase_firestore.dart` 88-146) | list of `ProductModel`, spinner per card, edit and add form | query, delete, edit, add with upload | the list mirrors the documents; only the row's own document is written; an added product can later be edited and deleted |
| Category desk (`categories_iew/`, `app_provider.dart` 25, 92-117, `firebase_firestore.dart` 25-38, 59-86) | list of `CategoryModel`, spinner per card, edit and add form, pictures in Storage | two queries, delete, edit and add, both with an upload before the write | as the product desk; the picture on a card is the category's own |
| Storage helper (`firebase_storage_helper.dart`) | pictures by path | `putFile`, then `getDownloadURL` | the link is of the picture that was uploaded |
| Windows runner (`windows/runner/*.cpp`) | the OS window, handle, child content, `flutter_controller_`, `g_active_window_count`, the registered class | `wWinMain`, `Create`, `OnCreate`, `MessageHandler`, `Destroy`, destructors | it ends clean on every path, no message finds a half-destroyed object, closing the window ends the program |
| Models (`models/`) | | `fromJson`, `toJson`, `copyWith` | round trips keep every field, `copyWith` changes only what it is given |
| Authentication (`firebase_auth_helper.dart`, `auth_ui/`, `constants.dart`) | account, profile document, loader dialog | log in, sign up, sign out, validation | the loader always goes, an account has a profile. Not reachable from `main`, which opens `HomePage` |
| Notification screen, routes, theme, plain widgets | none | | layout only |

Components interact through `AppProvider` (shared state, callbacks from every
page), through Firestore documents (shared with the customer app and with other
panels) and through the navigator.

What is hard to test here: a second tap while the first handler awaits; state
read again after an `await` through `widget.`; cards rebound to other objects;
list positions captured when a form opens; two un-awaited queries racing; two
writes without a transaction; errors that are swallowed, or that end a handler
half-way; the process being killed with writes queued. `PROJECT.json` lists
each at its line.

## 2. Modules

| Module | Role |
|---|---|
| `OrderLedger` | abstract: the status an order may take next |
| `OrderBoard` | the order board, instance of `OrderLedger` for the refinement |
| `MCOrderBoard` | symmetry for TLC |
| `ListLemmas` | facts about `Append`, `RemoveFirst`, `SetToSeqs`, `IsInjective`, proved once for all desks |
| `OrderBoardProofs`, `UserDeskProofs`, `ProductDeskProofs`, `CategoryDeskProofs`, `DashboardProofs`, `WindowsRunnerProofs` | the theorems about each of them (section 6) |
| `Catalogue` | abstract: each press changes its own document once or not at all, nothing else does |
| `UserDesk`, `MCUserDesk` | the user desk, implements `Catalogue` |
| `ProductDesk`, `MCProductDesk` | the product desk, implements `Catalogue` |
| `CategoryDesk`, `MCCategoryDesk` | the category desk with Storage, implements `Catalogue` |
| `Dashboard`, `MCDashboard` | start-up and dashboard, composed with `OrderLedger` for the orders that move meanwhile |
| `WindowsRunner`, `MCWindowsRunner` | the Windows runner |

### OrderBoard

`orders` and `userOrders` are the status fields of `orders/{id}` and
`user orders/{userId}/orders/{id}`. An `OrderModel` is the pair of an order and
the query that built it (objects have no `==`, so the same order loaded by two
queries is two objects); `status` is its mutable field. A handler records the
object it passed to `updateOrder` (`target`), the position of its card (`slot`,
0 once the card is disposed) and what `widget.orderModel` evaluates to now
(`cur`).

| Action | Code |
|---|---|
| `LoadCompleted` ... `LoadDelivery`, `LoadFails` | `callBackFunction` behind `getData`'s spinner |
| `OpenOrderList`, `LeaveOrderList`, `Rebuild`, `ScrollAway` | tiles of `HomePage`, `OrderList.build`, `ListView.builder` |
| `TapSend`, `TapCancel` | the handlers up to their `await` |
| `WriteUserOrder`, `WriteOrder`, `WriteFails` | the two awaited writes of `updateOrder` |
| `ResumeSend`, `ResumeCancelPending`, `ResumeCancelDelivery` | the rest of the handlers with the provider method they call |
| `OtherClient` | external: other writers, who keep both documents in step and follow the ledger |
| `Restart`, `StrayWrite` | kill and start; a write handed to Firestore may still arrive |

Abstractions: names, prices and products of an order are left out (no property
tells them apart; earnings are in `Dashboard`); a query is
one step and returns its documents in any order; writes of different handlers
reach the server in any order (more than one client's queue allows, which sends
writes in the order they were issued; section 5 says why `CancelSticks` does not
depend on that); a failed write is one that is not applied; all
cards of the list exist unless `ScrollAway` disposes one. The toasts are left
out. The earlier awaits of `callBackFunction` change nothing of the board.

### UserDesk

`users` are the documents of `users`; each holds a name and a picture, "old" or
"new". A `UserModel` is a record with `by`, the query or update that built it,
which stands for its identity (`List.remove` compares by identity). `early` is
the query `main` starts with `..getUserListFun()` and nobody awaits, `home` the
one of `callBackFunction`; an answer is taken at one moment and arrives at
another. `spinning` are the card positions with `isLoading`. A task is a delete
or an update: its model, the position of its card or form, and whether that
card or page is still mounted.

| Action | Code |
|---|---|
| `AnswerEarly`, `ArriveEarly`, `AnswerHome`, `ArriveHome`, `QueryFails` | `getUserListFun` twice |
| `OpenUserView`, `LeaveUserView`, `Rebuild`, `ScrollAway` | `UserView` |
| `TapDelete`, `DeleteSingleUser`, `Refuse`, `ResumeDelete` | the delete icon, `deleteUserInfoFirebase`, `deleteSingleUser` |
| `TapEdit`, `LeaveEdit` | the edit icon, the back button of `EditProfile` |
| `UpdatePictureOnly`, `UpdateWithPicture`, `UpdateName` | the three branches of "Update" |
| `UploadDone`, `UploadFails`, `UpdateSingleUser`, `ResumeUpdate` | upload, `updateSingleUser`, `updateUserList` |
| `OtherClient` | external: customers and other panels |

Abstractions: e-mail and id never change and are part of the user; what the
form holds is chosen when "Update" is pressed; a popped page is gone at once
(its exit animation is not modelled); the six later queries of
`callBackFunction` are merged into `ArriveHome`; the upload is one step; a kill
is not modelled here (the product and the category desk have it), because each
operation is a single document write. The name is read after the upload, when
its field may be empty again: `UpdateWithPicture` has both cases. `touched`
records the users other clients wrote to, `Over` keeps of a finished handler
what the properties ask for.

### ProductDesk

`docs` are the product documents by Firestore key; each has an `id` field, by
which the panel addresses it. For the products of the start key and id are
equal; for one the panel adds (keyed by its tap) the id is "products", the id of
the collection. `text` stands for name, price and picture; the description,
which no update changes, is left out. A model's identity is the document it is
of and the query or handler that built it.

| Action | Code |
|---|---|
| `GetProduct`, `GetProductFails`, `Restart` | `getProduct` behind the dashboard's spinner, a new start |
| `OpenProductView`, `LeaveProductView`, `Rebuild`, `RedrawCards` | `ProductView`; a frame of the page and one of single cards |
| `TapDelete`, `DeleteProduct`, `ResumeDelete` | the delete icon and `deleteProductFromFirebase`, which notifies nobody |
| `TapEdit`, `OpenAddProduct`, `LeaveForm`, `PressUpdate`, `PressAdd` | the two forms, which stay open after their button |
| `UploadDone`, `UploadFails`, `UpdateSingleProduct`, `AddSingleProduct`, `Refuse`, `ResumeUpdate`, `ResumeAdd` | upload, write, and what follows it |

Abstractions: the category is only a part of the document's path; a price that
is no number ends an update before it starts, or an upload as `UploadFails`; a
press with missing fields, or an addition without a category, changes nothing
and is not a step; a write under way when the process ends is `stray`: it
arrives later or never. The upload is one step.

### CategoryDesk

As `ProductDesk`, with what differs in the code: `main`'s un-awaited query races
with the dashboard's, an error of either is an empty list, notifications come
before and after each write, and every update and addition first uploads a
picture, in two steps. `storage` holds which upload lies at each path; the path
is the category's id, and for every addition "categories", the id of the
collection. Names and pictures are told apart by the tap that brought them.

| Action | Code |
|---|---|
| `AnswerEarly`, `ArriveEarly`, `AnswerHome`, `ArriveHome`, `HomeFails`, `Restart` | `getCategoryListFun` twice, with the `try` of `getCategories`; a new start |
| `OpenCategoriesView`, `LeaveCategoriesView`, `Rebuild` | `Categoriesview` |
| `TapDelete`, `DeleteSingleCategories`, `Refuse`, `ResumeDelete` | the delete icon, `deleteCategoriesInfoFirebase`, `deleteSingleCategories` |
| `TapEdit`, `OpenAddCategory`, `LeaveForm`, `PressUpdate`, `PressAdd` | the forms, which stay open after their button |
| `PutFile`, `GetDownloadURL`, `UploadFails` | `uploadUserImage` |
| `UpdateSingleCategories`, `AddSingleCategories`, `ResumeUpdate`, `ResumeAdd` | the writes and what follows them |

Abstractions: the order of a query's answer is one fixed order (positions shift
through deletes and additions; `UserDesk` has any order); the grid is laid out
whole (`shrinkWrap`), so no card scrolls away; a press without a picture does
nothing and is not a step.

### Dashboard

`orders` moves by `OrderLedger`'s rules while the panel loads. An awaited query
is one step (`Return`, `Throw`), at the moment it is answered: the next one is
asked later still, only the load reads the lists meanwhile, and an un-awaited
answer that arrives in between is overwritten, as is one that came before. The
two un-awaited queries are two steps each, since a late one overwrites.
`online` chooses, per start, whether queries may fail at all; an order in
`unreadable` makes `OrderModel.fromJson` throw (an integer `totalPrice`, a
missing field), which fails the query of its status; `Suspects` are the orders
that may be so. Two history variables serve the properties: `atStart`, the shop
when this process began, and `erred`, which of the two `getCategories` calls have
thrown since. `getCategories` returns an empty list for an error, so `erred` is
what tells a list that is empty for good from one that was loaded.

| Action | Code |
|---|---|
| `InitializeApp`, `InitializeFails` | `main` up to `runApp`, the first build with `create:` and `initState` |
| `Return`, `Throw` | one `await` of `callBackFunction`, in the order of `After` |
| `Frame` | the last `setState` of `getData` and the build after it |
| `AnswerEarly`, `ThrowEarly`, `ArriveEarly` | `..getUserListFun()..getCategoryListFun()` |
| `Advance`, `SignUp` | external: the other clients of the shop |
| `Restart` | a new process |

What the admin does on the other pages afterwards is in the desks' modules.

### WindowsRunner

One thread. Destroying a window sends it messages at once, so `Destroy`,
`DestroyWindow` and `MessageHandler` call one another; `stack` holds the calls
that are still to be finished, and each action runs the code up to the next call
that can come back. `object` says how far the destructor is: from "base" on
virtual calls find `Win32Window`'s versions.

| Action | Code |
|---|---|
| `WWinMain`, `Created`, `Dispatch`, `LeaveLoop` | `wWinMain` and its message loop |
| `Create`, `CreateWindow`, `CreateWindowFails` | `Win32Window::Create`, `WM_NCCREATE` in `WndProc` |
| `OnCreate`, `OnCreateFails`, `HandleFrame` | `FlutterWindow::OnCreate` and the callback that shows the window |
| `HandleClose`, `HandleFontChange`, `HandleSize` | `MessageHandler` of both classes, `DefWindowProc` |
| `HandleDestroy`, `PostQuit`, `Destroy`, `Destroyed`, `WindowGone` | `WM_DESTROY`, `Win32Window::Destroy`, the end of `DestroyWindow` |
| `Destructor` | `~FlutterWindow`, then `~Win32Window` |
| `Post` | external: the user, Windows, the engine |

Assumed of what is external: `FlutterViewController`'s constructor dispatches no
message, the plugins leave the messages above to the runner, `UnregisterClass`
fails while a window of the class exists, the messages of a destroyed window are
dropped, `WM_QUIT` comes when no other message is left. Console, COM, arguments,
DPI and theme change nothing of the window's life and are left out.

## 3. Kinds of admin

Much of what one would like to say of these pages is false when the admin taps
while a handler still runs, and nothing in the code prevents that. So the
properties are of two sorts: those that hold for any timing, and those for an
admin who waits.

* `OrderBoard`: `Spec` is any timing; `PatientSpec` allows taps and kills only
  when no handler runs and the page is drawn, other clients write freely;
  `SoleSpec` is `PatientSpec` without other clients.
* `UserDesk`: `Spec` is any timing, `PanelSpec` the same without other writers
  (for which `ServesCatalogue` is stated), `PatientSpec` an admin who waits. The
  history variable `touched` tells the users other clients wrote to apart.
* `ProductDesk`, `CategoryDesk`: one specification, any timing; the history
  variable `rushed` becomes true when the admin presses, or closes the app, too
  early, and the properties of a careful admin are about states with `~rushed`.
  For products, careful means also to reopen the page after a delete, because
  the page is not redrawn. `ShelfMirrors` is one of these: every listed product
  is stored, and every stored one is listed once, but for an addition that was
  deleted under the collection's id (see `DeletedIsDeleted` in section 5).

## 4. Runs

| Run | Specification and bounds | Shows |
|---|---|---|
| `hasty_admin` | `Spec`, 2 orders, 2 taps, 1.6 million states | `TypeOK`, `PendingExclusive`, `StatusTracksList`, `FreshFrame`, `TearsAreLocal`, `NothingVanishes`: what the board keeps through overlaps, rejected and stray writes, restarts |
| `sole_admin` | `FairSole`, 2 orders, 2 taps, no symmetry | `MovedIsTapped`, `BoardPartition`, `CopiesAgree`, `BoardMirrorsOrders`, `FollowsLedger` (refinement of `OrderLedger`), `TapSettles` |
| `hasty_desk` | `FairPanel`, 2 users, 2 taps, no symmetry, 1.3 million states | `TypeOK`, `SpinnerHasDelete`, `ServesCatalogue` (refinement), `SpinnerStops` |
| `patient_desk` | `PatientSpec`, 2 users, 2 taps, 1.0 million states | `ListedOnce`, `FreshRows`, `RosterMirrors`, `OnlyDeletedLeave`, `NothingPutBack` |
| `shelf` | `Spec`, 2 products, 3 taps | `TypeOK`, `ShelfMirrors`, `ServesCatalogue` |
| `categories` | `FairSpec`, 2 categories, 2 taps, no symmetry, 1.2 million states | `TypeOK`, `CategoriesMirror`, `PicturesShown`, `ServesCatalogue`, `SpinnerStops` |
| `dashboard` | `FairSpec`, 2 orders with prices 1 and 2, 1 user, 1 category, 1 product, one order that may be unreadable, any number of restarts, 2.0 million states | `TypeOK`, `EarningsCount`, `NothingMissed`, `TilesBracket`, `OnlyErrorsEmpty`, `DashboardOpens` |
| `windows_runner` | `FairSpec`, queue of 3 messages, 2175 states | `TypeOK`, `CleanExit`, `LoopIsWhole`, `NoLateMessage`, `CloseEnds` |
| `empty_page`, `cancelled_order`, `deleted_user`, `deleted_product` | violations of `EmptyIsEmpty`, `CancelSticks`, `DeletedIsGone`, `DeletedIsDeleted` | see findings |

Bounds. Two orders (users, products, categories) are what a position shift
needs: one card goes, the other takes its place. Two taps are what an overlap
needs, on one card or on two; in `shelf` a third adds a product, edits and
deletes it. The only bounded counters are the set `Taps`, each of which is used
once, and `MaxQueue`: three posted messages are a close, something before and
something after it. In `dashboard` two orders can change places between two
queries, and one of them may be unreadable: the other is like it but for its
price, and one is enough to fail a query. Orders, users, products and taps are interchangeable, so permuting
them is a symmetry; the liveness runs do without.

Deadlock checking is off in three places. On the user desk, when
`callBackFunction` fails, `HomePage` stays behind its spinner and nothing more
can happen; the Windows runner ends. Board, shelf, categories and dashboard can
always be restarted.

Fairness. `Serve(t)`: Firestore and Storage answer every call, with a result or
an error. `Finish(t)`, `Resume(t)`: the event loop runs every continuation (on
the category desk both are `Answered(t)`). `Rebuild`: a dirty page gets its
frame. `Load` of the dashboard: every await of `getData` returns or throws and
the frame is drawn; the race with the un-awaited queries is not fair. `Program`
of the Windows runner: its one thread goes on. The user, other clients, kills,
posted messages and failures are not fair. `TapSettles` says of the sole admin that
each tap ends with the order in both documents and on the wanted list, or with a
rejected write; `SpinnerStops` that a spinner stops, even under overlaps;
`DashboardOpens` that the load ends, and that it fails, with the spinner there
for good, only if queries may fail in this process or an order that cannot be
read is stored: neither the other clients nor an error of `getCategories` alone
can hold it up;
`CloseEnds` that a posted close ends the program.

## 5. Findings

* `EmptyIsEmpty`. `HomePage` opens `OrderList` with "Completed Order", "Cancel
  Order" and "Delivered Order"; `getOrderList` knows "Completed", "Cancel" and
  "Delivery". Those three pages always say "... is empty", whatever their tile
  counts. As a consequence the delivery branch of the cancel button can only be
  reached from the pending page, between a send's `notifyListeners` and the
  frame it asks for.
* `CancelSticks`. With a send and a cancel of one order in flight together, the
  send's second write can arrive last: the panel says "Successfully Cancelled
  Pending order", the document says "Delivery", and the order is on both lists.
  Firestore's own queue does not prevent it: when cancel is tapped before send,
  each handler issues its second write only when its first is answered, and the
  order of issue is cancel, send, cancel, send.
* `DeletedIsGone`. `main`'s un-awaited query can replace the list under an open
  page (or an edit can replace the row) before a delete resumes; `remove` then
  finds nothing, and the user the panel said it deleted is still listed.
* `DeletedIsDeleted`. A product the panel added carries the id "products"; its
  delete addresses no document and succeeds. The panel says "Product Deleted
  Successfully", and the product is back after the next start.

Also seen while modelling, and the reason some properties are stated for a
patient or a sole admin only: a cancel of the delivery branch that resumes on a
card rebound to a pending order adds that order to the cancel list and leaves it
pending; a torn `updateOrder` followed by another tap can take the user's copy
from "Cancel" to "Delivery"; with other writers, or with a write that arrives
after a restart, lists and documents differ until the next start; an edit by
index after a concurrent delete overwrites another user or throws; a refused
update of a user or product is swallowed while the panel says "... Updated
successfully" (hence the exception in `RosterMirrors`); after a product delete
the page keeps its rows and indexes, so even a patient admin's next update goes
to a position that is gone or to another product (hence what `rushed` counts as careful);
`ProductModel.copyWith` reads the description from its `id` parameter, so a
typed description is never stored.

* Storage. Every added product or category is uploaded to one path, the id of
  its collection: the next addition replaces the picture of the one before.
  `PicturesShown` is therefore about categories with a path of their own.
* Added categories, like added products, carry the id of the collection: a
  delete takes them off the list, not out of Firestore (`CategoriesMirror`
  excepts them); an update is refused and swallowed.
* A category's name cannot be changed without a new picture: "Update" without
  one does nothing.
* The four status queries see four moments: an order that is completed or
  cancelled between two of them is on no list until the next start, one that is
  sent out is on two. `NothingMissed` says that this is all that can happen.
* HomePage does not listen to the provider; its tiles stay as they were drawn.
* A user's update stores the whole model of the last load: what the customer
  changed meanwhile is put back (`NothingPutBack` excepts those users).
* When `OnCreate` fails, the destructor destroys a window that still exists:
  `Destroy` then runs again inside `WM_DESTROY` and unregisters the class while
  the window is there, against "Should only be called if there are no instances
  of the window" (`win32_window.cpp:75-76`). That call fails and the one of the
  outer `Destroy` succeeds, hence `CleanExit` holds. `quit_on_close_` is set
  after `Create`; no message is dispatched in between.
* The Windows build registers no plugin for Firestore or Storage.
* `sign_up.dart:106` passes its arguments to `signUpVaildation`
  (`constants.dart:93`) in another order than it takes them; the page cannot be
  reached.

## 6. Proofs

Every invariant, action property and refinement of the passing runs is also a
theorem. The constants are arbitrary but for the assumptions below; the
`...Proofs` module of each component holds its inductive invariants, which TLC
checked on the instances of section 4 while they were found.

| Theorem | Statement |
|---|---|
| **`OrderBoardProofs`** | |
| `TypeCorrect` | `Spec => []TypeOK` |
| `PendingIsExclusive` | `Spec => []PendingExclusive` |
| `StatusIsTracked` | `Spec => []StatusTracksList` |
| `FramesAreFresh` | `Spec => []FreshFrame` |
| `TearsStayLocal` | `Spec => []TearsAreLocal` |
| `NothingIsLost` | `Spec => NothingVanishes`, an action property |
| `TappedIsMoved`, `BoardIsPartitioned` | `PatientSpec => []MovedIsTapped`, `[]BoardPartition` |
| `CopiesDoAgree`, `BoardIsMirrored` | `SoleSpec => []CopiesAgree`, `[]BoardMirrorsOrders` |
| `LedgerIsFollowed` | `SoleSpec => FollowsLedger`, refinement of `OrderLedger` |
| **`UserDeskProofs`** | |
| `TypeCorrect`, `SpinnersAreStopped` | `Spec => []TypeOK`, `[]SpinnerHasDelete` |
| `CatalogueIsServed` | `PanelSpec => ServesCatalogue`, refinement of `Catalogue` |
| `UsersAreListedOnce`, `RowsAreFresh`, `RosterIsMirrored` | `PatientSpec => []ListedOnce`, `[]FreshRows`, `[]RosterMirrors` |
| `OnlyDeletedUsersLeave`, `UpdatesPutNothingBack` | `PatientSpec => OnlyDeletedLeave`, `NothingPutBack`, action properties |
| **`ProductDeskProofs`** | |
| `TypeCorrect`, `ShelfIsMirrored` | `Spec => []TypeOK`, `[]ShelfMirrors` |
| `CatalogueIsServed` | `Spec => ServesCatalogue`, refinement |
| **`CategoryDeskProofs`** | |
| `TypeCorrect`, `CategoriesAreMirrored`, `PicturesAreShown` | `Spec => []TypeOK`, `[]CategoriesMirror`, `[]PicturesShown` |
| `CatalogueIsServed` | `Spec => ServesCatalogue`, refinement |
| **`DashboardProofs`** | |
| `TypeCorrect`, `EarningsAreCounted`, `NothingIsMissed`, `OnlyErrorsEmptyLists`, `TilesAreClose` | `Spec => []TypeOK`, `[]EarningsCount`, `[]NothingMissed`, `[]OnlyErrorsEmpty`, `[]TilesBracket` |
| **`WindowsRunnerProofs`** | |
| `TypeCorrect`, `LoopFindsWindow`, `ObjectOutlivesWindow`, `NothingIsLeft` | `Spec => []TypeOK`, `[]LoopIsWhole`, `[]NoLateMessage`, `[]CleanExit` |

Assumptions. `OrdersFinite`, `UsersFinite`, `ProductsFinite`,
`CategoriesFinite`, `DashboardFinite`: a query's answer is a sequence or a count
of all matching documents, so there are finitely many. `ProductsNamed`,
`CategoriesNamed`: no document of the start has the collection's name as its id,
and what a tap adds is new (Firestore's own keys are). `PriceType`: prices are
natural numbers. `QueueType`: the bound of the message queue is one.

The specifications of the theorems have no fairness; the runs' `Fair...`
specifications imply them. `MovedIsTapped` and `BoardPartition` are proved for
`PatientSpec` and model-checked for `SoleSpec`, which implies it.

Inductive invariants, and why the properties are not inductive alone:

* Order board. `BoardInv` (any timing) adds that nothing is on the lists a load
  has not reached yet and that no page or handler exists before the load ends
  (`LoadPhase`), and that the pending list only holds objects the pending query
  built (`PendingFromQuery`). The object a handler moves is therefore one the
  page had drawn; whatever it is, it is added to one list before it is removed
  from another, which gives `NothingVanishes`. `PatientInv` adds `OneAtATime`: at
  most one handler runs, on an object that is still pending and still under its
  card, and never in the delivery branch. `SoleInv` adds `PendingIsPending` (an
  object on the pending list has a pending document unless its handler is about
  to resume) and `UserCopyWritten` (between the two writes the user's copy is
  already the wanted one); `WriteOrder` is then the only step that changes
  `orders`, always from "Pending". `MirrorInv` says of every status whose query
  has returned which orders its list holds, and of an order whose handler
  waits to resume that its document is already written. `TearsAreLocal` is
  inductive by itself, from two lemmas: a step changes the documents of one order
  at most (`OneOrderChanges`), and a started handler keeps its order
  (`HandlersStay`).
* User desk. For any timing a spinner needs a live delete at its position whose
  card is still mounted; disposing, rebinding and reopening keep that one action
  at a time. `PatientInv` adds that nothing is open before the load ends
  (`BeforeHome`), that at most one handler runs and the page is drawn when none
  does, that the position a form or handler remembers still holds its row
  (`FormFits`, `HandlerFits`), that what a query has read and not yet delivered
  is still true of the untouched users (`QueryFresh`), and that the rows are the
  stored users as they were last written (`RowsInv`).
* Product and category desk. `DeskInv` strengthens the types: a model's id is
  that of its document, or the collection's name for what the panel added
  (`OwnTypes`), and an addition's document does not exist before its write and,
  for products, is never deleted (`NewOnes`); the refinement of `Catalogue` follows step by step. `CarefulInv`
  is about states with `~rushed`: one handler at a time, its remembered position
  right, and list against documents; for categories also the answers under way
  of both queries and where each picture's link points (`DocsInv`).
* Dashboard. `DashboardInv` dates each list: it lies between what had its status
  at the start and still has it, and what has had it since (`ListsDated`); of
  the orders of the start, a pending one is listed once the pending query is over,
  and one in delivery is on one of the two lists once the next is (`WorkListed`):
  an order moves from "Pending" to "Delivery" and is asked for in that order.
  `OthersWhole` says of the other lists, and of the late answers still to be
  assigned, that they are whole or that an error in `erred` explains why not.
  Earnings are sums over sets, defined by a recursive function that chooses an
  element; that the sum does not depend on the choice, and grows with the set,
  is proved by taking a smallest set for which it fails.
* Windows runner. What is true depends on what is still to be run, so
  `RunnerInv` goes through the stacks the program can have, phase by phase. The
  destruction of a window is the same from the loop and from the destructor:
  `Ending(r)` describes it over any continuation `r` and `EndingStep` is proved
  once for both.

Only model-checked: liveness under fairness (`TapSettles`, `SpinnerStops` on the
user and the category desk, `DashboardOpens`, `CloseEnds`), which is out of this
prover's reach, and the four violations of section 5, which are
counterexamples.

## 7. Plan

Done: the modules of section 2 and the theorems of section 6. What is left:

1. What liveness rests on as safety: while a handler waits, one of its own steps
   is possible (the guard of `Serve` or `Finish` holds), as invariants proved
   beside the fairness TLC uses for `TapSettles` and `SpinnerStops`.
2. The conditions of the findings: under which restriction of the admin each of
   `CancelSticks`, `DeletedIsGone` and `DeletedIsDeleted` does hold, stated and
   proved from the invariants above.
3. Shorter proofs: the lemmas on positions and rows that the three desks share
   are still stated once per desk.

## 8. Not modelled

* Authentication helper, `Welcome`, `Login`, `SignUp` and the validation they
  call: `main` opens `HomePage` and no page of the panel leads
  there, so no behaviour of the program runs this code.
* Notification screen: its button shows a message and changes nothing.
* Routes, theme, assets, plain widgets, toasts: layout. `Routes.push` is part of
  the actions that open pages.
* Model fields no state depends on (description, quantity, favourite flag, the
  products and payment of an order) and the string forms of JSON
  (`userModelFromJson` and the like), which nothing calls.
* Firebase options (constants), the runners of the other platforms (no state of
  their own between the calls of their toolkit), vendored libraries (gRPC,
  BoringSSL, the Firebase pods: not code of the panel, and most of the lines of
  the tree), and the unchanged template test.
