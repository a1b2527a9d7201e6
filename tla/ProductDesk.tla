----------------------------- MODULE ProductDesk -----------------------------
(***************************************************************************)
(* The product desk of the admin panel: AppProvider's list of products,    *)
(* the ProductView page, the EditProducts and AddProduct forms and the     *)
(* product documents of Firestore.                                         *)
(*                                                                         *)
(* A document has a key, chosen by Firestore when the panel adds it, and   *)
(* an "id" field, by which the panel later addresses it.  For a product    *)
(* the panel added that field holds the name of the collection.            *)
(***************************************************************************)
EXTENDS Integers, FiniteSets, SequencesExt

CONSTANTS Products,  \* keys (and ids) of the products there from the start
          Taps       \* deletes, updates and additions; each is used once

ASSUME ProductsFinite == IsFiniteSet(Products) /\ IsFiniteSet(Taps)
ASSUME ProductsNamed  == "products" \notin Products /\ Products \cap Taps = {}

VARIABLES
    docs,         \* the product documents, by key
    productList,  \* AppProvider._productList
    home,         \* getProduct behind HomePage's spinner
    screen,       \* "Home", "Products", "Edit" or "Add"
    form,         \* index and productModel of the EditProducts page
    cards,        \* what ProductView's last frame drew
    spinning,     \* positions whose card has isLoading = true
    dirty,        \* a frame of ProductView is due
    task,         \* the handlers, running and finished
    rushed        \* history: the admin once pressed, or closed the app, early

pages == <<screen, form, cards, spinning, dirty>>
desk  == <<docs, productList, home, pages, task>>
vars  == <<desk, rushed>>

-----------------------------------------------------------------------------
(* "text" stands for name, price and picture.  The description is left     *)
(* out: copyWith carries the old one over whatever is typed.               *)
Texts     == {"old", "new"}
Keys      == Products \cup Taps
Ids       == Products \cup {"products"}
Documents == [state: {"none", "stored", "deleted"}, id: Ids, text: Texts]

(* A ProductModel: its fields, and for its identity the document it is of  *)
(* and the query or handler that built it.                                 *)
Models == [of: Keys, by: {"load"} \cup Taps, id: Ids, text: Texts]

Kinds  == {"delete", "update", "add"}
Live   == {"upload", "write", "accepted", "refused"}
Ended  == {"deleted", "kept", "updated", "rangeError", "added", "failed",
           "stray", "dead"}
Unused == [pc |-> "unused"]

(* A handler: the model it deletes, stores or adds, and the position of    *)
(* its card or form (0 for none, or once the card is disposed).            *)
Tasks  == [pc: Live \cup Ended, kind: Kinds, obj: Models, place: Nat]
AtTask(k, p, n) == [pc |-> p, kind |-> k.kind, obj |-> k.obj, place |-> n]

(* Disposing the cards of handlers that still run.  *)
Unmount(k) == IF k.pc \in Live /\ k.kind = "delete" THEN AtTask(k, k.pc, 0) ELSE k

NoForm == << >>
Absent == [state |-> "none", id |-> "products", text |-> "old"]

Init ==
    /\ docs = [k \in Keys |->
                  IF k \in Products
                  THEN [state |-> "stored", id |-> k, text |-> "old"]
                  ELSE Absent]
    /\ productList = << >>
    /\ home = "asked"
    /\ screen = "Home"
    /\ form = NoForm
    /\ cards = << >>
    /\ spinning = {}
    /\ dirty = FALSE
    /\ task = [t \in Taps |-> Unused]
    /\ rushed = FALSE

-----------------------------------------------------------------------------
(* getProduct: ProductModel.fromJson takes the id from the field.  *)
GetProduct ==
    /\ home = "asked"
    /\ productList' \in SetToSeqs({[of |-> k, by |-> "load", id |-> docs[k].id,
                                    text |-> docs[k].text] :
                             k \in {j \in Keys : docs[j].state = "stored"}})
    /\ home' = "done"
    /\ UNCHANGED <<docs, pages, task>>

GetProductFails ==
    /\ home = "asked"
    /\ home' = "failed"
    /\ UNCHANGED <<docs, productList, pages, task>>

(* ProductView.build; the grid is laid out whole, nothing scrolls away.  *)
Grid == [i \in 1 .. Len(productList) |->
            [obj |-> productList[i], busy |-> i \in spinning]]

OpenProductView ==
    /\ home = "done"
    /\ screen = "Home"
    /\ screen' = "Products"
    /\ cards' = Grid
    /\ UNCHANGED <<docs, productList, home, form, spinning, dirty, task>>

LeaveProductView ==
    /\ screen = "Products"
    /\ screen' = "Home"
    /\ cards' = << >>
    /\ spinning' = {}
    /\ dirty' = FALSE
    /\ task' = [t \in Taps |-> Unmount(task[t])]
    /\ UNCHANGED <<docs, productList, home, form>>

(* A frame of the page, after notifyListeners.  *)
Rebuild ==
    /\ dirty
    /\ spinning' = spinning \cap DOMAIN productList
    /\ cards' = Grid
    /\ dirty' = FALSE
    /\ task' = [t \in Taps |->
          IF task[t].pc \in Live /\ task[t].place \notin DOMAIN productList
          THEN Unmount(task[t]) ELSE task[t]]
    /\ UNCHANGED <<docs, productList, home, screen, form>>

(* A frame of single cards, after their setState: the model stays.  *)
RedrawCards ==
    /\ cards' = [i \in DOMAIN cards |-> [obj |-> cards[i].obj,
                                         busy |-> i \in spinning]]
    /\ cards' # cards
    /\ UNCHANGED <<docs, productList, home, screen, form, spinning, dirty, task>>

-----------------------------------------------------------------------------
(* The delete icon, ignored while the card is drawn as loading.  *)
TapDelete(t, i) ==
    /\ screen = "Products"
    /\ ~cards[i].busy
    /\ task[t] = Unused
    /\ spinning' = spinning \cup {i}
    /\ task' = [task EXCEPT ![t] =
          [pc |-> "write", kind |-> "delete", obj |-> cards[i].obj,
           place |-> i]]
    /\ UNCHANGED <<docs, productList, home, screen, form, cards, dirty>>

TapEdit(i) ==
    /\ screen = "Products"
    /\ screen' = "Edit"
    /\ form' = [index |-> i, obj |-> cards[i].obj]
    /\ UNCHANGED <<docs, productList, home, cards, spinning, dirty, task>>

OpenAddProduct ==
    /\ screen = "Products"
    /\ screen' = "Add"
    /\ UNCHANGED <<docs, productList, home, form, cards, spinning, dirty, task>>

(* Mutant of LeaveForm: the form outlives its page.  *)
LeaveFormKeeps ==
    /\ screen \in {"Edit", "Add"}
    /\ screen' = "Products"
    /\ UNCHANGED <<docs, productList, home, form, cards, spinning, dirty, task>>

(* The back button of either form, or "Update" with a picture and nothing  *)
(* typed, which only pops.  "Add" with a field missing only says so.       *)
LeaveForm ==
    /\ screen \in {"Edit", "Add"}
    /\ screen' = "Products"
    /\ form' = NoForm
    /\ UNCHANGED <<docs, productList, home, cards, spinning, dirty, task>>

(* ProductModel.copyWith  *)
CopyWith(obj, t, typed) ==
    [of |-> obj.of, by |-> t, id |-> obj.id,
     text |-> IF typed THEN "new" ELSE obj.text]

(* "Update": with a picture the upload comes first.  The form stays open.  *)
(* A price that is no number throws in copyWith and nothing happens.       *)
PressUpdate(t, photo, typed, described) ==
    /\ screen = "Edit"
    /\ task[t] = Unused
    /\ photo => typed \/ described
    /\ task' = [task EXCEPT ![t] =
          [pc |-> IF photo THEN "upload" ELSE "write", kind |-> "update",
           obj |-> CopyWith(form.obj, t, typed \/ photo),
           place |-> form.index]]
    /\ UNCHANGED <<docs, productList, home, pages>>

(* "Add" with every field filled in and a category chosen (without one it  *)
(* throws); the page stays open.                                           *)
PressAdd(t) ==
    /\ screen = "Add"
    /\ task[t] = Unused
    /\ task' = [task EXCEPT ![t] =
          [pc |-> "upload", kind |-> "add",
           obj |-> [of |-> t, by |-> t, id |-> "products", text |-> "new"],
           place |-> 0]]
    /\ UNCHANGED <<docs, productList, home, pages>>

(* uploadUserImage returns.  *)
UploadDone(t) ==
    /\ task[t].pc = "upload"
    /\ task' = [task EXCEPT ![t] = AtTask(@, "write", @.place)]
    /\ UNCHANGED <<docs, productList, home, pages>>

(* It throws, or the price that is parsed after it is no number.  *)
UploadFails(t) ==
    /\ task[t].pc = "upload"
    /\ task' = [task EXCEPT ![t] = AtTask(@, "failed", 0)]
    /\ UNCHANGED <<docs, productList, home, pages>>

-----------------------------------------------------------------------------
(* A write reaches Firestore, from a handler or (see Restart) from the     *)
(* queue of a process that has ended; then nobody hears the answer.        *)
Writes(t, kind) ==
    /\ task[t].pc \in {"write", "stray"}
    /\ task[t].kind = kind
    /\ task' = [task EXCEPT ![t] =
          AtTask(@, IF @.pc = "write" THEN "accepted" ELSE "dead", @.place)]
    /\ UNCHANGED <<productList, home, pages>>

(* FirebaseFirestoreHelper.deleteProduct: a document that is not there is  *)
(* deleted successfully.                                                   *)
DeleteProduct(t) ==
    /\ Writes(t, "delete")
    /\ docs' = IF task[t].obj.id \in Products
               THEN [docs EXCEPT ![task[t].obj.id].state = "deleted"]
               ELSE docs

(* Mutant of UpdateSingleProduct: set instead of update.  *)
UpdateSingleProductSets(t) ==
    /\ Writes(t, "update")
    /\ task[t].obj.id \in Products
    /\ docs' = [docs EXCEPT ![task[t].obj.id] =
          [state |-> "stored", id |-> task[t].obj.id, text |-> task[t].obj.text]]

(* FirebaseFirestoreHelper.updateSingleProduct  *)
UpdateSingleProduct(t) ==
    /\ Writes(t, "update")
    /\ task[t].obj.id \in Products
    /\ docs[task[t].obj.id].state = "stored"
    /\ docs' = [docs EXCEPT ![task[t].obj.id] =
          [state |-> "stored", id |-> task[t].obj.id, text |-> task[t].obj.text]]

(* The end of addSingleProduct: Firestore chooses the key.  *)
AddSingleProduct(t) ==
    /\ Writes(t, "add")
    /\ docs' = [docs EXCEPT ![t] =
          [state |-> "stored", id |-> task[t].obj.id, text |-> task[t].obj.text]]

(* Mutant of Refuse: an addition's error is caught, as an update's is.  *)
RefuseCaught(t) ==
    /\ task[t].pc = "write"
    /\ task' = [task EXCEPT ![t] =
          IF @.kind = "add" THEN AtTask(@, "accepted", 0)
                            ELSE AtTask(@, "refused", @.place)]
    /\ UNCHANGED <<docs, productList, home, pages>>

(* A write is refused: a delete returns the error's text, an update        *)
(* returns normally, an addition throws and ends there.                    *)
Refuse(t) ==
    /\ task[t].pc = "write"
    /\ task' = [task EXCEPT ![t] =
          IF @.kind = "add" THEN AtTask(@, "failed", 0)
                            ELSE AtTask(@, "refused", @.place)]
    /\ UNCHANGED <<docs, productList, home, pages>>

-----------------------------------------------------------------------------
NotifyListeners == dirty' = (screen # "Home")

(* The rest of deleteProductFromFirebase, which notifies nobody, and of    *)
(* the card's handler.                                                     *)
ResumeDelete(t) ==
    /\ task[t].pc \in {"accepted", "refused"}
    /\ task[t].kind = "delete"
    /\ productList' = IF task[t].pc = "accepted"
                      THEN RemoveFirst(productList, task[t].obj) ELSE productList
    /\ spinning' = spinning \ {task[t].place}
    /\ task' = [task EXCEPT ![t] =
          AtTask(@, IF @.pc = "accepted" THEN "deleted" ELSE "kept", 0)]
    /\ UNCHANGED <<docs, home, screen, form, cards, dirty>>

(* The rest of updateProductList.  *)
ResumeUpdate(t) ==
    /\ task[t].pc \in {"accepted", "refused"}
    /\ task[t].kind = "update"
    /\ IF task[t].place \in DOMAIN productList
       THEN /\ productList' = [productList EXCEPT ![task[t].place] = task[t].obj]
            /\ NotifyListeners
            /\ task' = [task EXCEPT ![t] = AtTask(@, "updated", 0)]
       ELSE /\ task' = [task EXCEPT ![t] = AtTask(@, "rangeError", 0)]
            /\ UNCHANGED <<productList, dirty>>
    /\ UNCHANGED <<docs, home, screen, form, cards, spinning>>

(* The rest of addProduct.  *)
ResumeAdd(t) ==
    /\ task[t].pc = "accepted"
    /\ task[t].kind = "add"
    /\ productList' = Append(productList, task[t].obj)
    /\ NotifyListeners
    /\ task' = [task EXCEPT ![t] = AtTask(@, "added", 0)]
    /\ UNCHANGED <<docs, home, screen, form, cards, spinning>>

-----------------------------------------------------------------------------
(* The process ends and is started again.  A write already handed to       *)
(* Firestore may still arrive later, or never.                             *)
Killed(p) == CASE p = "write"  -> "stray"
               [] p = "upload" -> "failed"
               [] OTHER        -> "dead"

Restart ==
    /\ productList' = << >>
    /\ home' = "asked"
    /\ screen' = "Home"
    /\ form' = NoForm
    /\ cards' = << >>
    /\ spinning' = {}
    /\ dirty' = FALSE
    /\ task' = [t \in Taps |-> IF task[t].pc \in Live
                               THEN AtTask(task[t], Killed(task[t].pc), 0)
                               ELSE task[t]]
    /\ UNCHANGED docs

-----------------------------------------------------------------------------
Press(t) ==
    \/ \E i \in DOMAIN cards : TapDelete(t, i)
    \/ \E photo, typed, described \in BOOLEAN : PressUpdate(t, photo, typed, described)
    \/ PressAdd(t)
Serve(t) == UploadDone(t) \/ UploadFails(t) \/ DeleteProduct(t)
              \/ UpdateSingleProduct(t) \/ AddSingleProduct(t) \/ Refuse(t)
Resume(t) == ResumeDelete(t) \/ ResumeUpdate(t) \/ ResumeAdd(t)

Ongoing ==
    \/ GetProduct
    \/ GetProductFails
    \/ OpenProductView
    \/ LeaveProductView
    \/ Rebuild
    \/ RedrawCards
    \/ OpenAddProduct
    \/ LeaveForm
    \/ \E t \in Taps : Serve(t) \/ Resume(t)

(* A careful admin presses nothing, and does not close the app, while a    *)
(* handler runs or a frame is due, and leaves the page and opens it again  *)
(* after a delete, so that it shows the list.  Nothing in the code asks    *)
(* for any of this; "rushed" records that the admin was not careful.       *)
Idle == \A t \in Taps : task[t].pc \notin Live

Quiet == ~dirty /\ Idle

PageIsFresh ==
    /\ Len(cards) = Len(productList)
    /\ \A i \in DOMAIN cards : cards[i].obj = productList[i]

Next ==
    \/ Ongoing /\ UNCHANGED rushed
    \/ /\ \/ \E i \in DOMAIN cards : TapEdit(i)
          \/ \E t \in Taps : Press(t)
       /\ rushed' = (rushed \/ ~(Quiet /\ PageIsFresh))
    \/ Restart /\ rushed' = (rushed \/ ~Idle)

Spec == Init /\ [][Next]_vars

-----------------------------------------------------------------------------
(* Lists, pages and handlers hold models of products.  *)
TypeOK ==
    /\ docs \in [Keys -> Documents]
    /\ productList \in Seq(Models)
    /\ home \in {"asked", "done", "failed"}
    /\ screen \in {"Home", "Products", "Edit", "Add"}
    /\ IF screen = "Edit" THEN form \in [index: Nat, obj: Models]
                          ELSE form = NoForm
    /\ cards \in Seq([obj: Models, busy: BOOLEAN])
    /\ spinning \subseteq Nat
    /\ dirty \in BOOLEAN
    /\ task \in [Taps -> {Unused} \cup Tasks]
    /\ rushed \in BOOLEAN

(* The desk as a Catalogue: a press is open until its write is answered,   *)
(* refused or lost.                                                        *)
Asked(t) ==
    CASE task[t].pc = "unused" -> [kind |-> "free"]
      [] task[t].pc \in {"upload", "write", "stray"}
           -> [kind |-> task[t].kind, key |-> task[t].obj.of, look |-> task[t].obj.text]
      [] OTHER -> [kind |-> "closed"]

Cat == INSTANCE Catalogue WITH
          Looks   <- Texts,
          shelf   <- [k \in Keys |-> [state |-> docs[k].state, look |-> docs[k].text]],
          request <- [t \in Taps |-> Asked(t)]

(* Each press changes the document of its own row, once or not at all,     *)
(* through overlapping handlers, shifted rows, restarts and late writes.   *)
ServesCatalogue == Cat!Spec

(* For a careful admin every product of the list is stored, also one that  *)
(* the panel added a moment ago, and every stored product is in the list   *)
(* once, but for an addition that was "deleted" under the collection's id. *)
ShelfMirrors ==
    ~rushed /\ Quiet /\ home = "done" =>
        /\ \A i, j \in DOMAIN productList : productList[i].of = productList[j].of => i = j
        /\ \A x \in ToSet(productList) : docs[x.of].state = "stored"
        /\ \A k \in Keys : docs[k].state = "stored" =>
              \/ \E x \in ToSet(productList) : x.of = k
              \/ /\ k \in Taps
                 /\ \E t \in Taps : task[t].pc = "deleted" /\ task[t].obj.of = k

-----------------------------------------------------------------------------
(* "Product Deleted Successfully": the product's document is gone.  Does   *)
(* not hold for a product the panel added: see the README.                 *)
DeletedIsDeleted ==
    \A t \in Taps : task[t].pc = "deleted" => docs[task[t].obj.of].state = "deleted"
=============================================================================
