----------------------------- MODULE CategoryDesk -----------------------------
(***************************************************************************)
(* The category desk of the admin panel: AppProvider's list of categories, *)
(* the two queries that fill it, the Categoriesview page, its forms        *)
(* EditCategories and AddCategory, the "categories" documents and the      *)
(* pictures in Firebase Storage.                                           *)
(*                                                                         *)
(* It differs from the product desk in what can go wrong: a failed query   *)
(* gives an empty list instead of an error, main's own query races with    *)
(* the dashboard's, every handler uploads a picture before it writes, and  *)
(* all added categories share one path in Storage.                         *)
(***************************************************************************)
EXTENDS Integers, FiniteSets, SequencesExt

CONSTANTS Categories,  \* keys (and ids) of the categories there from the start
          Taps         \* deletes, updates and additions; each is used once

ASSUME CategoriesFinite == IsFiniteSet(Categories) /\ IsFiniteSet(Taps)
ASSUME CategoriesNamed  == /\ "categories" \notin Categories
                           /\ Categories \cap Taps = {}
                           /\ "first" \notin Taps

VARIABLES
    docs,            \* the category documents, by key
    storage,         \* the picture at each path of Storage, by its upload
    categoriesList,  \* AppProvider._categoriesList
    early,           \* the query main starts and nobody awaits
    home,            \* the query of callBackFunction, behind the spinner
    screen,          \* "Home", "Categories", "Edit" or "Add"
    form,            \* index and categoryModel of the EditCategories page
    cards,           \* what Categoriesview's last frame drew
    spinning,        \* positions whose card has isLoading = true
    dirty,           \* a frame of Categoriesview is due
    task,            \* the handlers, running and finished
    rushed           \* history: the admin once pressed, or closed the app, early

loads == <<early, home>>
pages == <<screen, form, cards, spinning, dirty>>
desk  == <<docs, storage, categoriesList, loads, pages, task>>
vars  == <<desk, rushed>>

-----------------------------------------------------------------------------
(* Names and pictures are told apart by the tap that brought them.  A      *)
(* picture the panel did not upload is "first" and lies elsewhere.         *)
Keys      == Categories \cup Taps
Ids       == Categories \cup {"categories"}
Marks     == {"first"} \cup Taps
Documents == [state: {"none", "stored", "deleted"}, id: Ids, name: Marks,
              image: Marks]

(* A CategoryModel: its fields, and for its identity the document it is of *)
(* and the query or handler that built it.                                 *)
Models  == [of: Keys, by: {"early", "home"} \cup Taps, id: Ids, name: Marks,
            image: Marks]
Queries == [phase: {"asked", "answered", "erred", "done", "lost", "failed"},
            rows: Seq(Models)]

Kinds   == {"delete", "update", "add"}
Waiting == {"upload", "link", "write"}
Live    == Waiting \cup {"accepted", "refused"}
Ended   == {"deleted", "kept", "updated", "unsaved", "rangeError", "added",
            "failed", "unlinked", "dead"}
Unused  == [pc |-> "unused"]

(* A handler: the model it deletes, stores or adds, and the position of    *)
(* its card or form (0 for none, or once the card is disposed).  Of one    *)
(* that is over only the category is kept.                                 *)
Tasks   == [pc: Live \cup {"stray"}, kind: Kinds, obj: Models, place: Nat]
              \cup [pc: Ended, of: Keys]
AtTask(k, p, n) == [pc |-> p, kind |-> k.kind, obj |-> k.obj, place |-> n]
Over(k, p) == [pc |-> p, of |-> k.obj.of]

Unmount(k) == IF k.pc \in Live /\ k.kind = "delete" THEN AtTask(k, k.pc, 0) ELSE k

(* A query's answer: the documents of now, in an order that is Firestore's *)
(* own.  CategoryModel.fromJson takes the id from the field.               *)
Answer(by) ==
    SetToSeq({[of |-> k, by |-> by, id |-> docs[k].id, name |-> docs[k].name,
               image |-> docs[k].image] :
                 k \in {j \in Keys : docs[j].state = "stored"}})

NoForm  == << >>
Asking  == [phase |-> "asked", rows |-> << >>]
AtQuery(p) == [phase |-> p, rows |-> << >>]

Init ==
    /\ docs = [k \in Keys |->
                  IF k \in Categories
                  THEN [state |-> "stored", id |-> k, name |-> "first",
                        image |-> "first"]
                  ELSE [state |-> "none", id |-> "categories", name |-> "first",
                        image |-> "first"]]
    /\ storage = [p \in Ids |-> "first"]
    /\ categoriesList = << >>
    /\ early = Asking
    /\ home = Asking
    /\ screen = "Home"
    /\ form = NoForm
    /\ cards = << >>
    /\ spinning = {}
    /\ dirty = FALSE
    /\ task = [t \in Taps |-> Unused]
    /\ rushed = FALSE

-----------------------------------------------------------------------------
(* Each query is answered from the documents of one moment, or fails, and  *)
(* its answer arrives at a later one; getCategoryListFun then replaces the *)
(* list and notifies nobody.  getCategories catches every error and        *)
(* returns the empty list.                                                 *)
AnswerEarly ==
    /\ early.phase = "asked"
    /\ \/ early' = [phase |-> "answered", rows |-> Answer("early")]
       \/ early' = AtQuery("erred")
    /\ UNCHANGED <<docs, storage, categoriesList, home, pages, task>>

ArriveEarly ==
    /\ early.phase \in {"answered", "erred"}
    /\ categoriesList' = early.rows
    /\ early' = AtQuery(IF early.phase = "answered" THEN "done" ELSE "lost")
    /\ UNCHANGED <<docs, storage, home, pages, task>>

AnswerHome ==
    /\ home.phase = "asked"
    /\ \/ home' = [phase |-> "answered", rows |-> Answer("home")]
       \/ home' = AtQuery("erred")
    /\ UNCHANGED <<docs, storage, categoriesList, early, pages, task>>

(* The queries that follow it in callBackFunction touch no category.  *)
ArriveHome ==
    /\ home.phase \in {"answered", "erred"}
    /\ categoriesList' = home.rows
    /\ home' = AtQuery(IF home.phase = "answered" THEN "done" ELSE "lost")
    /\ UNCHANGED <<docs, storage, early, pages, task>>

(* Another query of callBackFunction throws: the spinner of HomePage stays. *)
HomeFails ==
    /\ home.phase \in {"asked", "answered", "erred"}
    /\ home' = AtQuery("failed")
    /\ UNCHANGED <<docs, storage, categoriesList, early, pages, task>>

-----------------------------------------------------------------------------
(* Categoriesview.build; the grid is laid out whole, nothing scrolls away. *)
Grid == [i \in 1 .. Len(categoriesList) |->
            [obj |-> categoriesList[i], busy |-> i \in spinning]]

OpenCategoriesView ==
    /\ home.phase \in {"done", "lost"}
    /\ screen = "Home"
    /\ screen' = "Categories"
    /\ cards' = Grid
    /\ UNCHANGED <<docs, storage, categoriesList, loads, form, spinning, dirty, task>>

LeaveCategoriesView ==
    /\ screen = "Categories"
    /\ screen' = "Home"
    /\ cards' = << >>
    /\ spinning' = {}
    /\ dirty' = FALSE
    /\ task' = [t \in Taps |-> Unmount(task[t])]
    /\ UNCHANGED <<docs, storage, categoriesList, loads, form>>

(* A frame: cards keep their state by position, those beyond the new       *)
(* length are disposed.                                                    *)
Rebuild ==
    /\ dirty
    /\ spinning' = spinning \cap DOMAIN categoriesList
    /\ cards' = Grid
    /\ dirty' = FALSE
    /\ task' = [t \in Taps |->
          IF task[t].pc \in Live /\ task[t].place \notin DOMAIN categoriesList
          THEN Unmount(task[t]) ELSE task[t]]
    /\ UNCHANGED <<docs, storage, categoriesList, loads, screen, form>>

-----------------------------------------------------------------------------
(* The delete icon, ignored while the card is drawn as loading.            *)
(* deleteCategoriesInfoFirebase notifies before its await.                 *)
TapDelete(t, i) ==
    /\ screen = "Categories"
    /\ ~cards[i].busy
    /\ task[t] = Unused
    /\ spinning' = spinning \cup {i}
    /\ dirty' = TRUE
    /\ task' = [task EXCEPT ![t] =
          [pc |-> "write", kind |-> "delete", obj |-> cards[i].obj, place |-> i]]
    /\ UNCHANGED <<docs, storage, categoriesList, loads, screen, form, cards>>

TapEdit(i) ==
    /\ screen = "Categories"
    /\ screen' = "Edit"
    /\ form' = [index |-> i, obj |-> cards[i].obj]
    /\ UNCHANGED <<docs, storage, categoriesList, loads, cards, spinning, dirty, task>>

OpenAddCategory ==
    /\ screen = "Categories"
    /\ screen' = "Add"
    /\ UNCHANGED <<docs, storage, categoriesList, loads, form, cards, spinning,
                   dirty, task>>

(* Mutant of LeaveForm: the form outlives its page.  *)
LeaveFormKeeps ==
    /\ screen \in {"Edit", "Add"}
    /\ screen' = "Categories"
    /\ UNCHANGED <<docs, storage, categoriesList, loads, form, cards, spinning,
                   dirty, task>>

(* The back button of either form, or its button with a picture and no     *)
(* name, which only pops.  Without a picture the buttons do nothing.       *)
LeaveForm ==
    /\ screen \in {"Edit", "Add"}
    /\ screen' = "Categories"
    /\ form' = NoForm
    /\ UNCHANGED <<docs, storage, categoriesList, loads, cards, spinning, dirty, task>>

(* "Update" with a picture and a name: the upload comes first, the form    *)
(* stays open.  copyWith sets the picture, once it is uploaded, and the    *)
(* name, unless the field has been emptied by then.                        *)
PressUpdate(t, emptied) ==
    /\ screen = "Edit"
    /\ task[t] = Unused
    /\ task' = [task EXCEPT ![t] =
          [pc |-> "upload", kind |-> "update",
           obj |-> [form.obj EXCEPT !.by = t, !.name = IF emptied THEN @ ELSE t],
           place |-> form.index]]
    /\ UNCHANGED <<docs, storage, categoriesList, loads, pages>>

(* "Add" with a picture and a name.  addSingleCategories uses the id of    *)
(* the collection as path of the picture and as id of the category.        *)
PressAdd(t) ==
    /\ screen = "Add"
    /\ task[t] = Unused
    /\ task' = [task EXCEPT ![t] =
          [pc |-> "upload", kind |-> "add",
           obj |-> [of |-> t, by |-> t, id |-> "categories", name |-> t,
                    image |-> "first"],
           place |-> 0]]
    /\ UNCHANGED <<docs, storage, categoriesList, loads, pages>>

(* Mutant of PutFile: the path of the collection, also for updates.  *)
PutFileShared(t) ==
    /\ task[t].pc = "upload"
    /\ storage' = [storage EXCEPT !["categories"] = t]
    /\ task' = [task EXCEPT ![t] = AtTask(@, "link", @.place)]
    /\ UNCHANGED <<docs, categoriesList, loads, pages>>

(* uploadUserImage, first await: the picture replaces the one at the path. *)
PutFile(t) ==
    /\ task[t].pc = "upload"
    /\ storage' = [storage EXCEPT ![task[t].obj.id] = t]
    /\ task' = [task EXCEPT ![t] = AtTask(@, "link", @.place)]
    /\ UNCHANGED <<docs, categoriesList, loads, pages>>

(* ... second await: a link to what lies at the path by now.  *)
GetDownloadURL(t) ==
    /\ task[t].pc = "link"
    /\ task' = [task EXCEPT ![t] =
          [pc |-> "write", kind |-> @.kind,
           obj |-> [@.obj EXCEPT !.image = storage[task[t].obj.id]],
           place |-> @.place]]
    /\ UNCHANGED <<docs, storage, categoriesList, loads, pages>>

(* Either await throws, and the handler ends there.  *)
UploadFails(t) ==
    /\ task[t].pc \in {"upload", "link"}
    /\ task' = [task EXCEPT ![t] =
          Over(@, IF @.pc = "upload" THEN "failed" ELSE "unlinked")]
    /\ UNCHANGED <<docs, storage, categoriesList, loads, pages>>

-----------------------------------------------------------------------------
(* A write reaches Firestore, from a handler or (see Restart) from the     *)
(* queue of a process that has ended; then nobody hears the answer.        *)
Writes(t, kind) ==
    /\ task[t].pc \in {"write", "stray"}
    /\ task[t].kind = kind
    /\ task' = [task EXCEPT ![t] =
          IF @.pc = "write" THEN AtTask(@, "accepted", @.place) ELSE Over(@, "dead")]
    /\ UNCHANGED <<storage, categoriesList, loads, pages>>

(* toJson  *)
Stores(x) == [state |-> "stored", id |-> x.id, name |-> x.name, image |-> x.image]

(* deleteSingleCategories: a document that is not there is deleted too.    *)
DeleteSingleCategories(t) ==
    /\ Writes(t, "delete")
    /\ docs' = IF task[t].obj.id \in Categories
               THEN [docs EXCEPT ![task[t].obj.id].state = "deleted"]
               ELSE docs

(* Mutant of UpdateSingleCategories: set instead of update.  *)
UpdateSingleCategoriesSets(t) ==
    /\ Writes(t, "update")
    /\ task[t].obj.id \in Categories
    /\ docs' = [docs EXCEPT ![task[t].obj.id] = Stores(task[t].obj)]

UpdateSingleCategories(t) ==
    /\ Writes(t, "update")
    /\ task[t].obj.id \in Categories
    /\ docs[task[t].obj.id].state = "stored"
    /\ docs' = [docs EXCEPT ![task[t].obj.id] = Stores(task[t].obj)]

(* The end of addSingleCategories: Firestore chooses the key.  *)
AddSingleCategories(t) ==
    /\ Writes(t, "add")
    /\ docs' = [docs EXCEPT ![t] = Stores(task[t].obj)]

(* Mutant of Refuse: an error that is not caught ends the handler.  *)
RefuseThrows(t) ==
    /\ task[t].pc = "write"
    /\ task' = [task EXCEPT ![t] = Over(@, "failed")]
    /\ UNCHANGED <<docs, storage, categoriesList, loads, pages>>

(* A write is refused: a delete returns the error's text, an update        *)
(* returns normally, an addition throws and ends there.                    *)
Refuse(t) ==
    /\ task[t].pc = "write"
    /\ task' = [task EXCEPT ![t] =
          IF @.kind = "add" THEN Over(@, "failed")
                            ELSE AtTask(@, "refused", @.place)]
    /\ UNCHANGED <<docs, storage, categoriesList, loads, pages>>

-----------------------------------------------------------------------------
NotifyListeners == dirty' = (screen # "Home")

(* The rest of deleteCategoriesInfoFirebase and of the card's handler.  *)
ResumeDelete(t) ==
    /\ task[t].pc \in {"accepted", "refused"}
    /\ task[t].kind = "delete"
    /\ categoriesList' = IF task[t].pc = "accepted"
                         THEN RemoveFirst(categoriesList, task[t].obj)
                         ELSE categoriesList
    /\ spinning' = spinning \ {task[t].place}
    /\ NotifyListeners
    /\ task' = [task EXCEPT ![t] =
          Over(@, IF @.pc = "accepted" THEN "deleted" ELSE "kept")]
    /\ UNCHANGED <<docs, storage, loads, screen, form, cards>>

(* The rest of updateCategoriesList: the position of when the form opened. *)
ResumeUpdate(t) ==
    /\ task[t].pc \in {"accepted", "refused"}
    /\ task[t].kind = "update"
    /\ IF task[t].place \in DOMAIN categoriesList
       THEN /\ categoriesList' = [categoriesList EXCEPT ![task[t].place] = task[t].obj]
            /\ NotifyListeners
            /\ task' = [task EXCEPT ![t] =
                  Over(@, IF @.pc = "accepted" THEN "updated" ELSE "unsaved")]
       ELSE /\ task' = [task EXCEPT ![t] = Over(@, "rangeError")]
            /\ UNCHANGED <<categoriesList, dirty>>
    /\ UNCHANGED <<docs, storage, loads, screen, form, cards, spinning>>

(* Mutant of ResumeAdd: the list waits for the next start.  *)
ResumeAddForgets(t) ==
    /\ task[t].pc = "accepted"
    /\ task[t].kind = "add"
    /\ NotifyListeners
    /\ task' = [task EXCEPT ![t] = Over(@, "added")]
    /\ UNCHANGED <<docs, storage, categoriesList, loads, screen, form, cards, spinning>>

(* The rest of addCategory.  *)
ResumeAdd(t) ==
    /\ task[t].pc = "accepted"
    /\ task[t].kind = "add"
    /\ categoriesList' = Append(categoriesList, task[t].obj)
    /\ NotifyListeners
    /\ task' = [task EXCEPT ![t] = Over(@, "added")]
    /\ UNCHANGED <<docs, storage, loads, screen, form, cards, spinning>>

-----------------------------------------------------------------------------
(* The process ends and is started again.  A write already handed to       *)
(* Firestore may still arrive later, or never.                             *)
Killed(k) == CASE k.pc = "write"  -> AtTask(k, "stray", 0)
               [] k.pc = "upload" -> Over(k, "failed")
               [] k.pc = "link"   -> Over(k, "unlinked")
               [] k.pc \in {"accepted", "refused"} -> Over(k, "dead")
               [] OTHER -> k

Restart ==
    /\ categoriesList' = << >>
    /\ early' = Asking
    /\ home' = Asking
    /\ screen' = "Home"
    /\ form' = NoForm
    /\ cards' = << >>
    /\ spinning' = {}
    /\ dirty' = FALSE
    /\ task' = [t \in Taps |-> Killed(task[t])]
    /\ UNCHANGED <<docs, storage>>

-----------------------------------------------------------------------------
Loading == AnswerEarly \/ ArriveEarly \/ AnswerHome \/ ArriveHome \/ HomeFails
Press(t) ==
    \/ \E i \in DOMAIN cards : TapDelete(t, i)
    \/ \E emptied \in BOOLEAN : PressUpdate(t, emptied)
    \/ PressAdd(t)
Serve(t) == PutFile(t) \/ GetDownloadURL(t) \/ UploadFails(t)
              \/ DeleteSingleCategories(t) \/ UpdateSingleCategories(t)
              \/ AddSingleCategories(t) \/ Refuse(t)
Resume(t) == ResumeDelete(t) \/ ResumeUpdate(t) \/ ResumeAdd(t)

Ongoing ==
    \/ Loading
    \/ OpenCategoriesView
    \/ LeaveCategoriesView
    \/ Rebuild
    \/ OpenAddCategory
    \/ LeaveForm
    \/ \E t \in Taps : Serve(t) \/ Resume(t)

(* A careful admin waits for main's query, for every handler and for the   *)
(* frame, presses only on a page that shows the list, and closes the app   *)
(* only when nothing runs.  Nothing in the code asks for any of this;      *)
(* "rushed" records that the admin was not careful.                        *)
Idle == \A t \in Taps : task[t].pc \notin Live

Quiet == early.phase \in {"done", "lost"} /\ ~dirty /\ Idle

PageIsFresh ==
    /\ Len(cards) = Len(categoriesList)
    /\ \A i \in DOMAIN cards : cards[i].obj = categoriesList[i]

Next ==
    \/ Ongoing /\ UNCHANGED rushed
    \/ /\ \/ \E i \in DOMAIN cards : TapEdit(i)
          \/ \E t \in Taps : Press(t)
       /\ rushed' = (rushed \/ ~(Quiet /\ PageIsFresh))
    \/ Restart /\ rushed' = (rushed \/ ~Idle)

Spec == Init /\ [][Next]_vars

-----------------------------------------------------------------------------
(* Lists, pages and handlers hold models the queries and handlers build.   *)
TypeOK ==
    /\ docs \in [Keys -> Documents]
    /\ storage \in [Ids -> Marks]
    /\ categoriesList \in Seq(Models)
    /\ early \in Queries
    /\ home \in Queries
    /\ screen \in {"Home", "Categories", "Edit", "Add"}
    /\ IF screen = "Edit" THEN form \in [index: Nat, obj: Models]
                          ELSE form = NoForm
    /\ cards \in Seq([obj: Models, busy: BOOLEAN])
    /\ spinning \subseteq Nat
    /\ dirty \in BOOLEAN
    /\ task \in [Taps -> {Unused} \cup Tasks]
    /\ rushed \in BOOLEAN

(* The desk as a Catalogue of names: a press is open until its write is    *)
(* answered, refused or lost.                                              *)
Asked(t) ==
    CASE task[t].pc = "unused" -> [kind |-> "free"]
      [] task[t].pc \in Waiting \cup {"stray"}
           -> [kind |-> task[t].kind, key |-> task[t].obj.of, look |-> task[t].obj.name]
      [] OTHER -> [kind |-> "closed"]

Cat == INSTANCE Catalogue WITH
          Looks   <- Marks,
          shelf   <- [k \in Keys |-> [state |-> docs[k].state, look |-> docs[k].name]],
          request <- [t \in Taps |-> Asked(t)]

(* Each press changes the document of its own row, once or not at all,     *)
(* through overlapping handlers, shifted rows, restarts and late writes.   *)
ServesCatalogue == Cat!Spec

Settled == ~rushed /\ Quiet /\ home.phase \in {"done", "lost"}

(* A careful admin whose queries did not fail has each stored category of  *)
(* the start in the list once, no deleted one, and each addition that was  *)
(* not deleted again, under the name that is stored, but for refused       *)
(* updates.                                                                *)
CategoriesMirror ==
    Settled /\ early.phase = "done" /\ home.phase = "done" =>
        /\ \A i, j \in DOMAIN categoriesList :
              categoriesList[i].of = categoriesList[j].of => i = j
        /\ \A k \in Categories : docs[k].state = "stored"
                                    <=> \E x \in ToSet(categoriesList) : x.of = k
        /\ \A k \in Taps : docs[k].state = "stored" =>
              \/ \E x \in ToSet(categoriesList) : x.of = k
              \/ \E t \in Taps : task[t].pc = "deleted" /\ task[t].of = k
        /\ \A x \in ToSet(categoriesList) :
              \/ x.name = docs[x.of].name
              \/ \E t \in Taps : task[t].pc = "unsaved" /\ task[t].of = x.of

(* A careful admin sees on every card of a category with a path of its own *)
(* the picture it had at first or, once an update of it went through, the  *)
(* one that lies at that path, unless an update of that category broke off *)
(* after its upload.  Added categories share a path: there only the last   *)
(* one keeps its picture, see the README.                                  *)
PicturesShown ==
    Settled => \A x \in ToSet(categoriesList) :
        LET ended(pcs) == \E t \in Taps : task[t].pc \in pcs /\ task[t].of = x.of
        IN \/ x.id \notin Categories
           \/ IF x.image = "first" THEN ~ended({"updated"})
                                   ELSE storage[x.id] = x.image
           \/ ended({"unsaved", "unlinked"})

-----------------------------------------------------------------------------
(* Every awaited call returns or throws, and its continuation runs.  *)
Answered(t) == task[t].pc \in Live /\ (Serve(t) \/ Resume(t)) /\ UNCHANGED rushed

Fairness == \A t \in Taps : WF_vars(Answered(t))

FairSpec == Spec /\ Fairness

(* The delete spinner of a card never turns for ever, whatever becomes of  *)
(* the delete and of the card.                                             *)
SpinnerStops == spinning # {} ~> spinning = {}
=============================================================================
