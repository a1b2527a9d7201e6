------------------------------ MODULE UserDesk ------------------------------
(***************************************************************************)
(* The user desk of the admin panel: AppProvider's list of users, the two  *)
(* queries that fill it at the start, the UserView page with its           *)
(* SingleUserCard rows, the EditProfile page, and the "users" collection.  *)
(*                                                                         *)
(* As in OrderBoard an action is the Dart code between two awaits.  A row  *)
(* is edited through the list position it had when its edit page was       *)
(* opened and removed by object identity, so what matters here is how      *)
(* deletes, edits and the start-up queries overlap.                        *)
(***************************************************************************)
EXTENDS Integers, FiniteSets, SequencesExt

CONSTANTS Users,   \* the ids of the "users" documents
          Taps     \* deletes and updates of the admin, each used once

ASSUME UsersFinite == IsFiniteSet(Users)

VARIABLES
    users,       \* the documents of "users"
    userList,    \* AppProvider._userList
    early,       \* the query main starts and nobody awaits
    home,        \* the query of callBackFunction, behind HomePage's spinner
    screen,      \* the page on top: "Home", "Users" or "Edit"
    form,        \* index and userModel of the EditProfile page
    cards,       \* the rows the last frame drew
    spinning,    \* positions whose card state has isLoading = true
    dirty,       \* a frame of UserView is due
    task,        \* the delete and update handlers, running and finished
    touched      \* history: the users another client has written to

loads == <<early, home>>
pages == <<screen, form, cards, spinning, dirty>>
vars  == <<users, userList, loads, pages, task, touched>>

-----------------------------------------------------------------------------
(* A document holds a name and an image; "old" is what they were first.    *)
Texts     == {"old", "new"}
Documents == [state: {"new", "stored", "deleted"}, name: Texts, image: Texts]

(* A UserModel is never assigned to and compared by identity, that is by   *)
(* who built it: one of the queries, or copyWith in one of the updates.    *)
Models  == [id: Users, by: {"early", "home"} \cup Taps, name: Texts, image: Texts]
Queries == [phase: {"asked", "answered", "done", "failed"}, rows: Seq(Models)]

Kinds  == {"delete", "update"}
Live   == {"upload", "write", "accepted", "refused"}
Ended  == {"deleted", "kept", "saved", "unsaved", "rangeError", "failed"}

(* A handler: the model it deletes or stores, the list position of its     *)
(* card or form, and whether that card or page is still there.  Of one     *)
(* that is over only the user is kept.                                     *)
Unused == [pc |-> "unused"]
Tasks  == [pc: Live, kind: Kinds, obj: Models, place: Nat, mounted: BOOLEAN]
             \cup [pc: Ended, id: Users]
AtTask(k, p, m) == [pc |-> p, kind |-> k.kind, obj |-> k.obj,
                    place |-> k.place, mounted |-> m]
Over(k, p) == [pc |-> p, id |-> k.obj.id]

(* Disposing pages or cards with handlers that still run.  *)
Unmount(k) == IF k.pc \in Live THEN AtTask(k, k.pc, FALSE) ELSE k

(* A query's answer: the documents of now, as models built by that query.  *)
Answer(by) ==
    SetToSeqs({[id |-> u, by |-> by, name |-> users[u].name,
                image |-> users[u].image] :
                  u \in {v \in Users : users[v].state = "stored"}})

(* What UserView.build draws for each position.  *)
Rows == [i \in 1 .. Len(userList) |->
            [obj |-> userList[i], busy |-> i \in spinning]]

NoForm == << >>

Init ==
    /\ users \in [Users -> {[state |-> s, name |-> "old", image |-> "old"] :
                                s \in {"new", "stored"}}]
    /\ userList = << >>
    /\ early = [phase |-> "asked", rows |-> << >>]
    /\ home = [phase |-> "asked", rows |-> << >>]
    /\ screen = "Home"
    /\ form = NoForm
    /\ cards = << >>
    /\ spinning = {}
    /\ dirty = FALSE
    /\ task = [t \in Taps |-> Unused]
    /\ touched = {}

-----------------------------------------------------------------------------
(* Both queries are on their way from the start.  Each is answered from    *)
(* the documents of one moment and its answer arrives at a later one;      *)
(* getUserListFun then replaces the list and notifies nobody.              *)
AnswerEarly ==
    /\ early.phase = "asked"
    /\ \E rows \in Answer("early") : early' = [phase |-> "answered", rows |-> rows]
    /\ UNCHANGED <<users, userList, home, pages, task>>

ArriveEarly ==
    /\ early.phase = "answered"
    /\ userList' = early.rows
    /\ early' = [phase |-> "done", rows |-> << >>]
    /\ UNCHANGED <<users, home, pages, task>>

AnswerHome ==
    /\ home.phase = "asked"
    /\ \E rows \in Answer("home") : home' = [phase |-> "answered", rows |-> rows]
    /\ UNCHANGED <<users, userList, early, pages, task>>

(* The six queries that follow it in callBackFunction touch no user.  *)
ArriveHome ==
    /\ home.phase = "answered"
    /\ userList' = home.rows
    /\ home' = [phase |-> "done", rows |-> << >>]
    /\ UNCHANGED <<users, early, pages, task>>

(* getUserList has no try: main's call just ends, and a failure of         *)
(* callBackFunction leaves HomePage behind its spinner for good.           *)
QueryFails ==
    /\ \/ /\ early.phase = "asked"
          /\ early' = [phase |-> "done", rows |-> << >>]
          /\ UNCHANGED home
       \/ /\ home.phase = "asked"
          /\ home' = [phase |-> "failed", rows |-> << >>]
          /\ UNCHANGED early
    /\ UNCHANGED <<users, userList, pages, task>>

-----------------------------------------------------------------------------
OpenUserView ==
    /\ home.phase = "done"
    /\ screen = "Home"
    /\ screen' = "Users"
    /\ cards' = Rows
    /\ UNCHANGED <<users, userList, loads, form, spinning, dirty, task>>

(* UserView goes, and with it every card, form and spinner.  *)
CloseUserView ==
    /\ screen' = "Home"
    /\ form' = NoForm
    /\ cards' = << >>
    /\ spinning' = {}
    /\ dirty' = FALSE
    /\ task' = [t \in Taps |-> Unmount(task[t])]

LeaveUserView ==
    /\ screen = "Users"
    /\ CloseUserView
    /\ UNCHANGED <<users, userList, loads>>

(* A frame of UserView, which also happens under the edit page: cards keep *)
(* their state by position, those beyond the new length are disposed.      *)
Rebuild ==
    /\ dirty
    /\ spinning' = spinning \cap DOMAIN userList
    /\ cards' = Rows
    /\ dirty' = FALSE
    /\ task' = [t \in Taps |->
          IF task[t].pc \in Live /\ task[t].kind = "delete"
               /\ task[t].place \notin DOMAIN userList
          THEN Unmount(task[t]) ELSE task[t]]
    /\ UNCHANGED <<users, userList, loads, screen, form>>

(* A card that is scrolled away is disposed, and comes back without its    *)
(* spinner.                                                                *)
ScrollAway(i) ==
    /\ screen = "Users"
    /\ i \in spinning
    /\ spinning' = spinning \ {i}
    /\ dirty' = TRUE
    /\ task' = [t \in Taps |->
          IF task[t].pc \in Live /\ task[t].kind = "delete" /\ task[t].place = i
          THEN Unmount(task[t]) ELSE task[t]]
    /\ UNCHANGED <<users, userList, loads, screen, form, cards>>

-----------------------------------------------------------------------------
(* The delete icon of a card, drawn unless the card was loading.  *)
TapDelete(t, i) ==
    /\ screen = "Users"
    /\ ~cards[i].busy
    /\ task[t] = Unused
    /\ spinning' = spinning \cup {i}
    /\ dirty' = TRUE
    /\ task' = [task EXCEPT ![t] =
          [pc |-> "write", kind |-> "delete", obj |-> cards[i].obj,
           place |-> i, mounted |-> TRUE]]
    /\ UNCHANGED <<users, userList, loads, screen, form, cards>>

(* The edit icon pushes EditProfile with the index and model of the card.  *)
TapEdit(i) ==
    /\ screen = "Users"
    /\ screen' = "Edit"
    /\ form' = [index |-> i, obj |-> cards[i].obj]
    /\ UNCHANGED <<users, userList, loads, cards, spinning, dirty, task>>

(* Mutant of CloseForm: the form outlives its page.  *)
CloseFormKeeps ==
    /\ screen' = "Users"
    /\ UNCHANGED form

(* EditProfile goes: Navigator.pop, or the back button.  *)
CloseForm ==
    /\ screen' = "Users"
    /\ form' = NoForm

UnmountForms(tasks) ==
    [t \in Taps |-> IF tasks[t].pc \in Live /\ tasks[t].kind = "update"
                    THEN Unmount(tasks[t]) ELSE tasks[t]]

LeaveEdit ==
    /\ screen = "Edit"
    /\ CloseForm
    /\ task' = UnmountForms(task)
    /\ UNCHANGED <<users, userList, loads, cards, spinning, dirty>>

(* UserModel.copyWith  *)
CopyWith(obj, t, named, photo) ==
    [id |-> obj.id, by |-> t, name |-> IF named THEN "new" ELSE obj.name,
     image |-> IF photo THEN "new" ELSE obj.image]

(* "Update" with a picture but no name: two pops, and nothing is stored.   *)
UpdatePictureOnly ==
    /\ screen = "Edit"
    /\ CloseUserView
    /\ UNCHANGED <<users, userList, loads>>

(* "Update" with a picture and a name: the upload is awaited, the page     *)
(* stays and can be used again.  The name is read after the upload, when   *)
(* its field may have been emptied.                                        *)
UpdateWithPicture(t, named) ==
    /\ screen = "Edit"
    /\ task[t] = Unused
    /\ task' = [task EXCEPT ![t] =
          [pc |-> "upload", kind |-> "update",
           obj |-> CopyWith(form.obj, t, named, TRUE),
           place |-> form.index, mounted |-> TRUE]]
    /\ UNCHANGED <<users, userList, loads, pages>>

(* "Update" without a picture: updateUserList is started, not awaited, and *)
(* the page goes.                                                          *)
UpdateName(t, named) ==
    /\ screen = "Edit"
    /\ task[t] = Unused
    /\ task' = UnmountForms([task EXCEPT ![t] =
          [pc |-> "write", kind |-> "update",
           obj |-> CopyWith(form.obj, t, named, FALSE),
           place |-> form.index, mounted |-> FALSE]])
    /\ CloseForm
    /\ UNCHANGED <<users, userList, loads, cards, spinning, dirty>>

(* uploadUserImage returns: updateUserList is started and the page goes,   *)
(* unless it is gone already and pop throws.                               *)
UploadDone(t) ==
    /\ task[t].pc = "upload"
    /\ IF task[t].mounted
       THEN /\ task' = UnmountForms([task EXCEPT ![t] = AtTask(@, "write", FALSE)])
            /\ CloseForm
       ELSE /\ task' = [task EXCEPT ![t] = AtTask(@, "write", FALSE)]
            /\ UNCHANGED <<screen, form>>
    /\ UNCHANGED <<users, userList, loads, cards, spinning, dirty>>

(* ... or throws: nothing is stored and the page stays.  *)
UploadFails(t) ==
    /\ task[t].pc = "upload"
    /\ task' = [task EXCEPT ![t] = Over(@, "failed")]
    /\ UNCHANGED <<users, userList, loads, pages>>

-----------------------------------------------------------------------------
(* FirebaseFirestoreHelper.deleteSingleUser: deleting a document that is   *)
(* gone succeeds too.                                                      *)
DeleteSingleUser(t) ==
    /\ task[t].pc = "write"
    /\ task[t].kind = "delete"
    /\ users' = [users EXCEPT ![task[t].obj.id].state = "deleted"]
    /\ task' = [task EXCEPT ![t] = AtTask(@, "accepted", @.mounted)]
    /\ UNCHANGED <<userList, loads, pages>>

(* Mutant of UpdateSingleUser: set, which creates what is not there.  *)
UpdateSingleUserSets(t) ==
    /\ task[t].pc = "write"
    /\ task[t].kind = "update"
    /\ users' = [users EXCEPT ![task[t].obj.id] =
          [state |-> "stored", name |-> task[t].obj.name,
           image |-> task[t].obj.image]]
    /\ task' = [task EXCEPT ![t] = AtTask(@, "accepted", @.mounted)]
    /\ UNCHANGED <<userList, loads, pages>>

(* FirebaseFirestoreHelper.updateSingleUser: update stores all fields of   *)
(* toJson, in a document that must exist.                                  *)
UpdateSingleUser(t) ==
    /\ task[t].pc = "write"
    /\ task[t].kind = "update"
    /\ users[task[t].obj.id].state = "stored"
    /\ users' = [users EXCEPT ![task[t].obj.id] =
          [state |-> "stored", name |-> task[t].obj.name,
           image |-> task[t].obj.image]]
    /\ task' = [task EXCEPT ![t] = AtTask(@, "accepted", @.mounted)]
    /\ UNCHANGED <<userList, loads, pages>>

(* Mutant of Refuse: an error that is not caught ends the handler.  *)
RefuseThrows(t) ==
    /\ task[t].pc = "write"
    /\ task' = [task EXCEPT ![t] = Over(@, "failed")]
    /\ UNCHANGED <<users, userList, loads, pages>>

(* Either write can be refused; both helpers catch that.  A delete returns *)
(* the error's text, an update returns as if nothing had happened.         *)
Refuse(t) ==
    /\ task[t].pc = "write"
    /\ task' = [task EXCEPT ![t] = AtTask(@, "refused", @.mounted)]
    /\ UNCHANGED <<users, userList, loads, pages>>

-----------------------------------------------------------------------------
NotifyListeners == dirty' = (screen # "Home")

(* Mutants of ResumeDelete: the row goes even if the delete was refused,   *)
(* and a spinner that is not stopped.                                      *)
ResumeDeleteAnyway(t) ==
    /\ task[t].pc \in {"accepted", "refused"}
    /\ task[t].kind = "delete"
    /\ userList' = RemoveFirst(userList, task[t].obj)
    /\ spinning' = IF task[t].mounted THEN spinning \ {task[t].place} ELSE spinning
    /\ NotifyListeners
    /\ task' = [task EXCEPT ![t] =
          Over(@, IF @.pc = "accepted" THEN "deleted" ELSE "kept")]
    /\ UNCHANGED <<users, loads, screen, form, cards>>

ResumeDeleteSpins(t) ==
    /\ task[t].pc \in {"accepted", "refused"}
    /\ task[t].kind = "delete"
    /\ userList' = IF task[t].pc = "accepted"
                   THEN RemoveFirst(userList, task[t].obj) ELSE userList
    /\ NotifyListeners
    /\ task' = [task EXCEPT ![t] =
          Over(@, IF @.pc = "accepted" THEN "deleted" ELSE "kept")]
    /\ UNCHANGED <<users, loads, screen, form, cards, spinning>>

(* The rest of deleteUserInfoFirebase and of the card's handler, which     *)
(* stops the spinner of its own card, whatever user that shows by now;     *)
(* setState on a card that is gone throws, with nothing left to do.        *)
ResumeDelete(t) ==
    /\ task[t].pc \in {"accepted", "refused"}
    /\ task[t].kind = "delete"
    /\ userList' = IF task[t].pc = "accepted"
                   THEN RemoveFirst(userList, task[t].obj) ELSE userList
    /\ spinning' = IF task[t].mounted THEN spinning \ {task[t].place} ELSE spinning
    /\ NotifyListeners
    /\ task' = [task EXCEPT ![t] =
          Over(@, IF @.pc = "accepted" THEN "deleted" ELSE "kept")]
    /\ UNCHANGED <<users, loads, screen, form, cards>>

(* Mutants of ResumeUpdate: added as if it were new, the list forgotten,   *)
(* and no notification.                                                    *)
ResumeUpdateAppends(t) ==
    /\ task[t].pc \in {"accepted", "refused"}
    /\ task[t].kind = "update"
    /\ userList' = Append(userList, task[t].obj)
    /\ NotifyListeners
    /\ task' = [task EXCEPT ![t] =
          Over(@, IF @.pc = "accepted" THEN "saved" ELSE "unsaved")]
    /\ UNCHANGED <<users, loads, screen, form, cards, spinning>>

ResumeUpdateForgets(t) ==
    /\ task[t].pc \in {"accepted", "refused"}
    /\ task[t].kind = "update"
    /\ NotifyListeners
    /\ task' = [task EXCEPT ![t] =
          Over(@, IF @.pc = "accepted" THEN "saved" ELSE "unsaved")]
    /\ UNCHANGED <<users, userList, loads, screen, form, cards, spinning>>

ResumeUpdateSilent(t) ==
    /\ task[t].pc \in {"accepted", "refused"}
    /\ task[t].kind = "update"
    /\ task[t].place \in DOMAIN userList
    /\ userList' = [userList EXCEPT ![task[t].place] = task[t].obj]
    /\ task' = [task EXCEPT ![t] =
          Over(@, IF @.pc = "accepted" THEN "saved" ELSE "unsaved")]
    /\ UNCHANGED <<users, loads, pages>>

(* The rest of updateUserList: the model goes to the position the card had *)
(* when the form was opened; a list that is shorter by now throws.         *)
ResumeUpdate(t) ==
    /\ task[t].pc \in {"accepted", "refused"}
    /\ task[t].kind = "update"
    /\ IF task[t].place \in DOMAIN userList
       THEN /\ userList' = [userList EXCEPT ![task[t].place] = task[t].obj]
            /\ NotifyListeners
            /\ task' = [task EXCEPT ![t] =
                  Over(@, IF @.pc = "accepted" THEN "saved" ELSE "unsaved")]
       ELSE /\ task' = [task EXCEPT ![t] = Over(@, "rangeError")]
            /\ UNCHANGED <<userList, dirty>>
    /\ UNCHANGED <<users, loads, screen, form, cards, spinning>>

-----------------------------------------------------------------------------
(* Customers sign up and change their own name or picture, and another     *)
(* panel may delete them.                                                  *)
OtherClient(u) ==
    /\ \/ /\ users[u].state = "new"
          /\ users' = [users EXCEPT ![u].state = "stored"]
       \/ /\ users[u].state = "stored"
          /\ \/ users' = [users EXCEPT ![u].name = "new"]
             \/ users' = [users EXCEPT ![u].image = "new"]
             \/ users' = [users EXCEPT ![u].state = "deleted"]
    /\ touched' = touched \cup {u}
    /\ UNCHANGED <<userList, loads, pages, task>>

-----------------------------------------------------------------------------
Loading == AnswerEarly \/ ArriveEarly \/ AnswerHome \/ ArriveHome \/ QueryFails
Tap(t) ==
    \/ \E i \in DOMAIN cards : TapDelete(t, i)
    \/ \E named \in BOOLEAN : UpdateWithPicture(t, named) \/ UpdateName(t, named)
Serve(t) == UploadDone(t) \/ UploadFails(t) \/ DeleteSingleUser(t)
              \/ UpdateSingleUser(t) \/ Refuse(t)
Resume(t) == ResumeDelete(t) \/ ResumeUpdate(t)

Ongoing ==
    \/ Loading
    \/ LeaveUserView
    \/ Rebuild
    \/ \E i \in spinning : ScrollAway(i)
    \/ LeaveEdit
    \/ UpdatePictureOnly
    \/ \E t \in Taps : Serve(t) \/ Resume(t)

PanelNext ==
    /\ \/ Ongoing
       \/ OpenUserView
       \/ \E i \in DOMAIN cards : TapEdit(i)
       \/ \E t \in Taps : Tap(t)
    /\ UNCHANGED touched

Next == PanelNext \/ \E u \in Users : OtherClient(u)
Spec == Init /\ [][Next]_vars

(* The panel with no other writer to "users".  *)
PanelSpec == Init /\ [][PanelNext]_vars

(* A patient admin waits for main's query, for every handler and for the   *)
(* frame before opening the page and before touching a row or a form.      *)
(* Nothing in the code asks for it.                                        *)
Quiet ==
    /\ early.phase = "done"
    /\ ~dirty
    /\ \A t \in Taps : task[t].pc \notin Live

PatientNext ==
    \/ /\ \/ Ongoing
          \/ Quiet /\ OpenUserView
          \/ Quiet /\ \E i \in DOMAIN cards : TapEdit(i)
          \/ Quiet /\ \E t \in Taps : Tap(t)
       /\ UNCHANGED touched
    \/ \E u \in Users : OtherClient(u)

PatientSpec == Init /\ [][PatientNext]_vars

-----------------------------------------------------------------------------
(* Lists, pages and handlers hold models the queries and copyWith build.   *)
TypeOK ==
    /\ users \in [Users -> Documents]
    /\ userList \in Seq(Models)
    /\ early \in Queries
    /\ home \in Queries
    /\ screen \in {"Home", "Users", "Edit"}
    /\ IF screen = "Edit" THEN form \in [index: Nat, obj: Models]
                          ELSE form = NoForm
    /\ cards \in Seq([obj: Models, busy: BOOLEAN])
    /\ spinning \subseteq Nat
    /\ dirty \in BOOLEAN
    /\ task \in [Taps -> {Unused} \cup Tasks]
    /\ touched \subseteq Users

(* The desk as a Catalogue: a tap is open until its write is answered or   *)
(* refused.                                                                *)
Look(x) == <<x.name, x.image>>

Asked(t) ==
    CASE task[t].pc = "unused" -> [kind |-> "free"]
      [] task[t].pc \in {"upload", "write"}
           -> [kind |-> task[t].kind, key |-> task[t].obj.id, look |-> Look(task[t].obj)]
      [] OTHER -> [kind |-> "closed"]

Cat == INSTANCE Catalogue WITH
          Keys    <- Users,
          Looks   <- Texts \X Texts,
          shelf   <- [u \in Users |->
                        [state |-> IF users[u].state = "new" THEN "none"
                                                             ELSE users[u].state,
                         look  |-> Look(users[u])]],
          request <- [t \in Taps |-> Asked(t)]

(* With no other writer, each tap changes the document of its own row, in  *)
(* the way the admin asked for, once or not at all; an update that arrives *)
(* after a delete does not bring the user back.                            *)
ServesCatalogue == Cat!Spec

(* A card that spins was put there by a delete that still runs and will    *)
(* stop it; cards that moved, scrolled or closed leave no spinner behind.  *)
SpinnerHasDelete ==
    \A i \in spinning : \E t \in Taps :
        /\ task[t].pc \in {"write", "accepted", "refused"}
        /\ task[t].kind = "delete"
        /\ task[t].place = i
        /\ task[t].mounted

Listed == {x.id : x \in ToSet(userList)}

(* For a patient admin, users are listed once, and a user leaves the list  *)
(* only after the document is deleted.                                     *)
ListedOnce == \A i, j \in DOMAIN userList :
                  userList[i].id = userList[j].id => i = j

OnlyDeletedLeave ==
    [][home.phase = "done" /\ early.phase = "done" =>
         \A u \in Listed \ Listed' : users[u].state = "deleted"]_vars

(* A patient admin never taps a row that shows another user than the list. *)
FreshRows ==
    Quiet /\ screen # "Home" => cards = Rows

(* A patient admin's quiet desk shows every user no other client wrote to  *)
(* if and only if the document is stored, with the name and picture it     *)
(* has, but for those whose update was refused.                            *)
RosterMirrors ==
    Quiet /\ home.phase = "done" =>
        /\ \A u \in Users \ touched : u \in Listed <=> users[u].state = "stored"
        /\ \A x \in ToSet(userList) :
              \/ x.id \in touched
              \/ x.name = users[x.id].name /\ x.image = users[x.id].image
              \/ \E t \in Taps : task[t].pc = "unsaved" /\ task[t].id = x.id

(* updateSingleUser stores all fields of a model that was read earlier.    *)
(* A patient admin's update still never puts an earlier name or picture    *)
(* back, unless another client had written to that user.                   *)
NothingPutBack ==
    [][\A u \in Users \ touched' :
          /\ users[u].name = "new" => users'[u].name = "new"
          /\ users[u].image = "new" => users'[u].image = "new"]_vars

-----------------------------------------------------------------------------
(* "User Deleted Successfully": the user is off the list.  Does not hold:  *)
(* see the README.                                                         *)
DeletedIsGone ==
    \A t \in Taps : task[t].pc = "deleted" => task[t].id \notin Listed

-----------------------------------------------------------------------------
(* Every awaited call returns or throws, and its continuation runs.  *)
Fairness == \A t \in Taps : WF_vars((Serve(t) \/ Resume(t)) /\ UNCHANGED touched)

FairPanel == PanelSpec /\ Fairness

(* No spinner turns for ever: with finitely many deletes they all stop.    *)
SpinnerStops == spinning # {} ~> spinning = {}
=============================================================================
