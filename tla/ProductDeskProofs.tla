-------------------------- MODULE ProductDeskProofs --------------------------
(***************************************************************************)
(* Proofs about the product desk, for any finite sets of products and of   *)
(* taps.                                                                   *)
(***************************************************************************)
EXTENDS ProductDesk, ListLemmas

-----------------------------------------------------------------------------
(* Type correctness.  A model is stronger than its type: its id is that of *)
(* its document, for a product the panel added the collection's name.      *)

NameOf(k) == IF k \in Products THEN k ELSE "products"

Own == {x \in Models : x.id = NameOf(x.of)}

OwnTasks == [pc: Live \cup Ended, kind: Kinds, obj: Own, place: Nat]

OwnForm == IF screen = "Edit" THEN form \in [index: Nat, obj: Own] ELSE form = NoForm

OwnCards == cards \in Seq([obj: Own, busy: BOOLEAN])

OwnTypes ==
    /\ docs \in [Keys -> Documents]
    /\ \A k \in Keys : docs[k].id = NameOf(k)
    /\ productList \in Seq(Own)
    /\ home \in {"asked", "done", "failed"}
    /\ screen \in {"Home", "Products", "Edit", "Add"}
    /\ OwnForm
    /\ OwnCards
    /\ spinning \subseteq Nat
    /\ dirty \in BOOLEAN
    /\ task \in [Taps -> {Unused} \cup OwnTasks]
    /\ rushed \in BOOLEAN

(* Firestore has a document under the key of a press only once that press  *)
(* was an addition whose write arrived; nothing deletes it, as no model of *)
(* it has its key for an id.                                               *)
NewOnes ==
    \A t \in Taps :
        /\ task[t].pc # "unused" /\ task[t].kind = "add" => task[t].obj.of = t
        /\ docs[t].state # "none" =>
              task[t].pc \notin {"unused", "upload", "write", "stray"}
        /\ docs[t].state # "deleted"

DeskInv == OwnTypes /\ NewOnes

(* The keys, told apart.  *)
LEMMA NameFacts ==
    ASSUME NEW x \in Own
    PROVE  /\ x.of \in Keys
           /\ x.id \in Products => x.id = x.of
           /\ x.of \in Products => x.id = x.of
BY ProductsNamed DEF Own, NameOf, Models

(* A model of a sequence is a model.  *)
LEMMA OwnElement ==
    ASSUME NEW s \in Seq(Own), NEW i \in DOMAIN s
    PROVE  i \in Nat \ {0} /\ i \in 1 .. Len(s) /\ s[i] \in Own
BY DEF Own

(* What is known of one card.  *)
LEMMA CardFacts ==
    ASSUME OwnCards, NEW i \in DOMAIN cards
    PROVE  i \in Nat \ {0} /\ cards[i].obj \in Own /\ cards[i].busy \in BOOLEAN
<1> DEFINE R == [obj: Own, busy: BOOLEAN]
<1>1. cards \in Seq(R)
  BY DEF OwnCards
<1> HIDE DEF R
<1>2. i \in 1 .. Len(cards) /\ Len(cards) \in Nat
  BY <1>1
<1>3. cards[i] \in R
  BY <1>1, <1>2
<1> QED
  BY <1>2, <1>3 DEF R

(* An empty list and an empty page.  *)
LEMMA EmptyTypes == << >> \in Seq(Own) /\ << >> \in Seq([obj: Own, busy: BOOLEAN])
<1>1. \A S : << >> \in Seq(S)
  OBVIOUS
<1> QED
  BY <1>1, Zenon

(* What getProduct assigns to the list.  *)
LEMMA LoadedList ==
    ASSUME OwnTypes, GetProduct
    PROVE  /\ productList' \in Seq(Own)
           /\ IsInjective(productList')
           /\ \A k \in Keys : docs[k].state = "stored" <=> \E x \in ToSet(productList') : x.of = k
           /\ \A x, y \in ToSet(productList') : x.of = y.of => x = y
<1> DEFINE S == {k \in Keys : docs[k].state = "stored"}
           m(k) == [of |-> k, by |-> "load", id |-> docs[k].id, text |-> docs[k].text]
           f == [k \in S |-> m(k)]
           T == {m(k) : k \in S}
<1>1. IsFiniteSet(S)
  BY ProductsFinite, FS_Union, FS_Subset DEF Keys
<1>2. f \in Surjection(S, T)
  BY DEF Surjection
<1>3. IsFiniteSet(T)
  BY <1>1, <1>2, FS_Surjection
<1>4. T \subseteq Own
  BY DEF OwnTypes, Own, Models, Documents
<1>5. productList' \in SetToSeqs(T)
  BY DEF GetProduct
<1>6. \A x \in T : x.of \in S /\ x = m(x.of)
  OBVIOUS
<1>6a. \A k \in S : m(k) \in T /\ m(k).of = k
  OBVIOUS
<1> HIDE DEF T
<1>7. productList' \in Seq(T) /\ IsInjective(productList') /\ ToSet(productList') = T
  BY <1>3, <1>5, QueryFacts
<1>8. productList' \in Seq(Own)
  BY <1>4, <1>7
<1> HIDE DEF m
<1> QED
  BY <1>6, <1>6a, <1>7, <1>8

(* What a frame draws.  *)
LEMMA GridType ==
    ASSUME OwnTypes
    PROVE  /\ Grid \in Seq([obj: Own, busy: BOOLEAN])
           /\ Len(Grid) = Len(productList)
           /\ \A i \in DOMAIN productList : Grid[i].obj = productList[i]
<1>1. productList \in Seq(Own) /\ Len(productList) \in Nat
  BY DEF OwnTypes
<1>2. \A i \in 1 .. Len(productList) : productList[i] \in Own
  BY <1>1, OwnElement
<1> HIDE DEF Own
<1> QED
  BY <1>1, <1>2 DEF Grid

(* A handler that has been started is a record of all four fields.  *)
LEMMA StartedTask ==
    ASSUME OwnTypes, NEW t \in Taps, task[t].pc # "unused"
    PROVE  /\ task[t] \in OwnTasks
           /\ task[t].pc \in Live \cup Ended
           /\ task[t].kind \in Kinds
           /\ task[t].obj \in Own
           /\ task[t].place \in Nat
<1>1. task[t] \in OwnTasks
  BY DEF OwnTypes, Unused
<1> QED
  BY <1>1 DEF OwnTasks

(* Changing the phase or the position of a handler.  *)
LEMMA TaskUpdate ==
    ASSUME NEW k \in OwnTasks, NEW p \in Live \cup Ended, NEW n \in Nat
    PROVE  /\ AtTask(k, p, n) \in OwnTasks
           /\ AtTask(k, p, n).pc = p
           /\ AtTask(k, p, n).kind = k.kind
           /\ AtTask(k, p, n).obj = k.obj
           /\ AtTask(k, p, n).place = n
BY DEF OwnTasks, AtTask

(* Disposing a card changes nothing of a handler but its position.  *)
LEMMA UnmountFacts ==
    ASSUME OwnTypes, NEW t \in Taps
    PROVE  /\ Unmount(task[t]) \in {Unused} \cup OwnTasks
           /\ Unmount(task[t]).pc = task[t].pc
           /\ task[t].pc # "unused" => /\ Unmount(task[t]).kind = task[t].kind
                                       /\ Unmount(task[t]).obj = task[t].obj
           /\ task[t].pc # "unused" /\ task[t].kind # "delete" => Unmount(task[t]) = task[t]
<1>1. CASE task[t].pc \in Live
  <2>1. task[t] \in OwnTasks
    BY <1>1, StartedTask DEF Live
  <2> QED
    BY <1>1, <2>1, TaskUpdate DEF Unmount
<1>2. CASE task[t].pc \notin Live
  BY <1>2 DEF Unmount, OwnTypes
<1> QED
  BY <1>1, <1>2

(* A step of one handler.  *)
LEMMA TaskStep ==
    ASSUME OwnTypes, NEW t \in Taps, NEW k \in OwnTasks, task' = [task EXCEPT ![t] = k]
    PROVE  /\ task' \in [Taps -> {Unused} \cup OwnTasks]
           /\ task'[t] = k
           /\ \A u \in Taps \ {t} : task'[u] = task[u]
BY DEF OwnTypes

(* The end of the process leaves handlers handlers, and none that runs.  *)
LEMMA KilledFacts ==
    ASSUME OwnTypes, NEW t \in Taps, Restart
    PROVE  /\ task'[t] \in {Unused} \cup OwnTasks
           /\ task'[t].pc \notin Live
           /\ task[t].pc \notin Live => task'[t] = task[t]
           /\ task[t].pc \in Live => /\ task'[t].pc = Killed(task[t].pc)
                                     /\ task'[t].kind = task[t].kind
                                     /\ task'[t].obj = task[t].obj
<1>1. CASE task[t].pc \in Live
  <2>1. task[t] \in OwnTasks
    BY <1>1, StartedTask DEF Live
  <2>2. Killed(task[t].pc) \in Live \cup Ended /\ Killed(task[t].pc) \notin Live
    BY DEF Killed, Live, Ended
  <2>3. task'[t] = AtTask(task[t], Killed(task[t].pc), 0)
    BY <1>1 DEF Restart
  <2> QED
    BY <1>1, <2>1, <2>2, <2>3, TaskUpdate
<1>2. CASE task[t].pc \notin Live
  BY <1>2 DEF Restart, OwnTypes
<1> QED
  BY <1>1, <1>2

(* What a step of Firestore or Storage does to the handler it answers.  *)
LEMMA ServeFacts ==
    ASSUME OwnTypes, NEW t \in Taps, Serve(t)
    PROVE  /\ task[t] \in OwnTasks
           /\ task' \in [Taps -> {Unused} \cup OwnTasks]
           /\ \A u \in Taps \ {t} : task'[u] = task[u]
           /\ task'[t].kind = task[t].kind /\ task'[t].obj = task[t].obj
           /\ UploadDone(t) => task'[t].pc = "write" /\ task'[t].place = task[t].place
           /\ UploadFails(t) => task'[t].pc = "failed"
           /\ DeleteProduct(t) \/ UpdateSingleProduct(t) \/ AddSingleProduct(t) =>
                 /\ task'[t].pc = IF task[t].pc = "write" THEN "accepted" ELSE "dead"
                 /\ task'[t].place = task[t].place
           /\ Refuse(t) =>
                 /\ task'[t].pc = IF task[t].kind = "add" THEN "failed" ELSE "refused"
                 /\ task[t].kind # "add" => task'[t].place = task[t].place
<1>0. /\ task[t] \in OwnTasks
      /\ task[t].kind \in Kinds
      /\ task[t].place \in Nat
  <2>1. task[t].pc # "unused"
    BY DEF Serve, UploadDone, UploadFails, DeleteProduct, UpdateSingleProduct,
           AddSingleProduct, Refuse, Writes
  <2> QED
    BY <2>1, StartedTask
<1>1. ASSUME NEW p \in Live \cup Ended, NEW n \in Nat,
             task' = [task EXCEPT ![t] = AtTask(@, p, n)]
      PROVE  /\ task' \in [Taps -> {Unused} \cup OwnTasks]
             /\ \A u \in Taps \ {t} : task'[u] = task[u]
             /\ task'[t].kind = task[t].kind /\ task'[t].obj = task[t].obj
             /\ task'[t].pc = p /\ task'[t].place = n
  <2> DEFINE k == AtTask(task[t], p, n)
  <2>1. k \in OwnTasks /\ k.pc = p /\ k.place = n /\ k.kind = task[t].kind /\ k.obj = task[t].obj
    BY <1>0, TaskUpdate
  <2>2. task' = [task EXCEPT ![t] = k]
    BY <1>1
  <2> HIDE DEF k
  <2> QED
    BY <2>1, <2>2, TaskStep
<1>2. ASSUME UploadDone(t)
      PROVE  /\ task' \in [Taps -> {Unused} \cup OwnTasks]
             /\ \A u \in Taps \ {t} : task'[u] = task[u]
             /\ task'[t].kind = task[t].kind /\ task'[t].obj = task[t].obj
             /\ task'[t].pc = "write" /\ task'[t].place = task[t].place
  BY <1>0, <1>1, <1>2 DEF UploadDone, Live
<1>3. ASSUME UploadFails(t)
      PROVE  /\ task' \in [Taps -> {Unused} \cup OwnTasks]
             /\ \A u \in Taps \ {t} : task'[u] = task[u]
             /\ task'[t].kind = task[t].kind /\ task'[t].obj = task[t].obj
             /\ task'[t].pc = "failed"
  BY <1>0, <1>1, <1>3 DEF UploadFails, Ended
<1>4. ASSUME DeleteProduct(t) \/ UpdateSingleProduct(t) \/ AddSingleProduct(t)
      PROVE  /\ task' \in [Taps -> {Unused} \cup OwnTasks]
             /\ \A u \in Taps \ {t} : task'[u] = task[u]
             /\ task'[t].kind = task[t].kind /\ task'[t].obj = task[t].obj
             /\ task'[t].pc = IF task[t].pc = "write" THEN "accepted" ELSE "dead"
             /\ task'[t].place = task[t].place
  <2> DEFINE p == IF task[t].pc = "write" THEN "accepted" ELSE "dead"
  <2>1. p \in Live \cup Ended
    BY DEF Live, Ended
  <2>2. task' = [task EXCEPT ![t] = AtTask(@, p, task[t].place)]
    BY <1>4 DEF DeleteProduct, UpdateSingleProduct, AddSingleProduct, Writes
  <2> QED
    BY <1>0, <1>1, <2>1, <2>2
<1>5. ASSUME Refuse(t)
      PROVE  /\ task' \in [Taps -> {Unused} \cup OwnTasks]
             /\ \A u \in Taps \ {t} : task'[u] = task[u]
             /\ task'[t].kind = task[t].kind /\ task'[t].obj = task[t].obj
             /\ task'[t].pc = IF task[t].kind = "add" THEN "failed" ELSE "refused"
             /\ task[t].kind # "add" => task'[t].place = task[t].place
  <2>1. CASE task[t].kind = "add"
    <3>1. task' = [task EXCEPT ![t] = AtTask(@, "failed", 0)]
      BY <1>5, <2>1 DEF Refuse
    <3> QED
      BY <1>0, <1>1, <2>1, <3>1 DEF Ended
  <2>2. CASE task[t].kind # "add"
    <3>1. task' = [task EXCEPT ![t] = AtTask(@, "refused", task[t].place)]
      BY <1>5, <2>2 DEF Refuse
    <3> QED
      BY <1>0, <1>1, <2>2, <3>1 DEF Live
  <2> QED
    BY <2>1, <2>2
<1> QED
  BY <1>0, <1>2, <1>3, <1>4, <1>5 DEF Serve

(* What the rest of a handler does to it and to the list.  *)
LEMMA ResumeFacts ==
    ASSUME OwnTypes, NEW t \in Taps, Resume(t)
    PROVE  /\ task[t] \in OwnTasks
           /\ task[t].pc \in {"accepted", "refused"}
           /\ task' \in [Taps -> {Unused} \cup OwnTasks]
           /\ \A u \in Taps \ {t} : task'[u] = task[u]
           /\ task'[t].kind = task[t].kind /\ task'[t].obj = task[t].obj
           /\ task'[t].pc \in Ended \ {"stray"}
           /\ task[t].kind = "delete" /\ task[t].pc = "accepted" => task'[t].pc = "deleted"
           /\ productList' \in Seq(Own)
           /\ dirty' \in BOOLEAN
           /\ UNCHANGED <<docs, home, screen, form, cards>>
           /\ spinning' \subseteq spinning
<1>0. /\ task[t] \in OwnTasks
      /\ task[t].obj \in Own
      /\ task[t].pc \in {"accepted", "refused"}
      /\ productList \in Seq(Own)
  <2>1. task[t].pc \in {"accepted", "refused"}
    BY DEF Resume, ResumeDelete, ResumeUpdate, ResumeAdd
  <2> QED
    BY <2>1, StartedTask DEF OwnTypes
<1>1. ASSUME NEW p \in Ended,
             task' = [task EXCEPT ![t] = AtTask(@, p, 0)]
      PROVE  /\ task' \in [Taps -> {Unused} \cup OwnTasks]
             /\ \A u \in Taps \ {t} : task'[u] = task[u]
             /\ task'[t].kind = task[t].kind /\ task'[t].obj = task[t].obj
             /\ task'[t].pc = p
  <2> DEFINE k == AtTask(task[t], p, 0)
  <2>1. k \in OwnTasks /\ k.pc = p /\ k.kind = task[t].kind /\ k.obj = task[t].obj
    BY <1>0, TaskUpdate
  <2>2. task' = [task EXCEPT ![t] = k]
    BY <1>1
  <2> HIDE DEF k
  <2> QED
    BY <2>1, <2>2, TaskStep
<1>2. CASE ResumeDelete(t)
  <2> DEFINE p == IF task[t].pc = "accepted" THEN "deleted" ELSE "kept"
  <2>1. p \in Ended \ {"stray"}
    BY DEF Ended
  <2>2. task' = [task EXCEPT ![t] = AtTask(@, p, 0)]
    BY <1>2 DEF ResumeDelete
  <2>3. productList' \in Seq(Own)
    <3>1. RemoveFirst(productList, task[t].obj) \in Seq(Own)
      BY <1>0, RemoveFacts
    <3> QED
      BY <1>0, <1>2, <3>1 DEF ResumeDelete
  <2>4. dirty' \in BOOLEAN /\ spinning' \subseteq spinning /\ UNCHANGED <<docs, home, screen, form, cards>>
    BY <1>2 DEF ResumeDelete, OwnTypes
  <2>5. task[t].kind = "delete"
    BY <1>2 DEF ResumeDelete
  <2> QED
    BY <1>0, <1>1, <2>1, <2>2, <2>3, <2>4, <2>5
<1>3. CASE ResumeUpdate(t)
  <2>0. task[t].kind = "update"
    BY <1>3 DEF ResumeUpdate
  <2>1. PICK p \in {"updated", "rangeError"} : task' = [task EXCEPT ![t] = AtTask(@, p, 0)]
    BY <1>3 DEF ResumeUpdate
  <2>2. p \in Ended \ {"stray"}
    BY DEF Ended
  <2>3. productList' \in Seq(Own)
    <3>1. CASE task[t].place \in DOMAIN productList
      <4>1. productList' = [productList EXCEPT ![task[t].place] = task[t].obj]
        BY <1>3, <3>1 DEF ResumeUpdate
      <4> QED
        BY <1>0, <3>1, <4>1
    <3>2. CASE task[t].place \notin DOMAIN productList
      BY <1>0, <1>3, <3>2 DEF ResumeUpdate
    <3> QED
      BY <3>1, <3>2
  <2>4. dirty' \in BOOLEAN
    BY <1>3, Zenon DEF ResumeUpdate, OwnTypes, NotifyListeners
  <2>5. UNCHANGED <<docs, home, screen, form, cards, spinning>>
    BY <1>3 DEF ResumeUpdate
  <2> QED
    BY <1>0, <1>1, <2>0, <2>1, <2>2, <2>3, <2>4, <2>5
<1>4. CASE ResumeAdd(t)
  <2>1. task' = [task EXCEPT ![t] = AtTask(@, "added", 0)] /\ task[t].kind = "add"
    BY <1>4 DEF ResumeAdd
  <2>2. "added" \in Ended \ {"stray"}
    BY DEF Ended
  <2>3. productList' \in Seq(Own)
    BY <1>0, <1>4, AddFacts DEF ResumeAdd
  <2>4. dirty' \in BOOLEAN
    BY <1>4, Zenon DEF ResumeAdd, NotifyListeners
  <2>5. UNCHANGED <<docs, home, screen, form, cards, spinning>>
    BY <1>4 DEF ResumeAdd
  <2> QED
    BY <1>0, <1>1, <2>1, <2>2, <2>3, <2>4, <2>5
<1> QED
  BY <1>2, <1>3, <1>4 DEF Resume

(* A press starts one handler, of a model the page shows or of a new one.  *)
LEMMA PressFacts ==
    ASSUME OwnTypes, NEW t \in Taps, Press(t)
    PROVE  /\ task[t] = Unused
           /\ task'[t] \in OwnTasks
           /\ task'[t].pc \in {"upload", "write"}
           /\ task' \in [Taps -> {Unused} \cup OwnTasks]
           /\ \A u \in Taps \ {t} : task'[u] = task[u]
           /\ UNCHANGED <<docs, productList, home, screen, form, cards, dirty>>
           /\ spinning' \subseteq Nat
           /\ \/ /\ task'[t].kind = "delete"
                 /\ screen = "Products"
                 /\ \E i \in DOMAIN cards : /\ task'[t].obj = cards[i].obj
                                            /\ task'[t].place = i
              \/ /\ task'[t].kind = "update"
                 /\ screen = "Edit"
                 /\ task'[t].obj.of = form.obj.of
                 /\ task'[t].place = form.index
              \/ /\ task'[t].kind = "add"
                 /\ screen = "Add"
                 /\ task'[t].obj.of = t
<1>1. ASSUME NEW i \in DOMAIN cards, TapDelete(t, i)
      PROVE  /\ spinning' \subseteq Nat /\ task'[t].pc = "write"
             /\ task'[t].kind = "delete" /\ screen = "Products"
             /\ task'[t].obj = cards[i].obj /\ task'[t].place = i
             /\ task'[t] \in OwnTasks
             /\ task' \in [Taps -> {Unused} \cup OwnTasks]
             /\ \A u \in Taps \ {t} : task'[u] = task[u]
  <2>1. i \in Nat /\ cards[i].obj \in Own
    BY CardFacts DEF OwnTypes
  <2> DEFINE k == [pc |-> "write", kind |-> "delete", obj |-> cards[i].obj, place |-> i]
  <2>2. /\ k \in OwnTasks
        /\ k.pc = "write" /\ k.kind = "delete" /\ k.obj = cards[i].obj /\ k.place = i
    BY <2>1 DEF OwnTasks, Live, Kinds
  <2>3. task' = [task EXCEPT ![t] = k]
    BY <1>1 DEF TapDelete
  <2> HIDE DEF k
  <2>4. task'[t] = k /\ task' \in [Taps -> {Unused} \cup OwnTasks]
        /\ \A u \in Taps \ {t} : task'[u] = task[u]
    BY <2>2, <2>3, TaskStep
  <2>5. spinning' \subseteq Nat /\ screen = "Products"
    BY <1>1, <2>1 DEF TapDelete, OwnTypes
  <2> QED
    BY <2>2, <2>4, <2>5
<1>2. ASSUME NEW photo \in BOOLEAN, NEW typed \in BOOLEAN, NEW described \in BOOLEAN,
             PressUpdate(t, photo, typed, described)
      PROVE  /\ task'[t].pc \in {"upload", "write"}
             /\ task'[t].kind = "update" /\ screen = "Edit"
             /\ task'[t].obj.of = form.obj.of /\ task'[t].place = form.index
             /\ task'[t] \in OwnTasks
             /\ task' \in [Taps -> {Unused} \cup OwnTasks]
             /\ \A u \in Taps \ {t} : task'[u] = task[u]
  <2>1. screen = "Edit"
    BY <1>2 DEF PressUpdate
  <2>2. form.index \in Nat /\ form.obj \in Own
    BY <2>1 DEF OwnTypes, OwnForm
  <2> DEFINE x == CopyWith(form.obj, t, typed \/ photo)
             p == IF photo THEN "upload" ELSE "write"
             k == [pc |-> p, kind |-> "update", obj |-> x, place |-> form.index]
  <2>3. x \in Own /\ x.of = form.obj.of
    BY <2>2 DEF CopyWith, Own, Models, Texts
  <2>4. p \in {"upload", "write"}
    OBVIOUS
  <2>5. task' = [task EXCEPT ![t] = k]
    BY <1>2 DEF PressUpdate
  <2> HIDE DEF x, p
  <2>6. /\ k \in OwnTasks
        /\ k.pc = p /\ k.kind = "update" /\ k.obj = x /\ k.place = form.index
    BY <2>2, <2>3, <2>4 DEF OwnTasks, Live, Kinds
  <2> HIDE DEF k
  <2>7. task'[t] = k /\ task' \in [Taps -> {Unused} \cup OwnTasks]
        /\ \A u \in Taps \ {t} : task'[u] = task[u]
    BY <2>5, <2>6, TaskStep
  <2> QED
    BY <2>1, <2>3, <2>4, <2>6, <2>7
<1>3. ASSUME PressAdd(t)
      PROVE  /\ task'[t].pc = "upload" /\ task'[t].kind = "add" /\ screen = "Add"
             /\ task'[t].obj.of = t
             /\ task'[t] \in OwnTasks
             /\ task' \in [Taps -> {Unused} \cup OwnTasks]
             /\ \A u \in Taps \ {t} : task'[u] = task[u]
  <2> DEFINE x == [of |-> t, by |-> t, id |-> "products", text |-> "new"]
             k == [pc |-> "upload", kind |-> "add", obj |-> x, place |-> 0]
  <2>1. x \in Own /\ x.of = t
    BY ProductsNamed DEF Own, Models, Keys, Ids, Texts, NameOf
  <2>2. task' = [task EXCEPT ![t] = k] /\ screen = "Add"
    BY <1>3 DEF PressAdd
  <2> HIDE DEF x
  <2>3. k \in OwnTasks /\ k.pc = "upload" /\ k.kind = "add" /\ k.obj = x
    BY <2>1 DEF OwnTasks, Live, Kinds
  <2> HIDE DEF k
  <2>4. task'[t] = k /\ task' \in [Taps -> {Unused} \cup OwnTasks]
        /\ \A u \in Taps \ {t} : task'[u] = task[u]
    BY <2>2, <2>3, TaskStep
  <2> QED
    BY <2>1, <2>2, <2>3, <2>4
<1>4. /\ task[t] = Unused
      /\ UNCHANGED <<docs, productList, home, screen, form, cards, dirty>>
      /\ (UNCHANGED spinning) \/ \E i \in DOMAIN cards : TapDelete(t, i)
  BY DEF Press, TapDelete, PressUpdate, PressAdd, pages
<1>5. spinning' \subseteq Nat
  BY <1>1, <1>4 DEF OwnTypes
<1> QED
  <2>1. CASE \E i \in DOMAIN cards : TapDelete(t, i)
    BY <1>1, <1>4, <2>1
  <2>2. CASE \E photo, typed, described \in BOOLEAN : PressUpdate(t, photo, typed, described)
    BY <1>2, <1>4, <1>5, <2>2
  <2>3. CASE PressAdd(t)
    BY <1>3, <1>4, <1>5, <2>3
  <2> QED
    BY <2>1, <2>2, <2>3 DEF Press

(* Leaving the page and drawing a frame change of a handler only where its *)
(* card is.                                                                *)
LEMMA DisposeFacts ==
    ASSUME OwnTypes, LeaveProductView \/ Rebuild
    PROVE  /\ task' \in [Taps -> {Unused} \cup OwnTasks]
           /\ \A t \in Taps :
                /\ task'[t].pc = task[t].pc
                /\ task[t].pc # "unused" => /\ task'[t].kind = task[t].kind
                                            /\ task'[t].obj = task[t].obj
                /\ task[t].pc # "unused" /\ task[t].kind # "delete" => task'[t] = task[t]
<1>1. \A t \in Taps : task'[t] \in {task[t], Unmount(task[t])}
  BY DEF LeaveProductView, Rebuild
<1>2. task' = [t \in Taps |-> task'[t]]
  BY DEF LeaveProductView, Rebuild
<1>3. \A t \in Taps : task[t] \in {Unused} \cup OwnTasks
  BY DEF OwnTypes
<1> QED
  BY <1>1, <1>2, <1>3, UnmountFacts

(* The frames and the pages keep the types.  *)
LEMMA PageTypes ==
    ASSUME OwnTypes,
           \/ GetProduct \/ GetProductFails \/ OpenProductView \/ LeaveProductView
           \/ Rebuild \/ RedrawCards \/ OpenAddProduct \/ LeaveForm
           \/ \E i \in DOMAIN cards : TapEdit(i),
           rushed' \in BOOLEAN
    PROVE  OwnTypes'
<1>1. CASE GetProduct
  BY <1>1, LoadedList DEF GetProduct, OwnTypes, OwnForm, OwnCards, pages
<1>2. CASE GetProductFails
  BY <1>2 DEF GetProductFails, OwnTypes, OwnForm, OwnCards, pages
<1>3. CASE OpenProductView
  <2>1. cards' \in Seq([obj: Own, busy: BOOLEAN])
    BY <1>3, GridType DEF OpenProductView
  <2> QED
    BY <1>3, <2>1 DEF OpenProductView, OwnTypes, OwnForm, OwnCards
<1>4. CASE LeaveProductView
  <2>1. task' \in [Taps -> {Unused} \cup OwnTasks]
    BY <1>4, DisposeFacts
  <2> QED
    BY <1>4, <2>1, EmptyTypes DEF LeaveProductView, OwnTypes, OwnForm, OwnCards
<1>5. CASE Rebuild
  <2>1. task' \in [Taps -> {Unused} \cup OwnTasks]
    BY <1>5, DisposeFacts
  <2>2. cards' \in Seq([obj: Own, busy: BOOLEAN])
    BY <1>5, GridType DEF Rebuild
  <2> QED
    BY <1>5, <2>1, <2>2 DEF Rebuild, OwnTypes, OwnForm, OwnCards
<1>6. CASE RedrawCards
  <2>1. \A i \in DOMAIN cards : cards[i].obj \in Own
    BY CardFacts DEF OwnTypes
  <2>2. DOMAIN cards = 1 .. Len(cards) /\ Len(cards) \in Nat
    BY DEF OwnTypes, OwnCards
  <2>3. cards' \in Seq([obj: Own, busy: BOOLEAN])
    BY <1>6, <2>1, <2>2 DEF RedrawCards
  <2> QED
    BY <1>6, <2>3 DEF RedrawCards, OwnTypes, OwnForm, OwnCards
<1>7. CASE OpenAddProduct
  BY <1>7 DEF OpenAddProduct, OwnTypes, OwnForm, OwnCards
<1>8. CASE LeaveForm
  BY <1>8 DEF LeaveForm, OwnTypes, OwnForm, OwnCards
<1>9. ASSUME NEW i \in DOMAIN cards, TapEdit(i) PROVE OwnTypes'
  <2>1. i \in Nat /\ cards[i].obj \in Own
    BY CardFacts DEF OwnTypes
  <2> QED
    BY <1>9, <2>1 DEF TapEdit, OwnTypes, OwnForm, OwnCards
<1> QED
  BY <1>1, <1>2, <1>3, <1>4, <1>5, <1>6, <1>7, <1>8, <1>9

(* Firestore's writes keep the types of the documents and their ids.  *)
LEMMA DocTypes ==
    ASSUME DeskInv, NEW t \in Taps, Serve(t)
    PROVE  /\ docs' \in [Keys -> Documents]
           /\ \A k \in Keys : docs'[k].id = NameOf(k)
           /\ \A k \in Taps \ {t} : docs'[k] = docs[k]
           /\ docs'[t] # docs[t] => AddSingleProduct(t)
<1> USE DEF DeskInv
<1>0. task[t].obj \in Own /\ task[t].pc # "unused"
  BY ServeFacts DEF OwnTasks, Live, Ended
<1> DEFINE x == task[t].obj
           d == [state |-> "stored", id |-> x.id, text |-> x.text]
<1>1. d \in Documents /\ d.id = x.id /\ Products \subseteq Keys /\ Taps \subseteq Keys
  BY <1>0 DEF Own, Models, Documents, Keys
<1>2. x.id \in Products => x.id \notin Taps
  BY ProductsNamed
<1>3. CASE docs' = docs
  BY <1>3 DEF OwnTypes, Keys
<1>4. CASE DeleteProduct(t) /\ docs' # docs
  <2>1. /\ x.id \in Products
        /\ docs' = [docs EXCEPT ![x.id].state = "deleted"]
    BY <1>4 DEF DeleteProduct
  <2> QED
    BY <1>1, <1>2, <2>1 DEF OwnTypes, Documents
<1>5. CASE UpdateSingleProduct(t)
  <2>1. /\ x.id \in Products
        /\ docs' = [docs EXCEPT ![x.id] = d]
    BY <1>5 DEF UpdateSingleProduct
  <2> HIDE DEF d
  <2> QED
    BY <1>1, <1>2, <2>1 DEF OwnTypes, NameOf
<1>6. CASE AddSingleProduct(t)
  <2>1. docs' = [docs EXCEPT ![t] = d]
    BY <1>6 DEF AddSingleProduct
  <2>2. x.of = t
    BY <1>0, <1>6 DEF NewOnes, AddSingleProduct, Writes
  <2>3. d.id = NameOf(t)
    BY <1>0, <1>1, <2>2 DEF Own
  <2> HIDE DEF d
  <2> QED
    BY <1>1, <1>6, <2>1, <2>3 DEF OwnTypes
<1> QED
  BY <1>3, <1>4, <1>5, <1>6 DEF Serve, UploadDone, UploadFails, Refuse

(* Every step keeps the types.  *)
LEMMA TypesStep ==
    ASSUME DeskInv, [Next]_vars PROVE OwnTypes'
<1> USE DEF DeskInv
<1>0. rushed' \in BOOLEAN
  BY Zenon DEF OwnTypes, Next, vars
<1>1. ASSUME NEW t \in Taps, Serve(t) PROVE OwnTypes'
  <2>1. UNCHANGED <<productList, home, pages>>
    BY <1>1 DEF Serve, UploadDone, UploadFails, DeleteProduct, UpdateSingleProduct,
                AddSingleProduct, Refuse, Writes
  <2>2. task' \in [Taps -> {Unused} \cup OwnTasks]
    BY <1>1, ServeFacts
  <2>3. docs' \in [Keys -> Documents] /\ \A k \in Keys : docs'[k].id = NameOf(k)
    BY <1>1, DocTypes
  <2> QED
    BY <1>0, <2>1, <2>2, <2>3 DEF OwnTypes, OwnForm, OwnCards, pages
<1>2. ASSUME NEW t \in Taps, Resume(t) PROVE OwnTypes'
  <2>1. /\ task' \in [Taps -> {Unused} \cup OwnTasks]
        /\ productList' \in Seq(Own)
        /\ dirty' \in BOOLEAN
        /\ UNCHANGED <<docs, home, screen, form, cards>>
        /\ spinning' \subseteq spinning
    BY <1>2, ResumeFacts
  <2> QED
    BY <1>0, <2>1 DEF OwnTypes, OwnForm, OwnCards
<1>3. ASSUME NEW t \in Taps, Press(t) PROVE OwnTypes'
  <2>1. /\ task' \in [Taps -> {Unused} \cup OwnTasks]
        /\ UNCHANGED <<docs, productList, home, screen, form, cards, dirty>>
        /\ spinning' \subseteq Nat
    BY <1>3, PressFacts
  <2> QED
    BY <1>0, <2>1 DEF OwnTypes, OwnForm, OwnCards
<1>4. CASE Restart
  <2>1. task' \in [Taps -> {Unused} \cup OwnTasks]
    <3>1. \A t \in Taps : task'[t] \in {Unused} \cup OwnTasks
      BY <1>4, KilledFacts
    <3>2. task' = [t \in Taps |-> task'[t]]
      BY <1>4 DEF Restart
    <3> QED
      BY <3>1, <3>2
  <2> QED
    BY <1>0, <1>4, <2>1, EmptyTypes DEF Restart, OwnTypes, OwnForm, OwnCards
<1>5. CASE UNCHANGED vars
  BY <1>5 DEF OwnTypes, OwnForm, OwnCards, vars, desk, pages
<1> QED
  BY <1>0, <1>1, <1>2, <1>3, <1>4, <1>5, PageTypes DEF Next, Ongoing

(* Every step keeps the additions where they are.  *)
LEMMA NewOnesStep ==
    ASSUME DeskInv, [Next]_vars PROVE NewOnes'
<1> USE DEF DeskInv
<1>1. ASSUME NEW t \in Taps, Serve(t) PROVE NewOnes'
  <2>1. task[t] \in OwnTasks /\ task[t].pc # "unused"
    BY <1>1, ServeFacts DEF OwnTasks, Live, Ended
  <2>2. /\ \A u \in Taps \ {t} : task'[u] = task[u] /\ docs'[u] = docs[u]
        /\ task'[t].kind = task[t].kind /\ task'[t].obj = task[t].obj
        /\ task'[t].pc # "stray" /\ task'[t].pc # "unused" /\ task'[t].pc # "upload"
        /\ task'[t].pc = "write" => task[t].pc = "upload"
        /\ docs'[t] # docs[t] => AddSingleProduct(t)
        /\ AddSingleProduct(t) => task'[t].pc # "write" /\ docs'[t].state = "stored"
    <3>1. AddSingleProduct(t) => docs'[t].state = "stored"
      BY DEF AddSingleProduct, OwnTypes, Keys
    <3> QED
      BY <1>1, <3>1, ServeFacts, DocTypes
      DEF Serve, UploadDone, UploadFails, Refuse, DeleteProduct, UpdateSingleProduct, AddSingleProduct, Writes
  <2> QED
    BY <2>1, <2>2 DEF NewOnes
<1>2. ASSUME NEW t \in Taps, Resume(t) PROVE NewOnes'
  <2>1. task[t].pc # "unused" /\ UNCHANGED docs
    BY <1>2, ResumeFacts
  <2>2. /\ \A u \in Taps \ {t} : task'[u] = task[u]
        /\ task'[t].kind = task[t].kind /\ task'[t].obj = task[t].obj
        /\ task'[t].pc \notin {"unused", "upload", "write", "stray"}
    BY <1>2, ResumeFacts DEF Ended
  <2> QED
    BY <2>1, <2>2 DEF NewOnes
<1>3. ASSUME NEW t \in Taps, Press(t) PROVE NewOnes'
  <2>1. /\ task[t].pc = "unused" /\ UNCHANGED docs
        /\ task'[t].kind = "add" => task'[t].obj.of = t
        /\ \A u \in Taps \ {t} : task'[u] = task[u]
    BY <1>3, PressFacts DEF Unused
  <2> QED
    BY <2>1 DEF NewOnes
<1>4. CASE Restart
  <2>1. UNCHANGED docs
    BY <1>4 DEF Restart
  <2>2. \A t \in Taps : task[t].pc \notin Live \/ Killed(task[t].pc) = "stray"
                            => task[t].pc \notin Live \/ task[t].pc = "write"
    BY DEF Killed, Live
  <2> SUFFICES ASSUME NEW t \in Taps
               PROVE  /\ task'[t].pc # "unused" /\ task'[t].kind = "add" => task'[t].obj.of = t
                      /\ docs[t].state # "none" =>
                            task'[t].pc \notin {"unused", "upload", "write", "stray"}
                      /\ docs[t].state # "deleted"
    BY <2>1 DEF NewOnes
  <2>3. CASE task[t].pc \notin Live
    BY <1>4, <2>3, KilledFacts DEF NewOnes
  <2>4. CASE task[t].pc \in Live
    <3>1. task[t].pc # "unused"
      BY <2>4 DEF Live
    <3>2. /\ task'[t].kind = task[t].kind /\ task'[t].obj = task[t].obj
          /\ task'[t].pc = Killed(task[t].pc)
      BY <1>4, <2>4, KilledFacts
    <3>3. task[t].pc # "write" => Killed(task[t].pc) \in {"failed", "dead"}
      BY DEF Killed
    <3> QED
      BY <3>1, <3>2, <3>3 DEF NewOnes
  <2> QED
    BY <2>3, <2>4
<1>5. CASE LeaveProductView \/ Rebuild
  <2>1. UNCHANGED docs
    BY <1>5 DEF LeaveProductView, Rebuild
  <2> QED
    BY <1>5, <2>1, DisposeFacts DEF NewOnes
<1>6. CASE UNCHANGED <<docs, task>>
  BY <1>6 DEF NewOnes
<1>7. GetProduct \/ GetProductFails \/ OpenProductView \/ RedrawCards \/ OpenAddProduct
        \/ LeaveForm \/ (\E i \in DOMAIN cards : TapEdit(i)) \/ UNCHANGED vars
      => UNCHANGED <<docs, task>>
  BY DEF GetProduct, GetProductFails, OpenProductView, RedrawCards, OpenAddProduct, LeaveForm,
         TapEdit, vars, desk
<1> QED
  BY <1>1, <1>2, <1>3, <1>4, <1>5, <1>6, <1>7 DEF Next, Ongoing

(* The types and the additions at the start.  *)
LEMMA DeskInit == Init => DeskInv
<1> SUFFICES ASSUME Init PROVE DeskInv
  OBVIOUS
<1>1. docs \in [Keys -> Documents] /\ \A k \in Keys : docs[k].id = NameOf(k)
  BY DEF Init, Documents, Keys, Ids, Texts, Absent, NameOf
<1>2. task \in [Taps -> {Unused} \cup OwnTasks]
  BY DEF Init
<1>3. OwnTypes
  BY <1>1, <1>2, EmptyTypes DEF Init, OwnTypes, OwnForm, OwnCards
<1>4. NewOnes
  <2> SUFFICES ASSUME NEW t \in Taps PROVE task[t].pc = "unused" /\ docs[t].state = "none"
    BY DEF NewOnes
  <2>1. t \notin Products /\ t \in Keys
    BY ProductsNamed DEF Keys
  <2> QED
    BY <2>1 DEF Init, Unused, Absent
<1> QED
  BY <1>3, <1>4 DEF DeskInv

(* What every behaviour of the desk keeps.  *)
LEMMA DeskInvariant == Spec => []DeskInv
<1>1. DeskInv /\ [Next]_vars => DeskInv'
  BY TypesStep, NewOnesStep DEF DeskInv
<1> QED
  BY <1>1, DeskInit, PTL DEF Spec

(* Whatever the admin does and when, the list, the page, the form and the  *)
(* handlers hold models of products, and rows hold what they are read for. *)
THEOREM TypeCorrect == Spec => []TypeOK
<1>1. OwnTypes => TypeOK
  <2> SUFFICES ASSUME OwnTypes PROVE TypeOK
    OBVIOUS
  <2>1. Own \subseteq Models
    BY DEF Own
  <2>2. OwnTasks \subseteq Tasks /\ [index: Nat, obj: Own] \subseteq [index: Nat, obj: Models]
        /\ [obj: Own, busy: BOOLEAN] \subseteq [obj: Models, busy: BOOLEAN]
    BY <2>1 DEF OwnTasks, Tasks
  <2>3. productList \in Seq(Models)
    BY <2>1 DEF OwnTypes
  <2>4. cards \in Seq([obj: Models, busy: BOOLEAN])
    <3> DEFINE A == [obj: Own, busy: BOOLEAN]
               B == [obj: Models, busy: BOOLEAN]
    <3>1. cards \in Seq(A) /\ A \subseteq B
      BY <2>2 DEF OwnTypes, OwnCards
    <3> HIDE DEF A, B
    <3>2. cards \in Seq(B)
      BY <3>1
    <3> QED
      BY <3>2 DEF B
  <2>5. task \in [Taps -> {Unused} \cup Tasks]
    BY <2>2 DEF OwnTypes
  <2> QED
    BY <2>2, <2>3, <2>4, <2>5 DEF OwnTypes, OwnForm, TypeOK
<1> QED
  BY <1>1, DeskInvariant, PTL DEF DeskInv

-----------------------------------------------------------------------------
(* The desk implements the catalogue.  *)

Open == {"upload", "write", "stray"}

(* What a handler asks of the catalogue, before and after a step.  *)
LEMMA AskedFacts ==
    ASSUME NEW t \in Taps
    PROVE  /\ task[t].pc = "unused" => Asked(t) = [kind |-> "free"]
           /\ task[t].pc \in Open =>
                 Asked(t) = [kind |-> task[t].kind, key |-> task[t].obj.of,
                             look |-> task[t].obj.text]
           /\ task[t].pc \notin Open \cup {"unused"} => Asked(t) = [kind |-> "closed"]
           /\ task'[t].pc = "unused" => Asked(t)' = [kind |-> "free"]
           /\ task'[t].pc \in Open =>
                 Asked(t)' = [kind |-> task'[t].kind, key |-> task'[t].obj.of,
                              look |-> task'[t].obj.text]
           /\ task'[t].pc \notin Open \cup {"unused"} => Asked(t)' = [kind |-> "closed"]
<1>1. /\ task[t].pc = "unused" => Asked(t) = [kind |-> "free"]
      /\ task[t].pc \in Open =>
            Asked(t) = [kind |-> task[t].kind, key |-> task[t].obj.of,
                        look |-> task[t].obj.text]
      /\ task[t].pc \notin Open \cup {"unused"} => Asked(t) = [kind |-> "closed"]
  BY Zenon DEF Asked, Open
<1>2. /\ task'[t].pc = "unused" => Asked(t)' = [kind |-> "free"]
      /\ task'[t].pc \in Open =>
            Asked(t)' = [kind |-> task'[t].kind, key |-> task'[t].obj.of,
                         look |-> task'[t].obj.text]
      /\ task'[t].pc \notin Open \cup {"unused"} => Asked(t)' = [kind |-> "closed"]
  BY Zenon DEF Asked, Open
<1> QED
  BY <1>1, <1>2

(* A handler that a step leaves alone as far as the catalogue sees, or     *)
(* whose request the step closes.                                          *)
Closes(t) ==
    /\ task[t].pc # "unused" => /\ task'[t].kind = task[t].kind
                                /\ task'[t].obj = task[t].obj
    /\ \/ task'[t].pc = task[t].pc
       \/ /\ task[t].pc \in Open
          /\ task'[t].pc # "unused"
       \/ /\ task[t].pc \notin Open \cup {"unused"}
          /\ task'[t].pc \notin Open \cup {"unused"}

(* A step that changes no document and only closes requests, or none.  *)
LEMMA GivenUp ==
    ASSUME OwnTypes, UNCHANGED docs, \A t \in Taps : Closes(t)
    PROVE  Cat!GiveUp
<1> DEFINE T == {t \in Taps : Asked(t)' # Asked(t)}
<1>1. ASSUME NEW t \in T PROVE Asked(t).kind \in Kinds /\ Asked(t)' = [kind |-> "closed"]
  <2>1. CASE task[t].pc \in Open
    <3>1. task[t].kind \in Kinds
      BY <2>1, StartedTask DEF Open
    <3>2. Closes(t) /\ t \in Taps
      OBVIOUS
    <3>3. task'[t].pc \notin Open \cup {"unused"}
      BY <2>1, <3>2, AskedFacts DEF Closes, Open
    <3> QED
      BY <2>1, <3>1, <3>2, <3>3, AskedFacts
  <2>2. CASE task[t].pc \notin Open
    BY <2>2, AskedFacts DEF Closes
  <2> QED
    BY <2>1, <2>2
<1>2. T \in SUBSET {t \in Taps : [u \in Taps |-> Asked(u)][t].kind \in Cat!Kinds}
  BY <1>1 DEF Cat!Kinds, Kinds
<1>3. [t \in Taps |-> Asked(t)'] =
         [t \in Taps |-> IF t \in T THEN Cat!Closed ELSE [u \in Taps |-> Asked(u)][t]]
  BY <1>1 DEF Cat!Closed
<1> HIDE DEF T
<1> QED
  BY <1>2, <1>3 DEF Cat!GiveUp

(* A press asks for one change.  *)
LEMMA PressAsks ==
    ASSUME OwnTypes, NEW t \in Taps, Press(t)
    PROVE  Cat!Ask(t)
<1>1. /\ task[t].pc = "unused"
      /\ task'[t] \in OwnTasks
      /\ task'[t].pc \in Open
      /\ \A u \in Taps \ {t} : task'[u] = task[u]
      /\ UNCHANGED docs
  BY PressFacts DEF Unused, Open
<1>2. Asked(t) = [kind |-> "free"]
  BY <1>1, AskedFacts
<1> DEFINE r == [kind |-> task'[t].kind, key |-> task'[t].obj.of,
                 look |-> task'[t].obj.text]
<1>3. Asked(t)' = r
  BY <1>1, AskedFacts
<1>4. r \in Cat!Requests
  BY <1>1 DEF Cat!Requests, Cat!Kinds, OwnTasks, Kinds, Own, Models
<1>5. \A u \in Taps \ {t} : Asked(u)' = Asked(u)
  BY <1>1 DEF Asked
<1> HIDE DEF r
<1>6. [u \in Taps |-> Asked(u)'] = [[u \in Taps |-> Asked(u)] EXCEPT ![t] = r]
  BY <1>3, <1>5
<1>7. [u \in Taps |-> Asked(u)][t] = Cat!Free
  BY <1>2 DEF Cat!Free
<1> QED
  BY <1>1, <1>4, <1>6, <1>7 DEF Cat!Ask

(* A write that changes a document makes the change that was asked for.  *)
LEMMA WriteCommits ==
    ASSUME DeskInv, NEW t \in Taps, Serve(t), docs' # docs
    PROVE  Cat!Commit(t)
<1> USE DEF DeskInv
<1> DEFINE x == task[t].obj
           r == [kind |-> task[t].kind, key |-> x.of, look |-> x.text]
           old == [k \in Keys |-> [state |-> docs[k].state, look |-> docs[k].text]]
           new == [k \in Keys |-> [state |-> docs'[k].state, look |-> docs'[k].text]]
<1>1. DeleteProduct(t) \/ UpdateSingleProduct(t) \/ AddSingleProduct(t)
  BY DEF Serve, UploadDone, UploadFails, Refuse
<1>2. /\ task[t].pc \in Open
      /\ task[t].pc # "unused"
      /\ task[t].kind \in Kinds
      /\ x \in Own
      /\ x.of \in Keys
      /\ task'[t].pc \notin Open \cup {"unused"}
      /\ \A u \in Taps \ {t} : task'[u] = task[u]
  <2>1. task[t].pc \in Open /\ task[t].pc # "unused"
    BY <1>1 DEF DeleteProduct, UpdateSingleProduct, AddSingleProduct, Writes, Open
  <2>2. task[t].kind \in Kinds /\ x \in Own
    BY <2>1, StartedTask
  <2>3. x.of \in Keys
    BY <2>2, NameFacts
  <2>4. /\ \A u \in Taps \ {t} : task'[u] = task[u]
        /\ task'[t].pc = IF task[t].pc = "write" THEN "accepted" ELSE "dead"
    BY <1>1, ServeFacts DEF UploadDone, UploadFails, Refuse, DeleteProduct, UpdateSingleProduct,
                            AddSingleProduct
  <2> QED
    BY <2>1, <2>2, <2>3, <2>4 DEF Open
<1>3. Asked(t) = r /\ Asked(t)' = [kind |-> "closed"]
  BY <1>2, AskedFacts
<1>4. \A u \in Taps \ {t} : Asked(u)' = Asked(u)
  BY <1>2 DEF Asked
<1>5. \A k \in Keys : docs[k] \in Documents /\ docs'[k] \in Documents
  BY DocTypes DEF OwnTypes
<1>6. /\ \A k \in Keys \ {x.of} : docs'[k] = docs[k]
      /\ new[x.of] = Cat!Changed(old[x.of], r)
  <2>0. old[x.of] = [state |-> docs[x.of].state, look |-> docs[x.of].text]
        /\ new[x.of] = [state |-> docs'[x.of].state, look |-> docs'[x.of].text]
    BY <1>2
  <2>1. CASE DeleteProduct(t)
    <3>1. x.id \in Products /\ docs' = [docs EXCEPT ![x.id].state = "deleted"] /\ r.kind = "delete"
      BY <2>1 DEF DeleteProduct, Writes
    <3>2. x.id = x.of
      BY <1>2, <3>1, NameFacts
    <3>3. docs'[x.of].state = "deleted" /\ docs'[x.of].text = docs[x.of].text
          /\ \A k \in Keys \ {x.of} : docs'[k] = docs[k]
      BY <1>2, <1>5, <3>1, <3>2 DEF OwnTypes, Documents
    <3> HIDE DEF r, old, new
    <3>4. Cat!Changed(old[x.of], r) = [state |-> "deleted", look |-> old[x.of].look]
      BY <3>1, Zenon DEF Cat!Changed
    <3>5. old[x.of].look = docs[x.of].text
      BY <2>0
    <3> QED
      BY <2>0, <3>3, <3>4, <3>5
  <2>2. CASE UpdateSingleProduct(t)
    <3>1. /\ x.id \in Products /\ docs[x.id].state = "stored" /\ r.kind = "update"
          /\ docs' = [docs EXCEPT ![x.id] = [state |-> "stored", id |-> x.id, text |-> x.text]]
      BY <2>2 DEF UpdateSingleProduct, Writes
    <3>2. x.id = x.of
      BY <1>2, <3>1, NameFacts
    <3>3. docs'[x.of].state = "stored" /\ docs'[x.of].text = x.text
          /\ \A k \in Keys \ {x.of} : docs'[k] = docs[k]
      BY <1>2, <3>1, <3>2 DEF OwnTypes
    <3>4. r.look = x.text
      OBVIOUS
    <3> HIDE DEF r, old, new
    <3>5. r.kind # "delete" /\ old[x.of].state = "stored"
      BY <2>0, <3>1, <3>2
    <3>6. Cat!Changed(old[x.of], r) = [state |-> "stored", look |-> r.look]
      BY <3>1, <3>5, Zenon DEF Cat!Changed
    <3> QED
      BY <2>0, <3>3, <3>4, <3>6
  <2>3. CASE AddSingleProduct(t)
    <3>1. /\ r.kind = "add"
          /\ docs' = [docs EXCEPT ![t] = [state |-> "stored", id |-> x.id, text |-> x.text]]
      BY <2>3 DEF AddSingleProduct, Writes
    <3>2. x.of = t /\ docs[t].state = "none"
      BY <1>2, <3>1 DEF NewOnes, Open
    <3>3. docs'[x.of].state = "stored" /\ docs'[x.of].text = x.text
          /\ \A k \in Keys \ {x.of} : docs'[k] = docs[k]
      BY <1>2, <3>1, <3>2 DEF OwnTypes
    <3>4. r.look = x.text
      OBVIOUS
    <3> HIDE DEF r, old, new
    <3>5. r.kind # "delete" /\ r.kind # "update" /\ old[x.of].state = "none"
      BY <2>0, <3>1, <3>2
    <3>6. Cat!Changed(old[x.of], r) = [state |-> "stored", look |-> r.look]
      BY <3>1, <3>5, Zenon DEF Cat!Changed
    <3> QED
      BY <2>0, <3>3, <3>4, <3>6
  <2> QED
    BY <1>1, <2>1, <2>2, <2>3
<1>7. new = [old EXCEPT ![x.of] = Cat!Changed(old[x.of], r)]
  <2>1. \A k \in Keys \ {x.of} : new[k] = old[k]
    BY <1>6
  <2>2. new = [k \in Keys |-> new[k]] /\ old = [k \in Keys |-> old[k]]
    OBVIOUS
  <2> HIDE DEF new, old, r
  <2> QED
    BY <1>2, <1>6, <2>1, <2>2
<1> DEFINE req == [u \in Taps |-> Asked(u)]
<1>8. [u \in Taps |-> Asked(u)'] = [req EXCEPT ![t] = Cat!Closed]
  BY <1>3, <1>4 DEF Cat!Closed
<1>9. req[t] = r /\ r.kind \in Cat!Kinds /\ r.key = x.of
  BY <1>2, <1>3 DEF Kinds, Cat!Kinds
<1> HIDE DEF r, x
<1> QED
  BY <1>7, <1>8, <1>9 DEF Cat!Commit

(* Every step of the desk is one of the catalogue.  *)
LEMMA CatalogueStep ==
    ASSUME DeskInv, [Next]_vars PROVE Cat!Next
<1> USE DEF DeskInv
<1>1. ASSUME NEW t \in Taps, Serve(t) PROVE Cat!Next
  <2>1. CASE docs' # docs
    BY <1>1, <2>1, WriteCommits DEF Cat!Next
  <2>2. CASE docs' = docs
    <3>1. \A u \in Taps \ {t} : Closes(u)
      BY <1>1, ServeFacts DEF Closes
    <3>2. Closes(t)
      <4>1. task[t].pc \in Open
        BY <1>1 DEF Serve, UploadDone, UploadFails, Refuse, DeleteProduct, UpdateSingleProduct,
                    AddSingleProduct, Writes, Open
      <4>2. task'[t].kind = task[t].kind /\ task'[t].obj = task[t].obj /\ task'[t].pc # "unused"
        BY <1>1, ServeFacts DEF Serve
      <4> QED
        BY <4>1, <4>2 DEF Closes
    <3> QED
      BY <2>2, <3>1, <3>2, GivenUp DEF Cat!Next
  <2> QED
    BY <2>1, <2>2
<1>2. ASSUME NEW t \in Taps, Resume(t) PROVE Cat!Next
  <2>1. \A u \in Taps \ {t} : Closes(u)
    BY <1>2, ResumeFacts DEF Closes
  <2>2. Closes(t)
    BY <1>2, ResumeFacts DEF Closes, Open, Ended
  <2>3. UNCHANGED docs
    BY <1>2, ResumeFacts
  <2> QED
    BY <2>1, <2>2, <2>3, GivenUp DEF Cat!Next
<1>3. ASSUME NEW t \in Taps, Press(t) PROVE Cat!Next
  BY <1>3, PressAsks DEF Cat!Next
<1>4. CASE Restart
  <2>1. ASSUME NEW t \in Taps PROVE Closes(t)
    <3>1. CASE task[t].pc \notin Live
      BY <1>4, <3>1, KilledFacts DEF Closes
    <3>2. CASE task[t].pc \in Live
      <4>1. /\ task'[t].kind = task[t].kind /\ task'[t].obj = task[t].obj
            /\ task'[t].pc = Killed(task[t].pc)
        BY <1>4, <3>2, KilledFacts
      <4>2. /\ Killed(task[t].pc) # "unused"
            /\ task[t].pc \notin Open => Killed(task[t].pc) = "dead"
        BY DEF Killed, Open
      <4> QED
        BY <3>2, <4>1, <4>2 DEF Closes, Open, Live
    <3> QED
      BY <3>1, <3>2
  <2> QED
    BY <1>4, <2>1, GivenUp DEF Cat!Next, Restart
<1>5. CASE LeaveProductView \/ Rebuild
  <2>1. \A t \in Taps : Closes(t)
    BY <1>5, DisposeFacts DEF Closes
  <2> QED
    BY <1>5, <2>1, GivenUp DEF Cat!Next, LeaveProductView, Rebuild
<1>6. CASE UNCHANGED <<docs, task>>
  <2>1. \A t \in Taps : Closes(t)
    BY <1>6 DEF Closes
  <2> QED
    BY <1>6, <2>1, GivenUp DEF Cat!Next
<1>7. GetProduct \/ GetProductFails \/ OpenProductView \/ RedrawCards \/ OpenAddProduct
        \/ LeaveForm \/ (\E i \in DOMAIN cards : TapEdit(i)) \/ UNCHANGED vars
      => UNCHANGED <<docs, task>>
  BY DEF GetProduct, GetProductFails, OpenProductView, RedrawCards, OpenAddProduct, LeaveForm,
         TapEdit, vars, desk
<1> QED
  BY <1>1, <1>2, <1>3, <1>4, <1>5, <1>6, <1>7 DEF Next, Ongoing

(* The desk implements the catalogue: whatever the admin does, and whenever *)
(* the process ends, each press changes at most the document of the row it  *)
(* was made on, once, as the press asked, and no deleted product returns.   *)
THEOREM CatalogueIsServed == Spec => ServesCatalogue
<1>1. Init => Cat!Init
  <2> SUFFICES ASSUME Init PROVE Cat!Init
    OBVIOUS
  <2>1. [t \in Taps |-> Asked(t)] = [t \in Taps |-> Cat!Free]
    <3>1. \A t \in Taps : task[t].pc = "unused"
      BY DEF Init, Unused
    <3> QED
      BY <3>1, AskedFacts DEF Cat!Free
  <2>2. [k \in Keys |-> [state |-> docs[k].state, look |-> docs[k].text]]
            \in [Keys -> [state: {"none", "stored"}, look: Texts]]
    BY DEF Init, Absent, Texts
  <2> QED
    BY <2>1, <2>2 DEF Cat!Init
<1>2. DeskInv /\ [Next]_vars => [Cat!Next]_(Cat!catalogueVars)
  BY CatalogueStep
<1> QED
  BY <1>1, <1>2, DeskInvariant, PTL DEF Spec, ServesCatalogue, Cat!Spec

-----------------------------------------------------------------------------
(* The list of a careful admin.  *)

Listed(k) == \E x \in ToSet(productList) : x.of = k

(* Before the list is there no handler runs and no page is open.  *)
BeforeHome == home # "done" => Idle /\ screen = "Home" /\ cards = << >> /\ ~dirty

(* A careful admin has one handler running at most, and none that ended    *)
(* with the process before its write arrived.                              *)
OneAtATime ==
    /\ \A t, u \in Taps : task[t].pc \in Live /\ task[u].pc \in Live => t = u
    /\ \A t \in Taps : task[t].pc # "stray"

Distinct(s) == \A i, j \in DOMAIN s : s[i].of = s[j].of => i = j

ListedExist == \A x \in ToSet(productList) : docs[x.of].state # "none"

(* The stored products of the start are those of the list, but for one     *)
(* that a delete still running has removed from Firestore.                 *)
StoredListed ==
    \A k \in Products :
        docs[k].state = "stored" <=>
            /\ Listed(k)
            /\ ~\E t \in Taps : /\ task[t].pc = "accepted" /\ task[t].kind = "delete"
                                /\ task[t].obj.of = k

(* A stored addition is in the list, or will be, or a delete took it out.  *)
AddedListed ==
    \A k \in Taps :
        docs[k].state = "stored" =>
            \/ Listed(k)
            \/ \E t \in Taps : task[t].pc = "deleted" /\ task[t].obj.of = k
            \/ task[k].pc = "accepted" /\ task[k].kind = "add"

(* What a running handler will do to the list still fits the list.  *)
HandlerFits(t) ==
    /\ task[t].kind = "delete" => task[t].obj \in ToSet(productList)
    /\ task[t].kind = "update" => /\ task[t].place \in DOMAIN productList
                                  /\ productList[task[t].place].of = task[t].obj.of
    /\ task[t].kind = "add" => /\ ~Listed(t)
                               /\ task[t].pc = "accepted" => docs[t].state = "stored"

(* The form is that of the row it was opened from, and nothing moves rows. *)
FormFits ==
    screen = "Edit" =>
        /\ form.index \in DOMAIN productList
        /\ productList[form.index].of = form.obj.of
        /\ \A t \in Taps : task[t].pc \in Live => task[t].kind = "update"

ShelfInv ==
    /\ Distinct(productList)
    /\ ListedExist
    /\ StoredListed
    /\ AddedListed
    /\ \A t \in Taps : task[t].pc \in Live => HandlerFits(t)
    /\ FormFits

CarefulInv ==
    /\ BeforeHome
    /\ ~rushed => /\ OneAtATime
                  /\ home = "done" => ShelfInv

(* Positions that hold different products, as a fact about members.  *)
LEMMA DistinctMembers ==
    ASSUME NEW s \in Seq(Own)
    PROVE  Distinct(s) <=> /\ IsInjective(s)
                           /\ \A x, y \in ToSet(s) : x.of = y.of => x = y
BY Zenon DEF Distinct, IsInjective, ToSet

(* A handler that a step leaves alone but for the position of a card.  *)
Keeps(t) ==
    /\ task'[t].pc = task[t].pc
    /\ task[t].pc # "unused" => /\ task'[t].kind = task[t].kind
                                /\ task'[t].obj = task[t].obj
    /\ task[t].pc # "unused" /\ task[t].kind # "delete" => task'[t] = task[t]

(* A step of the page only.  *)
LEMMA ShelfUnmoved ==
    ASSUME OwnTypes, ShelfInv, UNCHANGED <<docs, productList>>,
           \A t \in Taps : Keeps(t), FormFits'
    PROVE  ShelfInv'
<1>1. Distinct(productList)' /\ ListedExist'
  BY DEF ShelfInv, Distinct, ListedExist
<1>2. \A k : Listed(k)' <=> Listed(k)
  BY DEF Listed
<1>3. StoredListed'
  BY <1>2 DEF ShelfInv, StoredListed, Keeps
<1>4. AddedListed'
  BY <1>2 DEF ShelfInv, AddedListed, Keeps
<1>5. ASSUME NEW t \in Taps, task'[t].pc \in Live PROVE HandlerFits(t)'
  <2>1. HandlerFits(t) /\ task[t].pc # "unused" /\ Keeps(t)
    BY <1>5 DEF ShelfInv, Keeps, Live
  <2> QED
    BY <1>2, <2>1 DEF HandlerFits, Keeps
<1> QED
  BY <1>1, <1>3, <1>4, <1>5 DEF ShelfInv

(* The first frame of a start: the list is what the query returned.  *)
LEMMA ShelfLoaded ==
    ASSUME OwnTypes, BeforeHome, GetProduct
    PROVE  ShelfInv'
<1>1. /\ productList' \in Seq(Own)
      /\ IsInjective(productList')
      /\ \A k \in Keys : docs[k].state = "stored" <=> \E x \in ToSet(productList') : x.of = k
      /\ \A x, y \in ToSet(productList') : x.of = y.of => x = y
  BY LoadedList
<1>2. /\ \A t \in Taps : task[t].pc \notin Live
      /\ screen' # "Edit"
      /\ UNCHANGED <<docs, task>>
  BY DEF GetProduct, BeforeHome, Idle, pages
<1>3. Distinct(productList)'
  BY <1>1, DistinctMembers
<1>4. ListedExist'
  <2> SUFFICES ASSUME NEW x \in ToSet(productList') PROVE docs[x.of].state # "none"
    BY <1>2 DEF ListedExist
  <2>1. x \in Own
    BY <1>1 DEF ToSet
  <2> QED
    BY <1>1, <2>1, NameFacts
<1>5. StoredListed' /\ AddedListed'
  BY <1>1, <1>2 DEF StoredListed, AddedListed, Listed, Live, Keys
<1> QED
  BY <1>2, <1>3, <1>4, <1>5 DEF ShelfInv, FormFits

(* A step of Firestore or Storage while one handler runs.  *)
LEMMA ShelfServed ==
    ASSUME DeskInv, DeskInv', OneAtATime, ShelfInv, NEW t \in Taps, Serve(t)
    PROVE  ShelfInv'
<1> USE DEF DeskInv
<1>1. /\ task[t].pc \in {"upload", "write"}
      /\ UNCHANGED <<productList, screen, form>>
  BY DEF Serve, UploadDone, UploadFails, Refuse, DeleteProduct, UpdateSingleProduct,
         AddSingleProduct, Writes, OneAtATime, pages
<1>2. /\ task[t] \in OwnTasks
      /\ \A u \in Taps \ {t} : task'[u] = task[u]
      /\ task'[t].kind = task[t].kind /\ task'[t].obj = task[t].obj
      /\ task'[t].pc \in Live => task'[t].place = task[t].place
      /\ task'[t].pc = "accepted" =>
             DeleteProduct(t) \/ UpdateSingleProduct(t) \/ AddSingleProduct(t)
      /\ docs' # docs => task'[t].pc = "accepted"
      /\ task'[t].pc \in {"write", "failed", "accepted", "refused"}
      /\ task[t].kind = "add" => task'[t].pc # "refused"
  <2> DEFINE W == DeleteProduct(t) \/ UpdateSingleProduct(t) \/ AddSingleProduct(t)
  <2>1. UploadDone(t) \/ UploadFails(t) \/ W \/ Refuse(t)
    BY DEF Serve
  <2>2. UploadDone(t) \/ UploadFails(t) \/ Refuse(t) => docs' = docs
    BY DEF UploadDone, UploadFails, Refuse
  <2>3. W => task[t].pc = "write"
    BY <1>1 DEF DeleteProduct, UpdateSingleProduct, AddSingleProduct, Writes
  <2> HIDE DEF W
  <2>4. /\ UploadDone(t) => task'[t].pc = "write" /\ task'[t].place = task[t].place
        /\ UploadFails(t) => task'[t].pc = "failed"
        /\ W => task'[t].pc = "accepted" /\ task'[t].place = task[t].place
        /\ Refuse(t) =>
              /\ task'[t].pc = IF task[t].kind = "add" THEN "failed" ELSE "refused"
              /\ task[t].kind # "add" => task'[t].place = task[t].place
    BY <2>3, ServeFacts DEF W
  <2>5. /\ task[t] \in OwnTasks
        /\ \A u \in Taps \ {t} : task'[u] = task[u]
        /\ task'[t].kind = task[t].kind /\ task'[t].obj = task[t].obj
    BY ServeFacts
  <2>6. /\ task'[t].pc = "accepted" => W
        /\ docs' # docs => task'[t].pc = "accepted"
        /\ task'[t].pc \in {"write", "failed", "accepted", "refused"}
        /\ task[t].kind = "add" => task'[t].pc # "refused"
        /\ task'[t].pc \in Live => task'[t].place = task[t].place
    BY <2>1, <2>2, <2>4 DEF Live
  <2> QED
    BY <2>5, <2>6 DEF W
<1>3. /\ \A u \in Taps \ {t} : task[u].pc \notin Live
      /\ task[t].kind \in Kinds
      /\ task[t].obj \in Own
      /\ task[t].place \in Nat
      /\ HandlerFits(t)
  BY <1>1, StartedTask DEF OneAtATime, ShelfInv, Live
<1> DEFINE x == task[t].obj
<1>4. \A k : Listed(k)' <=> Listed(k)
  BY <1>1 DEF Listed
<1>5. x.of \in Keys
  BY <1>3, NameFacts
<1>6. /\ \A k \in Keys \ {x.of} : docs'[k].state = docs[k].state
      /\ \A k \in Keys : docs[k].state # "none" => docs'[k].state # "none"
      /\ task'[t].pc = "accepted" /\ task[t].kind = "delete" =>
            docs'[x.of].state = IF x.of \in Products THEN "deleted" ELSE docs[x.of].state
      /\ task'[t].pc = "accepted" /\ task[t].kind = "update" =>
            docs'[x.of].state = docs[x.of].state
      /\ task'[t].pc = "accepted" /\ task[t].kind = "add" =>
            docs'[x.of].state = "stored" /\ x.of = t
      /\ task'[t].pc # "accepted" => docs'[x.of].state = docs[x.of].state
  <2>1. CASE DeleteProduct(t)
    <3>1. /\ task[t].kind = "delete"
          /\ docs' = IF x.id \in Products THEN [docs EXCEPT ![x.id].state = "deleted"] ELSE docs
      BY <2>1 DEF DeleteProduct, Writes
    <3>2. task'[t].pc = "accepted"
      BY <1>1, <2>1, ServeFacts DEF UploadDone, UploadFails, Refuse, DeleteProduct, Writes
    <3>3. /\ x.id \in Products <=> x.of \in Products
          /\ x.id \in Products => x.id = x.of
      BY <1>3, NameFacts
    <3>4. \A k \in Keys : docs[k] \in Documents
      BY DEF OwnTypes
    <3> HIDE DEF x
    <3> QED
      BY <1>5, <3>1, <3>2, <3>3, <3>4 DEF OwnTypes, Documents
  <2>2. CASE UpdateSingleProduct(t)
    <3>1. /\ task[t].kind = "update"
          /\ x.id \in Products /\ docs[x.id].state = "stored"
          /\ docs' = [docs EXCEPT ![x.id] = [state |-> "stored", id |-> x.id, text |-> x.text]]
      BY <2>2 DEF UpdateSingleProduct, Writes
    <3>2. task'[t].pc = "accepted"
      BY <1>1, <2>2, ServeFacts DEF UploadDone, UploadFails, Refuse, UpdateSingleProduct, Writes
    <3>3. x.id = x.of
      BY <1>3, <3>1, NameFacts
    <3> HIDE DEF x
    <3> QED
      BY <1>5, <3>1, <3>2, <3>3 DEF OwnTypes
  <2>3. CASE AddSingleProduct(t)
    <3>1. /\ task[t].kind = "add"
          /\ docs' = [docs EXCEPT ![t] = [state |-> "stored", id |-> x.id, text |-> x.text]]
      BY <2>3 DEF AddSingleProduct, Writes
    <3>2. task'[t].pc = "accepted"
      BY <1>1, <2>3, ServeFacts DEF UploadDone, UploadFails, Refuse, AddSingleProduct, Writes
    <3>3. x.of = t
      BY <1>1, <3>1 DEF NewOnes
    <3> HIDE DEF x
    <3> QED
      BY <1>5, <3>1, <3>2, <3>3 DEF OwnTypes
  <2>4. CASE docs' = docs /\ ~(DeleteProduct(t) \/ UpdateSingleProduct(t) \/ AddSingleProduct(t))
    <3>1. task'[t].pc # "accepted"
      BY <1>2, <2>4
    <3> QED
      BY <2>4, <3>1
  <2> QED
    BY <1>2, <2>1, <2>2, <2>3, <2>4
<1> HIDE DEF x
<1>7. Distinct(productList)'
  BY <1>1 DEF ShelfInv, Distinct
<1>8. ListedExist'
  <2> SUFFICES ASSUME NEW y \in ToSet(productList) PROVE docs'[y.of].state # "none"
    BY <1>1 DEF ListedExist
  <2>1. y \in Own
    BY DEF OwnTypes, ToSet
  <2> QED
    BY <1>6, <2>1, NameFacts DEF ShelfInv, ListedExist
<1>9. StoredListed'
  <2> SUFFICES ASSUME NEW k \in Products
               PROVE  docs'[k].state = "stored" <=>
                         /\ Listed(k)
                         /\ ~\E u \in Taps : /\ task'[u].pc = "accepted" /\ task'[u].kind = "delete"
                                             /\ task'[u].obj.of = k
    BY <1>4 DEF StoredListed
  <2>0. k \in Keys /\ k \notin Taps
    BY ProductsNamed DEF Keys
  <2>1. ~\E u \in Taps : /\ task[u].pc = "accepted" /\ task[u].kind = "delete"
                         /\ task[u].obj.of = k
    BY <1>1, <1>3 DEF Live
  <2>2. docs[k].state = "stored" <=> Listed(k)
    BY <2>1 DEF ShelfInv, StoredListed
  <2>3. \A u \in Taps : task'[u].pc = "accepted" => u = t
    BY <1>2, <1>3 DEF Live
  <2>4. CASE task'[t].pc = "accepted" /\ task[t].kind = "delete" /\ x.of = k
    <3>1. docs'[k].state = "deleted"
      BY <1>6, <2>4
    <3> QED
      BY <1>2, <2>4, <3>1 DEF x
  <2>5. CASE ~(task'[t].pc = "accepted" /\ task[t].kind = "delete" /\ x.of = k)
    <3>1. docs'[k].state = docs[k].state
      BY <1>3, <1>6, <2>0, <2>5 DEF Kinds
    <3>2. ~\E u \in Taps : /\ task'[u].pc = "accepted" /\ task'[u].kind = "delete"
                           /\ task'[u].obj.of = k
      BY <1>2, <2>3, <2>5 DEF x
    <3> QED
      BY <2>2, <3>1, <3>2
  <2> QED
    BY <2>4, <2>5
<1>10. AddedListed'
  <2> SUFFICES ASSUME NEW k \in Taps, docs'[k].state = "stored"
               PROVE  \/ Listed(k)
                      \/ \E u \in Taps : task'[u].pc = "deleted" /\ task'[u].obj.of = k
                      \/ task'[k].pc = "accepted" /\ task'[k].kind = "add"
    BY <1>4 DEF AddedListed
  <2>1. CASE task'[t].pc = "accepted" /\ task[t].kind = "add" /\ k = t
    BY <1>2, <2>1
  <2>2. CASE ~(task'[t].pc = "accepted" /\ task[t].kind = "add" /\ k = t)
    <3>1. docs[k].state = "stored"
      BY <1>3, <1>6, <2>2, ProductsNamed DEF Kinds, Keys
    <3>2. \/ Listed(k)
          \/ \E u \in Taps : task[u].pc = "deleted" /\ task[u].obj.of = k
          \/ task[k].pc = "accepted" /\ task[k].kind = "add"
      BY <3>1 DEF ShelfInv, AddedListed
    <3>3. \A u \in Taps : task[u].pc \in {"deleted", "accepted"} => task'[u] = task[u]
      BY <1>1, <1>2
    <3> QED
      BY <3>2, <3>3
  <2> QED
    BY <2>1, <2>2
<1>11. ASSUME NEW u \in Taps, task'[u].pc \in Live PROVE HandlerFits(u)'
  <2>1. u = t
    BY <1>2, <1>3, <1>11
  <2>2. task'[t].kind = task[t].kind /\ task'[t].obj = task[t].obj /\ task'[t].place = task[t].place
    BY <1>2, <1>11, <2>1
  <2>3. task'[t].kind = "add" /\ task'[t].pc = "accepted" => docs'[t].state = "stored"
    BY <1>2, <1>6
  <2> QED
    BY <1>1, <1>3, <1>4, <2>1, <2>2, <2>3 DEF HandlerFits
<1>12. FormFits'
  BY <1>1, <1>2, <1>3 DEF ShelfInv, FormFits, Live
<1> QED
  BY <1>7, <1>8, <1>9, <1>10, <1>11, <1>12 DEF ShelfInv

(* The rest of the handler, while no other runs.  *)
LEMMA ShelfResumed ==
    ASSUME DeskInv, OneAtATime, ShelfInv, NEW t \in Taps, Resume(t)
    PROVE  ShelfInv'
<1> USE DEF DeskInv
<1>1. /\ task[t].pc \in {"accepted", "refused"}
      /\ \A u \in Taps \ {t} : task'[u] = task[u]
      /\ task'[t].obj = task[t].obj
      /\ task[t].kind = "delete" /\ task[t].pc = "accepted" => task'[t].pc = "deleted"
      /\ task'[t].pc \notin Live
      /\ UNCHANGED <<docs, screen, form>>
  BY ResumeFacts DEF Live, Ended
<1>2. /\ \A u \in Taps \ {t} : task[u].pc \notin Live
      /\ task[t].obj \in Own
      /\ task[t].kind \in Kinds
      /\ HandlerFits(t)
  BY <1>1, StartedTask DEF OneAtATime, ShelfInv, Live
<1>3. /\ \A u \in Taps : task'[u].pc \notin Live
      /\ \A u \in Taps : task'[u].pc # "accepted"
      /\ \A u \in Taps \ {t} : task[u].pc # "accepted"
  BY <1>1, <1>2 DEF Live
<1> DEFINE x == task[t].obj
           s == productList
<1>4. s \in Seq(Own) /\ x \in Own /\ \A y \in ToSet(s) : y \in Own
  BY <1>2 DEF OwnTypes, ToSet
<1>5. ASSUME NEW k \in Taps, docs[k].state = "stored"
      PROVE  \/ Listed(k)
             \/ \E u \in Taps : task'[u].pc = "deleted" /\ task'[u].obj.of = k
             \/ k = t /\ task[t].kind = "add"
  <2>1. \/ Listed(k)
        \/ \E u \in Taps : task[u].pc = "deleted" /\ task[u].obj.of = k
        \/ task[k].pc = "accepted" /\ task[k].kind = "add"
    BY <1>5 DEF ShelfInv, AddedListed
  <2>2. \A u \in Taps : task[u].pc = "deleted" => task'[u] = task[u]
    BY <1>1
  <2> QED
    BY <1>3, <2>1, <2>2
<1>6. ASSUME Distinct(productList'), ListedExist', FormFits',
             \A k \in Products : docs[k].state = "stored" <=> Listed(k)',
             \A k \in Taps : docs[k].state = "stored" =>
                \/ Listed(k)'
                \/ \E u \in Taps : task'[u].pc = "deleted" /\ task'[u].obj.of = k
      PROVE  ShelfInv'
  BY <1>1, <1>3, <1>6 DEF ShelfInv, StoredListed, AddedListed, Distinct
<1>7. CASE task[t].kind = "delete" /\ task[t].pc = "accepted"
  <2>1. productList' = RemoveFirst(s, x)
    BY <1>7 DEF Resume, ResumeDelete, ResumeUpdate, ResumeAdd
  <2>2. x \in ToSet(s) /\ Distinct(s)
    BY <1>2, <1>7 DEF HandlerFits, ShelfInv
  <2>3. /\ productList' \in Seq(Own)
        /\ ToSet(productList') = ToSet(s) \ {x}
        /\ Distinct(productList')
    <3>1. IsInjective(s) /\ \A y, z \in ToSet(s) : y.of = z.of => y = z
      BY <1>4, <2>2, DistinctMembers
    <3>2. /\ productList' \in Seq(Own)
          /\ ToSet(productList') = ToSet(s) \ {x}
          /\ IsInjective(productList')
      BY <1>4, <2>1, <3>1, RemoveFacts
    <3> QED
      BY <3>1, <3>2, DistinctMembers
  <2>4. \A k : Listed(k)' <=> Listed(k) /\ k # x.of
    <3>1. \A y, z \in ToSet(s) : y.of = z.of => y = z
      BY <1>4, <2>2, DistinctMembers
    <3> QED
      BY <2>2, <2>3, <3>1 DEF Listed
  <2>5. ListedExist'
    BY <1>1, <2>3 DEF ShelfInv, ListedExist
  <2>6. FormFits'
    BY <1>1, <1>7 DEF ShelfInv, FormFits, Live
  <2>7. \A k \in Products : docs[k].state = "stored" <=> Listed(k)'
    BY <1>3, <1>7, <2>4 DEF ShelfInv, StoredListed
  <2>8. \A k \in Taps : docs[k].state = "stored" =>
           \/ Listed(k)'
           \/ \E u \in Taps : task'[u].pc = "deleted" /\ task'[u].obj.of = k
    BY <1>1, <1>5, <1>7, <2>4
  <2> QED
    BY <1>6, <2>3, <2>5, <2>6, <2>7, <2>8
<1>8. CASE ~(task[t].kind = "delete" /\ task[t].pc = "accepted")
  <2>1. \A k \in Products : docs[k].state = "stored" <=> Listed(k)
    BY <1>3, <1>8 DEF ShelfInv, StoredListed
  <2>2. CASE task[t].kind = "delete"
    <3>1. productList' = s
      BY <1>8, <2>2 DEF Resume, ResumeDelete, ResumeUpdate, ResumeAdd
    <3>2. \A k : Listed(k)' <=> Listed(k)
      BY <3>1 DEF Listed
    <3>3. Distinct(productList') /\ ListedExist' /\ FormFits'
      BY <1>1, <1>3, <3>1 DEF ShelfInv, ListedExist, FormFits, Distinct
    <3> QED
      BY <1>5, <1>6, <2>1, <2>2, <3>2, <3>3
  <2>3. CASE task[t].kind = "update"
    <3>1. /\ task[t].place \in DOMAIN s
          /\ s[task[t].place].of = x.of
      BY <1>2, <2>3 DEF HandlerFits
    <3>2. productList' = [s EXCEPT ![task[t].place] = x]
      BY <2>3, <3>1 DEF Resume, ResumeDelete, ResumeUpdate, ResumeAdd
    <3>3. /\ DOMAIN productList' = DOMAIN s
          /\ \A j \in DOMAIN s : productList'[j].of = s[j].of
          /\ Distinct(productList')
          /\ \A k : Listed(k)' <=> Listed(k)
      <4> DEFINE r == productList'
                 n == task[t].place
      <4>1. s \in Seq(Own) /\ x \in Own /\ n \in DOMAIN s /\ x.of = s[n].of /\ r = [s EXCEPT ![n] = x]
        BY <1>4, <3>1, <3>2
      <4>2. Distinct(s)
        BY DEF ShelfInv
      <4> HIDE DEF s, x, n, r
      <4>3. DOMAIN r = DOMAIN s /\ \A j \in DOMAIN s : r[j].of = s[j].of
        BY <4>1
      <4>4. Distinct(r)
        BY <4>2, <4>3 DEF Distinct
      <4>5. \A k : (\E y \in ToSet(r) : y.of = k) <=> (\E y \in ToSet(s) : y.of = k)
        BY <4>3 DEF ToSet
      <4> QED
        BY <4>3, <4>4, <4>5 DEF Listed, r, s
    <3>4. ListedExist'
      <4> SUFFICES ASSUME NEW j \in DOMAIN s PROVE docs[productList'[j].of].state # "none"
        BY <1>1, <3>3 DEF ListedExist, ToSet
      <4> QED
        BY <3>3 DEF ShelfInv, ListedExist, ToSet
    <3>5. FormFits'
      BY <1>1, <1>3, <3>3 DEF ShelfInv, FormFits
    <3> QED
      BY <1>5, <1>6, <2>1, <2>3, <3>3, <3>4, <3>5
  <2>4. CASE task[t].kind = "add"
    <3>1. productList' = Append(s, x) /\ task[t].pc = "accepted"
      BY <2>4 DEF Resume, ResumeDelete, ResumeUpdate, ResumeAdd
    <3>2. x.of = t /\ ~Listed(t) /\ docs[t].state = "stored"
      BY <1>1, <1>2, <2>4, <3>1 DEF NewOnes, HandlerFits
    <3>3. /\ productList' \in Seq(Own)
          /\ ToSet(productList') = ToSet(s) \cup {x}
          /\ Distinct(productList')
      <4>1. IsInjective(s) /\ \A y, z \in ToSet(s) : y.of = z.of => y = z
        BY <1>4, DistinctMembers DEF ShelfInv
      <4>2. x \notin ToSet(s) /\ \A y \in ToSet(s) : y.of # t
        BY <3>2 DEF Listed
      <4>3. /\ productList' \in Seq(Own)
            /\ ToSet(productList') = ToSet(s) \cup {x}
            /\ IsInjective(productList')
        BY <1>4, <3>1, <4>1, <4>2, AddFacts
      <4>4. \A y, z \in ToSet(productList') : y.of = z.of => y = z
        BY <3>2, <4>1, <4>2, <4>3
      <4> QED
        BY <4>3, <4>4, DistinctMembers
    <3>4. \A k : Listed(k)' <=> Listed(k) \/ k = t
      BY <3>2, <3>3 DEF Listed
    <3>5. ListedExist'
      BY <1>1, <3>2, <3>3 DEF ShelfInv, ListedExist
    <3>6. FormFits'
      BY <1>1, <2>4 DEF ShelfInv, FormFits, Live
    <3>7. t \notin Products
      BY ProductsNamed
    <3> QED
      BY <1>5, <1>6, <2>1, <3>3, <3>4, <3>5, <3>6, <3>7
  <2> QED
    BY <1>2, <2>2, <2>3, <2>4 DEF Kinds
<1> QED
  BY <1>7, <1>8

(* A press on a page that shows the list, while nothing runs.  *)
LEMMA ShelfPressed ==
    ASSUME DeskInv, Quiet, PageIsFresh, ShelfInv, NEW t \in Taps, Press(t)
    PROVE  ShelfInv'
<1> USE DEF DeskInv
<1>1. /\ task[t] = Unused
      /\ task[t].pc = "unused"
      /\ task'[t].pc \in {"upload", "write"}
      /\ \A u \in Taps \ {t} : task'[u] = task[u]
      /\ UNCHANGED <<docs, productList, screen, form>>
  BY PressFacts DEF Unused
<1>2. \A u \in Taps : task[u].pc \notin Live
  BY DEF Quiet, Idle
<1>3. \A k : Listed(k)' <=> Listed(k)
  BY <1>1 DEF Listed
<1>4. Distinct(productList)' /\ ListedExist'
  BY <1>1 DEF ShelfInv, Distinct, ListedExist
<1>5. StoredListed'
  BY <1>1, <1>2, <1>3 DEF ShelfInv, StoredListed, Live
<1>6. AddedListed'
  <2>1. \A u \in Taps : task[u].pc \in {"deleted", "accepted"} => task'[u] = task[u]
    BY <1>1
  <2> QED
    BY <1>1, <1>3, <2>1 DEF ShelfInv, AddedListed
<1>7. HandlerFits(t)'
  <2>1. CASE task'[t].kind = "delete"
    <3>1. PICK i \in DOMAIN cards : task'[t].obj = cards[i].obj
      BY <2>1, PressFacts
    <3>2. i \in DOMAIN productList /\ cards[i].obj = productList[i]
      BY DEF PageIsFresh, OwnTypes, OwnCards
    <3> QED
      BY <1>1, <2>1, <3>1, <3>2 DEF HandlerFits, ToSet
  <2>2. CASE task'[t].kind = "update"
    BY <1>1, <2>2, PressFacts DEF HandlerFits, ShelfInv, FormFits
  <2>3. CASE task'[t].kind = "add"
    <3>1. docs[t].state = "none"
      BY <1>1 DEF NewOnes
    <3>2. ~Listed(t)
      BY <3>1 DEF Listed, ShelfInv, ListedExist
    <3> QED
      BY <1>1, <1>3, <2>3, <3>2 DEF HandlerFits
  <2>4. task'[t].kind \in {"delete", "update", "add"}
    BY PressFacts
  <2> QED
    BY <2>1, <2>2, <2>3, <2>4
<1>8. FormFits'
  <2>1. screen = "Edit" => task'[t].kind = "update"
    BY PressFacts
  <2> QED
    BY <1>1, <1>2, <2>1 DEF ShelfInv, FormFits
<1> QED
  BY <1>1, <1>2, <1>4, <1>5, <1>6, <1>7, <1>8 DEF ShelfInv

(* Before the list is there nothing runs, through every step.  *)
LEMMA BeforeHomeStep ==
    ASSUME DeskInv, BeforeHome, [Next]_vars PROVE BeforeHome'
<1> USE DEF DeskInv
<1> SUFFICES ASSUME home' # "done"
             PROVE  Idle' /\ screen' = "Home" /\ cards' = << >> /\ ~dirty'
  BY DEF BeforeHome
<1>1. CASE Restart
  BY <1>1, KilledFacts DEF Restart, Idle
<1>2. CASE home = "done"
  <2>1. \A t \in Taps : Serve(t) => home' = home
    BY DEF Serve, UploadDone, UploadFails, DeleteProduct, UpdateSingleProduct,
           AddSingleProduct, Refuse, Writes
  <2>2. \A t \in Taps : Resume(t) => home' = home
    BY ResumeFacts
  <2>3. \A t \in Taps : Press(t) => home' = home
    BY PressFacts
  <2> QED
    BY <1>1, <1>2, <2>1, <2>2, <2>3
    DEF Next, Ongoing, GetProduct, GetProductFails, OpenProductView, LeaveProductView, Rebuild,
        RedrawCards, OpenAddProduct, LeaveForm, TapEdit, vars, desk
<1>3. CASE home # "done"
  <2>1. /\ \A t \in Taps : task[t].pc \notin Live
        /\ screen = "Home" /\ cards = << >> /\ ~dirty
    BY <1>3 DEF BeforeHome, Idle
  <2>2. ~RedrawCards
    BY <2>1 DEF RedrawCards
  <2>3. ASSUME NEW t \in Taps, Serve(t)
        PROVE  Idle' /\ screen' = "Home" /\ cards' = << >> /\ ~dirty'
    <3>1. task[t].pc = "stray" /\ UNCHANGED pages
      BY <2>1, <2>3 DEF Serve, UploadDone, UploadFails, DeleteProduct, UpdateSingleProduct,
                        AddSingleProduct, Refuse, Writes, Live
    <3>2. task'[t].pc = "dead"
      BY <2>3, <3>1, ServeFacts DEF Serve, UploadDone, UploadFails, Refuse
    <3>3. \A u \in Taps \ {t} : task'[u] = task[u]
      BY <2>3, ServeFacts
    <3> QED
      BY <2>1, <3>1, <3>2, <3>3 DEF Idle, Live, pages
  <2>4. \A t \in Taps : ~Resume(t) /\ ~Press(t)
    <3>1. \A t \in Taps : ~Resume(t)
      BY <2>1, ResumeFacts DEF Live
    <3>2. \A t \in Taps : ~Press(t)
      BY <2>1, PressFacts
    <3> QED
      BY <3>1, <3>2
  <2>5. CASE GetProductFails \/ UNCHANGED vars
    BY <2>1, <2>5 DEF GetProductFails, Idle, vars, desk, pages
  <2>6. ~GetProduct
    BY DEF GetProduct
  <2>7. ~(OpenProductView \/ LeaveProductView \/ Rebuild \/ OpenAddProduct \/ LeaveForm
            \/ \E i \in DOMAIN cards : TapEdit(i))
    BY <1>3, <2>1 DEF OpenProductView, LeaveProductView, Rebuild, OpenAddProduct, LeaveForm, TapEdit
  <2> QED
    BY <1>1, <2>2, <2>3, <2>4, <2>5, <2>6, <2>7 DEF Next, Ongoing
<1> QED
  BY <1>2, <1>3

(* Every step of a careful admin keeps one handler and a list that fits.  *)
LEMMA CarefulStep ==
    ASSUME DeskInv, DeskInv', CarefulInv, [Next]_vars PROVE CarefulInv'
<1> USE DEF DeskInv
<1>1. BeforeHome'
  BY BeforeHomeStep DEF CarefulInv
<1>2. SUFFICES ASSUME ~rushed' PROVE OneAtATime' /\ (home' = "done" => ShelfInv')
  BY <1>1 DEF CarefulInv
<1>3. ~rushed
  BY <1>2 DEF Next, vars, OwnTypes
<1>4. OneAtATime /\ (home = "done" => ShelfInv) /\ BeforeHome
  BY <1>3 DEF CarefulInv
<1>5. ASSUME NEW t \in Taps, task[t].pc \in Live PROVE home = "done"
  BY <1>4, <1>5 DEF BeforeHome, Idle
<1>6. CASE GetProduct
  BY <1>4, <1>6, ShelfLoaded DEF GetProduct, OneAtATime
<1>7. ASSUME NEW t \in Taps, Serve(t) PROVE OneAtATime' /\ (home' = "done" => ShelfInv')
  <2>1. task[t].pc \in Live /\ UNCHANGED home
    BY <1>4, <1>7 DEF Serve, UploadDone, UploadFails, DeleteProduct, UpdateSingleProduct,
                      AddSingleProduct, Refuse, Writes, Live, OneAtATime
  <2>2. task'[t].pc # "stray"
    BY <1>7, ServeFacts DEF Serve
  <2>3. \A u \in Taps \ {t} : task'[u] = task[u]
    BY <1>7, ServeFacts
  <2>4. OneAtATime'
    BY <1>4, <2>1, <2>2, <2>3 DEF OneAtATime
  <2> QED
    BY <1>4, <1>5, <1>7, <2>1, <2>4, ShelfServed
<1>8. ASSUME NEW t \in Taps, Resume(t) PROVE OneAtATime' /\ (home' = "done" => ShelfInv')
  <2>1. task[t].pc \in Live
    BY <1>8, ResumeFacts DEF Live
  <2>2. /\ task'[t].pc # "stray"
        /\ \A u \in Taps \ {t} : task'[u] = task[u]
    BY <1>8, ResumeFacts
  <2>3. OneAtATime'
    BY <1>4, <2>1, <2>2 DEF OneAtATime
  <2> QED
    BY <1>4, <1>5, <1>8, <2>1, <2>3, ShelfResumed
<1>9. ASSUME NEW t \in Taps, Press(t), Quiet, PageIsFresh
      PROVE  OneAtATime' /\ (home' = "done" => ShelfInv')
  <2>1. \A u \in Taps : task[u].pc \notin Live
    BY <1>9 DEF Quiet, Idle
  <2>2. /\ task'[t].pc # "stray" /\ UNCHANGED home
        /\ \A u \in Taps \ {t} : task'[u] = task[u]
    BY <1>9, PressFacts
  <2>3. OneAtATime'
    BY <1>4, <2>1, <2>2 DEF OneAtATime
  <2> QED
    BY <1>4, <1>9, <2>2, <2>3, ShelfPressed
<1>10. ASSUME NEW i \in DOMAIN cards, TapEdit(i), Quiet, PageIsFresh
       PROVE  OneAtATime' /\ (home' = "done" => ShelfInv')
  <2>1. UNCHANGED <<docs, productList, task, home>> /\ form' = [index |-> i, obj |-> cards[i].obj]
    BY <1>10 DEF TapEdit
  <2>2. i \in DOMAIN productList /\ cards[i].obj = productList[i]
    BY <1>10 DEF PageIsFresh, OwnTypes, OwnCards
  <2>3. FormFits'
    BY <1>10, <2>1, <2>2 DEF FormFits, Quiet, Idle
  <2>4. \A t \in Taps : Keeps(t)
    BY <2>1 DEF Keeps
  <2>5. OneAtATime'
    BY <1>4, <2>1 DEF OneAtATime
  <2> QED
    BY <1>4, <2>1, <2>3, <2>4, <2>5, ShelfUnmoved
<1>11. CASE Restart /\ Idle
  <2>1. \A t \in Taps : task'[t] = task[t]
    BY <1>11, KilledFacts DEF Idle
  <2> QED
    BY <1>4, <1>11, <2>1 DEF Restart, OneAtATime
<1>12. ASSUME UNCHANGED <<docs, productList>>, home' = "done" => home = "done",
              \A t \in Taps : Keeps(t),
              screen' = "Edit" => screen = "Edit" /\ UNCHANGED form
       PROVE  OneAtATime' /\ (home' = "done" => ShelfInv')
  <2>1. OneAtATime'
    BY <1>4, <1>12 DEF OneAtATime, Keeps
  <2>2. ASSUME home' = "done" PROVE ShelfInv'
    <3>1. ShelfInv
      BY <1>4, <1>12, <2>2
    <3>2. \A t \in Taps : task'[t].pc \in Live => task[t].pc \in Live /\ task'[t].kind = task[t].kind
      BY <1>12 DEF Keeps, Live
    <3>3. FormFits'
      BY <1>12, <3>1, <3>2 DEF ShelfInv, FormFits
    <3> QED
      BY <1>12, <3>1, <3>3, ShelfUnmoved
  <2> QED
    BY <2>1, <2>2
<1>13. CASE LeaveProductView \/ Rebuild
  <2>1. \A t \in Taps : Keeps(t)
    BY <1>13, DisposeFacts DEF Keeps
  <2>2. /\ UNCHANGED <<docs, productList, home>>
        /\ screen' = "Edit" => screen = "Edit" /\ UNCHANGED form
    BY <1>13 DEF LeaveProductView, Rebuild
  <2> QED
    BY <1>12, <2>1, <2>2
<1>14. CASE GetProductFails \/ OpenProductView \/ RedrawCards \/ OpenAddProduct \/ LeaveForm
              \/ UNCHANGED vars
  <2>1. /\ UNCHANGED <<docs, productList, task>>
        /\ home' = "done" => home = "done"
        /\ screen' = "Edit" => screen = "Edit" /\ UNCHANGED form
    BY <1>14 DEF GetProductFails, OpenProductView, RedrawCards, OpenAddProduct, LeaveForm,
                 vars, desk, pages
  <2>2. \A t \in Taps : Keeps(t)
    BY <2>1 DEF Keeps
  <2> QED
    BY <1>12, <2>1, <2>2
<1>15. rushed' = (rushed \/ ~(Quiet /\ PageIsFresh)) => Quiet /\ PageIsFresh
  BY <1>2
<1>16. rushed' = (rushed \/ ~Idle) => Idle
  BY <1>2
<1> QED
  BY <1>6, <1>7, <1>8, <1>9, <1>10, <1>11, <1>13, <1>14, <1>15, <1>16 DEF Next, Ongoing

(* For a careful admin, whatever Firestore and Storage answer, the list    *)
(* of a start that loaded has stored products only, also of those added    *)
(* since, and every one of them once, but for an addition that the panel   *)
(* "deleted" under the collection's id.                                    *)
THEOREM ShelfIsMirrored == Spec => []ShelfMirrors
<1>1. Init => CarefulInv
  BY DEF Init, CarefulInv, BeforeHome, OneAtATime, Idle, Live, Unused
<1>2. DeskInv /\ DeskInv' /\ CarefulInv /\ [Next]_vars => CarefulInv'
  BY CarefulStep
<1>3. DeskInv /\ CarefulInv => ShelfMirrors
  <2> SUFFICES ASSUME DeskInv, CarefulInv, ~rushed, Quiet, home = "done"
               PROVE  /\ Distinct(productList)
                      /\ \A x \in ToSet(productList) : docs[x.of].state = "stored"
                      /\ \A k \in Keys : docs[k].state = "stored" =>
                            \/ Listed(k)
                            \/ /\ k \in Taps
                               /\ \E t \in Taps : task[t].pc = "deleted" /\ task[t].obj.of = k
    BY DEF ShelfMirrors, Listed, Distinct
  <2>1. ShelfInv
    BY DEF CarefulInv
  <2>2. \A t \in Taps : task[t].pc # "accepted"
    BY DEF Quiet, Idle, Live
  <2>3. \A k \in Products : docs[k].state = "stored" <=> Listed(k)
    BY <2>1, <2>2 DEF ShelfInv, StoredListed
  <2>4. \A k \in Taps : docs[k].state = "stored" =>
           \/ Listed(k)
           \/ \E t \in Taps : task[t].pc = "deleted" /\ task[t].obj.of = k
    BY <2>1, <2>2 DEF ShelfInv, AddedListed
  <2>5. ASSUME NEW x \in ToSet(productList) PROVE docs[x.of].state = "stored"
    <3>1. x.of \in Keys /\ Listed(x.of)
      <4>1. x \in Own
        BY DEF DeskInv, OwnTypes, ToSet
      <4> QED
        BY <4>1, NameFacts DEF Listed
    <3>2. CASE x.of \in Products
      BY <2>3, <3>1, <3>2
    <3>3. CASE x.of \in Taps
      <4>1. docs[x.of].state \notin {"none", "deleted"}
        BY <2>1, <3>3 DEF ShelfInv, ListedExist, DeskInv, NewOnes
      <4>2. docs[x.of].state \in {"none", "stored", "deleted"}
        BY <3>1 DEF DeskInv, OwnTypes, Documents
      <4> QED
        BY <4>1, <4>2
    <3> QED
      BY <3>1, <3>2, <3>3 DEF Keys
  <2>6. Distinct(productList)
    BY <2>1 DEF ShelfInv
  <2> QED
    BY <2>3, <2>4, <2>5, <2>6 DEF Keys
<1> QED
  BY <1>1, <1>2, <1>3, DeskInvariant, PTL DEF Spec
=============================================================================
