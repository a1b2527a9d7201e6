-------------------------- MODULE CategoryDeskProofs --------------------------
(***************************************************************************)
(* Proofs about the category desk, for any finite sets of categories and   *)
(* of taps.                                                                *)
(***************************************************************************)
EXTENDS CategoryDesk, ListLemmas

-----------------------------------------------------------------------------
(* Type correctness.  A model is stronger than its type: its id is that of *)
(* its document, for a category the panel added the collection's name.     *)

NameOf(k) == IF k \in Categories THEN k ELSE "categories"

Own == {x \in Models : x.id = NameOf(x.of)}

OwnQueries == [phase: {"asked", "answered", "erred", "done", "lost", "failed"},
               rows: Seq(Own)]

Started  == Live \cup {"stray"}
Running  == [pc: Started, kind: Kinds, obj: Own, place: Nat]
Finished == [pc: Ended, of: Keys]
OwnTasks == {Unused} \cup Running \cup Finished

OwnForm == IF screen = "Edit" THEN form \in [index: Nat, obj: Own] ELSE form = NoForm

OwnCards == cards \in Seq([obj: Own, busy: BOOLEAN])

OwnTypes ==
    /\ docs \in [Keys -> Documents]
    /\ \A k \in Keys : docs[k].id = NameOf(k)
    /\ storage \in [Ids -> Marks]
    /\ categoriesList \in Seq(Own)
    /\ early \in OwnQueries
    /\ home \in OwnQueries
    /\ screen \in {"Home", "Categories", "Edit", "Add"}
    /\ OwnForm
    /\ OwnCards
    /\ spinning \subseteq Nat
    /\ dirty \in BOOLEAN
    /\ task \in [Taps -> OwnTasks]
    /\ rushed \in BOOLEAN

(* Firestore has a document under the key of a press only once that press  *)
(* was an addition whose write arrived.                                    *)
NewOnes ==
    \A t \in Taps :
        /\ task[t].pc \in Started /\ task[t].kind = "add" => task[t].obj.of = t
        /\ docs[t].state # "none" =>
              task[t].pc \notin {"unused", "upload", "link", "write", "stray"}

DeskInv == OwnTypes /\ NewOnes

(* The keys, told apart.  *)
LEMMA NameFacts ==
    ASSUME NEW x \in Own
    PROVE  /\ x.of \in Keys
           /\ x.id \in Ids
           /\ x.id \in Categories => x.id = x.of
           /\ x.of \in Categories => x.id = x.of
BY CategoriesNamed DEF Own, NameOf, Models

(* What is known of one card.  *)
LEMMA CardFacts ==
    ASSUME OwnCards, NEW i \in DOMAIN cards
    PROVE  i \in Nat \ {0} /\ cards[i].obj \in Own /\ cards[i].busy \in BOOLEAN
<1> DEFINE R == [obj: Own, busy: BOOLEAN]
<1>1. cards \in Seq(R)
  BY DEF OwnCards
<1> HIDE DEF R
<1>2. i \in 1 .. Len(cards) /\ Len(cards) \in Nat
  BY <1>1
<1>3. cards[i] \in R
  BY <1>1, <1>2
<1> QED
  BY <1>2, <1>3 DEF R

(* An empty list, an empty page, and a query without rows.  *)
LEMMA EmptyTypes ==
    /\ << >> \in Seq(Own)
    /\ << >> \in Seq([obj: Own, busy: BOOLEAN])
    /\ Asking \in OwnQueries
    /\ \A p \in {"done", "lost", "failed", "erred"} : AtQuery(p) \in OwnQueries
<1>1. \A S : << >> \in Seq(S)
  OBVIOUS
<1>2. << >> \in Seq(Own) /\ << >> \in Seq([obj: Own, busy: BOOLEAN])
  BY <1>1, Zenon
<1>3. << >> \in Seq(Own)
  BY <1>2
<1> QED
  BY <1>2, <1>3 DEF Asking, AtQuery, OwnQueries

(* What a query answers: each stored document once, as it is now.  *)
LEMMA AnswerFacts ==
    ASSUME OwnTypes, NEW by \in {"early", "home"}
    PROVE  /\ Answer(by) \in Seq(Own)
           /\ IsInjective(Answer(by))
           /\ \A k \in Keys : docs[k].state = "stored" <=> \E x \in ToSet(Answer(by)) : x.of = k
           /\ \A x, y \in ToSet(Answer(by)) : x.of = y.of => x = y
           /\ \A x \in ToSet(Answer(by)) : x.name = docs[x.of].name /\ x.image = docs[x.of].image
<1> DEFINE S == {k \in Keys : docs[k].state = "stored"}
           m(k) == [of |-> k, by |-> by, id |-> docs[k].id, name |-> docs[k].name,
                    image |-> docs[k].image]
           f == [k \in S |-> m(k)]
           T == {m(k) : k \in S}
<1>1. IsFiniteSet(S)
  BY CategoriesFinite, FS_Union, FS_Subset DEF Keys
<1>2. f \in Surjection(S, T)
  BY DEF Surjection
<1>3. IsFiniteSet(T)
  BY <1>1, <1>2, FS_Surjection
<1>4. T \subseteq Own
  BY DEF OwnTypes, Own, Models, Documents
<1>5. Answer(by) = SetToSeq(T)
  BY DEF Answer
<1>6. \A x \in T : x.of \in S /\ x = m(x.of) /\ x.name = docs[x.of].name /\ x.image = docs[x.of].image
  OBVIOUS
<1>7. \A k \in S : m(k) \in T /\ m(k).of = k
  OBVIOUS
<1> HIDE DEF T
<1>8. Answer(by) \in Seq(T) /\ IsInjective(Answer(by)) /\ ToSet(Answer(by)) = T
  BY <1>3, <1>5, OrderFacts
<1>9. Answer(by) \in Seq(Own)
  BY <1>4, <1>8
<1> HIDE DEF m
<1> QED
  BY <1>6, <1>7, <1>8, <1>9

(* What a frame draws.  *)
LEMMA GridType ==
    ASSUME OwnTypes
    PROVE  Grid \in Seq([obj: Own, busy: BOOLEAN])
<1>1. categoriesList \in Seq(Own) /\ Len(categoriesList) \in Nat
  BY DEF OwnTypes
<1>2. \A i \in 1 .. Len(categoriesList) : categoriesList[i] \in Own
  BY <1>1
<1> HIDE DEF Own
<1> QED
  BY <1>1, <1>2 DEF Grid

(* The phases of a handler, told apart.  *)
LEMMA PhaseFacts ==
    /\ Started = {"upload", "link", "write", "accepted", "refused", "stray"}
    /\ Live = {"upload", "link", "write", "accepted", "refused"}
    /\ \A p \in Ended : p \notin Started /\ p # "unused"
    /\ Waiting \cup {"stray"} = {"upload", "link", "write", "stray"}
BY DEF Started, Live, Waiting, Ended

(* A handler that has been started and is not over has all four fields.  *)
LEMMA StartedTask ==
    ASSUME OwnTypes, NEW t \in Taps, task[t].pc \in Started
    PROVE  /\ task[t] \in Running
           /\ task[t].kind \in Kinds
           /\ task[t].obj \in Own
           /\ task[t].place \in Nat
<1>1. task[t] \in Running
  BY PhaseFacts DEF OwnTypes, OwnTasks, Unused, Finished
<1> QED
  BY <1>1 DEF Running

(* Changing the phase or the position of a handler, and ending it.  *)
LEMMA TaskUpdate ==
    ASSUME NEW k \in Running
    PROVE  /\ \A p \in Started, n \in Nat :
                 /\ AtTask(k, p, n) \in Running
                 /\ AtTask(k, p, n).pc = p
                 /\ AtTask(k, p, n).kind = k.kind
                 /\ AtTask(k, p, n).obj = k.obj
                 /\ AtTask(k, p, n).place = n
           /\ \A p \in Ended :
                 /\ Over(k, p) \in Finished
                 /\ Over(k, p).pc = p
                 /\ Over(k, p).of = k.obj.of
<1>1. k.obj.of \in Keys
  BY NameFacts DEF Running
<1> QED
  BY <1>1 DEF Running, Finished, AtTask, Over

(* Disposing a card changes nothing of a handler but its position.  *)
LEMMA UnmountFacts ==
    ASSUME OwnTypes, NEW t \in Taps
    PROVE  /\ Unmount(task[t]) \in OwnTasks
           /\ Unmount(task[t]).pc = task[t].pc
           /\ task[t].pc \in Started => /\ Unmount(task[t]).kind = task[t].kind
                                        /\ Unmount(task[t]).obj = task[t].obj
           /\ task[t].pc \notin Live \/ task[t].kind # "delete" => Unmount(task[t]) = task[t]
<1>1. CASE task[t].pc \in Live
  <2>1. task[t] \in Running
    BY <1>1, StartedTask, PhaseFacts
  <2>2. task[t].pc \in Started
    BY <1>1 DEF Started
  <2> QED
    BY <1>1, <2>1, <2>2, TaskUpdate DEF Unmount, OwnTasks
<1>2. CASE task[t].pc \notin Live
  BY <1>2 DEF Unmount, OwnTypes
<1> QED
  BY <1>1, <1>2

(* A step of one handler.  *)
LEMMA TaskStep ==
    ASSUME OwnTypes, NEW t \in Taps, NEW k \in OwnTasks, task' = [task EXCEPT ![t] = k]
    PROVE  /\ task' \in [Taps -> OwnTasks]
           /\ task'[t] = k
           /\ \A u \in Taps \ {t} : task'[u] = task[u]
BY DEF OwnTypes

(* The end of the process leaves handlers handlers, and none that runs.  *)
LEMMA KilledFacts ==
    ASSUME OwnTypes, NEW t \in Taps, Restart
    PROVE  /\ task'[t] \in OwnTasks
           /\ task'[t].pc \notin Live
           /\ task[t].pc \notin Live => task'[t] = task[t]
           /\ task[t].pc = "write" => /\ task'[t].pc = "stray"
                                      /\ task'[t].kind = task[t].kind
                                      /\ task'[t].obj = task[t].obj
           /\ task[t].pc \in Live \ {"write"} => task'[t].pc \in Ended
<1>0. task'[t] = Killed(task[t])
  BY DEF Restart
<1>1. CASE task[t].pc = "write"
  <2>1. task[t] \in Running
    BY <1>1, StartedTask, PhaseFacts
  <2>2. task'[t] = AtTask(task[t], "stray", 0)
    BY <1>0, <1>1, Zenon DEF Killed
  <2>3. "stray" \in Started /\ "stray" \notin Live /\ "write" \in Live
    BY PhaseFacts
  <2>4. /\ task'[t] \in Running /\ task'[t].pc = "stray"
        /\ task'[t].kind = task[t].kind /\ task'[t].obj = task[t].obj
    BY <2>1, <2>2, <2>3, TaskUpdate
  <2> QED
    BY <1>1, <2>3, <2>4 DEF OwnTasks
<1>2. CASE task[t].pc \in Live \ {"write"}
  <2>1. task[t] \in Running
    BY <1>2, StartedTask, PhaseFacts
  <2>2. PICK p \in {"failed", "unlinked", "dead"} : task'[t] = Over(task[t], p)
    <3>1. CASE task[t].pc = "upload"
      BY <1>0, <3>1 DEF Killed
    <3>2. CASE task[t].pc = "link"
      BY <1>0, <3>2 DEF Killed
    <3>3. CASE task[t].pc \in {"accepted", "refused"}
      BY <1>0, <3>3 DEF Killed
    <3> QED
      BY <1>2, <3>1, <3>2, <3>3, PhaseFacts
  <2>3. p \in Ended
    BY DEF Ended
  <2> QED
    BY <1>2, <2>1, <2>2, <2>3, TaskUpdate, PhaseFacts DEF OwnTasks
<1>3. CASE task[t].pc \notin Live
  <2>1. Killed(task[t]) = task[t]
    BY <1>3, PhaseFacts, Zenon DEF Killed
  <2> QED
    BY <1>0, <1>3, <2>1, PhaseFacts DEF OwnTypes
<1> QED
  BY <1>1, <1>2, <1>3

(* Where a step leaves a handler: in a later phase with the same category  *)
(* and name, or over.                                                      *)
Goes(t, p) ==
    /\ task'[t].pc = p
    /\ task'[t].kind = task[t].kind
    /\ task'[t].place = task[t].place
    /\ task'[t].obj \in Own
    /\ task'[t].obj.of = task[t].obj.of
    /\ task'[t].obj.id = task[t].obj.id
    /\ task'[t].obj.name = task[t].obj.name

Ends(t, p) == task'[t].pc = p /\ task'[t].of = task[t].obj.of

IsWrite(t) == DeleteSingleCategories(t) \/ UpdateSingleCategories(t) \/ AddSingleCategories(t)

(* What a step of Firestore or Storage does to the handler it answers.  *)
LEMMA ServeFacts ==
    ASSUME OwnTypes, NEW t \in Taps, Serve(t)
    PROVE  /\ task[t] \in Running
           /\ task' \in [Taps -> OwnTasks]
           /\ \A u \in Taps \ {t} : task'[u] = task[u]
           /\ PutFile(t) => Goes(t, "link")
           /\ GetDownloadURL(t) => Goes(t, "write")
                                     /\ task'[t].obj.image = storage[task[t].obj.id]
           /\ UploadFails(t) => Ends(t, IF task[t].pc = "upload" THEN "failed" ELSE "unlinked")
           /\ IsWrite(t) /\ task[t].pc = "write" => /\ Goes(t, "accepted")
                                                    /\ task'[t].obj = task[t].obj
           /\ IsWrite(t) /\ task[t].pc # "write" => Ends(t, "dead")
           /\ Refuse(t) => IF task[t].kind = "add" THEN Ends(t, "failed")
                           ELSE Goes(t, "refused") /\ task'[t].obj = task[t].obj
<1> DEFINE k == task[t]
           Frame == /\ task' \in [Taps -> OwnTasks]
                    /\ \A u \in Taps \ {t} : task'[u] = task[u]
<1>0. /\ k \in Running /\ k.kind \in Kinds /\ k.place \in Nat /\ k.obj \in Own
  <2>1. k.pc \in Started
    BY PhaseFacts DEF Serve, PutFile, GetDownloadURL, UploadFails, DeleteSingleCategories,
                      UpdateSingleCategories, AddSingleCategories, Refuse, Writes
  <2> QED
    BY <2>1, StartedTask
<1>1. ASSUME NEW p \in Started, task' = [task EXCEPT ![t] = AtTask(k, p, k.place)]
      PROVE  Frame /\ Goes(t, p) /\ task'[t].obj = k.obj
  <2> DEFINE h == AtTask(k, p, k.place)
  <2>1. h \in Running /\ h.pc = p /\ h.kind = k.kind /\ h.obj = k.obj /\ h.place = k.place
    BY <1>0, TaskUpdate
  <2>2. task' = [task EXCEPT ![t] = h] /\ h \in OwnTasks
    BY <1>1, <2>1 DEF OwnTasks
  <2> HIDE DEF h
  <2>3. Frame /\ task'[t] = h
    BY <2>2, TaskStep
  <2> QED
    BY <1>0, <2>1, <2>3 DEF Goes
<1>2. ASSUME NEW p \in Ended, task' = [task EXCEPT ![t] = Over(k, p)]
      PROVE  Frame /\ Ends(t, p)
  <2> DEFINE h == Over(k, p)
  <2>1. h \in Finished /\ h.pc = p /\ h.of = k.obj.of
    BY <1>0, TaskUpdate
  <2>2. task' = [task EXCEPT ![t] = h] /\ h \in OwnTasks
    BY <1>2, <2>1 DEF OwnTasks
  <2> HIDE DEF h
  <2>3. Frame /\ task'[t] = h
    BY <2>2, TaskStep
  <2> QED
    BY <2>1, <2>3 DEF Ends
<1> HIDE DEF Frame
<1>3. PutFile(t) => Frame /\ Goes(t, "link")
  BY <1>1, PhaseFacts DEF PutFile
<1>4. ASSUME GetDownloadURL(t)
      PROVE  Frame /\ Goes(t, "write") /\ task'[t].obj.image = storage[k.obj.id]
  <2> DEFINE x == [k.obj EXCEPT !.image = storage[k.obj.id]]
             h == [pc |-> "write", kind |-> k.kind, obj |-> x, place |-> k.place]
  <2>1. storage[k.obj.id] \in Marks
    BY <1>0, NameFacts DEF OwnTypes
  <2>2. /\ x \in Own /\ x.of = k.obj.of /\ x.id = k.obj.id /\ x.name = k.obj.name
        /\ x.image = storage[k.obj.id]
    BY <1>0, <2>1 DEF Own, Models
  <2>3. task' = [task EXCEPT ![t] = h]
    BY <1>4 DEF GetDownloadURL
  <2> HIDE DEF x
  <2>4. h \in OwnTasks /\ h.pc = "write" /\ h.kind = k.kind /\ h.obj = x /\ h.place = k.place
    BY <1>0, <2>2, PhaseFacts DEF OwnTasks, Running
  <2> HIDE DEF h
  <2>5. Frame /\ task'[t] = h
    BY <2>3, <2>4, TaskStep DEF Frame
  <2> QED
    BY <2>2, <2>4, <2>5 DEF Goes
<1>5. ASSUME UploadFails(t)
      PROVE  Frame /\ Ends(t, IF k.pc = "upload" THEN "failed" ELSE "unlinked")
  <2> DEFINE p == IF k.pc = "upload" THEN "failed" ELSE "unlinked"
  <2>1. p \in Ended /\ task' = [task EXCEPT ![t] = Over(k, p)]
    BY <1>5 DEF UploadFails, Ended
  <2> HIDE DEF p
  <2>2. Frame /\ Ends(t, p)
    BY <1>2, <2>1
  <2> QED
    BY <2>2 DEF p
<1>6. ASSUME IsWrite(t), k.pc = "write"
      PROVE  Frame /\ Goes(t, "accepted") /\ task'[t].obj = k.obj
  <2>1. task' = [task EXCEPT ![t] = AtTask(k, "accepted", k.place)]
    BY <1>6 DEF IsWrite, DeleteSingleCategories, UpdateSingleCategories, AddSingleCategories, Writes
  <2> QED
    BY <1>1, <2>1, PhaseFacts
<1>7. ASSUME IsWrite(t), k.pc # "write"
      PROVE  Frame /\ Ends(t, "dead")
  <2>1. task' = [task EXCEPT ![t] = Over(k, "dead")]
    BY <1>7 DEF IsWrite, DeleteSingleCategories, UpdateSingleCategories, AddSingleCategories, Writes
  <2> QED
    BY <1>2, <2>1 DEF Ended
<1>8. ASSUME Refuse(t)
      PROVE  /\ Frame
             /\ IF k.kind = "add" THEN Ends(t, "failed")
                ELSE Goes(t, "refused") /\ task'[t].obj = k.obj
  <2>1. CASE k.kind = "add"
    <3>1. task' = [task EXCEPT ![t] = Over(k, "failed")]
      BY <1>8, <2>1 DEF Refuse
    <3> QED
      BY <1>2, <2>1, <3>1 DEF Ended
  <2>2. CASE k.kind # "add"
    <3>1. task' = [task EXCEPT ![t] = AtTask(k, "refused", k.place)]
      BY <1>8, <2>2 DEF Refuse
    <3> QED
      BY <1>1, <2>2, <3>1, PhaseFacts
  <2> QED
    BY <2>1, <2>2
<1>9. Frame
  BY <1>3, <1>4, <1>5, <1>6, <1>7, <1>8 DEF Serve, IsWrite
<1> QED
  BY <1>0, <1>3, <1>4, <1>5, <1>6, <1>7, <1>8, <1>9 DEF Frame

(* What the rest of a handler does to it and to the list.  *)
LEMMA ResumeFacts ==
    ASSUME OwnTypes, NEW t \in Taps, Resume(t)
    PROVE  /\ task[t] \in Running
           /\ task[t].pc \in {"accepted", "refused"}
           /\ task' \in [Taps -> OwnTasks]
           /\ \A u \in Taps \ {t} : task'[u] = task[u]
           /\ task'[t].pc \in Ended
           /\ task'[t].of = task[t].obj.of
           /\ ResumeDelete(t) => task'[t].pc = IF task[t].pc = "accepted" THEN "deleted" ELSE "kept"
           /\ ResumeUpdate(t) /\ task[t].place \in DOMAIN categoriesList =>
                 task'[t].pc = IF task[t].pc = "accepted" THEN "updated" ELSE "unsaved"
           /\ ResumeAdd(t) => task'[t].pc = "added"
           /\ categoriesList' \in Seq(Own)
           /\ dirty' \in BOOLEAN
           /\ UNCHANGED <<docs, storage, early, home, screen, form, cards>>
           /\ spinning' \subseteq spinning
<1> DEFINE k == task[t]
           Frame == /\ task' \in [Taps -> OwnTasks]
                    /\ \A u \in Taps \ {t} : task'[u] = task[u]
                    /\ task'[t].of = k.obj.of
<1>0. /\ k \in Running
      /\ k.obj \in Own
      /\ k.pc \in {"accepted", "refused"}
      /\ categoriesList \in Seq(Own)
  <2>1. k.pc \in {"accepted", "refused"}
    BY DEF Resume, ResumeDelete, ResumeUpdate, ResumeAdd
  <2> QED
    BY <2>1, StartedTask, PhaseFacts DEF OwnTypes
<1>1. ASSUME NEW p \in Ended, task' = [task EXCEPT ![t] = Over(k, p)]
      PROVE  Frame /\ task'[t].pc = p
  <2> DEFINE h == Over(k, p)
  <2>1. h \in Finished /\ h.pc = p /\ h.of = k.obj.of
    BY <1>0, TaskUpdate
  <2>2. task' = [task EXCEPT ![t] = h] /\ h \in OwnTasks
    BY <1>1, <2>1 DEF OwnTasks
  <2> HIDE DEF h
  <2>3. task' \in [Taps -> OwnTasks] /\ task'[t] = h /\ \A u \in Taps \ {t} : task'[u] = task[u]
    BY <2>2, TaskStep
  <2> QED
    BY <2>1, <2>3
<1> HIDE DEF Frame
<1>2. ASSUME ResumeDelete(t)
      PROVE  /\ Frame /\ task'[t].pc = IF k.pc = "accepted" THEN "deleted" ELSE "kept"
             /\ task'[t].pc \in Ended
             /\ categoriesList' \in Seq(Own) /\ dirty' \in BOOLEAN /\ spinning' \subseteq spinning
             /\ UNCHANGED <<docs, storage, early, home, screen, form, cards>>
             /\ k.kind = "delete"
  <2> DEFINE p == IF k.pc = "accepted" THEN "deleted" ELSE "kept"
  <2>1. p \in Ended /\ task' = [task EXCEPT ![t] = Over(k, p)]
    BY <1>2 DEF ResumeDelete, Ended
  <2> HIDE DEF p
  <2>2. Frame /\ task'[t].pc = p
    BY <1>1, <2>1
  <2>3. categoriesList' \in Seq(Own)
    <3>1. RemoveFirst(categoriesList, k.obj) \in Seq(Own)
      BY <1>0, RemoveFacts
    <3> QED
      BY <1>0, <1>2, <3>1 DEF ResumeDelete
  <2>4. dirty' \in BOOLEAN
    BY <1>2, Zenon DEF ResumeDelete, NotifyListeners
  <2>5. /\ spinning' \subseteq spinning
        /\ UNCHANGED <<docs, storage, early, home, screen, form, cards>>
        /\ k.kind = "delete"
    BY <1>2 DEF ResumeDelete, loads
  <2> QED
    BY <2>1, <2>2, <2>3, <2>4, <2>5 DEF p
<1>3. ASSUME ResumeUpdate(t)
      PROVE  /\ Frame /\ task'[t].pc \in Ended
             /\ k.place \in DOMAIN categoriesList =>
                   task'[t].pc = IF k.pc = "accepted" THEN "updated" ELSE "unsaved"
             /\ categoriesList' \in Seq(Own) /\ dirty' \in BOOLEAN
             /\ UNCHANGED <<docs, storage, early, home, screen, form, cards, spinning>>
             /\ k.kind = "update"
  <2> DEFINE p == IF k.place \in DOMAIN categoriesList
                  THEN IF k.pc = "accepted" THEN "updated" ELSE "unsaved" ELSE "rangeError"
  <2>1. p \in Ended
    BY DEF Ended
  <2>2. task' = [task EXCEPT ![t] = Over(k, p)]
    BY <1>3 DEF ResumeUpdate
  <2>3. k.place \in DOMAIN categoriesList => p = IF k.pc = "accepted" THEN "updated" ELSE "unsaved"
    OBVIOUS
  <2> HIDE DEF p
  <2>4. Frame /\ task'[t].pc = p
    BY <1>1, <2>1, <2>2
  <2>5. categoriesList' \in Seq(Own)
    <3>1. CASE k.place \in DOMAIN categoriesList
      <4>1. categoriesList' = [categoriesList EXCEPT ![k.place] = k.obj]
        BY <1>3, <3>1 DEF ResumeUpdate
      <4> QED
        BY <1>0, <3>1, <4>1
    <3>2. CASE k.place \notin DOMAIN categoriesList
      BY <1>0, <1>3, <3>2 DEF ResumeUpdate
    <3> QED
      BY <3>1, <3>2
  <2>6. dirty' \in BOOLEAN
    BY <1>3, Zenon DEF ResumeUpdate, OwnTypes, NotifyListeners
  <2>7. UNCHANGED <<docs, storage, early, home, screen, form, cards, spinning>> /\ k.kind = "update"
    BY <1>3 DEF ResumeUpdate, loads
  <2> QED
    BY <2>1, <2>3, <2>4, <2>5, <2>6, <2>7
<1>4. ASSUME ResumeAdd(t)
      PROVE  /\ Frame /\ task'[t].pc = "added" /\ "added" \in Ended
             /\ categoriesList' \in Seq(Own) /\ dirty' \in BOOLEAN
             /\ UNCHANGED <<docs, storage, early, home, screen, form, cards, spinning>>
             /\ k.kind = "add"
  <2>1. "added" \in Ended /\ task' = [task EXCEPT ![t] = Over(k, "added")]
    BY <1>4 DEF ResumeAdd, Ended
  <2>2. Frame /\ task'[t].pc = "added"
    BY <1>1, <2>1
  <2>3. categoriesList' \in Seq(Own)
    BY <1>0, <1>4, AddFacts DEF ResumeAdd
  <2>4. dirty' \in BOOLEAN
    BY <1>4, Zenon DEF ResumeAdd, NotifyListeners
  <2>5. UNCHANGED <<docs, storage, early, home, screen, form, cards, spinning>> /\ k.kind = "add"
    BY <1>4 DEF ResumeAdd, loads
  <2> QED
    BY <2>1, <2>2, <2>3, <2>4, <2>5
<1>5. /\ ResumeDelete(t) => k.kind = "delete"
      /\ ResumeUpdate(t) => k.kind = "update"
      /\ ResumeAdd(t) => k.kind = "add"
  BY DEF ResumeDelete, ResumeUpdate, ResumeAdd
<1>6. CASE ResumeDelete(t)
  <2>1. ~ResumeUpdate(t) /\ ~ResumeAdd(t)
    BY <1>5, <1>6
  <2> QED
    BY <1>0, <1>2, <1>6, <2>1 DEF Frame
<1>7. CASE ResumeUpdate(t)
  <2>1. ~ResumeDelete(t) /\ ~ResumeAdd(t)
    BY <1>5, <1>7
  <2> QED
    BY <1>0, <1>3, <1>7, <2>1 DEF Frame
<1>8. CASE ResumeAdd(t)
  <2>1. ~ResumeDelete(t) /\ ~ResumeUpdate(t)
    BY <1>5, <1>8
  <2> QED
    BY <1>0, <1>4, <1>8, <2>1 DEF Frame
<1> QED
  BY <1>6, <1>7, <1>8 DEF Resume

(* A press starts one handler, of a model the page shows or of a new one.  *)
LEMMA PressFacts ==
    ASSUME OwnTypes, NEW t \in Taps, Press(t)
    PROVE  /\ task[t] = Unused
           /\ task'[t] \in Running
           /\ task'[t].pc \in {"upload", "write"}
           /\ task' \in [Taps -> OwnTasks]
           /\ \A u \in Taps \ {t} : task'[u] = task[u]
           /\ UNCHANGED <<docs, storage, categoriesList, early, home, screen, form, cards>>
           /\ dirty' \in BOOLEAN
           /\ spinning' \subseteq Nat
           /\ \/ /\ task'[t].kind = "delete"
                 /\ task'[t].pc = "write"
                 /\ screen = "Categories"
                 /\ \E i \in DOMAIN cards : task'[t].obj = cards[i].obj
              \/ /\ task'[t].kind = "update"
                 /\ task'[t].pc = "upload"
                 /\ screen = "Edit"
                 /\ task'[t].obj.of = form.obj.of
                 /\ task'[t].place = form.index
              \/ /\ task'[t].kind = "add"
                 /\ screen = "Add"
                 /\ task'[t].obj.of = t
<1> DEFINE Frame == /\ task'[t] \in Running
                    /\ task' \in [Taps -> OwnTasks]
                    /\ \A u \in Taps \ {t} : task'[u] = task[u]
<1>0. ASSUME NEW k \in Running, task' = [task EXCEPT ![t] = k]
      PROVE  Frame /\ task'[t] = k
  BY <1>0, TaskStep DEF OwnTasks
<1> HIDE DEF Frame
<1>1. ASSUME NEW i \in DOMAIN cards, TapDelete(t, i)
      PROVE  /\ Frame /\ spinning' \subseteq Nat /\ dirty' \in BOOLEAN /\ task'[t].pc = "write"
             /\ task'[t].kind = "delete" /\ screen = "Categories"
             /\ task'[t].obj = cards[i].obj
  <2>1. i \in Nat /\ cards[i].obj \in Own
    BY CardFacts DEF OwnTypes
  <2> DEFINE k == [pc |-> "write", kind |-> "delete", obj |-> cards[i].obj, place |-> i]
  <2>2. k \in Running /\ k.pc = "write" /\ k.kind = "delete" /\ k.obj = cards[i].obj
    BY <2>1, PhaseFacts DEF Running, Kinds
  <2>3. task' = [task EXCEPT ![t] = k]
    BY <1>1 DEF TapDelete
  <2> HIDE DEF k
  <2>4. Frame /\ task'[t] = k
    BY <1>0, <2>2, <2>3
  <2>5. spinning' \subseteq Nat /\ screen = "Categories" /\ dirty' \in BOOLEAN
    BY <1>1, <2>1 DEF TapDelete, OwnTypes
  <2> QED
    BY <2>2, <2>4, <2>5
<1>2. ASSUME NEW emptied \in BOOLEAN, PressUpdate(t, emptied)
      PROVE  /\ Frame /\ task'[t].pc = "upload" /\ task'[t].kind = "update" /\ screen = "Edit"
             /\ task'[t].obj.of = form.obj.of /\ task'[t].place = form.index
  <2>1. screen = "Edit"
    BY <1>2 DEF PressUpdate
  <2>2. form.index \in Nat /\ form.obj \in Own
    BY <2>1 DEF OwnTypes, OwnForm
  <2> DEFINE x == [form.obj EXCEPT !.by = t, !.name = IF emptied THEN @ ELSE t]
             k == [pc |-> "upload", kind |-> "update", obj |-> x, place |-> form.index]
  <2>3. x \in Own /\ x.of = form.obj.of
    <3>1. t \in Marks
      BY DEF Marks
    <3> QED
      BY <2>2, <3>1 DEF Own, Models
  <2>4. task' = [task EXCEPT ![t] = k]
    BY <1>2 DEF PressUpdate
  <2> HIDE DEF x
  <2>5. /\ k \in Running
        /\ k.pc = "upload" /\ k.kind = "update" /\ k.obj = x /\ k.place = form.index
    BY <2>2, <2>3, PhaseFacts DEF Running, Kinds
  <2> HIDE DEF k
  <2>6. Frame /\ task'[t] = k
    BY <1>0, <2>4, <2>5
  <2> QED
    BY <2>1, <2>3, <2>5, <2>6
<1>3. ASSUME PressAdd(t)
      PROVE  /\ Frame /\ task'[t].pc = "upload" /\ task'[t].kind = "add" /\ screen = "Add"
             /\ task'[t].obj.of = t
  <2> DEFINE x == [of |-> t, by |-> t, id |-> "categories", name |-> t, image |-> "first"]
             k == [pc |-> "upload", kind |-> "add", obj |-> x, place |-> 0]
  <2>1. x \in Own /\ x.of = t
    BY CategoriesNamed DEF Own, Models, Keys, Ids, Marks, NameOf
  <2>2. task' = [task EXCEPT ![t] = k] /\ screen = "Add"
    BY <1>3 DEF PressAdd
  <2> HIDE DEF x
  <2>3. k \in Running /\ k.pc = "upload" /\ k.kind = "add" /\ k.obj = x
    BY <2>1, PhaseFacts DEF Running, Kinds
  <2> HIDE DEF k
  <2>4. Frame /\ task'[t] = k
    BY <1>0, <2>2, <2>3
  <2> QED
    BY <2>1, <2>2, <2>3, <2>4
<1>4. /\ task[t] = Unused
      /\ UNCHANGED <<docs, storage, categoriesList, early, home, screen, form, cards>>
      /\ (UNCHANGED <<spinning, dirty>>) \/ \E i \in DOMAIN cards : TapDelete(t, i)
  BY DEF Press, TapDelete, PressUpdate, PressAdd, pages, loads
<1>5. spinning' \subseteq Nat /\ dirty' \in BOOLEAN
  BY <1>1, <1>4 DEF OwnTypes
<1> QED
  <2>1. CASE \E i \in DOMAIN cards : TapDelete(t, i)
    BY <1>1, <1>4, <2>1 DEF Frame
  <2>2. CASE \E emptied \in BOOLEAN : PressUpdate(t, emptied)
    BY <1>2, <1>4, <1>5, <2>2 DEF Frame
  <2>3. CASE PressAdd(t)
    BY <1>3, <1>4, <1>5, <2>3 DEF Frame
  <2> QED
    BY <2>1, <2>2, <2>3 DEF Press

(* Leaving the page and drawing a frame change of a handler only where its *)
(* card is.                                                                *)
LEMMA DisposeFacts ==
    ASSUME OwnTypes, LeaveCategoriesView \/ Rebuild
    PROVE  /\ task' \in [Taps -> OwnTasks]
           /\ \A t \in Taps :
                /\ task'[t].pc = task[t].pc
                /\ task[t].pc \in Started => /\ task'[t].kind = task[t].kind
                                             /\ task'[t].obj = task[t].obj
                /\ task[t].pc \notin Live \/ task[t].kind # "delete" => task'[t] = task[t]
<1>1. \A t \in Taps : task'[t] \in {task[t], Unmount(task[t])}
  BY DEF LeaveCategoriesView, Rebuild
<1>2. task' = [t \in Taps |-> task'[t]]
  BY DEF LeaveCategoriesView, Rebuild
<1>3. \A t \in Taps : task[t] \in OwnTasks
  BY DEF OwnTypes
<1> QED
  BY <1>1, <1>2, <1>3, UnmountFacts

(* The queries keep the types.  *)
LEMMA LoadTypes ==
    ASSUME OwnTypes, Loading, rushed' \in BOOLEAN
    PROVE  OwnTypes'
<1>0. early.rows \in Seq(Own) /\ home.rows \in Seq(Own)
  BY DEF OwnTypes, OwnQueries
<1>1. \A q : q \in {"early", "home"} => [phase |-> "answered", rows |-> Answer(q)] \in OwnQueries
  BY AnswerFacts DEF OwnQueries
<1>2. CASE AnswerEarly
  <2>1. early' \in OwnQueries
    BY <1>1, <1>2, EmptyTypes DEF AnswerEarly
  <2> QED
    BY <1>2, <2>1 DEF AnswerEarly, OwnTypes, OwnForm, OwnCards, pages
<1>3. CASE AnswerHome
  <2>1. home' \in OwnQueries
    BY <1>1, <1>3, EmptyTypes DEF AnswerHome
  <2> QED
    BY <1>3, <2>1 DEF AnswerHome, OwnTypes, OwnForm, OwnCards, pages
<1>4. CASE ArriveEarly
  <2>1. early' \in OwnQueries /\ categoriesList' \in Seq(Own)
    BY <1>0, <1>4, EmptyTypes DEF ArriveEarly
  <2> QED
    BY <1>4, <2>1 DEF ArriveEarly, OwnTypes, OwnForm, OwnCards, pages
<1>5. CASE ArriveHome
  <2>1. home' \in OwnQueries /\ categoriesList' \in Seq(Own)
    BY <1>0, <1>5, EmptyTypes DEF ArriveHome
  <2> QED
    BY <1>5, <2>1 DEF ArriveHome, OwnTypes, OwnForm, OwnCards, pages
<1>6. CASE HomeFails
  <2>1. home' \in OwnQueries
    BY <1>6, EmptyTypes DEF HomeFails
  <2> QED
    BY <1>6, <2>1 DEF HomeFails, OwnTypes, OwnForm, OwnCards, pages
<1> QED
  BY <1>2, <1>3, <1>4, <1>5, <1>6 DEF Loading

(* The frames and the pages keep the types.  *)
LEMMA PageTypes ==
    ASSUME OwnTypes,
           \/ OpenCategoriesView \/ LeaveCategoriesView \/ Rebuild \/ OpenAddCategory
           \/ LeaveForm \/ \E i \in DOMAIN cards : TapEdit(i),
           rushed' \in BOOLEAN
    PROVE  OwnTypes'
<1>1. CASE OpenCategoriesView
  <2>1. cards' \in Seq([obj: Own, busy: BOOLEAN])
    BY <1>1, GridType DEF OpenCategoriesView
  <2> QED
    BY <1>1, <2>1 DEF OpenCategoriesView, OwnTypes, OwnForm, OwnCards, loads
<1>2. CASE LeaveCategoriesView
  <2>1. task' \in [Taps -> OwnTasks]
    BY <1>2, DisposeFacts
  <2> QED
    BY <1>2, <2>1, EmptyTypes DEF LeaveCategoriesView, OwnTypes, OwnForm, OwnCards, loads
<1>3. CASE Rebuild
  <2>1. task' \in [Taps -> OwnTasks]
    BY <1>3, DisposeFacts
  <2>2. cards' \in Seq([obj: Own, busy: BOOLEAN])
    BY <1>3, GridType DEF Rebuild
  <2> QED
    BY <1>3, <2>1, <2>2 DEF Rebuild, OwnTypes, OwnForm, OwnCards, loads
<1>4. CASE OpenAddCategory
  BY <1>4 DEF OpenAddCategory, OwnTypes, OwnForm, OwnCards, loads
<1>5. CASE LeaveForm
  BY <1>5 DEF LeaveForm, OwnTypes, OwnForm, OwnCards, loads
<1>6. ASSUME NEW i \in DOMAIN cards, TapEdit(i) PROVE OwnTypes'
  <2>1. i \in Nat /\ cards[i].obj \in Own
    BY CardFacts DEF OwnTypes
  <2> QED
    BY <1>6, <2>1 DEF TapEdit, OwnTypes, OwnForm, OwnCards, loads
<1> QED
  BY <1>1, <1>2, <1>3, <1>4, <1>5, <1>6

(* Which document a step of Firestore changes, and to what.  *)
LEMMA DocFacts ==
    ASSUME DeskInv, NEW t \in Taps, Serve(t)
    PROVE  /\ docs' \in [Keys -> Documents]
           /\ \A k \in Keys : docs'[k].id = NameOf(k)
           /\ task[t].obj.of \in Keys
           /\ \A k \in Keys \ {task[t].obj.of} : docs'[k] = docs[k]
           /\ docs'[task[t].obj.of].state = docs[task[t].obj.of].state \/ IsWrite(t)
           /\ ~IsWrite(t) => docs' = docs
           /\ DeleteSingleCategories(t) =>
                 /\ task[t].kind = "delete"
                 /\ task[t].obj.of \notin Categories => docs' = docs
                 /\ task[t].obj.of \in Categories =>
                       docs'[task[t].obj.of] = [docs[task[t].obj.of] EXCEPT !.state = "deleted"]
           /\ UpdateSingleCategories(t) =>
                 /\ task[t].kind = "update" /\ task[t].obj.of \in Categories
                 /\ docs[task[t].obj.of].state = "stored"
                 /\ docs'[task[t].obj.of] = Stores(task[t].obj)
           /\ AddSingleCategories(t) =>
                 /\ task[t].kind = "add" /\ task[t].obj.of = t /\ docs[t].state = "none"
                 /\ docs'[t] = Stores(task[t].obj)
<1> USE DEF DeskInv
<1> DEFINE x == task[t].obj
           d == Stores(x)
<1>0. x \in Own /\ task[t].pc \in Started
  BY ServeFacts DEF Running
<1>1. d \in Documents /\ d.id = NameOf(x.of) /\ x.of \in Keys
      /\ Categories \subseteq Keys /\ Taps \subseteq Keys
  BY <1>0 DEF Own, Models, Documents, Keys, Stores
<1>2. /\ x.id \in Categories <=> x.of \in Categories
      /\ x.id \in Categories => x.id = x.of
  BY <1>0, NameFacts
<1>3. ~IsWrite(t) => docs' = docs
  BY DEF Serve, PutFile, GetDownloadURL, UploadFails, Refuse, IsWrite
<1>4. IsWrite(t) => task[t].pc \in {"write", "stray"}
  BY DEF IsWrite, DeleteSingleCategories, UpdateSingleCategories, AddSingleCategories, Writes
<1>5. ASSUME DeleteSingleCategories(t)
      PROVE  /\ task[t].kind = "delete"
             /\ docs' = IF x.of \in Categories
                        THEN [docs EXCEPT ![x.of].state = "deleted"] ELSE docs
  BY <1>2, <1>5 DEF DeleteSingleCategories, Writes
<1>6. ASSUME UpdateSingleCategories(t)
      PROVE  /\ task[t].kind = "update" /\ x.of \in Categories /\ docs[x.of].state = "stored"
             /\ docs' = [docs EXCEPT ![x.of] = d]
  BY <1>2, <1>6 DEF UpdateSingleCategories, Writes
<1>7. ASSUME AddSingleCategories(t)
      PROVE  /\ task[t].kind = "add" /\ x.of = t /\ docs[t].state = "none"
             /\ docs' = [docs EXCEPT ![x.of] = d]
  <2>1. task[t].kind = "add" /\ docs' = [docs EXCEPT ![t] = d]
    BY <1>7 DEF AddSingleCategories, Writes
  <2>2. task[t].pc \in {"write", "stray"}
    BY <1>4, <1>7 DEF IsWrite
  <2>3. x.of = t /\ docs[t].state = "none"
    BY <1>0, <2>1, <2>2 DEF NewOnes
  <2> QED
    BY <2>1, <2>3
<1> HIDE DEF d, x
<1>8. \A k \in Keys : docs[k] \in Documents /\ docs[k].id = NameOf(k)
  BY DEF OwnTypes
<1>9. docs \in [Keys -> Documents]
  BY DEF OwnTypes
<1>10. DeleteSingleCategories(t) /\ x.of \in Categories =>
          /\ docs' \in [Keys -> Documents]
          /\ docs'[x.of] = [docs[x.of] EXCEPT !.state = "deleted"]
          /\ docs'[x.of].id = docs[x.of].id
          /\ \A k \in Keys \ {x.of} : docs'[k] = docs[k]
  BY <1>1, <1>5, <1>8, <1>9 DEF Documents
<1>11. UpdateSingleCategories(t) \/ AddSingleCategories(t) =>
          /\ docs' \in [Keys -> Documents]
          /\ docs'[x.of] = d
          /\ \A k \in Keys \ {x.of} : docs'[k] = docs[k]
  BY <1>1, <1>6, <1>7, <1>9
<1>12. docs' \in [Keys -> Documents] /\ \A k \in Keys : docs'[k].id = NameOf(k)
  <2>1. CASE docs' = docs
    BY <1>8, <1>9, <2>1
  <2>2. CASE DeleteSingleCategories(t) /\ x.of \in Categories
    BY <1>1, <1>8, <1>10, <2>2
  <2>3. CASE UpdateSingleCategories(t) \/ AddSingleCategories(t)
    BY <1>1, <1>8, <1>11, <2>3
  <2> QED
    BY <1>3, <1>5, <2>1, <2>2, <2>3 DEF IsWrite
<1>13. \A k \in Keys \ {x.of} : docs'[k] = docs[k]
  BY <1>3, <1>5, <1>10, <1>11 DEF IsWrite
<1> QED
  BY <1>1, <1>3, <1>5, <1>6, <1>7, <1>10, <1>11, <1>12, <1>13 DEF x, d

(* Every step keeps the types.  *)
LEMMA TypesStep ==
    ASSUME DeskInv, [Next]_vars PROVE OwnTypes'
<1> USE DEF DeskInv
<1>0. rushed' \in BOOLEAN
  BY Zenon DEF OwnTypes, Next, vars
<1>1. ASSUME NEW t \in Taps, Serve(t) PROVE OwnTypes'
  <2>1. UNCHANGED <<categoriesList, loads, pages>>
    BY <1>1 DEF Serve, PutFile, GetDownloadURL, UploadFails, DeleteSingleCategories,
                UpdateSingleCategories, AddSingleCategories, Refuse, Writes
  <2>2. task' \in [Taps -> OwnTasks] /\ task[t].obj \in Own
    BY <1>1, ServeFacts DEF Running
  <2>3. docs' \in [Keys -> Documents] /\ \A k \in Keys : docs'[k].id = NameOf(k)
    BY <1>1, DocFacts
  <2>4. storage' \in [Ids -> Marks]
    <3>1. storage' = storage \/ storage' = [storage EXCEPT ![task[t].obj.id] = t]
      BY <1>1 DEF Serve, PutFile, GetDownloadURL, UploadFails, DeleteSingleCategories,
                  UpdateSingleCategories, AddSingleCategories, Refuse, Writes
    <3>2. task[t].obj.id \in Ids /\ t \in Marks
      BY <2>2, NameFacts DEF Marks
    <3> QED
      BY <3>1, <3>2 DEF OwnTypes
  <2> QED
    BY <1>0, <2>1, <2>2, <2>3, <2>4 DEF OwnTypes, OwnForm, OwnCards, pages, loads
<1>2. ASSUME NEW t \in Taps, Resume(t) PROVE OwnTypes'
  <2>1. /\ task' \in [Taps -> OwnTasks]
        /\ categoriesList' \in Seq(Own)
        /\ dirty' \in BOOLEAN
        /\ UNCHANGED <<docs, storage, early, home, screen, form, cards>>
        /\ spinning' \subseteq spinning
    BY <1>2, ResumeFacts
  <2> QED
    BY <1>0, <2>1 DEF OwnTypes, OwnForm, OwnCards
<1>3. ASSUME NEW t \in Taps, Press(t) PROVE OwnTypes'
  <2>1. /\ task' \in [Taps -> OwnTasks]
        /\ UNCHANGED <<docs, storage, categoriesList, early, home, screen, form, cards>>
        /\ spinning' \subseteq Nat
        /\ dirty' \in BOOLEAN
    BY <1>3, PressFacts
  <2> QED
    BY <1>0, <2>1 DEF OwnTypes, OwnForm, OwnCards
<1>4. CASE Restart
  <2>1. task' \in [Taps -> OwnTasks]
    <3>1. \A t \in Taps : task'[t] \in OwnTasks
      BY <1>4, KilledFacts
    <3>2. task' = [t \in Taps |-> task'[t]]
      BY <1>4 DEF Restart
    <3> QED
      BY <3>1, <3>2
  <2> QED
    BY <1>0, <1>4, <2>1, EmptyTypes DEF Restart, OwnTypes, OwnForm, OwnCards
<1>5. CASE UNCHANGED vars
  BY <1>5 DEF OwnTypes, OwnForm, OwnCards, vars, desk, pages, loads
<1> QED
  BY <1>0, <1>1, <1>2, <1>3, <1>4, <1>5, PageTypes, LoadTypes DEF Next, Ongoing

(* The steps that touch neither a document nor a handler.  *)
LEMMA OtherSteps ==
    \/ Loading \/ OpenCategoriesView \/ OpenAddCategory \/ LeaveForm
    \/ (\E i \in DOMAIN cards : TapEdit(i)) \/ UNCHANGED vars
    => UNCHANGED <<docs, storage, task>>
BY DEF Loading, AnswerEarly, ArriveEarly, AnswerHome, ArriveHome, HomeFails,
       OpenCategoriesView, OpenAddCategory, LeaveForm, TapEdit, vars, desk

(* Every step keeps the additions where they are.  *)
LEMMA NewOnesStep ==
    ASSUME DeskInv, [Next]_vars PROVE NewOnes'
<1> USE DEF DeskInv
<1>1. ASSUME NEW t \in Taps, Serve(t) PROVE NewOnes'
  <2>1. task[t] \in Running /\ task[t].pc \in Started
    BY <1>1, ServeFacts DEF Running
  <2>2. \A u \in Taps \ {t} : task'[u] = task[u]
    BY <1>1, ServeFacts
  <2>3. \/ /\ ~IsWrite(t)
           /\ \/ Goes(t, "link") /\ task[t].pc = "upload"
              \/ Goes(t, "write") /\ task[t].pc = "link"
              \/ Goes(t, "refused")
              \/ Ends(t, "failed") \/ Ends(t, "unlinked")
        \/ Goes(t, "accepted") \/ Ends(t, "dead")
    <3>1. CASE PutFile(t)
      BY <1>1, <3>1, ServeFacts DEF PutFile, IsWrite, DeleteSingleCategories,
                                    UpdateSingleCategories, AddSingleCategories, Writes
    <3>2. CASE GetDownloadURL(t)
      BY <1>1, <3>2, ServeFacts DEF GetDownloadURL, IsWrite, DeleteSingleCategories,
                                    UpdateSingleCategories, AddSingleCategories, Writes
    <3>3. CASE UploadFails(t)
      BY <1>1, <3>3, ServeFacts DEF UploadFails, IsWrite, DeleteSingleCategories,
                                    UpdateSingleCategories, AddSingleCategories, Writes
    <3>4. CASE IsWrite(t)
      BY <1>1, <3>4, ServeFacts
    <3>5. CASE Refuse(t) /\ ~IsWrite(t)
      BY <1>1, <3>5, ServeFacts
    <3> QED
      BY <1>1, <3>1, <3>2, <3>3, <3>4, <3>5 DEF Serve, IsWrite
  <2>4. \A k \in Taps : docs'[k] = docs[k] \/ (k = t /\ AddSingleCategories(t))
    <3>1. Taps \subseteq Keys /\ Taps \cap Categories = {}
      BY CategoriesNamed DEF Keys
    <3> SUFFICES ASSUME NEW k \in Taps PROVE docs'[k] = docs[k] \/ (k = t /\ AddSingleCategories(t))
      OBVIOUS
    <3>2. k # task[t].obj.of => docs'[k] = docs[k]
      BY <1>1, <3>1, DocFacts
    <3>3. ~IsWrite(t) => docs' = docs
      BY <1>1, DocFacts
    <3>4. DeleteSingleCategories(t) /\ k = task[t].obj.of => docs' = docs
      BY <1>1, <3>1, DocFacts
    <3>5. UpdateSingleCategories(t) => k # task[t].obj.of
      BY <1>1, <3>1, DocFacts
    <3>6. AddSingleCategories(t) => task[t].obj.of = t
      BY <1>1, DocFacts
    <3> QED
      BY <3>2, <3>3, <3>4, <3>5, <3>6 DEF IsWrite
  <2>5. AddSingleCategories(t) => IsWrite(t)
    BY DEF IsWrite
  <2>6. /\ task'[t].pc \in Started => /\ task'[t].kind = task[t].kind
                                      /\ task'[t].obj.of = task[t].obj.of
        /\ task'[t].pc \notin {"unused", "upload", "stray"}
        /\ task'[t].pc \in {"link", "write"} => task[t].pc \in {"upload", "link"} /\ ~IsWrite(t)
    BY <2>3, PhaseFacts DEF Goes, Ends, Ended
  <2> QED
    BY <2>1, <2>2, <2>4, <2>5, <2>6 DEF NewOnes
<1>2. ASSUME NEW t \in Taps, Resume(t) PROVE NewOnes'
  <2>1. UNCHANGED docs
    BY <1>2, ResumeFacts
  <2>2. /\ \A u \in Taps \ {t} : task'[u] = task[u]
        /\ task'[t].pc \notin Started \cup {"unused"}
    BY <1>2, ResumeFacts, PhaseFacts
  <2> QED
    BY <2>1, <2>2, PhaseFacts DEF NewOnes
<1>3. ASSUME NEW t \in Taps, Press(t) PROVE NewOnes'
  <2>1. /\ task[t].pc = "unused" /\ UNCHANGED docs
        /\ task'[t].kind = "add" => task'[t].obj.of = t
        /\ \A u \in Taps \ {t} : task'[u] = task[u]
    BY <1>3, PressFacts DEF Unused
  <2> QED
    BY <2>1 DEF NewOnes
<1>4. CASE Restart
  <2>1. UNCHANGED docs
    BY <1>4 DEF Restart
  <2> SUFFICES ASSUME NEW t \in Taps
               PROVE  /\ task'[t].pc \in Started /\ task'[t].kind = "add" => task'[t].obj.of = t
                      /\ docs[t].state # "none" =>
                            task'[t].pc \notin {"unused", "upload", "link", "write", "stray"}
    BY <2>1 DEF NewOnes
  <2>2. CASE task[t].pc \notin Live
    BY <1>4, <2>2, KilledFacts DEF NewOnes
  <2>3. CASE task[t].pc = "write"
    BY <1>4, <2>3, KilledFacts, PhaseFacts DEF NewOnes
  <2>4. CASE task[t].pc \in Live \ {"write"}
    BY <1>4, <2>4, KilledFacts, PhaseFacts
  <2> QED
    BY <2>2, <2>3, <2>4
<1>5. CASE LeaveCategoriesView \/ Rebuild
  <2>1. UNCHANGED docs
    BY <1>5 DEF LeaveCategoriesView, Rebuild
  <2> QED
    BY <1>5, <2>1, DisposeFacts DEF NewOnes
<1>6. CASE UNCHANGED <<docs, task>>
  BY <1>6 DEF NewOnes
<1> QED
  BY <1>1, <1>2, <1>3, <1>4, <1>5, <1>6, OtherSteps DEF Next, Ongoing

(* The types and the additions at the start.  *)
LEMMA DeskInit == Init => DeskInv
<1> SUFFICES ASSUME Init PROVE DeskInv
  OBVIOUS
<1>1. docs \in [Keys -> Documents] /\ \A k \in Keys : docs[k].id = NameOf(k)
  BY DEF Init, Documents, Keys, Ids, Marks, NameOf
<1>2. task \in [Taps -> OwnTasks] /\ storage \in [Ids -> Marks]
  BY DEF Init, OwnTasks, Marks
<1>3. OwnTypes
  BY <1>1, <1>2, EmptyTypes DEF Init, OwnTypes, OwnForm, OwnCards
<1>4. NewOnes
  <2> SUFFICES ASSUME NEW t \in Taps PROVE task[t].pc = "unused" /\ docs[t].state = "none"
    BY PhaseFacts DEF NewOnes
  <2>1. t \notin Categories /\ t \in Keys
    BY CategoriesNamed DEF Keys
  <2> QED
    BY <2>1 DEF Init, Unused
<1> QED
  BY <1>3, <1>4 DEF DeskInv

(* What every behaviour of the desk keeps.  *)
LEMMA DeskInvariant == Spec => []DeskInv
<1>1. DeskInv /\ [Next]_vars => DeskInv'
  BY TypesStep, NewOnesStep DEF DeskInv
<1> QED
  BY <1>1, DeskInit, PTL DEF Spec

(* Whatever the admin does and when, and however the two queries race, the *)
(* list, the page, the form and the handlers hold models of categories.    *)
THEOREM TypeCorrect == Spec => []TypeOK
<1>1. OwnTypes => TypeOK
  <2> SUFFICES ASSUME OwnTypes PROVE TypeOK
    OBVIOUS
  <2>1. Own \subseteq Models
    BY DEF Own
  <2>2. /\ OwnTasks \subseteq {Unused} \cup Tasks
        /\ [index: Nat, obj: Own] \subseteq [index: Nat, obj: Models]
        /\ [obj: Own, busy: BOOLEAN] \subseteq [obj: Models, busy: BOOLEAN]
    BY <2>1 DEF OwnTasks, Running, Finished, Started, Tasks
  <2>3. \A S, T : S \subseteq T => Seq(S) \subseteq Seq(T)
    OBVIOUS
  <2>4. Seq(Own) \subseteq Seq(Models)
    BY <2>1, <2>3
  <2>5. OwnQueries \subseteq Queries
    BY <2>4 DEF OwnQueries, Queries
  <2>6. Seq([obj: Own, busy: BOOLEAN]) \subseteq Seq([obj: Models, busy: BOOLEAN])
    BY <2>2, <2>3, Zenon
  <2>7. task \in [Taps -> {Unused} \cup Tasks]
    BY <2>2 DEF OwnTypes
  <2> QED
    BY <2>2, <2>4, <2>5, <2>6, <2>7 DEF OwnTypes, OwnForm, OwnCards, TypeOK
<1> QED
  BY <1>1, DeskInvariant, PTL DEF DeskInv

-----------------------------------------------------------------------------
(* The desk implements the catalogue.  *)

Open == {"upload", "link", "write", "stray"}

(* What a handler asks of the catalogue, before and after a step.  *)
LEMMA AskedFacts ==
    ASSUME NEW t \in Taps
    PROVE  /\ task[t].pc = "unused" => Asked(t) = [kind |-> "free"]
           /\ task[t].pc \in Open =>
                 Asked(t) = [kind |-> task[t].kind, key |-> task[t].obj.of,
                             look |-> task[t].obj.name]
           /\ task[t].pc \notin Open \cup {"unused"} => Asked(t) = [kind |-> "closed"]
           /\ task'[t].pc = "unused" => Asked(t)' = [kind |-> "free"]
           /\ task'[t].pc \in Open =>
                 Asked(t)' = [kind |-> task'[t].kind, key |-> task'[t].obj.of,
                              look |-> task'[t].obj.name]
           /\ task'[t].pc \notin Open \cup {"unused"} => Asked(t)' = [kind |-> "closed"]
<1>0. Waiting \cup {"stray"} = Open /\ "unused" \notin Open
  BY DEF Waiting, Open
<1>1. /\ task[t].pc = "unused" => Asked(t) = [kind |-> "free"]
      /\ task[t].pc \in Open =>
            Asked(t) = [kind |-> task[t].kind, key |-> task[t].obj.of,
                        look |-> task[t].obj.name]
      /\ task[t].pc \notin Open \cup {"unused"} => Asked(t) = [kind |-> "closed"]
  BY <1>0, Zenon DEF Asked
<1>2. /\ task'[t].pc = "unused" => Asked(t)' = [kind |-> "free"]
      /\ task'[t].pc \in Open =>
            Asked(t)' = [kind |-> task'[t].kind, key |-> task'[t].obj.of,
                         look |-> task'[t].obj.name]
      /\ task'[t].pc \notin Open \cup {"unused"} => Asked(t)' = [kind |-> "closed"]
  BY <1>0, Zenon DEF Asked
<1> QED
  BY <1>1, <1>2

(* A handler that a step leaves alone as far as the catalogue sees, or     *)
(* whose request the step closes.                                          *)
Closes(t) ==
    \/ task'[t] = task[t]
    \/ /\ task[t].pc \in Open
       /\ task'[t].pc \in Open
       /\ task'[t].kind = task[t].kind
       /\ task'[t].obj.of = task[t].obj.of
       /\ task'[t].obj.name = task[t].obj.name
    \/ /\ task[t].pc # "unused"
       /\ task'[t].pc \notin Open \cup {"unused"}

(* A step that changes no document and only closes requests, or none.  *)
LEMMA GivenUp ==
    ASSUME OwnTypes, UNCHANGED docs, \A t \in Taps : Closes(t)
    PROVE  Cat!GiveUp
<1> DEFINE T == {t \in Taps : Asked(t)' # Asked(t)}
<1>1. ASSUME NEW t \in T PROVE Asked(t).kind \in Kinds /\ Asked(t)' = [kind |-> "closed"]
  <2>0. t \in Taps /\ Closes(t)
    OBVIOUS
  <2>1. task'[t] = task[t] => Asked(t)' = Asked(t)
    BY DEF Asked
  <2>2. CASE task[t].pc \in Open
    <3>1. task[t].kind \in Kinds
      BY <2>2, StartedTask, PhaseFacts DEF Open
    <3>2. task'[t].pc \notin Open \cup {"unused"}
      BY <2>0, <2>1, <2>2, AskedFacts DEF Closes
    <3> QED
      BY <2>0, <2>2, <3>1, <3>2, AskedFacts
  <2>3. CASE task[t].pc \notin Open
    BY <2>0, <2>1, <2>3, AskedFacts DEF Closes
  <2> QED
    BY <2>2, <2>3
<1>2. T \in SUBSET {t \in Taps : [u \in Taps |-> Asked(u)][t].kind \in Cat!Kinds}
  BY <1>1 DEF Cat!Kinds, Kinds
<1>3. [t \in Taps |-> Asked(t)'] =
         [t \in Taps |-> IF t \in T THEN Cat!Closed ELSE [u \in Taps |-> Asked(u)][t]]
  BY <1>1 DEF Cat!Closed
<1> HIDE DEF T
<1> QED
  BY <1>2, <1>3 DEF Cat!GiveUp

(* A press asks for one change.  *)
LEMMA PressAsks ==
    ASSUME OwnTypes, NEW t \in Taps, Press(t)
    PROVE  Cat!Ask(t)
<1>1. /\ task[t].pc = "unused"
      /\ task'[t] \in Running
      /\ task'[t].pc \in Open
      /\ \A u \in Taps \ {t} : task'[u] = task[u]
      /\ UNCHANGED docs
  BY PressFacts DEF Unused, Open
<1>2. Asked(t) = [kind |-> "free"]
  BY <1>1, AskedFacts
<1> DEFINE r == [kind |-> task'[t].kind, key |-> task'[t].obj.of,
                 look |-> task'[t].obj.name]
<1>3. Asked(t)' = r
  BY <1>1, AskedFacts
<1>4. r \in Cat!Requests
  BY <1>1 DEF Cat!Requests, Cat!Kinds, Running, Kinds, Own, Models
<1>5. \A u \in Taps \ {t} : Asked(u)' = Asked(u)
  BY <1>1 DEF Asked
<1> HIDE DEF r
<1>6. [u \in Taps |-> Asked(u)'] = [[u \in Taps |-> Asked(u)] EXCEPT ![t] = r]
  BY <1>3, <1>5
<1>7. [u \in Taps |-> Asked(u)][t] = Cat!Free
  BY <1>2 DEF Cat!Free
<1> QED
  BY <1>1, <1>4, <1>6, <1>7 DEF Cat!Ask

(* A write that changes a document makes the change that was asked for.  *)
LEMMA WriteCommits ==
    ASSUME DeskInv, NEW t \in Taps, Serve(t), docs' # docs
    PROVE  Cat!Commit(t)
<1> USE DEF DeskInv
<1> DEFINE x == task[t].obj
           r == [kind |-> task[t].kind, key |-> x.of, look |-> x.name]
           old == [k \in Keys |-> [state |-> docs[k].state, look |-> docs[k].name]]
           new == [k \in Keys |-> [state |-> docs'[k].state, look |-> docs'[k].name]]
<1>1. IsWrite(t)
  BY DocFacts
<1>2. /\ task[t].pc \in Open
      /\ task[t].kind \in Kinds
      /\ x.of \in Keys
      /\ task'[t].pc \notin Open \cup {"unused"}
      /\ \A u \in Taps \ {t} : task'[u] = task[u]
  <2>1. task[t].pc \in {"write", "stray"}
    BY <1>1 DEF IsWrite, DeleteSingleCategories, UpdateSingleCategories, AddSingleCategories, Writes
  <2>2. task[t].kind \in Kinds /\ x \in Own
    BY <2>1, StartedTask, PhaseFacts
  <2>3. x.of \in Keys
    BY <2>2, NameFacts
  <2>4. /\ \A u \in Taps \ {t} : task'[u] = task[u]
        /\ task'[t].pc \in {"accepted", "dead"}
    BY <1>1, ServeFacts DEF Goes, Ends
  <2> QED
    BY <2>1, <2>2, <2>3, <2>4 DEF Open
<1>3. Asked(t) = r /\ Asked(t)' = [kind |-> "closed"]
  BY <1>2, AskedFacts
<1>4. \A u \in Taps \ {t} : Asked(u)' = Asked(u)
  BY <1>2 DEF Asked
<1>5. \A k \in Keys : docs[k] \in Documents /\ docs'[k] \in Documents
  BY DocFacts DEF OwnTypes
<1>6. /\ \A k \in Keys \ {x.of} : docs'[k] = docs[k]
      /\ new[x.of] = Cat!Changed(old[x.of], r)
  <2>0. old[x.of] = [state |-> docs[x.of].state, look |-> docs[x.of].name]
        /\ new[x.of] = [state |-> docs'[x.of].state, look |-> docs'[x.of].name]
        /\ r.look = x.name /\ r.kind = task[t].kind
    BY <1>2
  <2>1. \A k \in Keys \ {x.of} : docs'[k] = docs[k]
    BY DocFacts
  <2>2. CASE DeleteSingleCategories(t)
    <3>1. r.kind = "delete" /\ docs'[x.of] = [docs[x.of] EXCEPT !.state = "deleted"]
      BY <2>0, <2>2, DocFacts
    <3>2. docs'[x.of].state = "deleted" /\ docs'[x.of].name = docs[x.of].name
      BY <1>2, <1>5, <3>1 DEF Documents
    <3> HIDE DEF r, old, new
    <3>3. Cat!Changed(old[x.of], r) = [state |-> "deleted", look |-> old[x.of].look]
      BY <3>1, Zenon DEF Cat!Changed
    <3>4. old[x.of].look = docs[x.of].name
      BY <2>0
    <3> QED
      BY <2>0, <2>1, <3>2, <3>3, <3>4
  <2>3. CASE UpdateSingleCategories(t)
    <3>1. r.kind = "update" /\ docs[x.of].state = "stored" /\ docs'[x.of] = Stores(x)
      BY <2>0, <2>3, DocFacts
    <3>2. docs'[x.of].state = "stored" /\ docs'[x.of].name = x.name
      BY <3>1 DEF Stores
    <3> HIDE DEF r, old, new
    <3>3. r.kind # "delete" /\ old[x.of].state = "stored"
      BY <2>0, <3>1
    <3>4. Cat!Changed(old[x.of], r) = [state |-> "stored", look |-> r.look]
      BY <3>1, <3>3, Zenon DEF Cat!Changed
    <3> QED
      BY <2>0, <2>1, <3>2, <3>4
  <2>4. CASE AddSingleCategories(t)
    <3>1. r.kind = "add" /\ docs[x.of].state = "none" /\ docs'[x.of] = Stores(x)
      BY <2>0, <2>4, DocFacts
    <3>2. docs'[x.of].state = "stored" /\ docs'[x.of].name = x.name
      BY <3>1 DEF Stores
    <3> HIDE DEF r, old, new
    <3>3. r.kind # "delete" /\ r.kind # "update" /\ old[x.of].state = "none"
      BY <2>0, <3>1
    <3>4. Cat!Changed(old[x.of], r) = [state |-> "stored", look |-> r.look]
      BY <3>1, <3>3, Zenon DEF Cat!Changed
    <3> QED
      BY <2>0, <2>1, <3>2, <3>4
  <2> QED
    BY <1>1, <2>2, <2>3, <2>4 DEF IsWrite
<1>7. new = [old EXCEPT ![x.of] = Cat!Changed(old[x.of], r)]
  <2>1. \A k \in Keys \ {x.of} : new[k] = old[k]
    BY <1>6
  <2>2. new = [k \in Keys |-> new[k]] /\ old = [k \in Keys |-> old[k]]
    OBVIOUS
  <2> HIDE DEF new, old, r
  <2> QED
    BY <1>2, <1>6, <2>1, <2>2
<1> DEFINE req == [u \in Taps |-> Asked(u)]
<1>8. [u \in Taps |-> Asked(u)'] = [req EXCEPT ![t] = Cat!Closed]
  BY <1>3, <1>4 DEF Cat!Closed
<1>9. req[t] = r /\ r.kind \in Cat!Kinds /\ r.key = x.of
  BY <1>2, <1>3 DEF Kinds, Cat!Kinds
<1> HIDE DEF r, x
<1> QED
  BY <1>7, <1>8, <1>9 DEF Cat!Commit

(* Every step of the desk is one of the catalogue.  *)
LEMMA CatalogueStep ==
    ASSUME DeskInv, [Next]_vars PROVE Cat!Next
<1> USE DEF DeskInv
<1>1. ASSUME NEW t \in Taps, Serve(t) PROVE Cat!Next
  <2>1. CASE docs' # docs
    BY <1>1, <2>1, WriteCommits DEF Cat!Next
  <2>2. CASE docs' = docs
    <3>1. \A u \in Taps \ {t} : Closes(u)
      BY <1>1, ServeFacts DEF Closes
    <3>2. Closes(t)
      <4>1. task[t].pc \in Open
        BY <1>1 DEF Serve, PutFile, GetDownloadURL, UploadFails, Refuse, DeleteSingleCategories,
                    UpdateSingleCategories, AddSingleCategories, Writes, Open
      <4>2. \/ \E p \in {"link", "write", "accepted", "refused"} : Goes(t, p)
            \/ \E p \in {"failed", "unlinked", "dead"} : Ends(t, p)
        BY <1>1, ServeFacts DEF Serve, IsWrite
      <4> QED
        BY <4>1, <4>2 DEF Closes, Goes, Ends, Open
    <3> QED
      BY <2>2, <3>1, <3>2, GivenUp DEF Cat!Next
  <2> QED
    BY <2>1, <2>2
<1>2. ASSUME NEW t \in Taps, Resume(t) PROVE Cat!Next
  <2>1. \A u \in Taps \ {t} : Closes(u)
    BY <1>2, ResumeFacts DEF Closes
  <2>2. Closes(t)
    BY <1>2, ResumeFacts DEF Closes, Open, Ended
  <2>3. UNCHANGED docs
    BY <1>2, ResumeFacts
  <2> QED
    BY <2>1, <2>2, <2>3, GivenUp DEF Cat!Next
<1>3. ASSUME NEW t \in Taps, Press(t) PROVE Cat!Next
  BY <1>3, PressAsks DEF Cat!Next
<1>4. CASE Restart
  <2>1. ASSUME NEW t \in Taps PROVE Closes(t)
    <3>1. CASE task[t].pc \notin Live
      BY <1>4, <3>1, KilledFacts DEF Closes
    <3>2. CASE task[t].pc = "write"
      BY <1>4, <3>2, KilledFacts DEF Closes, Open
    <3>3. CASE task[t].pc \in Live \ {"write"}
      BY <1>4, <3>3, KilledFacts, PhaseFacts DEF Closes, Open
    <3> QED
      BY <3>1, <3>2, <3>3
  <2> QED
    BY <1>4, <2>1, GivenUp DEF Cat!Next, Restart
<1>5. CASE LeaveCategoriesView \/ Rebuild
  <2>1. ASSUME NEW t \in Taps PROVE Closes(t)
    BY <1>5, DisposeFacts, PhaseFacts DEF Closes, Open
  <2> QED
    BY <1>5, <2>1, GivenUp DEF Cat!Next, LeaveCategoriesView, Rebuild
<1>6. CASE UNCHANGED <<docs, task>>
  <2>1. \A t \in Taps : Closes(t)
    BY <1>6 DEF Closes
  <2> QED
    BY <1>6, <2>1, GivenUp DEF Cat!Next
<1> QED
  BY <1>1, <1>2, <1>3, <1>4, <1>5, <1>6, OtherSteps DEF Next, Ongoing

(* The desk implements the catalogue: through failed and repeated queries, *)
(* uploads that precede every write, and restarts, each press changes at   *)
(* most the document of the row it was made on, once, and no deleted       *)
(* category returns.                                                       *)
THEOREM CatalogueIsServed == Spec => ServesCatalogue
<1>1. Init => Cat!Init
  <2> SUFFICES ASSUME Init PROVE Cat!Init
    OBVIOUS
  <2>1. [t \in Taps |-> Asked(t)] = [t \in Taps |-> Cat!Free]
    <3>1. \A t \in Taps : task[t].pc = "unused"
      BY DEF Init, Unused
    <3> QED
      BY <3>1, AskedFacts DEF Cat!Free
  <2>2. [k \in Keys |-> [state |-> docs[k].state, look |-> docs[k].name]]
            \in [Keys -> [state: {"none", "stored"}, look: Marks]]
    BY DEF Init, Marks
  <2> QED
    BY <2>1, <2>2 DEF Cat!Init
<1>2. DeskInv /\ [Next]_vars => [Cat!Next]_(Cat!catalogueVars)
  BY CatalogueStep
<1> QED
  BY <1>1, <1>2, DeskInvariant, PTL DEF Spec, ServesCatalogue, Cat!Spec

-----------------------------------------------------------------------------
(* The list and the pictures of a careful admin.  *)

ListedIn(s, k) == \E x \in ToSet(s) : x.of = k
Listed(k) == ListedIn(categoriesList, k)

Distinct(s) == \A i, j \in DOMAIN s : s[i].of = s[j].of => i = j

(* Before the dashboard's query is back no handler runs, no page is open.  *)
BeforeHome ==
    home.phase \notin {"done", "lost"} =>
        Idle /\ screen = "Home" /\ cards = << >> /\ ~dirty

(* A careful admin has one handler running at most, and none that ended    *)
(* with the process before its write arrived.                              *)
OneAtATime ==
    /\ \A t, u \in Taps : task[t].pc \in Live /\ task[u].pc \in Live => t = u
    /\ \A t \in Taps : task[t].pc # "stray"

(* ... and starts nothing before main's query is back.  *)
BeforeEarly == early.phase \notin {"done", "lost"} => Idle /\ screen # "Edit"

(* What a query returned is what the documents still are.  *)
Mirror(s) ==
    /\ Distinct(s)
    /\ \A k \in Keys : docs[k].state = "stored" <=> ListedIn(s, k)
    /\ \A x \in ToSet(s) : x.name = docs[x.of].name /\ x.image = docs[x.of].image

QueryFresh(q) ==
    /\ q.phase = "answered" => Mirror(q.rows)
    /\ q.phase = "erred" => q.rows = << >>

EndedOn(k, pcs) == \E t \in Taps : task[t].pc \in pcs /\ task[t].of = k
UpdateAt(k, pcs) ==
    \E t \in Taps : task[t].pc \in pcs /\ task[t].kind = "update" /\ task[t].obj.of = k

(* The picture a document or a row of category k links to is the one at    *)
(* its path, or the one from before any update.                            *)
PictureOf(k, image) ==
    \/ IF image = "first" THEN ~EndedOn(k, {"updated"}) ELSE storage[k] = image
    \/ EndedOn(k, {"unsaved", "unlinked"})

(* ... but while an update of k is under way, for documents and for rows.  *)
DocPictures ==
    \A k \in Categories : PictureOf(k, docs[k].image) \/ UpdateAt(k, {"link", "write", "refused"})

RowPictures ==
    \A x \in ToSet(categoriesList) :
        x.of \in Categories => \/ PictureOf(x.of, x.image)
                               \/ UpdateAt(x.of, {"link", "write", "accepted", "refused"})

(* An update that has uploaded, linked and stored its picture; a delete    *)
(* uploads nothing.                                                        *)
UpdateFits(t) ==
    /\ task[t].pc \in {"upload", "link"} => task[t].kind # "delete"
    /\ task[t].kind = "update" =>
          /\ task[t].pc \in {"link", "write", "accepted", "refused"} =>
                storage[task[t].obj.id] = t
          /\ task[t].pc \in {"write", "accepted", "refused"} => task[t].obj.image = t
          /\ task[t].pc = "accepted" => /\ docs[task[t].obj.of].name = task[t].obj.name
                                        /\ docs[task[t].obj.of].image = t

(* What a running handler will do to the list still fits the list.  *)
HandlerFits(t) ==
    /\ task[t].kind = "delete" => task[t].obj \in ToSet(categoriesList)
    /\ task[t].kind = "update" => /\ task[t].place \in DOMAIN categoriesList
                                  /\ categoriesList[task[t].place].of = task[t].obj.of
    /\ task[t].kind = "add" => /\ ~Listed(t)
                               /\ task[t].pc = "accepted" =>
                                     /\ docs[t].state = "stored"
                                     /\ docs[t].name = task[t].obj.name

ListedExist == \A x \in ToSet(categoriesList) : docs[x.of].state # "none"

(* The form is that of the row it was opened from, and nothing moves rows. *)
FormFits ==
    screen = "Edit" =>
        /\ form.index \in DOMAIN categoriesList
        /\ categoriesList[form.index].of = form.obj.of
        /\ \A t \in Taps : task[t].pc \in Live => task[t].kind = "update"

RowsInv ==
    /\ Distinct(categoriesList)
    /\ ListedExist
    /\ RowPictures
    /\ \A t \in Taps : task[t].pc \in Live => HandlerFits(t)
    /\ FormFits

(* The stored categories of the start are those of the list, but for one   *)
(* that a delete still running has removed from Firestore.                 *)
StoredListed ==
    \A k \in Categories :
        docs[k].state = "stored" <=>
            /\ Listed(k)
            /\ ~\E t \in Taps : /\ task[t].pc = "accepted" /\ task[t].kind = "delete"
                                /\ task[t].obj.of = k

(* A stored addition is in the list, or will be, or a delete took it out.  *)
AddedListed ==
    \A k \in Taps :
        docs[k].state = "stored" =>
            \/ Listed(k)
            \/ EndedOn(k, {"deleted"})
            \/ task[k].pc = "accepted" /\ task[k].kind = "add"

(* A row has the stored name, or an update of it was refused, or is stored *)
(* and about to reach the list.                                            *)
NamesFit ==
    \A x \in ToSet(categoriesList) :
        \/ x.name = docs[x.of].name
        \/ EndedOn(x.of, {"unsaved"})
        \/ UpdateAt(x.of, {"accepted"})

(* Only a start whose two queries both came through has every category.    *)
MirrorInv == StoredListed /\ AddedListed /\ NamesFit

Arrived == early.phase \in {"done", "lost"} /\ home.phase \in {"done", "lost"}

DocsInv ==
    /\ DocPictures
    /\ \A t \in Taps : task[t].pc \in Live => UpdateFits(t)

Orderly ==
    /\ OneAtATime
    /\ BeforeEarly
    /\ QueryFresh(early) /\ QueryFresh(home)
    /\ DocsInv
    /\ Arrived => RowsInv
    /\ early.phase = "done" /\ home.phase = "done" => MirrorInv

CarefulInv == BeforeHome /\ (~rushed => Orderly)

(* Positions that hold different categories, as a fact about members.  *)
LEMMA DistinctMembers ==
    ASSUME NEW s \in Seq(Own)
    PROVE  Distinct(s) <=> /\ IsInjective(s)
                           /\ \A x, y \in ToSet(s) : x.of = y.of => x = y
BY Zenon DEF Distinct, IsInjective, ToSet

(* The rows of the list are models.  *)
LEMMA RowType ==
    ASSUME OwnTypes, NEW x \in ToSet(categoriesList)
    PROVE  /\ x \in Own /\ x.of \in Keys
           /\ x.of \in Categories <=> x.id \in Categories
           /\ x.of \in Categories => x.id = x.of
<1>1. x \in Own
  BY DEF OwnTypes, ToSet
<1> QED
  BY <1>1, NameFacts

(* A handler that a step leaves alone but for the position of a card.  *)
Keeps(t) ==
    /\ task'[t].pc = task[t].pc
    /\ task[t].pc \in Started => /\ task'[t].kind = task[t].kind
                                 /\ task'[t].obj = task[t].obj
    /\ task[t].pc \notin Live \/ task[t].kind # "delete" => task'[t] = task[t]

(* Then what ended on a category, and which updates run, is the same.  *)
LEMMA KeptPhases ==
    ASSUME \A t \in Taps : Keeps(t)
    PROVE  /\ \A k, pcs : pcs \subseteq Ended => (EndedOn(k, pcs)' <=> EndedOn(k, pcs))
           /\ \A k, pcs : pcs \subseteq Started => (UpdateAt(k, pcs)' <=> UpdateAt(k, pcs))
<1>1. \A t \in Taps : /\ task[t].pc \in Ended => task'[t] = task[t]
                      /\ task'[t].pc = task[t].pc
  BY PhaseFacts DEF Keeps
<1>2. \A k, pcs : pcs \subseteq Ended => (EndedOn(k, pcs)' <=> EndedOn(k, pcs))
  BY <1>1 DEF EndedOn
<1>3. \A k, pcs : pcs \subseteq Started => (UpdateAt(k, pcs)' <=> UpdateAt(k, pcs))
  BY <1>1 DEF UpdateAt, Keeps
<1> QED
  BY <1>2, <1>3

(* The phases the invariants speak of.  *)
LEMMA PhaseSets ==
    /\ {"updated"} \subseteq Ended /\ {"unsaved", "unlinked"} \subseteq Ended
    /\ {"unsaved"} \subseteq Ended /\ {"deleted"} \subseteq Ended
    /\ {"accepted"} \subseteq Started
    /\ {"link", "write", "refused"} \subseteq Started
    /\ {"link", "write", "accepted", "refused"} \subseteq Started
BY PhaseFacts DEF Ended

(* A step of the page only.  *)
LEMMA RowsUnmoved ==
    ASSUME OwnTypes, UNCHANGED <<docs, storage, categoriesList>>, \A t \in Taps : Keeps(t)
    PROVE  /\ DocsInv => DocsInv'
           /\ RowsInv /\ FormFits' => RowsInv'
           /\ MirrorInv => MirrorInv'
<1>1. /\ \A k : EndedOn(k, {"updated"})' <=> EndedOn(k, {"updated"})
      /\ \A k : EndedOn(k, {"unsaved", "unlinked"})' <=> EndedOn(k, {"unsaved", "unlinked"})
      /\ \A k : EndedOn(k, {"unsaved"})' <=> EndedOn(k, {"unsaved"})
      /\ \A k : EndedOn(k, {"deleted"})' <=> EndedOn(k, {"deleted"})
      /\ \A k : UpdateAt(k, {"accepted"})' <=> UpdateAt(k, {"accepted"})
      /\ \A k : UpdateAt(k, {"link", "write", "refused"})'
                   <=> UpdateAt(k, {"link", "write", "refused"})
      /\ \A k : UpdateAt(k, {"link", "write", "accepted", "refused"})'
                   <=> UpdateAt(k, {"link", "write", "accepted", "refused"})
  BY KeptPhases, PhaseSets
<1>2. \A k, image : PictureOf(k, image)' <=> PictureOf(k, image)
  BY <1>1 DEF PictureOf
<1>3. \A k : Listed(k)' <=> Listed(k)
  BY DEF Listed, ListedIn
<1>4. \A t \in Taps : task'[t].pc \in Live =>
         /\ task[t].pc \in Live /\ task[t].pc = task'[t].pc
         /\ task'[t].kind = task[t].kind /\ task'[t].obj = task[t].obj
         /\ task[t].kind # "delete" => task'[t].place = task[t].place
  BY DEF Keeps, Started
<1>5. ASSUME DocsInv PROVE DocsInv'
  <2>1. DocPictures'
    BY <1>1, <1>2, <1>5 DEF DocsInv, DocPictures
  <2>2. ASSUME NEW t \in Taps, task'[t].pc \in Live PROVE UpdateFits(t)'
    BY <1>4, <1>5, <2>2 DEF DocsInv, UpdateFits
  <2> QED
    BY <2>1, <2>2 DEF DocsInv
<1>6. ASSUME RowsInv, FormFits' PROVE RowsInv'
  <2>1. Distinct(categoriesList)' /\ ListedExist'
    BY <1>6 DEF RowsInv, Distinct, ListedExist
  <2>2. RowPictures'
    BY <1>1, <1>2, <1>6 DEF RowsInv, RowPictures
  <2>3. ASSUME NEW t \in Taps, task'[t].pc \in Live PROVE HandlerFits(t)'
    BY <1>3, <1>4, <1>6, <2>3 DEF RowsInv, HandlerFits
  <2> QED
    BY <1>6, <2>1, <2>2, <2>3 DEF RowsInv
<1>7. ASSUME MirrorInv PROVE MirrorInv'
  <2>1. StoredListed'
    BY <1>3, <1>7, PhaseFacts DEF MirrorInv, StoredListed, Keeps
  <2>2. AddedListed'
    BY <1>1, <1>3, <1>7, PhaseFacts DEF MirrorInv, AddedListed, Keeps
  <2>3. NamesFit'
    BY <1>1, <1>7 DEF MirrorInv, NamesFit
  <2> QED
    BY <2>1, <2>2, <2>3 DEF MirrorInv
<1> QED
  BY <1>5, <1>6, <1>7

(* The list right after a query came back, with nothing running: the rows  *)
(* of the query if it was answered, none if it failed.                     *)
LEMMA RowsLanded ==
    ASSUME OwnTypes, Idle, DocPictures, UNCHANGED <<docs, storage, task>>, screen' # "Edit",
           categoriesList' \in Seq(Own)
    PROVE  /\ Mirror(categoriesList') => RowsInv' /\ MirrorInv'
           /\ categoriesList' = << >> => RowsInv'
<1> DEFINE s == categoriesList'
<1>0. FormFits' /\ \A t \in Taps : task[t].pc \notin Live
  BY DEF FormFits, Idle
<1>1. \A k, pcs : pcs \subseteq Live => ~UpdateAt(k, pcs)
  BY <1>0 DEF UpdateAt
<1>2. \A k \in Categories : PictureOf(k, docs[k].image)
  BY <1>1, PhaseFacts DEF DocPictures
<1>3. \A k, image : PictureOf(k, image)' <=> PictureOf(k, image)
  BY DEF PictureOf, EndedOn
<1>4. ASSUME Mirror(s) PROVE RowsInv' /\ MirrorInv'
  <2>0. \A x \in ToSet(s) : x \in Own /\ x.of \in Keys
    <3>1. \A x \in ToSet(s) : x \in Own
      BY DEF ToSet
    <3> QED
      BY <3>1, NameFacts
  <2>1. Distinct(categoriesList)'
    BY <1>4 DEF Mirror
  <2>2. ListedExist'
    BY <1>4, <2>0 DEF ListedExist, Mirror, ListedIn
  <2>3. RowPictures'
    BY <1>2, <1>3, <1>4, <2>0 DEF RowPictures, Mirror
  <2>4. StoredListed' /\ AddedListed'
    BY <1>0, <1>4, PhaseFacts DEF StoredListed, AddedListed, Mirror, Listed, Keys
  <2>5. NamesFit'
    BY <1>4 DEF NamesFit, Mirror
  <2> QED
    BY <1>0, <2>1, <2>2, <2>3, <2>4, <2>5 DEF RowsInv, MirrorInv
<1>5. ASSUME s = << >> PROVE RowsInv'
  <2>1. ToSet(s) = {} /\ DOMAIN s = {}
    BY <1>5 DEF ToSet
  <2> QED
    BY <1>0, <2>1 DEF RowsInv, Distinct, ListedExist, RowPictures
<1> QED
  BY <1>4, <1>5

(* What ends and what runs around a step of the one handler that runs.  *)
LEMMA OneHandler ==
    ASSUME NEW t \in Taps,
           \A u \in Taps \ {t} : task'[u] = task[u] /\ task[u].pc \notin Started,
           task[t].pc \notin Ended
    PROVE  /\ \A k, pcs : pcs \subseteq Started =>
                 (UpdateAt(k, pcs) <=> /\ task[t].pc \in pcs /\ task[t].kind = "update"
                                       /\ task[t].obj.of = k)
           /\ \A k, pcs : pcs \subseteq Started =>
                 (UpdateAt(k, pcs)' <=> /\ task'[t].pc \in pcs /\ task'[t].kind = "update"
                                        /\ task'[t].obj.of = k)
           /\ \A k, pcs : pcs \subseteq Ended =>
                 (EndedOn(k, pcs)' <=> \/ EndedOn(k, pcs)
                                       \/ task'[t].pc \in pcs /\ task'[t].of = k)
<1>1. \A k, pcs : pcs \subseteq Started =>
         (UpdateAt(k, pcs) <=> /\ task[t].pc \in pcs /\ task[t].kind = "update"
                               /\ task[t].obj.of = k)
  BY DEF UpdateAt
<1>2. \A k, pcs : pcs \subseteq Started =>
         (UpdateAt(k, pcs)' <=> /\ task'[t].pc \in pcs /\ task'[t].kind = "update"
                                /\ task'[t].obj.of = k)
  BY DEF UpdateAt
<1>3. \A k, pcs : pcs \subseteq Ended =>
         (EndedOn(k, pcs)' <=> \/ EndedOn(k, pcs)
                               \/ task'[t].pc \in pcs /\ task'[t].of = k)
  BY DEF EndedOn
<1> QED
  BY <1>1, <1>2, <1>3

(* The six moves of the one handler that runs.  *)
ToLink(t) ==
    /\ task[t].pc = "upload" /\ task[t].kind # "delete" /\ Goes(t, "link")
    /\ docs' = docs /\ storage' = [storage EXCEPT ![task[t].obj.id] = t]
ToWrite(t) ==
    /\ task[t].pc = "link" /\ task[t].kind # "delete" /\ Goes(t, "write")
    /\ task'[t].obj.image = storage[task[t].obj.id]
    /\ docs' = docs /\ storage' = storage
ToFailed(t) ==
    /\ task[t].pc = "upload" \/ task[t].kind = "add"
    /\ Ends(t, "failed")
    /\ docs' = docs /\ storage' = storage
ToUnlinked(t) ==
    /\ task[t].pc = "link" /\ Ends(t, "unlinked")
    /\ docs' = docs /\ storage' = storage
ToAccepted(t) ==
    /\ task[t].pc = "write" /\ Goes(t, "accepted") /\ IsWrite(t)
    /\ task'[t].obj = task[t].obj
    /\ storage' = storage
ToRefused(t) ==
    /\ task[t].pc = "write" /\ task[t].kind # "add" /\ Goes(t, "refused")
    /\ task'[t].obj = task[t].obj
    /\ docs' = docs /\ storage' = storage

(* Every step of Firestore or Storage for a careful admin is one of them.  *)
LEMMA ServeMoves ==
    ASSUME DeskInv, OneAtATime, DocsInv, NEW t \in Taps, Serve(t)
    PROVE  /\ task[t].pc \in Live /\ task[t].pc \in Started /\ task[t].pc \notin Ended
           /\ task[t].pc \in {"upload", "link", "write"}
           /\ task[t].kind \in Kinds /\ task[t].obj \in Own
           /\ \A u \in Taps \ {t} : task'[u] = task[u] /\ task[u].pc \notin Started
           /\ UNCHANGED <<categoriesList, early, home, screen, form>>
           /\ \/ ToLink(t) \/ ToWrite(t) \/ ToFailed(t)
              \/ ToUnlinked(t) \/ ToAccepted(t) \/ ToRefused(t)
<1> USE DEF DeskInv
<1>1. task[t].pc \in {"upload", "link", "write"}
  BY DEF Serve, PutFile, GetDownloadURL, UploadFails, Refuse, DeleteSingleCategories,
         UpdateSingleCategories, AddSingleCategories, Writes, OneAtATime
<1>2. task[t].pc \in Live /\ task[t].pc \in Started /\ task[t].pc \notin Ended
  BY <1>1, PhaseFacts
<1>3. task[t].kind \in Kinds /\ task[t].obj \in Own
  BY <1>2, StartedTask
<1>4. \A u \in Taps \ {t} : task'[u] = task[u] /\ task[u].pc \notin Started
  BY <1>2, ServeFacts DEF OneAtATime, Started
<1>5. UNCHANGED <<categoriesList, early, home, screen, form>>
  BY DEF Serve, PutFile, GetDownloadURL, UploadFails, Refuse, DeleteSingleCategories,
         UpdateSingleCategories, AddSingleCategories, Writes, loads, pages
<1>6. UpdateFits(t)
  BY <1>2 DEF DocsInv
<1>7. PutFile(t) => ToLink(t)
  BY <1>6, ServeFacts DEF PutFile, ToLink, UpdateFits
<1>8. GetDownloadURL(t) => ToWrite(t)
  BY <1>6, ServeFacts DEF GetDownloadURL, ToWrite, UpdateFits
<1>9. UploadFails(t) => ToFailed(t) \/ ToUnlinked(t)
  BY ServeFacts DEF UploadFails, ToFailed, ToUnlinked
<1>10. ASSUME IsWrite(t) PROVE ToAccepted(t)
  <2>1. task[t].pc = "write" /\ storage' = storage
    BY <1>1, <1>10 DEF IsWrite, DeleteSingleCategories, UpdateSingleCategories,
                       AddSingleCategories, Writes
  <2> QED
    BY <1>10, <2>1, ServeFacts DEF ToAccepted
<1>11. Refuse(t) => ToFailed(t) \/ ToRefused(t)
  BY ServeFacts DEF Refuse, ToFailed, ToRefused
<1> QED
  BY <1>1, <1>2, <1>3, <1>4, <1>5, <1>7, <1>8, <1>9, <1>10, <1>11 DEF Serve, IsWrite

(* What a step of Firestore does to the fields of the documents.  *)
LEMMA FieldFacts ==
    ASSUME DeskInv, NEW t \in Taps, Serve(t)
    PROVE  LET o == task[t].obj.of
           IN  /\ \A k \in Keys \ {o} : docs'[k] = docs[k]
               /\ \A k \in Keys : docs[k].state # "none" => docs'[k].state # "none"
               /\ DeleteSingleCategories(t) =>
                     /\ task[t].kind = "delete"
                     /\ docs'[o].name = docs[o].name /\ docs'[o].image = docs[o].image
                     /\ docs'[o].state = IF o \in Categories THEN "deleted" ELSE docs[o].state
               /\ UpdateSingleCategories(t) =>
                     /\ task[t].kind = "update" /\ o \in Categories
                     /\ docs'[o].state = "stored" /\ docs[o].state = "stored"
                     /\ docs'[o].name = task[t].obj.name /\ docs'[o].image = task[t].obj.image
               /\ AddSingleCategories(t) =>
                     /\ task[t].kind = "add" /\ o = t
                     /\ docs'[o].state = "stored" /\ docs'[o].name = task[t].obj.name
<1> DEFINE o == task[t].obj.of
           x == task[t].obj
<1>1. o \in Keys /\ \A k \in Keys : docs[k] \in Documents
  BY DocFacts DEF DeskInv, OwnTypes
<1>2. \A k \in Keys \ {o} : docs'[k] = docs[k]
  BY DocFacts
<1>3. ASSUME DeleteSingleCategories(t)
      PROVE  /\ task[t].kind = "delete"
             /\ docs'[o].name = docs[o].name /\ docs'[o].image = docs[o].image
             /\ docs'[o].state = IF o \in Categories THEN "deleted" ELSE docs[o].state
  <2>1. CASE o \notin Categories
    BY <1>3, <2>1, DocFacts
  <2>2. CASE o \in Categories
    <3>1. docs'[o] = [docs[o] EXCEPT !.state = "deleted"] /\ task[t].kind = "delete"
      BY <1>3, <2>2, DocFacts
    <3>2. docs[o] \in Documents
      BY <1>1
    <3> HIDE DEF o
    <3> QED
      BY <2>2, <3>1, <3>2 DEF Documents
  <2> QED
    BY <2>1, <2>2
<1>4. ASSUME UpdateSingleCategories(t)
      PROVE  /\ task[t].kind = "update" /\ o \in Categories
             /\ docs'[o].state = "stored" /\ docs[o].state = "stored"
             /\ docs'[o].name = x.name /\ docs'[o].image = x.image
  <2>1. /\ task[t].kind = "update" /\ o \in Categories /\ docs[o].state = "stored"
        /\ docs'[o] = Stores(x)
    BY <1>4, DocFacts
  <2> QED
    BY <2>1 DEF Stores
<1>5. ASSUME AddSingleCategories(t)
      PROVE  /\ task[t].kind = "add" /\ o = t
             /\ docs'[o].state = "stored" /\ docs'[o].name = x.name
  <2>1. task[t].kind = "add" /\ o = t /\ docs'[t] = Stores(x)
    BY <1>5, DocFacts
  <2> QED
    BY <2>1 DEF Stores
<1>6. ~IsWrite(t) => docs' = docs
  BY DocFacts
<1>7. \A k \in Keys : docs[k].state # "none" => docs'[k].state # "none"
  BY <1>1, <1>2, <1>3, <1>4, <1>5, <1>6 DEF IsWrite
<1> QED
  BY <1>2, <1>3, <1>4, <1>5, <1>7

(* The documents and their pictures through a step of Firestore or         *)
(* Storage.                                                                *)
LEMMA DocsServed ==
    ASSUME DeskInv, OneAtATime, DocsInv, NEW t \in Taps, Serve(t)
    PROVE  DocsInv'
<1> USE DEF DeskInv
<1> DEFINE x == task[t].obj
<1>1. /\ task[t].pc \in Live /\ task[t].pc \in Started /\ task[t].pc \notin Ended
      /\ task[t].pc \in {"upload", "link", "write"}
      /\ task[t].kind \in Kinds /\ x \in Own
      /\ \A u \in Taps \ {t} : task'[u] = task[u] /\ task[u].pc \notin Started
      /\ \/ ToLink(t) \/ ToWrite(t) \/ ToFailed(t)
         \/ ToUnlinked(t) \/ ToAccepted(t) \/ ToRefused(t)
  BY ServeMoves
<1>2. /\ x.id \in Ids /\ x.of \in Keys
      /\ x.id \in Categories <=> x.of \in Categories
      /\ x.id \in Categories => x.id = x.of
      /\ task[t].kind = "add" => x.of \notin Categories
  <2>1. task[t].kind = "add" => x.of = t /\ t \notin Categories
    BY <1>1, CategoriesNamed DEF NewOnes
  <2> QED
    BY <1>1, <2>1, NameFacts
<1>3. UpdateFits(t) /\ t # "first"
  BY <1>1, CategoriesNamed DEF DocsInv
<1>4. UpdateFits(t)' \/ task'[t].pc \notin Live
  <2>1. CASE ToLink(t)
    BY <1>2, <1>3, <2>1 DEF ToLink, Goes, UpdateFits, OwnTypes
  <2>2. CASE ToWrite(t)
    BY <1>2, <1>3, <2>2 DEF ToWrite, Goes, UpdateFits
  <2>3. CASE ToFailed(t) \/ ToUnlinked(t)
    BY <2>3, PhaseFacts DEF ToFailed, ToUnlinked, Ends
  <2>4. CASE ToAccepted(t)
    <3>1. task[t].kind = "update" => /\ docs'[x.of].name = x.name
                                     /\ docs'[x.of].image = x.image
      BY <2>4, FieldFacts DEF ToAccepted, IsWrite
    <3> QED
      BY <1>2, <1>3, <2>4, <3>1 DEF ToAccepted, Goes, UpdateFits
  <2>5. CASE ToRefused(t)
    BY <1>3, <2>5 DEF ToRefused, Goes, UpdateFits
  <2> QED
    BY <1>1, <2>1, <2>2, <2>3, <2>4, <2>5
<1>5. \A u \in Taps : task'[u].pc \in Live => UpdateFits(u)'
  BY <1>1, <1>4 DEF Started
<1>6. ASSUME NEW k \in Categories
      PROVE  (PictureOf(k, docs[k].image) \/ UpdateAt(k, {"link", "write", "refused"}))'
  <2>0. PictureOf(k, docs[k].image) \/ UpdateAt(k, {"link", "write", "refused"})
    BY DEF DocsInv, DocPictures
  <2>1. /\ UpdateAt(k, {"link", "write", "refused"}) =>
              task[t].pc \in {"link", "write", "refused"} /\ task[t].kind = "update" /\ x.of = k
        /\ task'[t].pc \in {"link", "write", "refused"} /\ task'[t].kind = "update"
              /\ task'[t].obj.of = k
           => UpdateAt(k, {"link", "write", "refused"})'
        /\ EndedOn(k, {"unsaved", "unlinked"}) => EndedOn(k, {"unsaved", "unlinked"})'
        /\ task'[t].pc = "unlinked" /\ task'[t].of = k => EndedOn(k, {"unsaved", "unlinked"})'
        /\ EndedOn(k, {"updated"})' => EndedOn(k, {"updated"}) \/ task'[t].pc = "updated"
    BY <1>1, OneHandler, PhaseSets
  <2>2. ASSUME storage'[k] = storage[k], docs'[k].image = docs[k].image,
               PictureOf(k, docs[k].image), task'[t].pc # "updated"
        PROVE  PictureOf(k, docs[k].image)'
    BY <2>1, <2>2 DEF PictureOf
  <2>3. k \in Keys /\ k \in Ids
    BY DEF Keys, Ids
  <2>4. CASE ToLink(t)
    <3>1. CASE x.id = k
      BY <1>1, <1>2, <2>1, <2>4, <3>1 DEF ToLink, Goes, Kinds
    <3>2. CASE x.id # k
      <4>1. storage'[k] = storage[k] /\ docs'[k].image = docs[k].image /\ task'[t].pc = "link"
        BY <1>2, <2>3, <2>4, <3>2 DEF ToLink, OwnTypes, Goes
      <4>2. PictureOf(k, docs[k].image)
        BY <2>0, <2>1, <2>4 DEF ToLink
      <4> QED
        BY <2>2, <4>1, <4>2
    <3> QED
      BY <3>1, <3>2
  <2>5. CASE ToWrite(t)
    <3>1. storage'[k] = storage[k] /\ docs'[k].image = docs[k].image /\ task'[t].pc = "write"
          /\ task'[t].kind = task[t].kind /\ task'[t].obj.of = x.of
      BY <2>5 DEF ToWrite, Goes
    <3> QED
      BY <2>0, <2>1, <2>2, <3>1
  <2>6. CASE ToFailed(t)
    <3>1. storage'[k] = storage[k] /\ docs'[k].image = docs[k].image /\ task'[t].pc = "failed"
      BY <2>6 DEF ToFailed, Ends
    <3>2. PictureOf(k, docs[k].image)
      BY <2>0, <2>1, <2>6 DEF ToFailed
    <3> QED
      BY <2>2, <3>1, <3>2
  <2>7. CASE ToUnlinked(t)
    <3>1. storage'[k] = storage[k] /\ docs'[k].image = docs[k].image /\ task'[t].pc = "unlinked"
          /\ task'[t].of = x.of
      BY <2>7 DEF ToUnlinked, Ends
    <3>2. CASE PictureOf(k, docs[k].image)
      BY <2>2, <3>1, <3>2
    <3>3. CASE ~PictureOf(k, docs[k].image)
      <4>1. EndedOn(k, {"unsaved", "unlinked"})'
        BY <2>0, <2>1, <3>1, <3>3
      <4> QED
        BY <4>1 DEF PictureOf
    <3> QED
      BY <3>2, <3>3
  <2>8. CASE ToAccepted(t)
    <3>1. /\ storage' = storage /\ task'[t].pc = "accepted" /\ IsWrite(t)
          /\ task[t].pc = "write"
      BY <2>8 DEF ToAccepted, Goes
    <3>2. CASE UpdateSingleCategories(t) /\ x.of = k
      <4>1. /\ docs'[k].image = x.image /\ task[t].kind = "update"
        BY <3>2, FieldFacts
      <4>2. x.image = t /\ storage[k] = t
        BY <1>2, <1>3, <3>1, <3>2, <4>1 DEF UpdateFits
      <4> QED
        BY <1>3, <3>1, <4>1, <4>2 DEF PictureOf
    <3>3. CASE ~(UpdateSingleCategories(t) /\ x.of = k)
      <4>1. docs'[k].image = docs[k].image
        <5>1. x.of # k => docs'[k] = docs[k]
          BY <2>3, FieldFacts
        <5>2. DeleteSingleCategories(t) /\ x.of = k => docs'[k].image = docs[k].image
          BY FieldFacts
        <5>3. AddSingleCategories(t) => x.of # k
          BY <1>2, FieldFacts
        <5> QED
          BY <3>1, <3>3, <5>1, <5>2, <5>3 DEF IsWrite
      <4>2. PictureOf(k, docs[k].image)
        <5>1. x.of = k => task[t].kind # "update"
          <6>1. DeleteSingleCategories(t) => task[t].kind = "delete"
            BY FieldFacts
          <6>2. AddSingleCategories(t) => task[t].kind = "add"
            BY FieldFacts
          <6> QED
            BY <3>1, <3>3, <6>1, <6>2 DEF IsWrite
        <5> QED
          BY <2>0, <2>1, <5>1
      <4> QED
        BY <2>2, <3>1, <4>1, <4>2
    <3> QED
      BY <3>2, <3>3
  <2>9. CASE ToRefused(t)
    <3>1. storage'[k] = storage[k] /\ docs'[k].image = docs[k].image /\ task'[t].pc = "refused"
          /\ task'[t].kind = task[t].kind /\ task'[t].obj.of = x.of
      BY <2>9 DEF ToRefused, Goes
    <3> QED
      BY <2>0, <2>1, <2>2, <3>1
  <2> QED
    BY <1>1, <2>4, <2>5, <2>6, <2>7, <2>8, <2>9
<1> QED
  BY <1>5, <1>6 DEF DocsInv, DocPictures

(* The list through the same steps: its rows stay where they are.  *)
LEMMA RowsServed ==
    ASSUME DeskInv, OneAtATime, DocsInv, RowsInv, NEW t \in Taps, Serve(t)
    PROVE  RowsInv'
<1> USE DEF DeskInv
<1> DEFINE x == task[t].obj
<1>1. /\ task[t].pc \in Live /\ task[t].pc \in Started /\ task[t].pc \notin Ended
      /\ task[t].pc \in {"upload", "link", "write"}
      /\ task[t].kind \in Kinds /\ x \in Own
      /\ \A u \in Taps \ {t} : task'[u] = task[u] /\ task[u].pc \notin Started
      /\ UNCHANGED <<categoriesList, early, home, screen, form>>
      /\ \/ ToLink(t) \/ ToWrite(t) \/ ToFailed(t)
         \/ ToUnlinked(t) \/ ToAccepted(t) \/ ToRefused(t)
  BY ServeMoves
<1>2. /\ x.id \in Ids /\ x.of \in Keys
      /\ x.id \in Categories <=> x.of \in Categories
      /\ x.id \in Categories => x.id = x.of
      /\ task[t].kind = "add" => x.of \notin Categories /\ x.of = t
  <2>1. task[t].kind = "add" => x.of = t /\ t \notin Categories
    BY <1>1, CategoriesNamed DEF NewOnes
  <2> QED
    BY <1>1, <2>1, NameFacts
<1>3. HandlerFits(t)
  BY <1>1 DEF RowsInv
<1>4. \A k : Listed(k)' <=> Listed(k)
  BY <1>1 DEF Listed, ListedIn
<1>5. Distinct(categoriesList)'
  BY <1>1 DEF RowsInv, Distinct
<1>6. ListedExist'
  <2> SUFFICES ASSUME NEW y \in ToSet(categoriesList) PROVE docs'[y.of].state # "none"
    BY <1>1 DEF ListedExist
  <2>1. y.of \in Keys
    BY RowType
  <2>2. docs[y.of].state # "none"
    BY DEF RowsInv, ListedExist
  <2> QED
    BY <2>1, <2>2, FieldFacts
<1>7. task'[t].pc \in Live =>
         /\ task'[t].kind = task[t].kind /\ task'[t].place = task[t].place
         /\ task'[t].obj.of = x.of /\ task'[t].obj.name = x.name
         /\ task[t].kind = "delete" => task'[t].obj = x
  BY <1>1, PhaseFacts DEF ToLink, ToWrite, ToFailed, ToUnlinked, ToAccepted, ToRefused, Goes, Ends
<1>8. ASSUME task'[t].pc \in Live PROVE HandlerFits(t)'
  <2>1. ASSUME task[t].kind = "add", task'[t].pc = "accepted"
        PROVE  docs'[t].state = "stored" /\ docs'[t].name = task'[t].obj.name
    <3>1. IsWrite(t)
      BY <1>1, <2>1 DEF ToLink, ToWrite, ToFailed, ToUnlinked, ToAccepted, ToRefused, Goes, Ends
    <3>2. DeleteSingleCategories(t) => task[t].kind = "delete"
      BY FieldFacts
    <3>3. UpdateSingleCategories(t) => task[t].kind = "update"
      BY FieldFacts
    <3>4. AddSingleCategories(t)
      BY <2>1, <3>1, <3>2, <3>3 DEF IsWrite
    <3>5. docs'[t].state = "stored" /\ docs'[t].name = x.name
      BY <1>2, <2>1, <3>4, FieldFacts
    <3> QED
      BY <1>7, <1>8, <3>5
  <2> QED
    BY <1>1, <1>3, <1>4, <1>7, <1>8, <2>1 DEF HandlerFits
<1>9. \A u \in Taps : task'[u].pc \in Live => HandlerFits(u)'
  BY <1>1, <1>8 DEF Started
<1>10. FormFits'
  <2>1. \A u \in Taps : task'[u].pc \in Live => u = t /\ task'[t].kind = task[t].kind
    BY <1>1, <1>7 DEF Started
  <2> QED
    BY <1>1, <2>1 DEF RowsInv, FormFits
<1> DEFINE R == {"link", "write", "accepted", "refused"}
<1>11. ASSUME NEW y \in ToSet(categoriesList), y.of \in Categories
       PROVE  PictureOf(y.of, y.image)' \/ UpdateAt(y.of, R)'
  <2> DEFINE k == y.of
  <2>0. PictureOf(k, y.image) \/ UpdateAt(k, R)
    BY <1>11 DEF RowsInv, RowPictures
  <2>1. /\ UpdateAt(k, R) =>
              task[t].pc \in R /\ task[t].kind = "update" /\ x.of = k
        /\ task'[t].pc \in R /\ task'[t].kind = "update" /\ task'[t].obj.of = k
           => UpdateAt(k, R)'
        /\ EndedOn(k, {"unsaved", "unlinked"}) => EndedOn(k, {"unsaved", "unlinked"})'
        /\ task'[t].pc = "unlinked" /\ task'[t].of = k => EndedOn(k, {"unsaved", "unlinked"})'
        /\ EndedOn(k, {"updated"})' => EndedOn(k, {"updated"}) \/ task'[t].pc = "updated"
    BY <1>1, OneHandler, PhaseSets
  <2>2. ASSUME storage'[k] = storage[k], PictureOf(k, y.image), task'[t].pc # "updated"
        PROVE  PictureOf(k, y.image)'
    BY <2>1, <2>2 DEF PictureOf
  <2>3. k \in Keys /\ k \in Ids
    BY <1>11 DEF Keys, Ids
  <2>4. CASE ToLink(t)
    <3>1. CASE x.id = k
      BY <1>1, <1>2, <1>11, <2>1, <2>4, <3>1 DEF ToLink, Goes, Kinds
    <3>2. CASE x.id # k
      <4>1. storage'[k] = storage[k] /\ task'[t].pc = "link"
        BY <1>2, <2>3, <2>4, <3>2 DEF ToLink, OwnTypes, Goes
      <4>2. PictureOf(k, y.image)
        BY <2>0, <2>1, <2>4 DEF ToLink
      <4> QED
        BY <2>2, <4>1, <4>2
    <3> QED
      BY <3>1, <3>2
  <2>5. CASE ToWrite(t) \/ ToAccepted(t) \/ ToRefused(t)
    <3>1. storage'[k] = storage[k] /\ task'[t].pc \in R
          /\ task'[t].kind = task[t].kind /\ task'[t].obj.of = x.of
      BY <2>5 DEF ToWrite, ToAccepted, ToRefused, Goes
    <3> QED
      BY <2>0, <2>1, <2>2, <3>1
  <2>6. CASE ToFailed(t)
    <3>1. storage'[k] = storage[k] /\ task'[t].pc = "failed"
      BY <2>6 DEF ToFailed, Ends
    <3>2. PictureOf(k, y.image)
      BY <2>0, <2>1, <2>6 DEF ToFailed
    <3> QED
      BY <2>2, <3>1, <3>2
  <2>7. CASE ToUnlinked(t)
    <3>1. storage'[k] = storage[k] /\ task'[t].pc = "unlinked" /\ task'[t].of = x.of
      BY <2>7 DEF ToUnlinked, Ends
    <3>2. CASE PictureOf(k, y.image)
      BY <2>2, <3>1, <3>2
    <3>3. CASE ~PictureOf(k, y.image)
      <4>1. EndedOn(k, {"unsaved", "unlinked"})'
        BY <2>0, <2>1, <3>1, <3>3
      <4> QED
        BY <4>1 DEF PictureOf
    <3> QED
      BY <3>2, <3>3
  <2> QED
    BY <1>1, <2>4, <2>5, <2>6, <2>7
<1>12. RowPictures'
  BY <1>1, <1>11 DEF RowPictures
<1> QED
  BY <1>5, <1>6, <1>9, <1>10, <1>12 DEF RowsInv

(* Which of them are listed, and under which name.  *)
LEMMA MirrorServed ==
    ASSUME DeskInv, OneAtATime, DocsInv, RowsInv, MirrorInv, NEW t \in Taps, Serve(t)
    PROVE  MirrorInv'
<1> USE DEF DeskInv
<1> DEFINE x == task[t].obj
<1>1. /\ task[t].pc \in Live /\ task[t].pc \in Started /\ task[t].pc \notin Ended
      /\ task[t].pc \in {"upload", "link", "write"}
      /\ task[t].kind \in Kinds /\ x \in Own
      /\ \A u \in Taps \ {t} : task'[u] = task[u] /\ task[u].pc \notin Started
      /\ UNCHANGED <<categoriesList, early, home, screen, form>>
      /\ \/ ToLink(t) \/ ToWrite(t) \/ ToFailed(t)
         \/ ToUnlinked(t) \/ ToAccepted(t) \/ ToRefused(t)
  BY ServeMoves
<1>2. x.of \in Keys /\ HandlerFits(t)
      /\ (task[t].kind = "add" => x.of = t /\ t \notin Categories)
  BY <1>1, NameFacts, CategoriesNamed DEF NewOnes, RowsInv
<1>3. \A k : Listed(k)' <=> Listed(k)
  BY <1>1 DEF Listed, ListedIn
<1>4. \A k \in Keys \ {x.of} : docs'[k] = docs[k]
  BY FieldFacts
<1>5. \/ task'[t].pc # "accepted" /\ docs' = docs
      \/ ToAccepted(t) /\ task'[t].pc = "accepted" /\ task'[t].kind = task[t].kind
         /\ task'[t].obj = x
         /\ \/ /\ task[t].kind = "delete" /\ docs'[x.of].name = docs[x.of].name
               /\ docs'[x.of].state = IF x.of \in Categories THEN "deleted" ELSE docs[x.of].state
            \/ /\ task[t].kind = "update" /\ x.of \in Categories
               /\ docs'[x.of].state = docs[x.of].state
            \/ task[t].kind = "add" /\ x.of = t
  <2>1. CASE ~ToAccepted(t)
    BY <1>1, <2>1 DEF ToLink, ToWrite, ToFailed, ToUnlinked, ToRefused, Goes, Ends
  <2>2. CASE ToAccepted(t)
    <3>1. task'[t].pc = "accepted" /\ task'[t].kind = task[t].kind /\ task'[t].obj = x /\ IsWrite(t)
      BY <2>2 DEF ToAccepted, Goes
    <3>2. DeleteSingleCategories(t) =>
               /\ task[t].kind = "delete" /\ docs'[x.of].name = docs[x.of].name
               /\ docs'[x.of].state = IF x.of \in Categories THEN "deleted" ELSE docs[x.of].state
      BY FieldFacts
    <3>3. UpdateSingleCategories(t) => /\ task[t].kind = "update" /\ x.of \in Categories
                                       /\ docs'[x.of].state = docs[x.of].state
      BY FieldFacts
    <3>4. AddSingleCategories(t) => task[t].kind = "add" /\ x.of = t
      BY FieldFacts
    <3> QED
      BY <2>2, <3>1, <3>2, <3>3, <3>4 DEF IsWrite
  <2> QED
    BY <2>1, <2>2
<1>6. \A u \in Taps : task'[u].pc = "accepted" => u = t
  BY <1>1, PhaseFacts
<1>7. \A u \in Taps : task[u].pc # "accepted"
  BY <1>1, PhaseFacts
<1>8. StoredListed'
  <2> SUFFICES ASSUME NEW k \in Categories
               PROVE  docs'[k].state = "stored" <=>
                         /\ Listed(k)
                         /\ ~\E u \in Taps : /\ task'[u].pc = "accepted" /\ task'[u].kind = "delete"
                                             /\ task'[u].obj.of = k
    BY <1>3 DEF StoredListed
  <2>0. k \in Keys /\ k \notin Taps
    BY CategoriesNamed DEF Keys
  <2>1. docs[k].state = "stored" <=> Listed(k)
    BY <1>7 DEF MirrorInv, StoredListed
  <2>2. CASE task'[t].pc = "accepted" /\ task[t].kind = "delete" /\ x.of = k
    BY <1>5, <2>2
  <2>3. CASE ~(task'[t].pc = "accepted" /\ task[t].kind = "delete" /\ x.of = k)
    <3>1. docs'[k].state = docs[k].state
      BY <1>4, <1>5, <2>0, <2>3
    <3>2. ~\E u \in Taps : /\ task'[u].pc = "accepted" /\ task'[u].kind = "delete"
                           /\ task'[u].obj.of = k
      BY <1>5, <1>6, <2>3
    <3> QED
      BY <2>1, <3>1, <3>2
  <2> QED
    BY <2>2, <2>3
<1>9. AddedListed'
  <2> SUFFICES ASSUME NEW k \in Taps, docs'[k].state = "stored"
               PROVE  \/ Listed(k)
                      \/ EndedOn(k, {"deleted"})'
                      \/ task'[k].pc = "accepted" /\ task'[k].kind = "add"
    BY <1>3 DEF AddedListed
  <2>1. CASE task'[t].pc = "accepted" /\ task[t].kind = "add" /\ k = t
    BY <1>5, <2>1
  <2>2. CASE ~(task'[t].pc = "accepted" /\ task[t].kind = "add" /\ k = t)
    <3>1. docs[k].state = "stored"
      BY <1>4, <1>5, <2>2, CategoriesNamed DEF Keys
    <3>2. Listed(k) \/ EndedOn(k, {"deleted"})
      BY <1>7, <3>1 DEF MirrorInv, AddedListed
    <3>3. EndedOn(k, {"deleted"}) => EndedOn(k, {"deleted"})'
      BY <1>1, OneHandler, PhaseSets
    <3> QED
      BY <3>2, <3>3
  <2> QED
    BY <2>1, <2>2
<1>10. NamesFit'
  <2> SUFFICES ASSUME NEW y \in ToSet(categoriesList)
               PROVE  \/ y.name = docs'[y.of].name
                      \/ EndedOn(y.of, {"unsaved"})'
                      \/ UpdateAt(y.of, {"accepted"})'
    BY <1>1 DEF NamesFit
  <2>0. y.of \in Keys /\ Listed(y.of)
    BY RowType DEF Listed, ListedIn
  <2>1. y.name = docs[y.of].name \/ EndedOn(y.of, {"unsaved"})
    BY <1>7 DEF MirrorInv, NamesFit, UpdateAt
  <2>2. EndedOn(y.of, {"unsaved"}) => EndedOn(y.of, {"unsaved"})'
    BY <1>1, OneHandler, PhaseSets
  <2>3. CASE task'[t].pc = "accepted" /\ task[t].kind = "update" /\ x.of = y.of
    BY <1>5, <2>3 DEF UpdateAt
  <2>4. CASE ~(task'[t].pc = "accepted" /\ task[t].kind = "update" /\ x.of = y.of)
    <3>1. task[t].kind = "add" => y.of # t
      BY <1>2, <2>0 DEF HandlerFits
    <3>2. docs'[y.of].name = docs[y.of].name
      BY <1>4, <1>5, <2>0, <2>4, <3>1
    <3> QED
      BY <2>1, <2>2, <3>2
  <2> QED
    BY <2>3, <2>4
<1> QED
  BY <1>8, <1>9, <1>10 DEF MirrorInv

(* The four ways in which the rest of a handler leaves the list.  *)
Removes(t) ==
    /\ task[t].kind = "delete" /\ task[t].pc = "accepted"
    /\ categoriesList' = RemoveFirst(categoriesList, task[t].obj)
    /\ task'[t].pc = "deleted"
Spares(t) ==
    /\ task[t].kind = "delete" /\ task[t].pc = "refused"
    /\ categoriesList' = categoriesList
    /\ task'[t].pc = "kept"
Replaces(t) ==
    /\ task[t].kind = "update" /\ task[t].place \in DOMAIN categoriesList
    /\ categoriesList' = [categoriesList EXCEPT ![task[t].place] = task[t].obj]
    /\ task'[t].pc = IF task[t].pc = "accepted" THEN "updated" ELSE "unsaved"
Appends(t) ==
    /\ task[t].kind = "add" /\ task[t].pc = "accepted"
    /\ categoriesList' = Append(categoriesList, task[t].obj)
    /\ task'[t].pc = "added"

(* The rest of a careful admin's handler is one of them.  *)
LEMMA ResumeMoves ==
    ASSUME DeskInv, OneAtATime, RowsInv, NEW t \in Taps, Resume(t)
    PROVE  /\ task[t].pc \in Live /\ task[t].pc \in Started /\ task[t].pc \notin Ended
           /\ task[t].pc \in {"accepted", "refused"}
           /\ task[t].kind \in Kinds /\ task[t].obj \in Own /\ HandlerFits(t)
           /\ \A u \in Taps \ {t} : task'[u] = task[u] /\ task[u].pc \notin Started
           /\ task'[t].of = task[t].obj.of
           /\ \A u \in Taps : task'[u].pc \notin Started
           /\ UNCHANGED <<docs, storage, early, home, screen, form>>
           /\ Removes(t) \/ Spares(t) \/ Replaces(t) \/ Appends(t)
<1> USE DEF DeskInv
<1>1. /\ task[t].pc \in {"accepted", "refused"}
      /\ \A u \in Taps \ {t} : task'[u] = task[u]
      /\ task'[t].pc \in Ended
      /\ task'[t].of = task[t].obj.of
      /\ UNCHANGED <<docs, storage, early, home, screen, form>>
  BY ResumeFacts
<1>2. task[t].pc \in Live /\ task[t].pc \in Started /\ task[t].pc \notin Ended
  BY <1>1, PhaseFacts
<1>3. task[t].kind \in Kinds /\ task[t].obj \in Own /\ HandlerFits(t)
  BY <1>2, StartedTask DEF RowsInv
<1>4. \A u \in Taps \ {t} : task[u].pc \notin Started
  BY <1>2 DEF OneAtATime, Started
<1>5. \A u \in Taps : task'[u].pc \notin Started
  BY <1>1, <1>4, PhaseFacts
<1>6. ResumeDelete(t) => Removes(t) \/ Spares(t)
  BY ResumeFacts DEF ResumeDelete, Removes, Spares
<1>7. ResumeUpdate(t) => Replaces(t)
  BY <1>3, ResumeFacts DEF ResumeUpdate, Replaces, HandlerFits
<1>8. ResumeAdd(t) => Appends(t)
  BY ResumeFacts DEF ResumeAdd, Appends
<1> QED
  BY <1>1, <1>2, <1>3, <1>4, <1>5, <1>6, <1>7, <1>8 DEF Resume

(* The rows after it, and who is listed.  *)
LEMMA ListResumed ==
    ASSUME DeskInv, OneAtATime, RowsInv, NEW t \in Taps, Resume(t)
    PROVE  LET x == task[t].obj
           IN  /\ Distinct(categoriesList')
               /\ Removes(t) => /\ ToSet(categoriesList') = ToSet(categoriesList) \ {x}
                                /\ \A k : Listed(k)' <=> Listed(k) /\ k # x.of
               /\ Spares(t) => \A k : Listed(k)' <=> Listed(k)
               /\ Replaces(t) => /\ DOMAIN categoriesList' = DOMAIN categoriesList
                                 /\ \A i \in DOMAIN categoriesList :
                                       categoriesList'[i].of = categoriesList[i].of
                                 /\ \A k : Listed(k)' <=> Listed(k)
                                 /\ \A y \in ToSet(categoriesList') :
                                       y = x \/ (y \in ToSet(categoriesList) /\ y.of # x.of)
               /\ Appends(t) => /\ x.of = t
                                /\ ToSet(categoriesList') = ToSet(categoriesList) \cup {x}
                                /\ \A k : Listed(k)' <=> Listed(k) \/ k = t
<1> USE DEF DeskInv
<1> DEFINE x == task[t].obj
           s == categoriesList
           r == categoriesList'
<1>1. /\ x \in Own /\ HandlerFits(t) /\ task[t].pc \in Started
      /\ Removes(t) \/ Spares(t) \/ Replaces(t) \/ Appends(t)
  BY ResumeMoves
<1>2. s \in Seq(Own) /\ Distinct(s)
  BY DEF OwnTypes, RowsInv
<1>3. IsInjective(s) /\ \A y, z \in ToSet(s) : y.of = z.of => y = z
  BY <1>2, DistinctMembers
<1>4. ASSUME Removes(t)
      PROVE  /\ Distinct(r)
             /\ ToSet(r) = ToSet(s) \ {x}
             /\ \A k : ListedIn(r, k) <=> ListedIn(s, k) /\ k # x.of
  <2>1. r = RemoveFirst(s, x) /\ x \in ToSet(s)
    BY <1>1, <1>4 DEF Removes, HandlerFits
  <2>2. r \in Seq(Own) /\ ToSet(r) = ToSet(s) \ {x} /\ IsInjective(r)
    BY <1>2, <1>3, <2>1, RemoveFacts
  <2>3. Distinct(r)
    BY <1>3, <2>2, DistinctMembers
  <2>4. \A k : ListedIn(r, k) <=> ListedIn(s, k) /\ k # x.of
    BY <1>3, <2>1, <2>2 DEF ListedIn
  <2> QED
    BY <2>2, <2>3, <2>4
<1>5. ASSUME Spares(t) PROVE Distinct(r) /\ \A k : ListedIn(r, k) <=> ListedIn(s, k)
  BY <1>2, <1>5 DEF Spares
<1>6. ASSUME Replaces(t)
      PROVE  /\ DOMAIN r = DOMAIN s
             /\ \A i \in DOMAIN s : r[i].of = s[i].of
             /\ Distinct(r)
             /\ \A k : ListedIn(r, k) <=> ListedIn(s, k)
             /\ \A y \in ToSet(r) : y = x \/ (y \in ToSet(s) /\ y.of # x.of)
  <2> DEFINE n == task[t].place
  <2>1. n \in DOMAIN s /\ s[n].of = x.of /\ r = [s EXCEPT ![n] = x]
    BY <1>1, <1>6 DEF Replaces, HandlerFits
  <2> HIDE DEF s, x, n, r
  <2>2. /\ DOMAIN r = DOMAIN s
        /\ \A i \in DOMAIN s : r[i].of = s[i].of
        /\ \A i \in DOMAIN s : r[i] = IF i = n THEN x ELSE s[i]
    BY <1>2, <2>1
  <2>3. Distinct(r)
    BY <1>2, <2>2 DEF Distinct
  <2>4. \A k : ListedIn(r, k) <=> ListedIn(s, k)
    BY <2>2 DEF ToSet, ListedIn
  <2>5. \A i \in DOMAIN s : i # n => s[i].of # x.of
    BY <1>2, <2>1 DEF Distinct
  <2>6. ASSUME NEW y \in ToSet(r) PROVE y = x \/ (y \in ToSet(s) /\ y.of # x.of)
    <3>1. PICK i \in DOMAIN s : y = r[i]
      BY <2>2 DEF ToSet
    <3>2. s[i] \in ToSet(s)
      BY DEF ToSet
    <3> QED
      BY <2>2, <2>5, <3>1, <3>2
  <2> QED
    BY <2>2, <2>3, <2>4, <2>6
<1>7. ASSUME Appends(t)
      PROVE  /\ x.of = t /\ Distinct(r)
             /\ ToSet(r) = ToSet(s) \cup {x}
             /\ \A k : ListedIn(r, k) <=> ListedIn(s, k) \/ k = t
  <2>1. r = Append(s, x) /\ x.of = t /\ ~Listed(t)
    BY <1>1, <1>7 DEF Appends, HandlerFits, NewOnes
  <2>2. x \notin ToSet(s) /\ \A y \in ToSet(s) : y.of # t
    BY <2>1 DEF Listed, ListedIn
  <2>3. r \in Seq(Own) /\ ToSet(r) = ToSet(s) \cup {x} /\ IsInjective(r)
    BY <1>1, <1>2, <1>3, <2>1, <2>2, AddFacts
  <2>4. \A y, z \in ToSet(r) : y.of = z.of => y = z
    BY <1>3, <2>1, <2>2, <2>3
  <2>5. Distinct(r)
    BY <2>3, <2>4, DistinctMembers
  <2>6. \A k : ListedIn(r, k) <=> ListedIn(s, k) \/ k = t
    BY <2>1, <2>3 DEF ListedIn
  <2> QED
    BY <2>1, <2>3, <2>5, <2>6
<1>8. \A k : (Listed(k) <=> ListedIn(s, k)) /\ (Listed(k)' <=> ListedIn(r, k))
  BY DEF Listed, ListedIn
<1> QED
  BY <1>1, <1>4, <1>5, <1>6, <1>7, <1>8

(* What has ended on a category after it.  *)
LEMMA EndsResumed ==
    ASSUME DeskInv, OneAtATime, DocsInv, RowsInv, NEW t \in Taps, Resume(t), NEW k
    PROVE  LET x == task[t].obj
           IN  /\ \A pcs : pcs \subseteq Ended =>
                     (EndedOn(k, pcs)' <=> EndedOn(k, pcs) \/ (task'[t].pc \in pcs /\ x.of = k))
               /\ \A pcs : pcs \subseteq Started => ~UpdateAt(k, pcs)'
               /\ \A pcs : pcs \subseteq Started =>
                     (UpdateAt(k, pcs) <=> /\ task[t].pc \in pcs /\ task[t].kind = "update"
                                           /\ x.of = k)
               /\ Replaces(t) /\ k \in Categories /\ x.of = k =>
                     /\ storage[k] = t /\ x.image = t /\ t # "first"
                     /\ task[t].pc = "accepted" => docs[k].image = t /\ docs[k].name = x.name
               /\ \A image : (k \in Categories /\ (Replaces(t) => x.of # k))
                                /\ PictureOf(k, image) => PictureOf(k, image)'
               /\ k \in Categories /\ Replaces(t) /\ x.of = k /\ task[t].pc # "accepted"
                     => \A image : PictureOf(k, image)'
<1> USE DEF DeskInv
<1> DEFINE x == task[t].obj
<1>1. /\ task[t].pc \in Live /\ task[t].pc \notin Ended
      /\ task[t].pc \in {"accepted", "refused"}
      /\ task[t].kind \in Kinds /\ x \in Own
      /\ \A u \in Taps \ {t} : task'[u] = task[u] /\ task[u].pc \notin Started
      /\ task'[t].of = x.of
      /\ \A u \in Taps : task'[u].pc \notin Started
      /\ UNCHANGED <<docs, storage, early, home, screen, form>>
      /\ Removes(t) \/ Spares(t) \/ Replaces(t) \/ Appends(t)
  BY ResumeMoves
<1>2. ASSUME NEW pcs, pcs \subseteq Ended
      PROVE  EndedOn(k, pcs)' <=> EndedOn(k, pcs) \/ (task'[t].pc \in pcs /\ x.of = k)
  <2>1. EndedOn(k, pcs)' <=> EndedOn(k, pcs) \/ (task'[t].pc \in pcs /\ task'[t].of = k)
    BY <1>1, <1>2, OneHandler
  <2> QED
    BY <1>1, <2>1
<1>3. \A pcs : pcs \subseteq Started => ~UpdateAt(k, pcs)'
  BY <1>1 DEF UpdateAt
<1>4. ASSUME NEW pcs, pcs \subseteq Started
      PROVE  UpdateAt(k, pcs) <=> task[t].pc \in pcs /\ task[t].kind = "update" /\ x.of = k
  BY <1>1, <1>4, OneHandler
<1>5. UpdateFits(t) /\ t # "first"
  BY <1>1, CategoriesNamed DEF DocsInv
<1>6. ASSUME Replaces(t), k \in Categories, x.of = k
      PROVE  /\ storage[k] = t /\ x.image = t /\ t # "first"
             /\ task[t].pc = "accepted" => docs[k].image = t /\ docs[k].name = x.name
  <2>1. x.id = k
    BY <1>1, <1>6, NameFacts
  <2> QED
    BY <1>1, <1>5, <1>6, <2>1 DEF UpdateFits, Replaces
<1>7. ASSUME NEW image, k \in Categories, Replaces(t) => x.of # k, PictureOf(k, image)
      PROVE  PictureOf(k, image)'
  <2>0. /\ EndedOn(k, {"updated"})' <=>
              EndedOn(k, {"updated"}) \/ (task'[t].pc \in {"updated"} /\ x.of = k)
        /\ {"unsaved", "unlinked"} \subseteq Ended
    BY <1>2, PhaseSets
  <2>1. EndedOn(k, {"updated"})' <=> EndedOn(k, {"updated"})
    BY <1>1, <1>7, <2>0 DEF Removes, Spares, Appends
  <2>2. EndedOn(k, {"unsaved", "unlinked"}) => EndedOn(k, {"unsaved", "unlinked"})'
    BY <1>2, <2>0
  <2> QED
    BY <1>1, <1>7, <2>1, <2>2 DEF PictureOf
<1>8. ASSUME k \in Categories, Replaces(t), x.of = k, task[t].pc # "accepted", NEW image
      PROVE  PictureOf(k, image)'
  <2>1. EndedOn(k, {"unsaved", "unlinked"})'
    BY <1>2, <1>8, PhaseSets DEF Replaces
  <2> QED
    BY <2>1 DEF PictureOf
<1> QED
  BY <1>2, <1>3, <1>4, <1>6, <1>7, <1>8

(* The documents and their pictures through the rest of a handler.  *)
LEMMA DocsResumed ==
    ASSUME DeskInv, OneAtATime, DocsInv, RowsInv, NEW t \in Taps, Resume(t)
    PROVE  DocsInv'
<1> DEFINE x == task[t].obj
<1>1. /\ \A u \in Taps : task'[u].pc \notin Started
      /\ UNCHANGED <<docs, storage>> /\ task[t].pc \in {"accepted", "refused"}
      /\ task[t].kind = "update" => Replaces(t)
  BY ResumeMoves DEF Removes, Spares, Appends
<1>2. ASSUME NEW k \in Categories PROVE PictureOf(k, docs[k].image)'
  <2>1. PictureOf(k, docs[k].image) \/ UpdateAt(k, {"link", "write", "refused"})
    BY DEF DocsInv, DocPictures
  <2>2. CASE Replaces(t) /\ x.of = k /\ task[t].pc = "accepted"
    <3>1. storage[k] = t /\ docs[k].image = t /\ t # "first"
      BY <2>2, EndsResumed
    <3> QED
      BY <1>1, <3>1 DEF PictureOf
  <2>3. CASE Replaces(t) /\ x.of = k /\ task[t].pc # "accepted"
    BY <1>1, <2>3, EndsResumed
  <2>4. CASE Replaces(t) => x.of # k
    <3>1. ~UpdateAt(k, {"link", "write", "refused"})
      BY <1>1, <2>4, EndsResumed, PhaseSets
    <3>2. PictureOf(k, docs[k].image)
      BY <2>1, <3>1
    <3> QED
      BY <1>1, <2>4, <3>2, EndsResumed
  <2> QED
    BY <2>2, <2>3, <2>4
<1> QED
  BY <1>1, <1>2 DEF DocsInv, DocPictures, Started

(* The list through the rest of a handler.  *)
LEMMA RowsResumed ==
    ASSUME DeskInv, OneAtATime, DocsInv, RowsInv, NEW t \in Taps, Resume(t)
    PROVE  RowsInv'
<1> USE DEF DeskInv
<1> DEFINE x == task[t].obj
           R == {"link", "write", "accepted", "refused"}
<1>1. /\ task[t].pc \in {"accepted", "refused"} /\ task[t].pc \in Live
      /\ x \in Own /\ HandlerFits(t)
      /\ \A u \in Taps : task'[u].pc \notin Started
      /\ UNCHANGED <<docs, storage, screen, form>>
      /\ Removes(t) \/ Spares(t) \/ Replaces(t) \/ Appends(t)
  BY ResumeMoves
<1>2. \A u \in Taps : task'[u].pc \notin Live
  BY <1>1 DEF Started
<1>3. Distinct(categoriesList)'
  BY ListResumed DEF Distinct
<1>4. ListedExist'
  <2>1. \A y \in ToSet(categoriesList) : docs[y.of].state # "none"
    BY DEF RowsInv, ListedExist
  <2>2. CASE Removes(t)
    BY <1>1, <2>1, <2>2, ListResumed DEF ListedExist
  <2>3. CASE Spares(t)
    BY <1>1, <2>1, <2>3 DEF ListedExist, Spares
  <2>4. CASE Replaces(t)
    <3>1. task[t].place \in DOMAIN categoriesList /\ categoriesList[task[t].place].of = x.of
      BY <1>1, <2>4 DEF Replaces, HandlerFits
    <3>2. docs[x.of].state # "none"
      BY <2>1, <3>1 DEF ToSet
    <3>3. \A y \in ToSet(categoriesList') : y = x \/ y \in ToSet(categoriesList)
      BY <2>4, ListResumed
    <3> QED
      BY <1>1, <2>1, <3>2, <3>3 DEF ListedExist
  <2>5. CASE Appends(t)
    <3>1. docs[x.of].state # "none"
      <4>1. x.of = t
        BY <2>5, ListResumed
      <4> QED
        BY <1>1, <2>5, <4>1 DEF Appends, HandlerFits
    <3>2. \A y \in ToSet(categoriesList') : y = x \/ y \in ToSet(categoriesList)
      BY <2>5, ListResumed
    <3> QED
      BY <1>1, <2>1, <3>1, <3>2 DEF ListedExist
  <2> QED
    BY <1>1, <2>2, <2>3, <2>4, <2>5
<1>5. ASSUME NEW y \in ToSet(categoriesList'), y.of \in Categories PROVE PictureOf(y.of, y.image)'
  <2>1. CASE Replaces(t) /\ y = x
    <3>1. storage[y.of] = t /\ y.image = t /\ t # "first"
      BY <1>5, <2>1, EndsResumed
    <3> QED
      BY <1>1, <3>1 DEF PictureOf
  <2>2. CASE ~(Replaces(t) /\ y = x)
    <3>1. y \in ToSet(categoriesList) /\ (Replaces(t) => x.of # y.of)
      <4>1. Appends(t) => x.of \notin Categories
        BY ListResumed, CategoriesNamed
      <4>2. Removes(t) => y \in ToSet(categoriesList) /\ ~Replaces(t)
        BY <1>5, ListResumed DEF Removes, Replaces
      <4>3. Spares(t) => y \in ToSet(categoriesList) /\ ~Replaces(t)
        BY <1>5 DEF Spares, Replaces
      <4>4. Replaces(t) => y \in ToSet(categoriesList) /\ x.of # y.of
        BY <1>5, <2>2, ListResumed
      <4>5. Appends(t) => y \in ToSet(categoriesList) /\ ~Replaces(t)
        <5>1. Appends(t) => y = x \/ y \in ToSet(categoriesList)
          BY <1>5, ListResumed
        <5> QED
          BY <1>5, <4>1, <5>1 DEF Appends, Replaces
      <4> QED
        BY <1>1, <4>2, <4>3, <4>4, <4>5
    <3>2. PictureOf(y.of, y.image) \/ UpdateAt(y.of, R)
      BY <1>5, <3>1 DEF RowsInv, RowPictures
    <3>3. ~UpdateAt(y.of, R)
      <4>1. task[t].kind = "update" => Replaces(t)
        BY <1>1 DEF Removes, Spares, Appends
      <4>2. UpdateAt(y.of, R) => task[t].kind = "update" /\ x.of = y.of
        <5>1. R \subseteq Started
          BY PhaseSets
        <5> HIDE DEF R
        <5> QED
          BY <5>1, EndsResumed
      <4> QED
        BY <3>1, <4>1, <4>2
    <3> QED
      BY <1>5, <3>1, <3>2, <3>3, EndsResumed
  <2> QED
    BY <2>1, <2>2
<1>6. RowPictures'
  BY <1>5 DEF RowPictures
<1>7. FormFits'
  <2> SUFFICES ASSUME screen = "Edit"
               PROVE  /\ form.index \in DOMAIN categoriesList'
                      /\ categoriesList'[form.index].of = form.obj.of
    BY <1>1, <1>2 DEF FormFits
  <2>1. /\ form.index \in DOMAIN categoriesList /\ categoriesList[form.index].of = form.obj.of
        /\ task[t].kind = "update"
    BY <1>1 DEF RowsInv, FormFits
  <2>2. Replaces(t)
    BY <1>1, <2>1 DEF Removes, Spares, Appends
  <2> QED
    BY <2>1, <2>2, ListResumed
<1> QED
  BY <1>2, <1>3, <1>4, <1>6, <1>7 DEF RowsInv

(* Which categories are listed then, and under which name.  *)
LEMMA MirrorResumed ==
    ASSUME DeskInv, OneAtATime, DocsInv, RowsInv, MirrorInv, NEW t \in Taps, Resume(t)
    PROVE  MirrorInv'
<1> USE DEF DeskInv
<1> DEFINE x == task[t].obj
<1>1. /\ task[t].pc \in {"accepted", "refused"} /\ task[t].pc \in Live
      /\ x \in Own /\ HandlerFits(t)
      /\ \A u \in Taps \ {t} : task'[u] = task[u] /\ task[u].pc \notin Started
      /\ \A u \in Taps : task'[u].pc \notin Started
      /\ UNCHANGED <<docs, storage>>
      /\ Removes(t) \/ Spares(t) \/ Replaces(t) \/ Appends(t)
  BY ResumeMoves
<1>2. \A u \in Taps : task'[u].pc # "accepted" /\ (task[u].pc = "accepted" => u = t)
  BY <1>1, PhaseFacts
<1>3. x.of \in Keys
  BY <1>1, NameFacts
<1>4. ASSUME NEW k \in Categories PROVE docs[k].state = "stored" <=> Listed(k)'
  <2>1. docs[k].state = "stored" <=>
           Listed(k) /\ ~(task[t].pc = "accepted" /\ task[t].kind = "delete" /\ x.of = k)
    BY <1>2 DEF MirrorInv, StoredListed
  <2>2. CASE Removes(t)
    <3>1. Listed(k)' <=> Listed(k) /\ k # x.of
      BY <2>2, ListResumed
    <3> QED
      BY <2>1, <2>2, <3>1 DEF Removes
  <2>3. CASE Spares(t) \/ Replaces(t)
    <3>1. Listed(k)' <=> Listed(k)
      BY <2>3, ListResumed
    <3> QED
      BY <2>1, <2>3, <3>1 DEF Spares, Replaces
  <2>4. CASE Appends(t)
    <3>1. (Listed(k)' <=> Listed(k) \/ k = t) /\ k # t
      BY <2>4, ListResumed, CategoriesNamed
    <3> QED
      BY <2>1, <2>4, <3>1 DEF Appends
  <2> QED
    BY <1>1, <2>2, <2>3, <2>4
<1>5. ASSUME NEW k \in Taps, docs[k].state = "stored"
      PROVE  Listed(k)' \/ EndedOn(k, {"deleted"})'
  <2>1. \/ Listed(k) \/ EndedOn(k, {"deleted"})
        \/ k = t /\ task[t].kind = "add"
    BY <1>2, <1>5 DEF MirrorInv, AddedListed
  <2>2. EndedOn(k, {"deleted"})' <=>
           EndedOn(k, {"deleted"}) \/ (task'[t].pc \in {"deleted"} /\ x.of = k)
    BY EndsResumed, PhaseSets
  <2>3. CASE Removes(t)
    <3>1. Listed(k)' <=> Listed(k) /\ k # x.of
      BY <2>3, ListResumed
    <3> QED
      BY <2>1, <2>2, <2>3, <3>1 DEF Removes
  <2>4. CASE Spares(t) \/ Replaces(t)
    <3>1. Listed(k)' <=> Listed(k)
      BY <2>4, ListResumed
    <3> QED
      BY <2>1, <2>2, <2>4, <3>1 DEF Spares, Replaces
  <2>5. CASE Appends(t)
    <3>1. Listed(k)' <=> Listed(k) \/ k = t
      BY <2>5, ListResumed
    <3> QED
      BY <2>1, <2>2, <3>1
  <2> QED
    BY <1>1, <2>3, <2>4, <2>5
<1>6. ASSUME NEW y \in ToSet(categoriesList')
      PROVE  y.name = docs[y.of].name \/ EndedOn(y.of, {"unsaved"})'
  <2>1. EndedOn(y.of, {"unsaved"})' <=>
           EndedOn(y.of, {"unsaved"}) \/ (task'[t].pc \in {"unsaved"} /\ x.of = y.of)
    BY EndsResumed, PhaseSets
  <2>2. CASE Replaces(t) /\ y = x
    <3>1. task[t].pc = "accepted" => docs[x.of].name = x.name
      BY <1>1, <2>2 DEF DocsInv, UpdateFits, Replaces
    <3> QED
      BY <2>1, <2>2, <3>1 DEF Replaces
  <2>3. CASE Appends(t) /\ y = x
    <3>1. x.of = t
      BY <2>3, ListResumed
    <3> QED
      BY <1>1, <2>3, <3>1 DEF Appends, HandlerFits
  <2>4. CASE ~((Replaces(t) \/ Appends(t)) /\ y = x)
    <3>1. y \in ToSet(categoriesList) /\ (Replaces(t) => y.of # x.of)
      <4>1. Removes(t) => y \in ToSet(categoriesList) /\ ~Replaces(t)
        BY <1>6, ListResumed DEF Removes, Replaces
      <4>2. Spares(t) => y \in ToSet(categoriesList) /\ ~Replaces(t)
        BY <1>6 DEF Spares, Replaces
      <4>3. Replaces(t) => y \in ToSet(categoriesList) /\ x.of # y.of
        BY <1>6, <2>4, ListResumed
      <4>4. Appends(t) => y \in ToSet(categoriesList) /\ ~Replaces(t)
        <5>1. Appends(t) => y = x \/ y \in ToSet(categoriesList)
          BY <1>6, ListResumed
        <5> QED
          BY <2>4, <5>1 DEF Appends, Replaces
      <4> QED
        BY <1>1, <4>1, <4>2, <4>3, <4>4
    <3>2. y.name = docs[y.of].name \/ EndedOn(y.of, {"unsaved"}) \/ UpdateAt(y.of, {"accepted"})
      BY <3>1 DEF MirrorInv, NamesFit
    <3>3. ~UpdateAt(y.of, {"accepted"})
      <4>1. task[t].kind = "update" => Replaces(t)
        BY <1>1 DEF Removes, Spares, Appends
      <4>2. UpdateAt(y.of, {"accepted"}) => task[t].kind = "update" /\ x.of = y.of
        BY EndsResumed, PhaseSets
      <4> QED
        BY <3>1, <4>1, <4>2
    <3> QED
      BY <2>1, <3>2, <3>3
  <2> QED
    BY <2>2, <2>3, <2>4
<1>7. StoredListed'
  BY <1>1, <1>2, <1>4 DEF StoredListed
<1>8. AddedListed'
  BY <1>1, <1>5 DEF AddedListed
<1>9. NamesFit'
  BY <1>1, <1>6 DEF NamesFit
<1> QED
  BY <1>7, <1>8, <1>9 DEF MirrorInv

(* A press on a page that shows the list, while nothing runs.  *)
LEMMA Pressed ==
    ASSUME DeskInv, Quiet, PageIsFresh, DocsInv, NEW t \in Taps, Press(t)
    PROVE  /\ DocsInv'
           /\ RowsInv => RowsInv'
           /\ MirrorInv => MirrorInv'
<1> USE DEF DeskInv
<1>1. /\ task[t] = Unused /\ task[t].pc = "unused"
      /\ task'[t].pc \in {"upload", "write"}
      /\ \A u \in Taps \ {t} : task'[u] = task[u]
      /\ UNCHANGED <<docs, storage, categoriesList, screen, form>>
      /\ task'[t].kind \in {"delete", "update", "add"}
      /\ task'[t].kind = "delete" => task'[t].pc = "write"
      /\ task'[t].kind = "update" => task'[t].pc = "upload"
  BY PressFacts DEF Unused
<1>2. \A u \in Taps : task[u].pc \notin Live
  BY DEF Quiet, Idle
<1>3. \A k : Listed(k)' <=> Listed(k)
  BY <1>1 DEF Listed, ListedIn
<1>4. \A k, pcs : pcs \subseteq Ended => (EndedOn(k, pcs)' <=> EndedOn(k, pcs))
  <2>1. task[t].pc \notin Ended /\ task'[t].pc \notin Ended
    BY <1>1, PhaseFacts
  <2> QED
    BY <1>1, <2>1 DEF EndedOn
<1>5. \A k, pcs : pcs \subseteq Live => ~UpdateAt(k, pcs)
  BY <1>2 DEF UpdateAt
<1>6. \A k, image : PictureOf(k, image) => PictureOf(k, image)'
  <2>1. \A k : /\ EndedOn(k, {"updated"})' <=> EndedOn(k, {"updated"})
               /\ EndedOn(k, {"unsaved", "unlinked"})' <=> EndedOn(k, {"unsaved", "unlinked"})
    BY <1>4, PhaseSets
  <2> QED
    BY <1>1, <2>1 DEF PictureOf
<1>7. DocsInv'
  <2>1. \A k \in Categories : PictureOf(k, docs[k].image)
    BY <1>5, PhaseFacts DEF DocsInv, DocPictures
  <2>2. UpdateFits(t)'
    BY <1>1 DEF UpdateFits
  <2> QED
    BY <1>1, <1>2, <1>6, <2>1, <2>2 DEF DocsInv, DocPictures
<1>8. ASSUME RowsInv PROVE RowsInv'
  <2>1. Distinct(categoriesList)' /\ ListedExist'
    BY <1>1, <1>8 DEF RowsInv, Distinct, ListedExist
  <2>2. RowPictures'
    <3>1. \A y \in ToSet(categoriesList) : y.of \in Categories => PictureOf(y.of, y.image)
      BY <1>5, <1>8, PhaseFacts DEF RowsInv, RowPictures
    <3> QED
      BY <1>1, <1>6, <3>1 DEF RowPictures
  <2>3. HandlerFits(t)'
    <3>1. CASE task'[t].kind = "delete"
      <4>1. PICK i \in DOMAIN cards : task'[t].obj = cards[i].obj
        BY <3>1, PressFacts
      <4>2. i \in DOMAIN categoriesList /\ cards[i].obj = categoriesList[i]
        BY DEF PageIsFresh, OwnTypes, OwnCards
      <4> QED
        BY <1>1, <3>1, <4>1, <4>2 DEF HandlerFits, ToSet
    <3>2. CASE task'[t].kind = "update"
      BY <1>1, <1>8, <3>2, PressFacts DEF HandlerFits, RowsInv, FormFits
    <3>3. CASE task'[t].kind = "add"
      <4>1. docs[t].state = "none"
        BY <1>1 DEF NewOnes
      <4>2. ~Listed(t)
        BY <1>8, <4>1 DEF Listed, ListedIn, RowsInv, ListedExist
      <4> QED
        BY <1>1, <1>3, <3>3, <4>2 DEF HandlerFits
    <3> QED
      BY <1>1, <3>1, <3>2, <3>3
  <2>4. FormFits'
    <3>1. screen = "Edit" => task'[t].kind = "update"
      BY PressFacts
    <3> QED
      BY <1>1, <1>2, <1>8, <3>1 DEF RowsInv, FormFits
  <2> QED
    BY <1>1, <1>2, <2>1, <2>2, <2>3, <2>4 DEF RowsInv
<1>9. ASSUME MirrorInv PROVE MirrorInv'
  <2>1. StoredListed'
    BY <1>1, <1>2, <1>3, <1>9, PhaseFacts DEF MirrorInv, StoredListed
  <2>2. AddedListed'
    <3>1. \A k : EndedOn(k, {"deleted"})' <=> EndedOn(k, {"deleted"})
      BY <1>4, PhaseSets
    <3> QED
      BY <1>1, <1>2, <1>3, <1>9, <3>1, PhaseFacts DEF MirrorInv, AddedListed
  <2>3. NamesFit'
    <3>1. \A k : EndedOn(k, {"unsaved"})' <=> EndedOn(k, {"unsaved"})
      BY <1>4, PhaseSets
    <3>2. \A k : ~UpdateAt(k, {"accepted"})
      BY <1>5, PhaseFacts
    <3> QED
      BY <1>1, <1>9, <3>1, <3>2 DEF MirrorInv, NamesFit
  <2> QED
    BY <2>1, <2>2, <2>3 DEF MirrorInv
<1> QED
  BY <1>7, <1>8, <1>9

(* Before the dashboard's query is back nothing runs, through every step.  *)
LEMMA BeforeHomeStep ==
    ASSUME DeskInv, BeforeHome, [Next]_vars PROVE BeforeHome'
<1> USE DEF DeskInv
<1> SUFFICES ASSUME home'.phase \notin {"done", "lost"}
             PROVE  Idle' /\ screen' = "Home" /\ cards' = << >> /\ ~dirty'
  BY DEF BeforeHome
<1>1. CASE Restart
  BY <1>1, KilledFacts DEF Restart, Idle
<1>2. CASE home.phase \in {"done", "lost"}
  <2>1. \A t \in Taps : Serve(t) => home' = home
    BY DEF Serve, PutFile, GetDownloadURL, UploadFails, DeleteSingleCategories,
           UpdateSingleCategories, AddSingleCategories, Refuse, Writes, loads
  <2>2. \A t \in Taps : Resume(t) => home' = home
    BY ResumeFacts
  <2>3. \A t \in Taps : Press(t) => home' = home
    BY PressFacts
  <2> QED
    BY <1>1, <1>2, <2>1, <2>2, <2>3
    DEF Next, Ongoing, Loading, AnswerEarly, ArriveEarly, AnswerHome, ArriveHome, HomeFails,
        OpenCategoriesView, LeaveCategoriesView, Rebuild, OpenAddCategory, LeaveForm, TapEdit,
        vars, desk, loads
<1>3. CASE home.phase \notin {"done", "lost"}
  <2>1. /\ \A t \in Taps : task[t].pc \notin Live
        /\ screen = "Home" /\ cards = << >> /\ ~dirty
    BY <1>3 DEF BeforeHome, Idle
  <2>2. CASE Loading \/ UNCHANGED vars
    BY <2>1, <2>2 DEF Loading, AnswerEarly, ArriveEarly, AnswerHome, ArriveHome, HomeFails,
                      Idle, vars, desk, pages
  <2>3. ASSUME NEW t \in Taps, Serve(t)
        PROVE  Idle' /\ screen' = "Home" /\ cards' = << >> /\ ~dirty'
    <3>1. task[t].pc = "stray" /\ UNCHANGED pages /\ IsWrite(t)
      BY <2>1, <2>3, PhaseFacts
      DEF Serve, PutFile, GetDownloadURL, UploadFails, DeleteSingleCategories,
          UpdateSingleCategories, AddSingleCategories, Refuse, Writes, IsWrite
    <3>2. task'[t].pc = "dead"
      BY <2>3, <3>1, ServeFacts DEF Ends
    <3>3. \A u \in Taps \ {t} : task'[u] = task[u]
      BY <2>3, ServeFacts
    <3> QED
      BY <2>1, <3>1, <3>2, <3>3, PhaseFacts DEF Idle, pages
  <2>4. \A t \in Taps : ~Resume(t)
    BY <2>1, ResumeFacts, PhaseFacts
  <2>5. \A t \in Taps : ~Press(t)
    BY <2>1, PressFacts
  <2>6. ~(OpenCategoriesView \/ LeaveCategoriesView \/ Rebuild \/ OpenAddCategory \/ LeaveForm
            \/ \E i \in DOMAIN cards : TapEdit(i))
    BY <1>3, <2>1 DEF OpenCategoriesView, LeaveCategoriesView, Rebuild, OpenAddCategory,
                      LeaveForm, TapEdit
  <2> QED
    BY <1>1, <2>2, <2>3, <2>4, <2>5, <2>6 DEF Next, Ongoing
<1> QED
  BY <1>2, <1>3

(* While a handler runs both queries are back.  *)
LEMMA LiveArrived ==
    ASSUME BeforeHome, BeforeEarly, NEW t \in Taps, task[t].pc \in Live PROVE Arrived
BY DEF BeforeHome, BeforeEarly, Idle, Arrived

(* A query that is answered has the documents of now.  *)
LEMMA AnswerMirrors ==
    ASSUME OwnTypes, NEW by \in {"early", "home"} PROVE Mirror(Answer(by))
<1>1. Distinct(Answer(by))
  BY AnswerFacts, DistinctMembers
<1> QED
  BY <1>1, AnswerFacts DEF Mirror, ListedIn

(* The steps of the two queries.  *)
LEMMA LoadingKeeps ==
    ASSUME DeskInv, DeskInv', BeforeHome, Orderly, Loading PROVE Orderly'
<1> USE DEF DeskInv
<1>1. UNCHANGED <<docs, storage, task, screen, form>>
  BY DEF Loading, AnswerEarly, ArriveEarly, AnswerHome, ArriveHome, HomeFails, pages
<1>2. OneAtATime' /\ DocsInv'
  <2>1. \A t \in Taps : task'[t] = task[t]
    BY <1>1
  <2>2. OneAtATime'
    BY <1>1 DEF Orderly, OneAtATime
  <2>3. \A k : /\ EndedOn(k, {"updated"})' <=> EndedOn(k, {"updated"})
               /\ EndedOn(k, {"unsaved", "unlinked"})' <=> EndedOn(k, {"unsaved", "unlinked"})
               /\ UpdateAt(k, {"link", "write", "refused"})'
                     <=> UpdateAt(k, {"link", "write", "refused"})
    BY <1>1 DEF EndedOn, UpdateAt
  <2>4. DocPictures'
    BY <1>1, <2>3 DEF Orderly, DocsInv, DocPictures, PictureOf
  <2>5. \A t \in Taps : task'[t].pc \in Live => UpdateFits(t)'
    BY <1>1 DEF Orderly, DocsInv, UpdateFits
  <2> QED
    BY <2>2, <2>4, <2>5 DEF DocsInv
<1>4. /\ early' = early => QueryFresh(early)'
      /\ home' = home => QueryFresh(home)'
  BY <1>1 DEF Orderly, QueryFresh, Mirror, Distinct, ListedIn
<1>5. \A p \in {"done", "lost", "failed"} : AtQuery(p).phase = p
  BY DEF AtQuery
<1>6. AtQuery("erred").phase = "erred" /\ AtQuery("erred").rows = << >>
  BY DEF AtQuery
<1>7. categoriesList' \in Seq(Own) /\ DocPictures
  BY DEF OwnTypes, Orderly, DocsInv
<1>8. CASE AnswerEarly
  <2>1. early.phase = "asked" /\ home' = home /\ early'.phase \in {"answered", "erred"}
    BY <1>6, <1>8 DEF AnswerEarly
  <2>2. \/ early'.phase = "answered" /\ early'.rows = Answer("early")
        \/ early'.phase = "erred" /\ early'.rows = << >>
    BY <1>6, <1>8 DEF AnswerEarly
  <2>3. QueryFresh(early)'
    <3>1. CASE early'.phase = "answered" /\ early'.rows = Answer("early")
      <4>1. Mirror(early'.rows)
        BY <3>1, AnswerMirrors
      <4> QED
        BY <1>1, <3>1, <4>1 DEF QueryFresh, Mirror
    <3>2. CASE early'.phase = "erred" /\ early'.rows = << >>
      BY <3>2 DEF QueryFresh
    <3> QED
      BY <2>2, <3>1, <3>2
  <2>4. BeforeEarly' /\ ~Arrived' /\ early'.phase # "done"
    BY <1>1, <2>1 DEF Orderly, BeforeEarly, Idle, Arrived
  <2> QED
    BY <1>2, <1>4, <2>1, <2>3, <2>4 DEF Orderly
<1>9. CASE AnswerHome
  <2>1. home.phase = "asked" /\ early' = early /\ home'.phase \in {"answered", "erred"}
    BY <1>6, <1>9 DEF AnswerHome
  <2>2. \/ home'.phase = "answered" /\ home'.rows = Answer("home")
        \/ home'.phase = "erred" /\ home'.rows = << >>
    BY <1>6, <1>9 DEF AnswerHome
  <2>3. QueryFresh(home)'
    <3>1. CASE home'.phase = "answered" /\ home'.rows = Answer("home")
      <4>1. Mirror(home'.rows)
        BY <3>1, AnswerMirrors
      <4> QED
        BY <1>1, <3>1, <4>1 DEF QueryFresh, Mirror
    <3>2. CASE home'.phase = "erred" /\ home'.rows = << >>
      BY <3>2 DEF QueryFresh
    <3> QED
      BY <2>2, <3>1, <3>2
  <2>4. BeforeEarly' /\ ~Arrived' /\ home'.phase # "done"
    BY <1>1, <2>1 DEF Orderly, BeforeEarly, Idle, Arrived
  <2> QED
    BY <1>2, <1>4, <2>1, <2>3, <2>4 DEF Orderly
<1>10. CASE HomeFails
  <2>1. early' = early /\ home'.phase = "failed"
    BY <1>5, <1>10 DEF HomeFails
  <2>2. BeforeEarly' /\ ~Arrived' /\ home'.phase # "done" /\ QueryFresh(home)'
    BY <1>1, <2>1 DEF Orderly, BeforeEarly, Idle, Arrived, QueryFresh
  <2> QED
    BY <1>2, <1>4, <2>1, <2>2 DEF Orderly
<1>11. CASE ArriveEarly
  <2>1. /\ early.phase \in {"answered", "erred"} /\ home' = home
        /\ categoriesList' = early.rows
        /\ early'.phase = IF early.phase = "answered" THEN "done" ELSE "lost"
    BY <1>5, <1>11 DEF ArriveEarly
  <2>2. Idle /\ screen' # "Edit"
    BY <1>1, <2>1 DEF Orderly, BeforeEarly
  <2>3. /\ early.phase = "answered" => Mirror(categoriesList')
        /\ early.phase = "erred" => categoriesList' = << >>
    BY <2>1 DEF Orderly, QueryFresh
  <2>4. RowsInv' /\ (early'.phase = "done" => MirrorInv')
    BY <1>1, <1>7, <2>1, <2>2, <2>3, RowsLanded
  <2>5. BeforeEarly' /\ QueryFresh(early)'
    BY <2>1 DEF BeforeEarly, QueryFresh
  <2> QED
    BY <1>2, <1>4, <2>1, <2>4, <2>5 DEF Orderly
<1>12. CASE ArriveHome
  <2>1. /\ home.phase \in {"answered", "erred"} /\ early' = early
        /\ categoriesList' = home.rows
        /\ home'.phase = IF home.phase = "answered" THEN "done" ELSE "lost"
    BY <1>5, <1>12 DEF ArriveHome
  <2>2. Idle /\ screen' # "Edit"
    BY <1>1, <2>1 DEF BeforeHome
  <2>3. /\ home.phase = "answered" => Mirror(categoriesList')
        /\ home.phase = "erred" => categoriesList' = << >>
    BY <2>1 DEF Orderly, QueryFresh
  <2>4. RowsInv' /\ (home'.phase = "done" => MirrorInv')
    BY <1>1, <1>7, <2>1, <2>2, <2>3, RowsLanded
  <2>5. BeforeEarly' /\ QueryFresh(home)'
    BY <1>1, <2>1, <2>2 DEF BeforeEarly, QueryFresh, Idle
  <2> QED
    BY <1>2, <1>4, <2>1, <2>4, <2>5 DEF Orderly
<1> QED
  BY <1>8, <1>9, <1>10, <1>11, <1>12 DEF Loading

(* Every step of a careful admin keeps one handler, and a list, documents  *)
(* and pictures that fit.                                                  *)
LEMMA CarefulStep ==
    ASSUME DeskInv, DeskInv', CarefulInv, [Next]_vars PROVE CarefulInv'
<1> USE DEF DeskInv
<1>1. BeforeHome' /\ BeforeHome
  BY BeforeHomeStep DEF CarefulInv
<1>2. SUFFICES ASSUME ~rushed' PROVE Orderly'
  BY <1>1 DEF CarefulInv
<1>3. ~rushed
  BY <1>2 DEF Next, vars, OwnTypes
<1>4. Orderly
  BY <1>3 DEF CarefulInv
<1>5. ASSUME NEW t \in Taps, task[t].pc \in Live, UNCHANGED <<early, home>>, OneAtATime', DocsInv',
             RowsInv', MirrorInv => MirrorInv'
      PROVE  Orderly'
  <2>1. Arrived
    BY <1>1, <1>4, <1>5, LiveArrived DEF Orderly
  <2> QED
    BY <1>4, <1>5, <2>1 DEF Orderly, Arrived, BeforeEarly, QueryFresh
<1>6. ASSUME NEW t \in Taps, Serve(t) PROVE Orderly'
  <2>1. /\ task[t].pc \in Live
        /\ \A u \in Taps \ {t} : task'[u] = task[u] /\ task[u].pc \notin Started
        /\ UNCHANGED <<early, home>>
        /\ \/ ToLink(t) \/ ToWrite(t) \/ ToFailed(t)
           \/ ToUnlinked(t) \/ ToAccepted(t) \/ ToRefused(t)
    BY <1>4, <1>6, ServeMoves DEF Orderly
  <2>2. task'[t].pc # "stray"
    BY <2>1 DEF ToLink, ToWrite, ToFailed, ToUnlinked, ToAccepted, ToRefused, Goes, Ends
  <2>3. OneAtATime'
    BY <1>4, <2>1, <2>2 DEF Orderly, OneAtATime
  <2>4. OneAtATime /\ DocsInv /\ RowsInv
    BY <1>1, <1>4, <2>1, LiveArrived DEF Orderly
  <2>5. DocsInv' /\ RowsInv' /\ (MirrorInv => MirrorInv')
    BY <1>6, <2>4, DocsServed, RowsServed, MirrorServed
  <2> QED
    BY <1>5, <2>1, <2>3, <2>5
<1>7. ASSUME NEW t \in Taps, Resume(t) PROVE Orderly'
  <2>1. /\ task[t].pc \in Live
        /\ \A u \in Taps \ {t} : task'[u] = task[u]
        /\ task'[t].pc # "stray"
        /\ UNCHANGED <<early, home>>
    BY <1>7, ResumeFacts, PhaseFacts
  <2>2. OneAtATime'
    BY <1>4, <2>1 DEF Orderly, OneAtATime
  <2>3. OneAtATime /\ DocsInv /\ RowsInv
    BY <1>1, <1>4, <2>1, LiveArrived DEF Orderly
  <2>4. DocsInv' /\ RowsInv' /\ (MirrorInv => MirrorInv')
    BY <1>7, <2>3, DocsResumed, RowsResumed, MirrorResumed
  <2> QED
    BY <1>5, <2>1, <2>2, <2>4
<1>8. ASSUME NEW t \in Taps, Press(t), Quiet, PageIsFresh PROVE Orderly'
  <2>1. /\ \A u \in Taps \ {t} : task'[u] = task[u]
        /\ task'[t].pc # "stray" /\ screen # "Home"
        /\ UNCHANGED <<early, home>>
    BY <1>8, PressFacts
  <2>2. Arrived
    BY <1>1, <1>8, <2>1 DEF BeforeHome, Quiet, Arrived
  <2>3. OneAtATime'
    BY <1>4, <1>8, <2>1 DEF Orderly, OneAtATime, Quiet, Idle
  <2>4. DocsInv' /\ RowsInv' /\ (MirrorInv => MirrorInv')
    BY <1>4, <1>8, <2>2, Pressed DEF Orderly
  <2> QED
    BY <1>4, <2>1, <2>2, <2>3, <2>4 DEF Orderly, Arrived, BeforeEarly, QueryFresh
<1>9. ASSUME UNCHANGED <<docs, storage, categoriesList, early, home>>, \A t \in Taps : Keeps(t),
             Arrived => (RowsInv => FormFits'),
             early.phase \notin {"done", "lost"} => screen' # "Edit"
      PROVE  Orderly'
  <2>1. OneAtATime'
    BY <1>4, <1>9 DEF Orderly, OneAtATime, Keeps
  <2>2. BeforeEarly'
    BY <1>4, <1>9 DEF Orderly, BeforeEarly, Idle, Keeps
  <2>3. QueryFresh(early)' /\ QueryFresh(home)'
    BY <1>4, <1>9 DEF Orderly, QueryFresh, Mirror
  <2>4. DocsInv' /\ (Arrived' => RowsInv')
           /\ (early'.phase = "done" /\ home'.phase = "done" => MirrorInv')
    BY <1>4, <1>9, RowsUnmoved DEF Orderly, Arrived
  <2> QED
    BY <2>1, <2>2, <2>3, <2>4 DEF Orderly
<1>10. ASSUME NEW i \in DOMAIN cards, TapEdit(i), Quiet, PageIsFresh PROVE Orderly'
  <2>1. /\ UNCHANGED <<docs, storage, categoriesList, early, home, task>>
        /\ form' = [index |-> i, obj |-> cards[i].obj]
    BY <1>10 DEF TapEdit, loads
  <2>2. i \in DOMAIN categoriesList /\ cards[i].obj = categoriesList[i]
    BY <1>10 DEF PageIsFresh, OwnTypes, OwnCards
  <2>3. FormFits'
    BY <1>10, <2>1, <2>2 DEF FormFits, Quiet, Idle
  <2>4. \A t \in Taps : Keeps(t)
    BY <2>1 DEF Keeps
  <2> QED
    BY <1>9, <1>10, <2>1, <2>3, <2>4 DEF Quiet
<1>11. CASE Restart /\ Idle
  <2>1. \A t \in Taps : task'[t] = task[t]
    BY <1>11, KilledFacts DEF Idle
  <2>2. /\ UNCHANGED <<docs, storage>> /\ screen' = "Home"
        /\ early'.phase = "asked" /\ home'.phase = "asked"
    BY <1>11 DEF Restart, Asking
  <2>3. OneAtATime' /\ BeforeEarly'
    BY <1>4, <1>11, <2>1, <2>2 DEF Orderly, OneAtATime, BeforeEarly, Idle
  <2>4. QueryFresh(early)' /\ QueryFresh(home)' /\ ~Arrived'
    BY <2>2 DEF QueryFresh, Arrived
  <2>5. DocsInv'
    <3>1. \A k : /\ EndedOn(k, {"updated"})' <=> EndedOn(k, {"updated"})
                 /\ EndedOn(k, {"unsaved", "unlinked"})' <=> EndedOn(k, {"unsaved", "unlinked"})
                 /\ UpdateAt(k, {"link", "write", "refused"})'
                       <=> UpdateAt(k, {"link", "write", "refused"})
      BY <2>1 DEF EndedOn, UpdateAt
    <3>2. DocPictures'
      BY <1>4, <2>2, <3>1 DEF Orderly, DocsInv, DocPictures, PictureOf
    <3> QED
      BY <1>11, <2>1, <3>2 DEF DocsInv, Idle
  <2> QED
    BY <2>2, <2>3, <2>4, <2>5 DEF Orderly
<1>12. ASSUME UNCHANGED <<docs, storage, categoriesList, early, home>>, \A t \in Taps : Keeps(t),
              screen' = "Edit" => screen = "Edit" /\ UNCHANGED form
       PROVE  Orderly'
  <2>1. \A t \in Taps : task'[t].pc \in Live => task[t].pc \in Live /\ task'[t].kind = task[t].kind
    BY <1>12 DEF Keeps, Started
  <2>2. RowsInv => FormFits'
    BY <1>12, <2>1 DEF RowsInv, FormFits
  <2>3. early.phase \notin {"done", "lost"} => screen' # "Edit"
    BY <1>4, <1>12 DEF Orderly, BeforeEarly
  <2> QED
    BY <1>9, <1>12, <2>2, <2>3
<1>13. CASE LeaveCategoriesView \/ Rebuild
  <2>1. \A t \in Taps : Keeps(t)
    BY <1>13, DisposeFacts DEF Keeps
  <2>2. /\ UNCHANGED <<docs, storage, categoriesList, early, home>>
        /\ screen' = "Edit" => screen = "Edit" /\ UNCHANGED form
    BY <1>13 DEF LeaveCategoriesView, Rebuild, loads
  <2> QED
    BY <1>12, <2>1, <2>2
<1>14. CASE OpenCategoriesView \/ OpenAddCategory \/ LeaveForm \/ UNCHANGED vars
  <2>1. /\ UNCHANGED <<docs, storage, categoriesList, early, home, task>>
        /\ screen' = "Edit" => screen = "Edit" /\ UNCHANGED form
    BY <1>14 DEF OpenCategoriesView, OpenAddCategory, LeaveForm, vars, desk, loads, pages
  <2>2. \A t \in Taps : Keeps(t)
    BY <2>1 DEF Keeps
  <2> QED
    BY <1>12, <2>1, <2>2
<1>15. Loading => Orderly'
  BY <1>1, <1>4, LoadingKeeps
<1>16. rushed' = (rushed \/ ~(Quiet /\ PageIsFresh)) => Quiet /\ PageIsFresh
  BY <1>2
<1>17. rushed' = (rushed \/ ~Idle) => Idle
  BY <1>2
<1> QED
  BY <1>6, <1>7, <1>8, <1>10, <1>11, <1>13, <1>14, <1>15, <1>16, <1>17 DEF Next, Ongoing

(* The invariant of a careful admin.  *)
LEMMA CarefulInvariant == Spec => []CarefulInv
<1>1. Init => CarefulInv
  <2> SUFFICES ASSUME Init PROVE CarefulInv
    OBVIOUS
  <2>1. /\ \A t \in Taps : task[t].pc = "unused"
        /\ early.phase = "asked" /\ home.phase = "asked"
        /\ screen = "Home" /\ cards = << >> /\ ~dirty
        /\ \A k \in Categories : docs[k].image = "first"
    BY DEF Init, Unused, Asking, Keys
  <2>2. \A k : ~EndedOn(k, {"updated"})
    BY <2>1 DEF EndedOn
  <2>3. DocsInv /\ Idle
    BY <2>1, <2>2, PhaseFacts DEF DocsInv, DocPictures, PictureOf, Idle
  <2> QED
    BY <2>1, <2>3, PhaseFacts
    DEF CarefulInv, Orderly, BeforeHome, OneAtATime, BeforeEarly, QueryFresh, Arrived
<1>2. DeskInv /\ DeskInv' /\ CarefulInv /\ [Next]_vars => CarefulInv'
  BY CarefulStep
<1> QED
  BY <1>1, <1>2, DeskInvariant, PTL DEF Spec

(* For a careful admin whose two queries came through, whatever Firestore  *)
(* and Storage answer afterwards, the list has each stored category of the *)
(* start once, no deleted one, and each addition that was not deleted      *)
(* again, under the stored name unless an update was refused.              *)
THEOREM CategoriesAreMirrored == Spec => []CategoriesMirror
<1>1. DeskInv /\ CarefulInv => CategoriesMirror
  <2> SUFFICES ASSUME DeskInv, CarefulInv, Settled, early.phase = "done", home.phase = "done"
               PROVE  /\ \A i, j \in DOMAIN categoriesList :
                            categoriesList[i].of = categoriesList[j].of => i = j
                      /\ \A k \in Categories : docs[k].state = "stored" <=> Listed(k)
                      /\ \A k \in Taps : docs[k].state = "stored" =>
                            Listed(k) \/ EndedOn(k, {"deleted"})
                      /\ \A x \in ToSet(categoriesList) :
                            x.name = docs[x.of].name \/ EndedOn(x.of, {"unsaved"})
    BY DEF CategoriesMirror, Listed, ListedIn, EndedOn
  <2>1. RowsInv /\ MirrorInv
    BY DEF CarefulInv, Orderly, Settled, Arrived
  <2>2. \A t \in Taps : task[t].pc # "accepted"
    BY PhaseFacts DEF Settled, Quiet, Idle
  <2>3. \A k : ~UpdateAt(k, {"accepted"})
    BY <2>2 DEF UpdateAt
  <2> QED
    BY <2>1, <2>2, <2>3 DEF RowsInv, Distinct, MirrorInv, StoredListed, AddedListed, NamesFit
<1> QED
  BY <1>1, DeskInvariant, CarefulInvariant, PTL

(* For a careful admin, whether the queries came through or not, the card  *)
(* of a category with a path of its own links to what lies at that path,   *)
(* or to its first picture as long as no update of it went through, unless *)
(* an update of it broke off after its upload.                             *)
THEOREM PicturesAreShown == Spec => []PicturesShown
<1>1. DeskInv /\ CarefulInv => PicturesShown
  <2> SUFFICES ASSUME DeskInv, CarefulInv, Settled, NEW x \in ToSet(categoriesList),
                      x.id \in Categories
               PROVE  \/ IF x.image = "first" THEN ~EndedOn(x.of, {"updated"})
                                              ELSE storage[x.id] = x.image
                      \/ EndedOn(x.of, {"unsaved", "unlinked"})
    BY DEF PicturesShown, EndedOn
  <2>1. RowsInv
    BY DEF CarefulInv, Orderly, Settled, Quiet, Arrived
  <2>2. \A k, pcs : pcs \subseteq Live => ~UpdateAt(k, pcs)
    BY DEF Settled, Quiet, Idle, UpdateAt
  <2>3. x.of \in Categories /\ x.id = x.of
    BY RowType DEF DeskInv
  <2>4. PictureOf(x.of, x.image)
    BY <2>1, <2>2, <2>3, PhaseFacts DEF RowsInv, RowPictures
  <2> QED
    BY <2>3, <2>4 DEF PictureOf
<1> QED
  BY <1>1, DeskInvariant, CarefulInvariant, PTL
=============================================================================
