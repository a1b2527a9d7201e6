---------------------------- MODULE UserDeskProofs ----------------------------
(***************************************************************************)
(* Proofs about the user desk, for any finite set of users and any set of  *)
(* taps: types, spinners and documents for every timing, the list and the  *)
(* texts of the documents for a patient admin.                             *)
(***************************************************************************)
EXTENDS UserDesk, ListLemmas

-----------------------------------------------------------------------------
(* Type correctness.  *)

Running  == [pc: Live, kind: Kinds, obj: Models, place: Nat, mounted: BOOLEAN]
Finished == [pc: Ended, id: Users]
AllTasks == {Unused} \cup Running \cup Finished

(* A handler that a step leaves alone, but for its card or page being      *)
(* disposed.                                                               *)
Keeps(t) ==
    /\ task'[t].pc = task[t].pc
    /\ task[t].pc \notin Live => task'[t] = task[t]
    /\ task[t].pc \in Live => /\ task'[t].kind = task[t].kind
                              /\ task'[t].obj = task[t].obj
                              /\ task'[t].place = task[t].place
                              /\ task'[t].mounted => task[t].mounted

(* Where a step leaves the handler it is of: in a later phase, or over.    *)
Goes(t, p) ==
    /\ task'[t].pc = p
    /\ task'[t].kind = task[t].kind
    /\ task'[t].obj = task[t].obj
    /\ task'[t].place = task[t].place
    /\ task'[t].mounted => task[t].mounted

Ends(t, p) == task'[t].pc = p /\ task'[t].id = task[t].obj.id

(* The types of handlers, in one set.  *)
LEMMA TaskTypes == {Unused} \cup Tasks = AllTasks
BY DEF Tasks, AllTasks, Running, Finished

(* The phases of a handler, told apart.  *)
LEMMA PhaseFacts ==
    /\ Live = {"upload", "write", "accepted", "refused"}
    /\ \A p \in Ended : p \notin Live /\ p # "unused"
    /\ {"deleted", "kept", "saved", "unsaved", "rangeError", "failed"} \subseteq Ended
    /\ "unused" \notin Live
BY DEF Live, Ended

(* What is known of one card.  *)
LEMMA CardFacts ==
    ASSUME TypeOK, NEW i \in DOMAIN cards
    PROVE  i \in Nat \ {0} /\ cards[i].obj \in Models /\ cards[i].busy \in BOOLEAN
<1> DEFINE R == [obj: Models, busy: BOOLEAN]
<1>1. cards \in Seq(R)
  BY DEF TypeOK
<1> HIDE DEF R
<1>2. i \in 1 .. Len(cards) /\ Len(cards) \in Nat
  BY <1>1
<1>3. cards[i] \in R
  BY <1>1, <1>2
<1> QED
  BY <1>2, <1>3 DEF R

(* Empty lists, pages and answers.  *)
LEMMA EmptyTypes ==
    /\ << >> \in Seq(Models)
    /\ << >> \in Seq([obj: Models, busy: BOOLEAN])
    /\ \A p \in {"asked", "done", "failed"} : [phase |-> p, rows |-> << >>] \in Queries
<1>1. \A S : << >> \in Seq(S)
  OBVIOUS
<1>2. << >> \in Seq(Models) /\ << >> \in Seq([obj: Models, busy: BOOLEAN])
  BY <1>1, Zenon
<1> DEFINE M == Seq(Models)
<1>3. Queries = [phase: {"asked", "answered", "done", "failed"}, rows: M]
  BY DEF Queries
<1>4. << >> \in M
  BY <1>2
<1> HIDE DEF M
<1> QED
  BY <1>2, <1>3, <1>4

(* What a query answers: each stored document once, as it is now.  *)
LEMMA AnswerFacts ==
    ASSUME TypeOK, NEW by \in {"early", "home"}, NEW rows \in Answer(by)
    PROVE  /\ rows \in Seq(Models)
           /\ IsInjective(rows)
           /\ \A u \in Users : users[u].state = "stored" <=> \E x \in ToSet(rows) : x.id = u
           /\ \A x, y \in ToSet(rows) : x.id = y.id => x = y
           /\ \A x \in ToSet(rows) : x.name = users[x.id].name /\ x.image = users[x.id].image
<1> DEFINE S == {u \in Users : users[u].state = "stored"}
           m(u) == [id |-> u, by |-> by, name |-> users[u].name, image |-> users[u].image]
           f == [u \in S |-> m(u)]
           T == {m(u) : u \in S}
<1>1. IsFiniteSet(S)
  BY UsersFinite, FS_Subset
<1>2. f \in Surjection(S, T)
  BY DEF Surjection
<1>3. IsFiniteSet(T)
  BY <1>1, <1>2, FS_Surjection
<1>4. T \subseteq Models
  BY DEF TypeOK, Models, Documents
<1>5. rows \in SetToSeqs(T)
  BY DEF Answer
<1>6. \A x \in T : x.id \in S /\ x = m(x.id) /\ x.name = users[x.id].name /\ x.image = users[x.id].image
  OBVIOUS
<1>7. \A u \in S : m(u) \in T /\ m(u).id = u
  OBVIOUS
<1> HIDE DEF T
<1>8. rows \in Seq(T) /\ IsInjective(rows) /\ ToSet(rows) = T
  BY <1>3, <1>5, QueryFacts
<1>9. rows \in Seq(Models)
  BY <1>4, <1>8
<1> HIDE DEF m
<1> QED
  BY <1>6, <1>7, <1>8, <1>9

(* What a frame draws.  *)
LEMMA RowsType ==
    ASSUME TypeOK
    PROVE  /\ Rows \in Seq([obj: Models, busy: BOOLEAN])
           /\ DOMAIN Rows = DOMAIN userList
           /\ \A i \in DOMAIN userList : Rows[i].obj = userList[i]
<1>1. userList \in Seq(Models) /\ Len(userList) \in Nat /\ DOMAIN userList = 1 .. Len(userList)
  BY DEF TypeOK
<1>2. \A i \in 1 .. Len(userList) : userList[i] \in Models
  BY <1>1
<1> HIDE DEF Models
<1> QED
  BY <1>1, <1>2 DEF Rows

(* A handler that runs has all five fields.  *)
LEMMA LiveTask ==
    ASSUME TypeOK, NEW t \in Taps, task[t].pc \in Live
    PROVE  /\ task[t] \in Running
           /\ task[t].kind \in Kinds
           /\ task[t].obj \in Models /\ task[t].obj.id \in Users
           /\ task[t].place \in Nat
           /\ task[t].mounted \in BOOLEAN
<1>1. task[t] \in Running
  BY TaskTypes, PhaseFacts DEF TypeOK, AllTasks, Unused, Finished
<1> QED
  BY <1>1 DEF Running, Models

(* Changing the phase of a handler, and ending it.  *)
LEMMA TaskUpdate ==
    ASSUME NEW k \in Running
    PROVE  /\ \A p \in Live, m \in BOOLEAN :
                 /\ AtTask(k, p, m) \in Running
                 /\ AtTask(k, p, m).pc = p
                 /\ AtTask(k, p, m).kind = k.kind
                 /\ AtTask(k, p, m).obj = k.obj
                 /\ AtTask(k, p, m).place = k.place
                 /\ AtTask(k, p, m).mounted <=> m
           /\ \A p \in Ended :
                 /\ Over(k, p) \in Finished
                 /\ Over(k, p).pc = p
                 /\ Over(k, p).id = k.obj.id
<1>1. k.obj.id \in Users
  BY DEF Running, Models
<1> QED
  BY <1>1 DEF Running, Finished, AtTask, Over

(* Disposing the card or page of a handler changes nothing else of it.  *)
LEMMA UnmountFacts ==
    ASSUME NEW k \in AllTasks
    PROVE  /\ Unmount(k) \in AllTasks
           /\ Unmount(k).pc = k.pc
           /\ k.pc \notin Live => Unmount(k) = k
           /\ k.pc \in Live => /\ Unmount(k).kind = k.kind
                               /\ Unmount(k).obj = k.obj
                               /\ Unmount(k).place = k.place
                               /\ ~Unmount(k).mounted
<1>1. CASE k.pc \in Live
  <2>1. k \in Running
    BY <1>1, PhaseFacts DEF AllTasks, Unused, Finished
  <2>2. Unmount(k) = AtTask(k, k.pc, FALSE)
    BY <1>1 DEF Unmount
  <2> DEFINE r == AtTask(k, k.pc, FALSE)
  <2>3. r \in Running /\ r.pc = k.pc /\ r.kind = k.kind /\ r.obj = k.obj /\ r.place = k.place
    BY <1>1, <2>1, TaskUpdate
  <2>4. ~r.mounted
    BY <1>1, <2>1, TaskUpdate, Zenon
  <2> HIDE DEF r
  <2> QED
    BY <1>1, <2>2, <2>3, <2>4 DEF AllTasks, r
<1>2. CASE k.pc \notin Live
  BY <1>2 DEF Unmount
<1> QED
  BY <1>1, <1>2

(* A step of one handler.  *)
LEMMA TaskStep ==
    ASSUME TypeOK, NEW t \in Taps, NEW k \in AllTasks, task' = [task EXCEPT ![t] = k]
    PROVE  /\ task' \in [Taps -> {Unused} \cup Tasks]
           /\ task'[t] = k
           /\ \A u \in Taps \ {t} : task'[u] = task[u]
BY TaskTypes DEF TypeOK

(* A step of one handler that also closes the edit page.  *)
LEMMA FormStep ==
    ASSUME TypeOK, NEW t \in Taps, NEW k \in AllTasks,
           k.pc \in Live, ~k.mounted,
           task' = UnmountForms([task EXCEPT ![t] = k])
    PROVE  /\ task' \in [Taps -> {Unused} \cup Tasks]
           /\ task'[t].pc = k.pc /\ task'[t].kind = k.kind /\ task'[t].obj = k.obj
           /\ task'[t].place = k.place /\ ~task'[t].mounted
           /\ \A u \in Taps \ {t} : /\ Keeps(u)
                                    /\ task[u].kind # "update" => task'[u] = task[u]
                                    /\ task'[u].pc = "upload" /\ task[u].kind = "update"
                                          => ~task'[u].mounted
<1> DEFINE r == [task EXCEPT ![t] = k]
<1>1. r \in [Taps -> AllTasks] /\ r[t] = k /\ \A u \in Taps \ {t} : r[u] = task[u]
  BY TaskTypes DEF TypeOK
<1>2. /\ task' = [u \in Taps |-> task'[u]]
      /\ \A u \in Taps : task'[u] = IF r[u].pc \in Live /\ r[u].kind = "update"
                                    THEN Unmount(r[u]) ELSE r[u]
  BY DEF UnmountForms
<1> HIDE DEF r
<1>3. \A u \in Taps : task'[u] \in AllTasks
  BY <1>1, <1>2, UnmountFacts
<1>4. task'[t] = Unmount(k) \/ task'[t] = k
  BY <1>1, <1>2
<1>5. \A u \in Taps \ {t} : task'[u] = IF task[u].pc \in Live /\ task[u].kind = "update"
                                       THEN Unmount(task[u]) ELSE task[u]
  BY <1>1, <1>2
<1>6. \A u \in Taps : task[u] \in AllTasks
  BY TaskTypes DEF TypeOK
<1>7. ASSUME NEW u \in Taps \ {t}
      PROVE  /\ Keeps(u)
             /\ task[u].kind # "update" => task'[u] = task[u]
             /\ task'[u].pc = "upload" /\ task[u].kind = "update" => ~task'[u].mounted
  <2>1. CASE task[u].pc \in Live /\ task[u].kind = "update"
    <3>1. task'[u] = Unmount(task[u])
      BY <1>5, <2>1
    <3> QED
      BY <1>6, <2>1, <3>1, UnmountFacts DEF Keeps
  <2>2. CASE ~(task[u].pc \in Live /\ task[u].kind = "update")
    <3>1. task'[u] = task[u]
      BY <1>5, <2>2
    <3> QED
      BY <2>2, <3>1, PhaseFacts DEF Keeps
  <2> QED
    BY <2>1, <2>2
<1>8. task' \in [Taps -> {Unused} \cup Tasks]
  BY <1>2, <1>3, TaskTypes
<1> QED
  BY <1>4, <1>7, <1>8, UnmountFacts

Writes(t) == DeleteSingleUser(t) \/ UpdateSingleUser(t)

(* What a step of Firestore or Storage does to handlers and pages.  *)
LEMMA ServeFacts ==
    ASSUME TypeOK, NEW t \in Taps, Serve(t)
    PROVE  /\ task[t] \in Running /\ task[t].pc \in {"upload", "write"}
           /\ task' \in [Taps -> {Unused} \cup Tasks]
           /\ \A u \in Taps \ {t} : /\ Keeps(u)
                                    /\ task[u].kind # "update" => task'[u] = task[u]
           /\ UploadDone(t) => task[t].pc = "upload" /\ Goes(t, "write")
           /\ UploadFails(t) => task[t].pc = "upload" /\ Ends(t, "failed")
           /\ Writes(t) => /\ task[t].pc = "write" /\ Goes(t, "accepted")
                           /\ task'[t].mounted <=> task[t].mounted
           /\ Refuse(t) => /\ task[t].pc = "write" /\ Goes(t, "refused")
                           /\ task'[t].mounted <=> task[t].mounted
           /\ ~Writes(t) => users' = users
           /\ UNCHANGED <<userList, early, home, cards, spinning, dirty>>
           /\ \/ UNCHANGED <<screen, form>> /\ \A u \in Taps \ {t} : task'[u] = task[u]
              \/ /\ screen' = "Users" /\ form' = NoForm
                 /\ task[t].pc = "upload" /\ task[t].mounted /\ task'[t].pc = "write"
                 /\ \A u \in Taps \ {t} : task'[u].pc = "upload" /\ task[u].kind = "update"
                                              => ~task'[u].mounted
<1> DEFINE k == task[t]
<1>1. k.pc \in {"upload", "write"} /\ k.pc \in Live
  BY DEF Serve, UploadDone, UploadFails, DeleteSingleUser, UpdateSingleUser, Refuse, Live
<1>2. k \in Running
  BY <1>1, LiveTask
<1>3. UNCHANGED <<userList, early, home, cards, spinning, dirty>>
  BY DEF Serve, UploadDone, UploadFails, DeleteSingleUser, UpdateSingleUser, Refuse, loads, pages
<1>4. ASSUME NEW p \in Live, NEW m \in BOOLEAN, task' = [task EXCEPT ![t] = AtTask(@, p, m)]
      PROVE  /\ task' \in [Taps -> {Unused} \cup Tasks]
             /\ \A u \in Taps \ {t} : task'[u] = task[u] /\ Keeps(u)
             /\ task'[t].pc = p /\ task'[t].kind = k.kind /\ task'[t].obj = k.obj
             /\ task'[t].place = k.place
             /\ task'[t].mounted <=> m
  <2> DEFINE r == AtTask(k, p, m)
  <2>1. r \in Running /\ r.pc = p /\ r.kind = k.kind /\ r.obj = k.obj /\ r.place = k.place
    BY <1>2, TaskUpdate
  <2>2. r.mounted <=> m
    BY <1>2, TaskUpdate, Zenon
  <2>3. task' = [task EXCEPT ![t] = r]
    BY <1>4
  <2> HIDE DEF r
  <2>4. /\ task' \in [Taps -> {Unused} \cup Tasks] /\ task'[t] = r
        /\ \A u \in Taps \ {t} : task'[u] = task[u]
    BY <2>1, <2>3, TaskStep DEF AllTasks
  <2> HIDE DEF k
  <2> QED
    BY <2>1, <2>2, <2>4 DEF Keeps
<1>5. CASE UploadDone(t) /\ k.mounted
  <2> DEFINE r == AtTask(k, "write", FALSE)
  <2>1. r \in Running /\ r.pc = "write" /\ r.kind = k.kind /\ r.obj = k.obj /\ r.place = k.place
    BY <1>2, TaskUpdate, PhaseFacts
  <2>2. ~r.mounted
    <3>1. "write" \in Live
      BY PhaseFacts
    <3> QED
      BY <1>2, <3>1, TaskUpdate, Zenon
  <2>3. /\ task' = UnmountForms([task EXCEPT ![t] = r])
        /\ screen' = "Users" /\ form' = NoForm /\ users' = users /\ k.pc = "upload"
    BY <1>5 DEF UploadDone, CloseForm
  <2> HIDE DEF r
  <2>4. /\ task' \in [Taps -> {Unused} \cup Tasks]
        /\ task'[t].pc = "write" /\ task'[t].kind = k.kind /\ task'[t].obj = k.obj
        /\ task'[t].place = k.place /\ ~task'[t].mounted
        /\ \A u \in Taps \ {t} : /\ Keeps(u)
                                 /\ task[u].kind # "update" => task'[u] = task[u]
                                 /\ task'[u].pc = "upload" /\ task[u].kind = "update"
                                       => ~task'[u].mounted
    BY <2>1, <2>2, <2>3, FormStep, PhaseFacts DEF AllTasks
  <2>5. ~UploadFails(t) /\ ~Writes(t) /\ ~Refuse(t)
    <3>1. ~Writes(t) /\ ~Refuse(t)
      BY <2>3 DEF Writes, DeleteSingleUser, UpdateSingleUser, Refuse
    <3>2. ~UploadFails(t)
      <4>1. UploadFails(t) => task'[t].pc = "failed"
        BY <1>2, TaskUpdate DEF UploadFails, Over, TypeOK
      <4> QED
        BY <2>4, <4>1
    <3> QED
      BY <3>1, <3>2
  <2> QED
    BY <1>1, <1>2, <1>3, <1>5, <2>3, <2>4, <2>5 DEF Goes
<1>6. CASE UploadDone(t) /\ ~k.mounted
  <2>1. /\ task' = [task EXCEPT ![t] = AtTask(@, "write", FALSE)]
        /\ UNCHANGED <<screen, form, users>> /\ k.pc = "upload"
    BY <1>6 DEF UploadDone
  <2>2. "write" \in Live /\ FALSE \in BOOLEAN
    BY PhaseFacts
  <2>3. /\ task' \in [Taps -> {Unused} \cup Tasks]
        /\ \A u \in Taps \ {t} : task'[u] = task[u] /\ Keeps(u)
        /\ task'[t].pc = "write" /\ task'[t].kind = k.kind /\ task'[t].obj = k.obj
        /\ task'[t].place = k.place /\ ~task'[t].mounted
    BY <1>4, <2>1, <2>2
  <2>4. UploadFails(t) => task'[t].pc = "failed"
    BY DEF UploadFails, Over, TypeOK
  <2>5. ~UploadFails(t) /\ ~Writes(t) /\ ~Refuse(t)
    BY <2>1, <2>3, <2>4 DEF Writes, DeleteSingleUser, UpdateSingleUser, Refuse
  <2> QED
    BY <1>1, <1>2, <1>3, <2>1, <2>3, <2>5 DEF Goes
<1>7. CASE UploadFails(t)
  <2> DEFINE r == Over(k, "failed")
  <2>1. r \in Finished /\ r.pc = "failed" /\ r.id = k.obj.id
    BY <1>2, TaskUpdate, PhaseFacts
  <2>2. task' = [task EXCEPT ![t] = r] /\ UNCHANGED <<users, screen, form>> /\ k.pc = "upload"
    BY <1>7 DEF UploadFails, pages
  <2> HIDE DEF r
  <2>3. /\ task' \in [Taps -> {Unused} \cup Tasks] /\ task'[t] = r
        /\ \A u \in Taps \ {t} : task'[u] = task[u]
    BY <2>1, <2>2, TaskStep DEF AllTasks
  <2>4. ~UploadDone(t) /\ ~Writes(t) /\ ~Refuse(t)
    <3>1. ~UploadDone(t)
      <4>1. UploadDone(t) /\ k.mounted => task'[t].pc = "write"
        BY <1>5 DEF Goes
      <4>2. UploadDone(t) /\ ~k.mounted => task'[t].pc = "write"
        BY <1>6 DEF Goes
      <4> QED
        BY <2>1, <2>3, <4>1, <4>2
    <3> QED
      BY <2>2, <3>1 DEF Writes, DeleteSingleUser, UpdateSingleUser, Refuse
  <2> QED
    BY <1>1, <1>2, <1>3, <2>1, <2>2, <2>3, <2>4 DEF Ends, Keeps
<1>8. CASE Writes(t) \/ Refuse(t)
  <2>1. PICK p \in {"accepted", "refused"} :
           /\ task' = [task EXCEPT ![t] = AtTask(@, p, @.mounted)]
           /\ Writes(t) => p = "accepted"
           /\ Refuse(t) => p = "refused"
    <3>1. CASE Writes(t)
      <4>1. task' = [task EXCEPT ![t] = AtTask(@, "accepted", @.mounted)]
        BY <3>1 DEF Writes, DeleteSingleUser, UpdateSingleUser
      <4>2. ~Refuse(t)
        <5>1. task'[t].pc = "accepted"
          BY <4>1 DEF AtTask, TypeOK
        <5>2. Refuse(t) => task'[t].pc = "refused"
          BY DEF Refuse, AtTask, TypeOK
        <5> QED
          BY <5>1, <5>2
      <4> QED
        BY <4>1, <4>2
    <3>2. CASE Refuse(t) /\ ~Writes(t)
      BY <3>2 DEF Refuse
    <3> QED
      BY <1>8, <3>1, <3>2
  <2>2. k.pc = "write" /\ UNCHANGED <<screen, form>> /\ (~Writes(t) => users' = users)
    BY <1>8 DEF Writes, DeleteSingleUser, UpdateSingleUser, Refuse, pages
  <2>3. p \in Live /\ k.mounted \in BOOLEAN /\ task' = [task EXCEPT ![t] = AtTask(@, p, k.mounted)]
    BY <1>1, <2>1, PhaseFacts, LiveTask
  <2>4. /\ task' \in [Taps -> {Unused} \cup Tasks]
        /\ \A u \in Taps \ {t} : task'[u] = task[u] /\ Keeps(u)
        /\ task'[t].pc = p /\ task'[t].kind = k.kind /\ task'[t].obj = k.obj
        /\ task'[t].place = k.place
        /\ task'[t].mounted <=> k.mounted
    BY <1>4, <2>3
  <2>5. ~UploadDone(t) /\ ~UploadFails(t)
    BY <2>2 DEF UploadDone, UploadFails
  <2> QED
    BY <1>1, <1>2, <1>3, <2>1, <2>2, <2>4, <2>5 DEF Goes
<1> QED
  BY <1>5, <1>6, <1>7, <1>8 DEF Serve, Writes

(* What the rest of a handler does.  *)
LEMMA ResumeFacts ==
    ASSUME TypeOK, NEW t \in Taps, Resume(t)
    PROVE  /\ task[t] \in Running /\ task[t].pc \in {"accepted", "refused"}
           /\ task' \in [Taps -> {Unused} \cup Tasks]
           /\ \A u \in Taps \ {t} : task'[u] = task[u]
           /\ task'[t].pc \in Ended /\ task'[t].id = task[t].obj.id
           /\ ResumeDelete(t) => task'[t].pc = IF task[t].pc = "accepted" THEN "deleted" ELSE "kept"
           /\ ResumeUpdate(t) /\ task[t].place \in DOMAIN userList =>
                 task'[t].pc = IF task[t].pc = "accepted" THEN "saved" ELSE "unsaved"
           /\ userList' \in Seq(Models)
           /\ dirty' \in BOOLEAN
           /\ spinning' \subseteq spinning
           /\ UNCHANGED <<users, early, home, screen, form, cards>>
<1> DEFINE k == task[t]
<1>1. k.pc \in {"accepted", "refused"}
  BY DEF Resume, ResumeDelete, ResumeUpdate
<1>2. k \in Running /\ k.obj \in Models /\ userList \in Seq(Models)
  BY <1>1, LiveTask, PhaseFacts DEF TypeOK
<1>3. ASSUME NEW p \in Ended, task' = [task EXCEPT ![t] = Over(@, p)]
      PROVE  /\ task' \in [Taps -> {Unused} \cup Tasks]
             /\ \A u \in Taps \ {t} : task'[u] = task[u]
             /\ task'[t].pc = p /\ task'[t].id = k.obj.id
  <2> DEFINE r == Over(k, p)
  <2>1. r \in Finished /\ r.pc = p /\ r.id = k.obj.id
    BY <1>2, TaskUpdate
  <2>2. task' = [task EXCEPT ![t] = r]
    BY <1>3
  <2> HIDE DEF r
  <2> QED
    BY <2>1, <2>2, TaskStep DEF AllTasks
<1>4. CASE ResumeDelete(t)
  <2> DEFINE p == IF k.pc = "accepted" THEN "deleted" ELSE "kept"
  <2>1. p \in Ended
    BY PhaseFacts
  <2>2. task' = [task EXCEPT ![t] = Over(@, p)]
    BY <1>4 DEF ResumeDelete
  <2>3. userList' \in Seq(Models)
    <3>1. RemoveFirst(userList, k.obj) \in Seq(Models)
      BY <1>2, RemoveFacts
    <3> QED
      BY <1>2, <1>4, <3>1 DEF ResumeDelete
  <2>4. dirty' \in BOOLEAN
    BY <1>4, Zenon DEF ResumeDelete, NotifyListeners
  <2>5. spinning' \subseteq spinning /\ UNCHANGED <<users, early, home, screen, form, cards>>
    BY <1>4 DEF ResumeDelete, loads
  <2>6. ~ResumeUpdate(t)
    BY <1>4 DEF ResumeDelete, ResumeUpdate
  <2> QED
    BY <1>1, <1>2, <1>3, <2>1, <2>2, <2>3, <2>4, <2>5, <2>6
<1>5. CASE ResumeUpdate(t)
  <2>1. PICK p \in {"saved", "unsaved", "rangeError"} :
           /\ task' = [task EXCEPT ![t] = Over(@, p)]
           /\ k.place \in DOMAIN userList => p = IF k.pc = "accepted" THEN "saved" ELSE "unsaved"
    BY <1>5 DEF ResumeUpdate
  <2>2. p \in Ended
    BY PhaseFacts
  <2>3. userList' \in Seq(Models)
    <3>1. CASE k.place \in DOMAIN userList
      <4>1. userList' = [userList EXCEPT ![k.place] = k.obj]
        BY <1>5, <3>1 DEF ResumeUpdate
      <4> QED
        BY <1>2, <3>1, <4>1
    <3>2. CASE k.place \notin DOMAIN userList
      BY <1>2, <1>5, <3>2 DEF ResumeUpdate
    <3> QED
      BY <3>1, <3>2
  <2>4. dirty' \in BOOLEAN
    BY <1>5, Zenon DEF ResumeUpdate, TypeOK, NotifyListeners
  <2>5. UNCHANGED <<users, early, home, screen, form, cards, spinning>>
    BY <1>5 DEF ResumeUpdate, loads
  <2>6. ~ResumeDelete(t)
    BY <1>5 DEF ResumeDelete, ResumeUpdate
  <2> QED
    BY <1>1, <1>2, <1>3, <2>1, <2>2, <2>3, <2>4, <2>5, <2>6
<1> QED
  BY <1>4, <1>5 DEF Resume

(* copyWith builds a model of the same user, whose texts are never older.  *)
LEMMA CopyFacts ==
    ASSUME NEW x \in Models, NEW t \in Taps, NEW named \in BOOLEAN, NEW photo \in BOOLEAN
    PROVE  /\ CopyWith(x, t, named, photo) \in Models
           /\ CopyWith(x, t, named, photo).id = x.id
           /\ x.name = "new" => CopyWith(x, t, named, photo).name = "new"
           /\ x.image = "new" => CopyWith(x, t, named, photo).image = "new"
BY DEF CopyWith, Models, Texts

(* The three ways a tap starts a handler: of a row, of the form that then  *)
(* stays open, and of the form that then closes.                           *)
StartsDelete(t) ==
    /\ task'[t].kind = "delete" /\ task'[t].pc = "write" /\ task'[t].mounted
    /\ screen = "Users" /\ UNCHANGED <<screen, form>>
    /\ \E i \in DOMAIN cards : /\ task'[t].obj = cards[i].obj /\ task'[t].place = i
                               /\ spinning' = spinning \cup {i}
    /\ dirty'
    /\ \A u \in Taps \ {t} : task'[u] = task[u]

StartsForm(t) ==
    /\ task'[t].kind = "update" /\ screen = "Edit"
    /\ task'[t].obj.id = form.obj.id /\ task'[t].place = form.index
    /\ form.obj.name = "new" => task'[t].obj.name = "new"
    /\ form.obj.image = "new" => task'[t].obj.image = "new"
    /\ UNCHANGED <<spinning, dirty>>

StartsUpload(t) ==
    /\ StartsForm(t) /\ task'[t].pc = "upload" /\ task'[t].mounted
    /\ UNCHANGED <<screen, form>>
    /\ \A u \in Taps \ {t} : task'[u] = task[u]

StartsWrite(t) ==
    /\ StartsForm(t) /\ task'[t].pc = "write" /\ ~task'[t].mounted
    /\ screen' = "Users" /\ form' = NoForm
    /\ \A u \in Taps \ {t} : /\ Keeps(u)
                             /\ task[u].kind # "update" => task'[u] = task[u]
                             /\ task'[u].pc = "upload" /\ task[u].kind = "update"
                                   => ~task'[u].mounted

(* Every tap is one of them.  *)
LEMMA TapFacts ==
    ASSUME TypeOK, NEW t \in Taps, Tap(t)
    PROVE  /\ task[t] = Unused
           /\ task'[t] \in Running
           /\ task' \in [Taps -> {Unused} \cup Tasks]
           /\ UNCHANGED <<users, userList, early, home, cards>>
           /\ StartsDelete(t) \/ StartsUpload(t) \/ StartsWrite(t)
<1>0. task[t] = Unused /\ UNCHANGED <<users, userList, early, home, cards>>
  BY DEF Tap, TapDelete, UpdateWithPicture, UpdateName, loads, pages
<1>1. ASSUME NEW i \in DOMAIN cards, TapDelete(t, i)
      PROVE  /\ task'[t] \in Running /\ task' \in [Taps -> {Unused} \cup Tasks]
             /\ StartsDelete(t)
  <2>1. i \in Nat /\ cards[i].obj \in Models
    BY CardFacts
  <2> DEFINE k == [pc |-> "write", kind |-> "delete", obj |-> cards[i].obj, place |-> i,
                   mounted |-> TRUE]
  <2>2. k \in Running /\ k.pc = "write" /\ k.kind = "delete" /\ k.obj = cards[i].obj /\ k.place = i
    BY <2>1 DEF Running, Live, Kinds
  <2>3. k.mounted
    BY Zenon
  <2>4. task' = [task EXCEPT ![t] = k]
    BY <1>1 DEF TapDelete
  <2> HIDE DEF k
  <2>5. /\ task'[t] = k /\ task' \in [Taps -> {Unused} \cup Tasks]
        /\ \A u \in Taps \ {t} : task'[u] = task[u]
    BY <2>2, <2>4, TaskStep DEF AllTasks
  <2>6. screen = "Users" /\ UNCHANGED <<screen, form>> /\ spinning' = spinning \cup {i} /\ dirty'
    BY <1>1 DEF TapDelete
  <2> QED
    BY <2>2, <2>3, <2>5, <2>6 DEF StartsDelete
<1>2. ASSUME NEW named \in BOOLEAN, UpdateWithPicture(t, named)
      PROVE  /\ task'[t] \in Running /\ task' \in [Taps -> {Unused} \cup Tasks]
             /\ StartsUpload(t)
  <2>1. screen = "Edit" /\ form.index \in Nat /\ form.obj \in Models
    BY <1>2 DEF UpdateWithPicture, TypeOK
  <2> DEFINE x == CopyWith(form.obj, t, named, TRUE)
             k == [pc |-> "upload", kind |-> "update", obj |-> x, place |-> form.index,
                   mounted |-> TRUE]
  <2>2. /\ x \in Models /\ x.id = form.obj.id
        /\ form.obj.name = "new" => x.name = "new"
        /\ form.obj.image = "new" => x.image = "new"
    BY <2>1, CopyFacts
  <2>3. task' = [task EXCEPT ![t] = k] /\ UNCHANGED <<spinning, dirty, screen, form>>
    BY <1>2 DEF UpdateWithPicture, pages
  <2> HIDE DEF x
  <2>4. k \in Running /\ k.pc = "upload" /\ k.kind = "update" /\ k.obj = x /\ k.place = form.index
    BY <2>1, <2>2 DEF Running, Live, Kinds
  <2>5. k.mounted
    BY Zenon
  <2> HIDE DEF k
  <2>6. /\ task'[t] = k /\ task' \in [Taps -> {Unused} \cup Tasks]
        /\ \A u \in Taps \ {t} : task'[u] = task[u]
    BY <2>3, <2>4, TaskStep DEF AllTasks
  <2> QED
    BY <2>1, <2>2, <2>3, <2>4, <2>5, <2>6 DEF StartsUpload, StartsForm
<1>3. ASSUME NEW named \in BOOLEAN, UpdateName(t, named)
      PROVE  /\ task'[t] \in Running /\ task' \in [Taps -> {Unused} \cup Tasks]
             /\ StartsWrite(t)
  <2>1. screen = "Edit" /\ form.index \in Nat /\ form.obj \in Models
    BY <1>3 DEF UpdateName, TypeOK
  <2> DEFINE x == CopyWith(form.obj, t, named, FALSE)
             k == [pc |-> "write", kind |-> "update", obj |-> x, place |-> form.index,
                   mounted |-> FALSE]
  <2>2. /\ x \in Models /\ x.id = form.obj.id
        /\ form.obj.name = "new" => x.name = "new"
        /\ form.obj.image = "new" => x.image = "new"
    BY <2>1, CopyFacts
  <2>3. /\ task' = UnmountForms([task EXCEPT ![t] = k]) /\ UNCHANGED <<spinning, dirty>>
        /\ screen' = "Users" /\ form' = NoForm
    BY <1>3 DEF UpdateName, CloseForm
  <2> HIDE DEF x
  <2>4. k \in Running /\ k.pc = "write" /\ k.kind = "update" /\ k.obj = x /\ k.place = form.index
    BY <2>1, <2>2 DEF Running, Live, Kinds
  <2>5. ~k.mounted
    BY Zenon
  <2> HIDE DEF k
  <2>6. /\ task' \in [Taps -> {Unused} \cup Tasks]
        /\ task'[t].pc = k.pc /\ task'[t].kind = k.kind /\ task'[t].obj = k.obj
        /\ task'[t].place = k.place /\ ~task'[t].mounted
        /\ \A u \in Taps \ {t} : /\ Keeps(u)
                                 /\ task[u].kind # "update" => task'[u] = task[u]
                                 /\ task'[u].pc = "upload" /\ task[u].kind = "update"
                                       => ~task'[u].mounted
    BY <2>3, <2>4, <2>5, FormStep, PhaseFacts DEF AllTasks
  <2>7. StartsWrite(t)
    BY <2>1, <2>2, <2>3, <2>4, <2>6 DEF StartsWrite, StartsForm
  <2>8. task'[t] \in Running
    <3>1. task'[t] \in AllTasks /\ task'[t].pc \in Live
      BY <2>4, <2>6, TaskTypes, PhaseFacts
    <3> QED
      BY <3>1, PhaseFacts DEF AllTasks, Unused, Finished
  <2> QED
    BY <2>6, <2>7, <2>8
<1> QED
  BY <1>0, <1>1, <1>2, <1>3 DEF Tap

(* The page steps that dispose cards or forms.  *)
Disposes == LeaveUserView \/ Rebuild \/ (\E i \in spinning : ScrollAway(i))
              \/ LeaveEdit \/ UpdatePictureOnly

(* They change of a handler only whether its card or page is there.  *)
LEMMA DisposeFacts ==
    ASSUME TypeOK, Disposes
    PROVE  /\ task' \in [Taps -> {Unused} \cup Tasks]
           /\ \A t \in Taps : Keeps(t)
           /\ UNCHANGED <<users, userList, early, home>>
           /\ screen' # "Edit" => \A t \in Taps :
                 task[t].pc = "upload" /\ task[t].kind = "update" /\ screen = "Edit"
                    => ~task'[t].mounted
           /\ screen' = "Edit" => screen = "Edit" /\ UNCHANGED form /\ Rebuild
           /\ screen' = "Edit" => \A t \in Taps : task[t].kind = "update" => task'[t] = task[t]
           /\ screen' # "Edit" => form' = NoForm
           /\ ~Rebuild /\ screen' # "Home" =>
                 UNCHANGED cards /\ (dirty' \/ UNCHANGED <<dirty, spinning>>)
<1>1. /\ task' = [t \in Taps |-> task'[t]]
      /\ \A t \in Taps : task'[t] \in {task[t], Unmount(task[t])}
      /\ LeaveUserView \/ UpdatePictureOnly => \A t \in Taps : task'[t] = Unmount(task[t])
      /\ LeaveEdit => \A t \in Taps : task[t].pc \in Live /\ task[t].kind = "update" =>
                         task'[t] = Unmount(task[t])
  BY DEF Disposes, LeaveUserView, Rebuild, ScrollAway, LeaveEdit, UpdatePictureOnly,
         CloseUserView, UnmountForms
<1>2. \A t \in Taps : task[t] \in AllTasks
  BY TaskTypes DEF TypeOK
<1>3. \A t \in Taps : task'[t] \in AllTasks
  BY <1>1, <1>2, UnmountFacts
<1>4. task' \in [Taps -> {Unused} \cup Tasks]
  BY <1>1, <1>3, TaskTypes
<1>5. ASSUME NEW t \in Taps PROVE Keeps(t)
  <2>1. CASE task'[t] = task[t]
    BY <2>1 DEF Keeps
  <2>2. CASE task'[t] = Unmount(task[t])
    BY <1>2, <2>2, UnmountFacts DEF Keeps
  <2> QED
    BY <1>1, <2>1, <2>2
<1>6. UNCHANGED <<users, userList, early, home>>
  BY DEF Disposes, LeaveUserView, Rebuild, ScrollAway, LeaveEdit, UpdatePictureOnly, loads
<1>7. /\ screen' = "Edit" => screen = "Edit" /\ UNCHANGED form /\ Rebuild
      /\ screen' # "Edit" => form' = NoForm
      /\ screen = "Edit" /\ screen' # "Edit" => LeaveEdit \/ UpdatePictureOnly
  BY DEF Disposes, LeaveUserView, Rebuild, ScrollAway, LeaveEdit, UpdatePictureOnly,
         CloseUserView, CloseForm, TypeOK
<1>8. ASSUME NEW t \in Taps, screen' # "Edit", screen = "Edit",
             task[t].pc = "upload", task[t].kind = "update"
      PROVE  ~task'[t].mounted
  <2>1. task'[t] = Unmount(task[t]) /\ task[t].pc \in Live
    BY <1>1, <1>7, <1>8, PhaseFacts
  <2> QED
    BY <1>2, <2>1, UnmountFacts
<1>9. ~Rebuild /\ screen' # "Home" =>
         UNCHANGED cards /\ (dirty' \/ UNCHANGED <<dirty, spinning>>)
  BY DEF Disposes, LeaveUserView, ScrollAway, LeaveEdit, UpdatePictureOnly,
         CloseUserView, CloseForm
<1>10. Rebuild => \A t \in Taps : task[t].kind = "update" => task'[t] = task[t]
  BY DEF Rebuild
<1> QED
  BY <1>4, <1>5, <1>6, <1>7, <1>8, <1>9, <1>10

(* The documents keep their types through the panel's writes.  *)
LEMMA DocTypes ==
    ASSUME TypeOK, NEW t \in Taps, Serve(t) PROVE users' \in [Users -> Documents]
<1> DEFINE x == task[t].obj
<1>1. x \in Models /\ x.id \in Users /\ \A u \in Users : users[u] \in Documents
  BY ServeFacts, LiveTask, PhaseFacts DEF TypeOK
<1>2. CASE DeleteSingleUser(t)
  <2>1. users' = [users EXCEPT ![x.id].state = "deleted"]
    BY <1>2 DEF DeleteSingleUser
  <2> HIDE DEF x
  <2> QED
    BY <1>1, <2>1 DEF TypeOK, Documents
<1>3. CASE UpdateSingleUser(t)
  <2>1. users' = [users EXCEPT ![x.id] = [state |-> "stored", name |-> x.name, image |-> x.image]]
    BY <1>3 DEF UpdateSingleUser
  <2> HIDE DEF x
  <2> QED
    BY <1>1, <2>1 DEF TypeOK, Documents, Models
<1>4. CASE ~Writes(t)
  BY <1>4, ServeFacts DEF TypeOK
<1> QED
  BY <1>2, <1>3, <1>4 DEF Writes

(* The queries keep the types.  *)
LEMMA LoadTypes ==
    ASSUME TypeOK, Loading, UNCHANGED touched PROVE TypeOK'
<1>0. early.rows \in Seq(Models) /\ home.rows \in Seq(Models)
  BY DEF TypeOK, Queries
<1>1. ASSUME NEW by \in {"early", "home"}, NEW rows \in Answer(by)
      PROVE  [phase |-> "answered", rows |-> rows] \in Queries
  BY AnswerFacts DEF Queries
<1>2. CASE AnswerEarly
  <2>1. early' \in Queries
    BY <1>1, <1>2 DEF AnswerEarly
  <2> QED
    BY <1>2, <2>1 DEF AnswerEarly, TypeOK, pages
<1>3. CASE AnswerHome
  <2>1. home' \in Queries
    BY <1>1, <1>3 DEF AnswerHome
  <2> QED
    BY <1>3, <2>1 DEF AnswerHome, TypeOK, pages
<1>4. CASE ArriveEarly
  <2>1. early' \in Queries /\ userList' \in Seq(Models)
    BY <1>0, <1>4, EmptyTypes DEF ArriveEarly
  <2> QED
    BY <1>4, <2>1 DEF ArriveEarly, TypeOK, pages
<1>5. CASE ArriveHome
  <2>1. home' \in Queries /\ userList' \in Seq(Models)
    BY <1>0, <1>5, EmptyTypes DEF ArriveHome
  <2> QED
    BY <1>5, <2>1 DEF ArriveHome, TypeOK, pages
<1>6. CASE QueryFails
  <2>1. early' \in Queries /\ home' \in Queries
    BY <1>6, EmptyTypes DEF QueryFails, TypeOK
  <2> QED
    BY <1>6, <2>1 DEF QueryFails, TypeOK, pages
<1> QED
  BY <1>2, <1>3, <1>4, <1>5, <1>6 DEF Loading

(* The frames and the pages keep the types.  *)
LEMMA PageTypes ==
    ASSUME TypeOK, UNCHANGED touched,
           OpenUserView \/ Disposes \/ \E i \in DOMAIN cards : TapEdit(i)
    PROVE  TypeOK'
<1>1. CASE OpenUserView
  <2>1. cards' \in Seq([obj: Models, busy: BOOLEAN])
    BY <1>1, RowsType DEF OpenUserView
  <2> QED
    BY <1>1, <2>1 DEF OpenUserView, TypeOK, loads
<1>2. ASSUME NEW i \in DOMAIN cards, TapEdit(i) PROVE TypeOK'
  <2>1. i \in Nat /\ cards[i].obj \in Models
    BY CardFacts
  <2>2. form' \in [index: Nat, obj: Models]
    BY <1>2, <2>1 DEF TapEdit
  <2> QED
    BY <1>2, <2>2 DEF TapEdit, TypeOK, loads
<1>3. CASE Disposes
  <2>1. /\ task' \in [Taps -> {Unused} \cup Tasks]
        /\ UNCHANGED <<users, userList, early, home>>
        /\ screen' = "Edit" => screen = "Edit" /\ UNCHANGED form
        /\ screen' # "Edit" => form' = NoForm
    BY <1>3, DisposeFacts
  <2>2. cards' \in {cards, Rows, << >>} /\ spinning' \subseteq spinning
        /\ screen' \in {"Home", "Users", "Edit"}
    BY <1>3 DEF Disposes, LeaveUserView, Rebuild, ScrollAway, LeaveEdit, UpdatePictureOnly,
                CloseUserView, CloseForm, TypeOK
  <2>3. dirty' \in BOOLEAN
    BY <1>3, Zenon DEF Disposes, LeaveUserView, Rebuild, ScrollAway, LeaveEdit,
                       UpdatePictureOnly, CloseUserView, TypeOK
  <2>4. cards' \in Seq([obj: Models, busy: BOOLEAN])
    BY <2>2, RowsType, EmptyTypes DEF TypeOK
  <2> QED
    BY <2>1, <2>2, <2>3, <2>4 DEF TypeOK
<1> QED
  BY <1>1, <1>2, <1>3

(* Another client keeps the types too.  *)
LEMMA OtherTypes ==
    ASSUME TypeOK, NEW u \in Users, OtherClient(u)
    PROVE  /\ TypeOK'
           /\ touched' = touched \cup {u}
           /\ \A v \in Users \ {u} : users'[v] = users[v]
           /\ UNCHANGED <<userList, early, home, screen, form, cards, spinning, dirty, task>>
<1>1. PICK d \in Documents : users' = [users EXCEPT ![u] = d]
  <2>1. users[u] \in Documents /\ users \in [Users -> Documents]
    BY DEF TypeOK
  <2>2. \A s \in {"stored", "deleted"} : [users[u] EXCEPT !.state = s] \in Documents
    BY <2>1 DEF Documents
  <2>3. /\ [users[u] EXCEPT !.name = "new"] \in Documents
        /\ [users[u] EXCEPT !.image = "new"] \in Documents
    BY <2>1 DEF Documents, Texts
  <2>4. \/ \E s \in {"stored", "deleted"} : users' = [users EXCEPT ![u] = [users[u] EXCEPT !.state = s]]
        \/ users' = [users EXCEPT ![u] = [users[u] EXCEPT !.name = "new"]]
        \/ users' = [users EXCEPT ![u] = [users[u] EXCEPT !.image = "new"]]
    BY DEF OtherClient
  <2> QED
    BY <2>2, <2>3, <2>4
<1>2. users' \in [Users -> Documents] /\ \A v \in Users \ {u} : users'[v] = users[v]
  BY <1>1 DEF TypeOK
<1>3. /\ touched' = touched \cup {u}
      /\ UNCHANGED <<userList, early, home, screen, form, cards, spinning, dirty, task>>
  BY DEF OtherClient, loads, pages
<1> QED
  BY <1>2, <1>3 DEF TypeOK

(* Every step keeps the types.  *)
LEMMA TypesStep ==
    ASSUME TypeOK, [Next]_vars PROVE TypeOK'
<1>1. ASSUME NEW t \in Taps, Serve(t), UNCHANGED touched PROVE TypeOK'
  <2>1. /\ task' \in [Taps -> {Unused} \cup Tasks]
        /\ UNCHANGED <<userList, early, home, cards, spinning, dirty>>
        /\ UNCHANGED <<screen, form>> \/ (screen' = "Users" /\ form' = NoForm)
    BY <1>1, ServeFacts
  <2>2. users' \in [Users -> Documents]
    BY <1>1, DocTypes
  <2> QED
    BY <1>1, <2>1, <2>2 DEF TypeOK
<1>2. ASSUME NEW t \in Taps, Resume(t), UNCHANGED touched PROVE TypeOK'
  <2>1. /\ task' \in [Taps -> {Unused} \cup Tasks]
        /\ userList' \in Seq(Models)
        /\ dirty' \in BOOLEAN
        /\ spinning' \subseteq spinning
        /\ UNCHANGED <<users, early, home, screen, form, cards>>
    BY <1>2, ResumeFacts
  <2> QED
    BY <1>2, <2>1 DEF TypeOK
<1>3. ASSUME NEW t \in Taps, Tap(t), UNCHANGED touched PROVE TypeOK'
  <2>1. /\ task' \in [Taps -> {Unused} \cup Tasks]
        /\ UNCHANGED <<users, userList, early, home, cards>>
        /\ StartsDelete(t) \/ StartsUpload(t) \/ StartsWrite(t)
    BY <1>3, TapFacts
  <2>2. /\ UNCHANGED <<screen, form>> \/ (screen' = "Users" /\ form' = NoForm)
        /\ spinning' \subseteq Nat
    BY <2>1, CardFacts DEF StartsDelete, StartsUpload, StartsWrite, StartsForm, TypeOK
  <2>3. dirty' \in BOOLEAN
    BY <1>3, Zenon DEF Tap, TapDelete, UpdateWithPicture, UpdateName, pages, TypeOK
  <2> QED
    BY <1>3, <2>1, <2>2, <2>3 DEF TypeOK
<1>4. CASE UNCHANGED vars
  BY <1>4 DEF TypeOK, vars, pages, loads
<1> QED
  BY <1>1, <1>2, <1>3, <1>4, PageTypes, LoadTypes, OtherTypes
     DEF Next, PanelNext, Ongoing, Disposes

(* The types at the start.  *)
LEMMA TypesInit == Init => TypeOK
<1> SUFFICES ASSUME Init PROVE TypeOK
  OBVIOUS
<1>1. users \in [Users -> Documents]
  BY DEF Init, Documents, Texts
<1>2. task \in [Taps -> {Unused} \cup Tasks]
  BY DEF Init
<1>3. early \in Queries /\ home \in Queries
  BY EmptyTypes DEF Init
<1>4. dirty \in BOOLEAN
  BY Zenon DEF Init
<1> QED
  BY <1>1, <1>2, <1>3, <1>4, EmptyTypes DEF Init, TypeOK

(* Whatever the admin and the other clients do, and when, the list, the    *)
(* page, the form and the handlers hold models of users.                   *)
THEOREM TypeCorrect == Spec => []TypeOK
<1>1. TypeOK /\ [Next]_vars => TypeOK'
  BY TypesStep
<1> QED
  BY <1>1, TypesInit, PTL DEF Spec

(* So they do when no other client writes, and when the admin is patient.  *)
LEMMA TypesElsewhere == (PanelSpec => []TypeOK) /\ (PatientSpec => []TypeOK)
<1>1. [PanelNext]_vars => [Next]_vars
  BY DEF Next
<1>2. [PatientNext]_vars => [Next]_vars
  BY DEF Next, PanelNext, PatientNext
<1>3. PanelSpec => Spec
  BY <1>1, PTL DEF PanelSpec, Spec
<1>4. PatientSpec => Spec
  BY <1>2, PTL DEF PatientSpec, Spec
<1> QED
  BY <1>3, <1>4, TypeCorrect, PTL

-----------------------------------------------------------------------------
(* Spinners.  *)

SpunBy(i, t) ==
    /\ task[t].pc \in {"write", "accepted", "refused"}
    /\ task[t].kind = "delete"
    /\ task[t].place = i
    /\ task[t].mounted

(* Every step keeps each spinner with a delete that will stop it, or stops *)
(* it with the delete.                                                     *)
LEMMA SpinnerStep ==
    ASSUME TypeOK, SpinnerHasDelete, [Next]_vars PROVE SpinnerHasDelete'
<1>0. SpinnerHasDelete <=> \A i \in spinning : \E t \in Taps : SpunBy(i, t)
  BY DEF SpinnerHasDelete, SpunBy
<1>00. SpinnerHasDelete' <=> \A i \in spinning' : \E t \in Taps : SpunBy(i, t)'
  BY DEF SpinnerHasDelete, SpunBy
<1> SUFFICES ASSUME NEW i \in spinning' PROVE \E t \in Taps : SpunBy(i, t)'
  BY <1>00
<1>1. \A t \in Taps : SpunBy(i, t) /\ task'[t] = task[t] => SpunBy(i, t)'
  BY DEF SpunBy
<1>2. ASSUME NEW t \in Taps, Serve(t) PROVE \E u \in Taps : SpunBy(i, u)'
  <2>1. i \in spinning
    BY <1>2, ServeFacts
  <2>2. PICK u \in Taps : SpunBy(i, u)
    BY <1>0, <2>1
  <2>3. CASE u # t
    BY <1>1, <1>2, <2>2, <2>3, ServeFacts DEF SpunBy
  <2>4. CASE u = t
    <3>1. Writes(t) \/ Refuse(t)
      BY <1>2, <2>2, <2>4 DEF Serve, Writes, SpunBy, UploadDone, UploadFails
    <3>2. /\ task'[t].pc \in {"accepted", "refused"} /\ task'[t].kind = task[t].kind
          /\ task'[t].place = task[t].place /\ (task'[t].mounted <=> task[t].mounted)
      BY <1>2, <3>1, ServeFacts DEF Goes
    <3>3. SpunBy(i, t)'
      BY <2>2, <2>4, <3>2 DEF SpunBy
    <3> QED
      BY <3>3
  <2> QED
    BY <2>3, <2>4
<1>3. ASSUME NEW t \in Taps, Resume(t) PROVE \E u \in Taps : SpunBy(i, u)'
  <2>1. i \in spinning /\ \A u \in Taps \ {t} : task'[u] = task[u]
    BY <1>3, ResumeFacts
  <2>2. PICK u \in Taps : SpunBy(i, u)
    BY <1>0, <2>1
  <2>3. u # t
    BY <1>3, <2>2 DEF Resume, ResumeDelete, ResumeUpdate, SpunBy
  <2> QED
    BY <1>1, <2>1, <2>2, <2>3
<1>4. ASSUME NEW t \in Taps, Tap(t) PROVE \E u \in Taps : SpunBy(i, u)'
  <2>1. /\ StartsDelete(t) \/ StartsUpload(t) \/ StartsWrite(t)
        /\ task[t] = Unused
    BY <1>4, TapFacts
  <2>2. CASE i \in spinning
    <3>1. PICK u \in Taps : SpunBy(i, u)
      BY <1>0, <2>2
    <3>2. u # t /\ task[u].kind # "update"
      BY <2>1, <3>1 DEF SpunBy, Unused
    <3>3. task'[u] = task[u]
      BY <2>1, <3>2 DEF StartsDelete, StartsUpload, StartsWrite
    <3> QED
      BY <1>1, <3>1, <3>3
  <2>3. CASE i \notin spinning
    <3>1. StartsDelete(t) /\ task'[t].place = i
      BY <2>1, <2>3 DEF StartsDelete, StartsUpload, StartsWrite, StartsForm
    <3>2. SpunBy(i, t)'
      BY <3>1 DEF StartsDelete, SpunBy
    <3> QED
      BY <3>2
  <2> QED
    BY <2>2, <2>3
<1>5. CASE Disposes
  <2>1. i \in spinning /\ ~LeaveUserView /\ ~UpdatePictureOnly
    BY <1>5 DEF Disposes, LeaveUserView, Rebuild, ScrollAway, LeaveEdit, UpdatePictureOnly,
                CloseUserView
  <2>2. PICK u \in Taps : SpunBy(i, u)
    BY <1>0, <2>1
  <2>3. CASE Rebuild
    <3>1. i \in DOMAIN userList
      BY <2>3 DEF Rebuild
    <3>2. task'[u] = task[u]
      BY <2>2, <2>3, <3>1 DEF Rebuild, SpunBy
    <3> QED
      BY <1>1, <2>2, <3>2
  <2>4. ASSUME NEW j \in spinning, ScrollAway(j) PROVE \E v \in Taps : SpunBy(i, v)'
    <3>1. i # j
      BY <2>4 DEF ScrollAway
    <3>2. task'[u] = task[u]
      BY <2>2, <2>4, <3>1 DEF ScrollAway, SpunBy
    <3> QED
      BY <1>1, <2>2, <3>2
  <2>5. CASE LeaveEdit
    <3>1. task'[u] = task[u]
      BY <2>2, <2>5 DEF LeaveEdit, UnmountForms, SpunBy
    <3> QED
      BY <1>1, <2>2, <3>1
  <2> QED
    BY <1>5, <2>1, <2>3, <2>4, <2>5 DEF Disposes
<1>6. CASE UNCHANGED <<spinning, task>>
  BY <1>0, <1>1, <1>6
<1>7. \/ Loading \/ OpenUserView \/ (\E k \in DOMAIN cards : TapEdit(k))
      \/ (\E u \in Users : OtherClient(u)) \/ UNCHANGED vars
      => UNCHANGED <<spinning, task>>
  BY DEF Loading, AnswerEarly, ArriveEarly, AnswerHome, ArriveHome, QueryFails,
         OpenUserView, TapEdit, OtherClient, vars, pages
<1> QED
  BY <1>2, <1>3, <1>4, <1>5, <1>6, <1>7 DEF Next, PanelNext, Ongoing, Disposes

(* A card that spins has a delete that still runs and will stop it,        *)
(* however rows move, scroll away and come back, pages close and open      *)
(* again, and the two queries replace the list under them.                 *)
THEOREM SpinnersAreStopped == Spec => []SpinnerHasDelete
<1>1. Init => SpinnerHasDelete
  BY DEF Init, SpinnerHasDelete
<1>2. TypeOK /\ SpinnerHasDelete /\ [Next]_vars => SpinnerHasDelete'
  BY SpinnerStep
<1> QED
  BY <1>1, <1>2, TypeCorrect, PTL DEF Spec

-----------------------------------------------------------------------------
(* The desk implements the catalogue.  *)

Open == {"upload", "write"}

(* What a handler asks of the catalogue, before and after a step.  *)
LEMMA AskedFacts ==
    ASSUME NEW t \in Taps
    PROVE  /\ task[t].pc = "unused" => Asked(t) = [kind |-> "free"]
           /\ task[t].pc \in Open =>
                 Asked(t) = [kind |-> task[t].kind, key |-> task[t].obj.id,
                             look |-> Look(task[t].obj)]
           /\ task[t].pc \notin Open \cup {"unused"} => Asked(t) = [kind |-> "closed"]
           /\ task'[t].pc = "unused" => Asked(t)' = [kind |-> "free"]
           /\ task'[t].pc \in Open =>
                 Asked(t)' = [kind |-> task'[t].kind, key |-> task'[t].obj.id,
                              look |-> Look(task'[t].obj)]
           /\ task'[t].pc \notin Open \cup {"unused"} => Asked(t)' = [kind |-> "closed"]
<1>0. "unused" \notin Open
  BY DEF Open
<1>1. /\ task[t].pc = "unused" => Asked(t) = [kind |-> "free"]
      /\ task[t].pc \in Open =>
            Asked(t) = [kind |-> task[t].kind, key |-> task[t].obj.id,
                        look |-> Look(task[t].obj)]
      /\ task[t].pc \notin Open \cup {"unused"} => Asked(t) = [kind |-> "closed"]
  BY <1>0, Zenon DEF Asked, Open
<1>2. /\ task'[t].pc = "unused" => Asked(t)' = [kind |-> "free"]
      /\ task'[t].pc \in Open =>
            Asked(t)' = [kind |-> task'[t].kind, key |-> task'[t].obj.id,
                         look |-> Look(task'[t].obj)]
      /\ task'[t].pc \notin Open \cup {"unused"} => Asked(t)' = [kind |-> "closed"]
  BY <1>0, Zenon DEF Asked, Open, Look
<1> QED
  BY <1>1, <1>2

(* A handler that a step leaves alone as far as the catalogue sees, or     *)
(* whose request the step closes.                                          *)
Closes(t) ==
    \/ task'[t] = task[t]
    \/ /\ task[t].pc \in Open
       /\ task'[t].pc \in Open
       /\ task'[t].kind = task[t].kind
       /\ task'[t].obj = task[t].obj
    \/ /\ task[t].pc # "unused"
       /\ task'[t].pc \notin Open \cup {"unused"}

(* Handlers that only lose their card or page.  *)
LEMMA KeptClose ==
    ASSUME NEW t \in Taps, Keeps(t) PROVE Closes(t)
BY PhaseFacts DEF Keeps, Closes, Open

(* A step that changes no document and only closes requests, or none.  *)
LEMMA GivenUp ==
    ASSUME TypeOK, UNCHANGED users, \A t \in Taps : Closes(t)
    PROVE  Cat!GiveUp
<1> DEFINE T == {t \in Taps : Asked(t)' # Asked(t)}
<1>1. ASSUME NEW t \in T PROVE Asked(t).kind \in Kinds /\ Asked(t)' = [kind |-> "closed"]
  <2>0. t \in Taps /\ Closes(t)
    OBVIOUS
  <2>1. task'[t] = task[t] => Asked(t)' = Asked(t)
    BY DEF Asked
  <2>2. CASE task[t].pc \in Open
    <3>1. task[t].kind \in Kinds
      BY <2>2, LiveTask, PhaseFacts DEF Open
    <3>2. task'[t].pc \notin Open \cup {"unused"}
      BY <2>0, <2>1, <2>2, AskedFacts DEF Closes
    <3> QED
      BY <2>0, <2>2, <3>1, <3>2, AskedFacts
  <2>3. CASE task[t].pc \notin Open
    BY <2>0, <2>1, <2>3, AskedFacts DEF Closes
  <2> QED
    BY <2>2, <2>3
<1>2. T \in SUBSET {t \in Taps : [u \in Taps |-> Asked(u)][t].kind \in Cat!Kinds}
  BY <1>1 DEF Cat!Kinds, Kinds
<1>3. [t \in Taps |-> Asked(t)'] =
         [t \in Taps |-> IF t \in T THEN Cat!Closed ELSE [u \in Taps |-> Asked(u)][t]]
  BY <1>1 DEF Cat!Closed
<1> HIDE DEF T
<1> QED
  BY <1>2, <1>3 DEF Cat!GiveUp

(* A tap asks for one change, and every other request stays what it was.  *)
LEMMA TapAsks ==
    ASSUME TypeOK, NEW t \in Taps, Tap(t)
    PROVE  Cat!Ask(t)
<1>1. /\ task[t].pc = "unused"
      /\ task'[t] \in Running
      /\ task'[t].pc \in Open
      /\ UNCHANGED users
  BY TapFacts DEF Unused, Open, StartsDelete, StartsUpload, StartsWrite
<1>2. Asked(t) = [kind |-> "free"]
  BY <1>1, AskedFacts
<1> DEFINE r == [kind |-> task'[t].kind, key |-> task'[t].obj.id,
                 look |-> Look(task'[t].obj)]
<1>3. Asked(t)' = r
  BY <1>1, AskedFacts
<1>4. r \in Cat!Requests
  BY <1>1 DEF Cat!Requests, Cat!Kinds, Running, Kinds, Models, Look
<1>5. ASSUME NEW u \in Taps \ {t} PROVE Asked(u)' = Asked(u)
  <2>1. task'[u] = task[u] \/ Keeps(u)
    BY TapFacts DEF StartsDelete, StartsUpload, StartsWrite
  <2>2. task'[u] = task[u] => Asked(u)' = Asked(u)
    BY DEF Asked
  <2>3. Keeps(u) /\ task[u].pc \in Live => Asked(u)' = Asked(u)
    BY AskedFacts, PhaseFacts DEF Keeps, Open
  <2> QED
    BY <2>1, <2>2, <2>3 DEF Keeps
<1> HIDE DEF r
<1>6. [u \in Taps |-> Asked(u)'] = [[u \in Taps |-> Asked(u)] EXCEPT ![t] = r]
  BY <1>3, <1>5
<1>7. [u \in Taps |-> Asked(u)][t] = Cat!Free
  BY <1>2 DEF Cat!Free
<1> QED
  BY <1>1, <1>4, <1>6, <1>7 DEF Cat!Ask

(* What the catalogue sees of a document.  *)
Seen(d) == [state |-> IF d.state = "new" THEN "none" ELSE d.state, look |-> Look(d)]

(* Which document a write changes, and to what.  *)
LEMMA WriteFacts ==
    ASSUME TypeOK, NEW t \in Taps, Writes(t)
    PROVE  LET x == task[t].obj
           IN  /\ x \in Models /\ x.id \in Users /\ task[t].pc = "write"
               /\ \A u \in Users \ {x.id} : users'[u] = users[u]
               /\ DeleteSingleUser(t) =>
                     /\ task[t].kind = "delete"
                     /\ users'[x.id].state = "deleted"
                     /\ users'[x.id].name = users[x.id].name
                     /\ users'[x.id].image = users[x.id].image
               /\ UpdateSingleUser(t) =>
                     /\ task[t].kind = "update"
                     /\ users[x.id].state = "stored"
                     /\ users'[x.id].state = "stored"
                     /\ users'[x.id].name = x.name
                     /\ users'[x.id].image = x.image
<1> DEFINE x == task[t].obj
<1>1. x \in Models /\ x.id \in Users /\ task[t].pc = "write" /\ users[x.id] \in Documents
  BY ServeFacts, LiveTask, PhaseFacts DEF Writes, Serve, TypeOK
<1>2. ASSUME DeleteSingleUser(t)
      PROVE  /\ \A u \in Users \ {x.id} : users'[u] = users[u]
             /\ task[t].kind = "delete"
             /\ users'[x.id].state = "deleted"
             /\ users'[x.id].name = users[x.id].name
             /\ users'[x.id].image = users[x.id].image
  <2>1. users' = [users EXCEPT ![x.id].state = "deleted"] /\ task[t].kind = "delete"
    BY <1>2 DEF DeleteSingleUser
  <2> HIDE DEF x
  <2> QED
    BY <1>1, <2>1 DEF TypeOK, Documents
<1>3. ASSUME UpdateSingleUser(t)
      PROVE  /\ \A u \in Users \ {x.id} : users'[u] = users[u]
             /\ task[t].kind = "update"
             /\ users[x.id].state = "stored"
             /\ users'[x.id].state = "stored"
             /\ users'[x.id].name = x.name
             /\ users'[x.id].image = x.image
  <2>1. /\ users' = [users EXCEPT ![x.id] =
                        [state |-> "stored", name |-> x.name, image |-> x.image]]
        /\ task[t].kind = "update" /\ users[x.id].state = "stored"
    BY <1>3 DEF UpdateSingleUser
  <2> HIDE DEF x
  <2> QED
    BY <1>1, <2>1 DEF TypeOK
<1> HIDE DEF x
<1>4. \A u \in Users \ {x.id} : users'[u] = users[u]
  BY <1>2, <1>3 DEF Writes
<1> QED
  BY <1>1, <1>2, <1>3, <1>4 DEF x

(* A write makes the change that was asked for.  *)
LEMMA WriteCommits ==
    ASSUME TypeOK, NEW t \in Taps, Writes(t)
    PROVE  Cat!Commit(t)
<1> DEFINE x == task[t].obj
           r == [kind |-> task[t].kind, key |-> x.id, look |-> Look(x)]
           old == [u \in Users |-> Seen(users[u])]
           new == [u \in Users |-> Seen(users'[u])]
<1>0. Serve(t)
  BY DEF Writes, Serve
<1>1. /\ task[t].pc \in Open
      /\ task[t].kind \in Kinds
      /\ x.id \in Users
      /\ task'[t].pc \notin Open \cup {"unused"}
      /\ \A u \in Taps \ {t} : task'[u] = task[u]
  BY <1>0, ServeFacts, LiveTask, PhaseFacts DEF Open, Goes
<1>2. Asked(t) = r /\ Asked(t)' = [kind |-> "closed"]
  BY <1>1, AskedFacts
<1>3. \A u \in Taps \ {t} : Asked(u)' = Asked(u)
  BY <1>1 DEF Asked
<1>4. /\ \A u \in Users \ {x.id} : users'[u] = users[u]
      /\ new[x.id] = Cat!Changed(old[x.id], r)
  <2>0. /\ old[x.id] = Seen(users[x.id]) /\ new[x.id] = Seen(users'[x.id])
        /\ r.look = Look(x) /\ r.kind = task[t].kind
    BY <1>1
  <2>1. \A u \in Users \ {x.id} : users'[u] = users[u]
    BY WriteFacts
  <2>2. CASE DeleteSingleUser(t)
    <3>1. /\ r.kind = "delete" /\ users'[x.id].state = "deleted"
          /\ users'[x.id].name = users[x.id].name /\ users'[x.id].image = users[x.id].image
      BY <2>0, <2>2, WriteFacts
    <3> HIDE DEF r, old, new
    <3>2. Cat!Changed(old[x.id], r) = [state |-> "deleted", look |-> old[x.id].look]
      BY <3>1, Zenon DEF Cat!Changed
    <3>3. old[x.id].look = Look(users[x.id])
      BY <2>0 DEF Seen
    <3>4. new[x.id] = [state |-> "deleted", look |-> Look(users[x.id])]
      BY <2>0, <3>1 DEF Seen, Look
    <3> QED
      BY <2>1, <3>2, <3>3, <3>4
  <2>3. CASE UpdateSingleUser(t)
    <3>1. /\ r.kind = "update" /\ users[x.id].state = "stored"
          /\ users'[x.id].state = "stored"
          /\ users'[x.id].name = x.name /\ users'[x.id].image = x.image
      BY <2>0, <2>3, WriteFacts
    <3> HIDE DEF r, old, new
    <3>2. r.kind # "delete" /\ old[x.id].state = "stored"
      BY <2>0, <3>1 DEF Seen
    <3>3. Cat!Changed(old[x.id], r) = [state |-> "stored", look |-> r.look]
      BY <3>1, <3>2, Zenon DEF Cat!Changed
    <3>4. new[x.id] = [state |-> "stored", look |-> Look(x)]
      BY <2>0, <3>1 DEF Seen, Look
    <3> QED
      BY <2>0, <2>1, <3>3, <3>4
  <2> QED
    BY <2>2, <2>3 DEF Writes
<1>5. new = [old EXCEPT ![x.id] = Cat!Changed(old[x.id], r)]
  <2>1. \A u \in Users \ {x.id} : new[u] = old[u]
    BY <1>4
  <2>2. new = [u \in Users |-> new[u]] /\ old = [u \in Users |-> old[u]]
    OBVIOUS
  <2> HIDE DEF new, old, r
  <2> QED
    BY <1>1, <1>4, <2>1, <2>2
<1> DEFINE req == [u \in Taps |-> Asked(u)]
<1>6. [u \in Taps |-> Asked(u)'] = [req EXCEPT ![t] = Cat!Closed]
  BY <1>2, <1>3 DEF Cat!Closed
<1>7. req[t] = r /\ r.kind \in Cat!Kinds /\ r.key = x.id
  BY <1>1, <1>2 DEF Kinds, Cat!Kinds
<1> HIDE DEF r, x
<1> QED
  BY <1>5, <1>6, <1>7 DEF Cat!Commit, Seen

(* Every step of the panel is one of the catalogue.  *)
LEMMA CatalogueStep ==
    ASSUME TypeOK, [PanelNext]_vars PROVE Cat!Next
<1>1. ASSUME NEW t \in Taps, Serve(t) PROVE Cat!Next
  <2>1. CASE Writes(t)
    BY <2>1, WriteCommits DEF Cat!Next
  <2>2. CASE ~Writes(t)
    <3>1. \A u \in Taps \ {t} : Closes(u)
      BY <1>1, ServeFacts, KeptClose
    <3>2. Closes(t)
      <4>1. /\ task[t].pc \in Open
            /\ (\E p \in {"write", "refused"} : Goes(t, p)) \/ Ends(t, "failed")
        BY <1>1, <2>2, ServeFacts DEF Serve, Writes, Open
      <4> QED
        BY <4>1 DEF Closes, Goes, Ends, Open
    <3>3. UNCHANGED users
      BY <1>1, <2>2, ServeFacts
    <3> QED
      BY <3>1, <3>2, <3>3, GivenUp DEF Cat!Next
  <2> QED
    BY <2>1, <2>2
<1>2. ASSUME NEW t \in Taps, Resume(t) PROVE Cat!Next
  <2>1. \A u \in Taps \ {t} : Closes(u)
    BY <1>2, ResumeFacts DEF Closes
  <2>2. Closes(t)
    BY <1>2, ResumeFacts DEF Closes, Open, Ended
  <2>3. UNCHANGED users
    BY <1>2, ResumeFacts
  <2> QED
    BY <2>1, <2>2, <2>3, GivenUp DEF Cat!Next
<1>3. ASSUME NEW t \in Taps, Tap(t) PROVE Cat!Next
  BY <1>3, TapAsks DEF Cat!Next
<1>4. CASE Disposes
  BY <1>4, DisposeFacts, KeptClose, GivenUp DEF Cat!Next
<1>5. CASE UNCHANGED <<users, task>>
  <2>1. \A t \in Taps : Closes(t)
    BY <1>5 DEF Closes
  <2> QED
    BY <1>5, <2>1, GivenUp DEF Cat!Next
<1>6. \/ Loading \/ OpenUserView \/ (\E i \in DOMAIN cards : TapEdit(i)) \/ UNCHANGED vars
      => UNCHANGED <<users, task>>
  BY DEF Loading, AnswerEarly, ArriveEarly, AnswerHome, ArriveHome, QueryFails,
         OpenUserView, TapEdit, vars
<1> QED
  BY <1>1, <1>2, <1>3, <1>4, <1>5, <1>6 DEF PanelNext, Ongoing, Disposes

(* With no other writer to "users" the desk implements the catalogue: each *)
(* tap changes at most the document of the row it was made on, once, and   *)
(* an update that arrives after a delete brings nobody back.               *)
THEOREM CatalogueIsServed == PanelSpec => ServesCatalogue
<1>1. Init => Cat!Init
  <2> SUFFICES ASSUME Init PROVE Cat!Init
    OBVIOUS
  <2>1. [t \in Taps |-> Asked(t)] = [t \in Taps |-> Cat!Free]
    <3>1. \A t \in Taps : task[t].pc = "unused"
      BY DEF Init, Unused
    <3> QED
      BY <3>1, AskedFacts DEF Cat!Free
  <2>2. ASSUME NEW u \in Users
        PROVE  Seen(users[u]) \in [state: {"none", "stored"}, look: Texts \X Texts]
    BY DEF Init, Seen, Look, Texts
  <2> QED
    BY <2>1, <2>2 DEF Cat!Init, Seen
<1>2. TypeOK /\ [PanelNext]_vars => [Cat!Next]_(Cat!catalogueVars)
  BY CatalogueStep
<1>3. PanelSpec => []TypeOK
  BY TypesElsewhere
<1> QED
  BY <1>1, <1>2, <1>3, PTL DEF PanelSpec, ServesCatalogue, Cat!Spec

-----------------------------------------------------------------------------
(* The list and the texts of a patient admin.                              *)
(*                                                                         *)
(* Before both queries are back there is no handler and no page; after it  *)
(* there is one handler at most.                                           *)

Arrived == early.phase = "done" /\ home.phase = "done"

BeforeHome == ~Arrived => (\A t \in Taps : task[t] = Unused) /\ screen = "Home"

OneAtATime == \A t, u \in Taps : task[t].pc \in Live /\ task[u].pc \in Live => t = u

(* Unless a frame is due, the page shows the list.  *)
Drawn == screen # "Home" /\ ~dirty => cards = Rows

(* An upload that can still close its page has it on top.  *)
FormOpen == \A t \in Taps : task[t].pc = "upload" /\ task[t].mounted => screen = "Edit"

PagesInv == BeforeHome /\ OneAtATime /\ Drawn /\ FormOpen

(* The open form is of a row that is where it was; only its own upload can *)
(* be running.                                                             *)
FormFits ==
    screen = "Edit" =>
        /\ form.index \in DOMAIN userList
        /\ form.obj = userList[form.index]
        /\ \A t \in Taps : task[t].pc \in Live => task[t].pc = "upload" /\ task[t].mounted

(* A model has every text that was changed since the start.  *)
NotOlder(x) ==
    \/ x.id \in touched
    \/ /\ users[x.id].name = "new" => x.name = "new"
       /\ users[x.id].image = "new" => x.image = "new"

(* A delete is of a row of the list, an update goes to the position its    *)
(* user is at; once accepted the document is what was asked for.           *)
HandlerFits(t) ==
    /\ task[t].pc = "upload" => task[t].kind = "update"
    /\ task[t].kind = "delete" =>
          /\ task[t].obj \in ToSet(userList)
          /\ task[t].pc = "accepted" => users[task[t].obj.id].state = "deleted"
    /\ task[t].kind = "update" =>
          /\ task[t].place \in DOMAIN userList
          /\ userList[task[t].place].id = task[t].obj.id
          /\ NotOlder(task[t].obj)
          /\ \/ task[t].pc # "accepted" \/ task[t].obj.id \in touched
             \/ Look(users[task[t].obj.id]) = Look(task[t].obj)

Distinct(s) == \A i, j \in DOMAIN s : s[i].id = s[j].id => i = j

HandlersInv ==
    /\ Distinct(userList)
    /\ FormFits
    /\ \A t \in Taps : task[t].pc \in Live => HandlerFits(t)

(* What a query answered is still so, but for users others wrote to.  *)
Mirror(s) ==
    /\ \A u \in Users \ touched : users[u].state = "stored" <=> \E x \in ToSet(s) : x.id = u
    /\ \A x \in ToSet(s) : x.id \in touched \/ Look(x) = Look(users[x.id])

QueryFresh(q) == Distinct(q.rows) /\ (q.phase = "answered" => Mirror(q.rows))

(* A write of that kind to user k that the list does not show yet, and an  *)
(* update of user k that the list shows but was refused.                   *)
AcceptedOn(kind, k) ==
    \E t \in Taps : task[t].pc = "accepted" /\ task[t].kind = kind /\ task[t].obj.id = k
UnsavedOn(k) == \E t \in Taps : task[t].pc = "unsaved" /\ task[t].id = k

StoredListed ==
    \A u \in Users \ touched :
        users[u].state = "stored" <=> u \in Listed /\ ~AcceptedOn("delete", u)

LooksFit ==
    \A x \in ToSet(userList) :
        \/ x.id \in touched
        \/ Look(x) = Look(users[x.id])
        \/ UnsavedOn(x.id)
        \/ AcceptedOn("update", x.id)

RowsFresh == \A x \in ToSet(userList) : NotOlder(x) \/ AcceptedOn("update", x.id)

RowsInv == StoredListed /\ LooksFit /\ RowsFresh

PatientInv ==
    /\ PagesInv
    /\ HandlersInv
    /\ QueryFresh(early) /\ QueryFresh(home)
    /\ home.phase = "done" => RowsInv

(* A list of models with distinct users, as a set.  *)
LEMMA DistinctMembers ==
    ASSUME NEW s \in Seq(Models)
    PROVE  Distinct(s) <=> IsInjective(s) /\ \A x, y \in ToSet(s) : x.id = y.id => x = y
BY DEF Distinct, IsInjective, ToSet

(* The marks of finished writes stay when handlers that have one are kept. *)
LEMMA MarksKept ==
    ASSUME \A t \in Taps : \/ Keeps(t)
                           \/ /\ task[t].pc \notin {"accepted", "unsaved"}
                              /\ task'[t].pc \notin {"accepted", "unsaved"}
    PROVE  \A k : /\ \A kind : AcceptedOn(kind, k)' <=> AcceptedOn(kind, k)
                  /\ UnsavedOn(k)' <=> UnsavedOn(k)
<1>1. ASSUME NEW k, NEW kind, NEW t \in Taps
      PROVE  /\ task'[t].pc = "accepted" /\ task'[t].kind = kind /\ task'[t].obj.id = k
                <=> task[t].pc = "accepted" /\ task[t].kind = kind /\ task[t].obj.id = k
             /\ task'[t].pc = "unsaved" /\ task'[t].id = k
                <=> task[t].pc = "unsaved" /\ task[t].id = k
  BY PhaseFacts DEF Keeps, Ended
<1> QED
  BY <1>1 DEF AcceptedOn, UnsavedOn

(* ... and with them what the list says about the documents.  *)
LEMMA RowsKept ==
    ASSUME RowsInv, UNCHANGED <<users, userList, touched>>,
           \A t \in Taps : \/ Keeps(t)
                           \/ /\ task[t].pc \notin {"accepted", "unsaved"}
                              /\ task'[t].pc \notin {"accepted", "unsaved"}
    PROVE  RowsInv'
<1>1. \A k : /\ \A kind : AcceptedOn(kind, k)' <=> AcceptedOn(kind, k)
             /\ UnsavedOn(k)' <=> UnsavedOn(k)
  BY MarksKept
<1>2. StoredListed'
  BY <1>1 DEF RowsInv, StoredListed, Listed
<1>3. LooksFit'
  BY <1>1 DEF RowsInv, LooksFit
<1>4. RowsFresh'
  BY <1>1 DEF RowsInv, RowsFresh, NotOlder
<1> QED
  BY <1>2, <1>3, <1>4 DEF RowsInv

(* Queries stay fresh while nobody but other clients writes.  *)
LEMMA QueriesKept ==
    ASSUME QueryFresh(early), QueryFresh(home), UNCHANGED <<early, home, touched>>,
           users' = users \/ Arrived
    PROVE  QueryFresh(early)' /\ QueryFresh(home)'
<1>1. CASE users' = users
  BY <1>1 DEF QueryFresh, Mirror, Distinct
<1>2. CASE Arrived
  BY <1>2 DEF QueryFresh, Distinct, Arrived
<1> QED
  BY <1>1, <1>2

(* An answer is a mirror of the documents.  *)
LEMMA AnswerMirrors ==
    ASSUME TypeOK, NEW by \in {"early", "home"}, NEW rows \in Answer(by)
    PROVE  Distinct(rows) /\ Mirror(rows)
<1>1. Distinct(rows)
  BY AnswerFacts, DistinctMembers
<1>2. Mirror(rows)
  BY AnswerFacts DEF Mirror, Look
<1> QED
  BY <1>1, <1>2

(* A list that replaces the one of the provider mirrors the documents.  *)
LEMMA MirrorLands ==
    ASSUME TypeOK, NEW s \in Seq(Models), Mirror(s), userList' = s,
           UNCHANGED <<users, touched, task>>, \A t \in Taps : task[t] = Unused
    PROVE  RowsInv'
<1>1. \A k, kind : ~AcceptedOn(kind, k)'
  BY DEF AcceptedOn, Unused
<1>2. StoredListed'
  BY <1>1 DEF Mirror, StoredListed, Listed
<1>3. LooksFit'
  BY DEF Mirror, LooksFit
<1>4. ASSUME NEW x \in ToSet(s) PROVE NotOlder(x)'
  <2>1. x.id \in touched \/ (x.name = users[x.id].name /\ x.image = users[x.id].image)
    BY DEF Mirror, Look
  <2> QED
    BY <2>1 DEF NotOlder
<1>5. RowsFresh'
  BY <1>4 DEF RowsFresh
<1> QED
  BY <1>2, <1>3, <1>5 DEF RowsInv

(* The queries.  *)
LEMMA LoadingKeeps ==
    ASSUME TypeOK, PatientInv, Loading, UNCHANGED touched PROVE PatientInv'
<1> USE DEF PatientInv
<1>1. /\ ~Arrived
      /\ UNCHANGED <<users, task, screen, form, cards, spinning, dirty>>
  BY DEF Loading, AnswerEarly, ArriveEarly, AnswerHome, ArriveHome, QueryFails, Arrived, pages
<1>2. screen = "Home" /\ \A t \in Taps : task[t] = Unused
  BY <1>1 DEF PagesInv, BeforeHome
<1>3. \A t \in Taps : task'[t].pc = "unused" /\ task'[t].pc \notin Live
  BY <1>1, <1>2, PhaseFacts DEF Unused
<1>4. PagesInv'
  BY <1>1, <1>2, <1>3 DEF PagesInv, BeforeHome, OneAtATime, Drawn, FormOpen
<1>5. early.rows \in Seq(Models) /\ home.rows \in Seq(Models)
  BY DEF TypeOK, Queries
<1>6. \/ userList' = userList
      \/ userList' = early.rows /\ early.phase = "answered"
      \/ userList' = home.rows /\ home.phase = "answered"
  BY DEF Loading, AnswerEarly, ArriveEarly, AnswerHome, ArriveHome, QueryFails
<1>7. HandlersInv'
  <2>1. Distinct(userList')
    BY <1>6 DEF HandlersInv, QueryFresh
  <2> QED
    BY <1>1, <1>2, <1>3, <2>1 DEF HandlersInv, FormFits
<1>8. ASSUME NEW rows, Mirror(rows) PROVE Mirror(rows)'
  BY <1>1, <1>8 DEF Mirror
<1>9. /\ QueryFresh(early) /\ UNCHANGED early => QueryFresh(early)'
      /\ QueryFresh(home) /\ UNCHANGED home => QueryFresh(home)'
  BY <1>1 DEF QueryFresh, Mirror, Distinct
<1>10. QueryFresh(early)'
  <2>1. CASE AnswerEarly
    <3>1. PICK rows \in Answer("early") : early' = [phase |-> "answered", rows |-> rows]
      BY <2>1 DEF AnswerEarly
    <3>2. Distinct(rows) /\ Mirror(rows)
      BY AnswerMirrors
    <3>3. Mirror(rows)'
      BY <1>8, <3>2
    <3> QED
      BY <3>1, <3>2, <3>3 DEF QueryFresh, Mirror
  <2>2. CASE early' = [phase |-> "done", rows |-> << >>]
    BY <2>2 DEF QueryFresh, Distinct
  <2>3. CASE UNCHANGED early
    BY <1>9, <2>3
  <2> QED
    BY <2>1, <2>2, <2>3 DEF Loading, ArriveEarly, AnswerHome, ArriveHome, QueryFails
<1>11. QueryFresh(home)'
  <2>1. CASE AnswerHome
    <3>1. PICK rows \in Answer("home") : home' = [phase |-> "answered", rows |-> rows]
      BY <2>1 DEF AnswerHome
    <3>2. Distinct(rows) /\ Mirror(rows)
      BY AnswerMirrors
    <3>3. Mirror(rows)'
      BY <1>8, <3>2
    <3> QED
      BY <3>1, <3>2, <3>3 DEF QueryFresh, Mirror
  <2>2. CASE home' \in {[phase |-> "done", rows |-> << >>], [phase |-> "failed", rows |-> << >>]}
    BY <2>2 DEF QueryFresh, Distinct
  <2>3. CASE UNCHANGED home
    BY <1>9, <2>3
  <2> QED
    BY <2>1, <2>2, <2>3 DEF Loading, ArriveHome, AnswerEarly, ArriveEarly, QueryFails
<1>12. ASSUME home'.phase = "done" PROVE RowsInv'
  <2>1. CASE ArriveEarly
    <3>1. userList' = early.rows /\ Mirror(early.rows)
      BY <2>1 DEF ArriveEarly, QueryFresh
    <3> QED
      BY <1>1, <1>2, <1>5, <3>1, MirrorLands
  <2>2. CASE ArriveHome
    <3>1. userList' = home.rows /\ Mirror(home.rows)
      BY <2>2 DEF ArriveHome, QueryFresh
    <3> QED
      BY <1>1, <1>2, <1>5, <3>1, MirrorLands
  <2>3. CASE userList' = userList /\ home.phase = "done"
    <3>1. \A t \in Taps : Keeps(t)
      BY <1>1 DEF Keeps
    <3> QED
      BY <1>1, <2>3, <3>1, RowsKept
  <2> QED
    BY <1>12, <2>1, <2>2, <2>3 DEF Loading, AnswerEarly, AnswerHome, QueryFails
<1> QED
  BY <1>4, <1>7, <1>10, <1>11, <1>12

(* The page steps that dispose cards or forms.  *)
LEMMA DisposingKeeps ==
    ASSUME TypeOK, PatientInv, Disposes, UNCHANGED touched PROVE PatientInv'
<1> USE DEF PatientInv
<1>1. /\ \A t \in Taps : Keeps(t)
      /\ UNCHANGED <<users, userList, early, home>>
      /\ screen' # "Edit" => \A t \in Taps :
            task[t].pc = "upload" /\ task[t].kind = "update" /\ screen = "Edit"
               => ~task'[t].mounted
      /\ screen' = "Edit" => screen = "Edit" /\ UNCHANGED form /\ Rebuild
      /\ screen' = "Edit" => \A t \in Taps : task[t].kind = "update" => task'[t] = task[t]
      /\ ~Rebuild /\ screen' # "Home" =>
            UNCHANGED cards /\ (dirty' \/ UNCHANGED <<dirty, spinning>>)
  BY DisposeFacts
<1>2. /\ \A t \in Taps : task'[t].pc \in Live => /\ task[t].pc \in Live /\ HandlerFits(t)
                                                 /\ task'[t].pc = task[t].pc
                                                 /\ task'[t].kind = task[t].kind
                                                 /\ task'[t].obj = task[t].obj
                                                 /\ task'[t].place = task[t].place
                                                 /\ task'[t].mounted => task[t].mounted
      /\ \A t \in Taps : task[t].pc = "upload" => task[t].kind = "update"
  BY <1>1, PhaseFacts DEF Keeps, HandlersInv, HandlerFits
<1>3. BeforeHome'
  <2>1. ASSUME ~Arrived' PROVE (\A t \in Taps : task'[t] = Unused) /\ screen' = "Home"
    <3>1. (\A t \in Taps : task[t] = Unused) /\ screen = "Home"
      BY <1>1, <2>1 DEF PagesInv, BeforeHome, Arrived
    <3>2. \A t \in Taps : task'[t] = Unused
      BY <1>1, <3>1, PhaseFacts DEF Keeps, Unused
    <3>3. screen' = "Home"
      BY <3>1 DEF Disposes, LeaveUserView, Rebuild, ScrollAway, LeaveEdit, UpdatePictureOnly
    <3> QED
      BY <3>2, <3>3
  <2> QED
    BY <2>1 DEF BeforeHome
<1>4. OneAtATime'
  BY <1>2 DEF PagesInv, OneAtATime
<1>5. Drawn'
  <2>1. CASE Rebuild
    <3>1. Rows' = Rows /\ cards' = Rows
      BY <1>1, <2>1 DEF Rebuild, Rows
    <3> QED
      BY <3>1 DEF Drawn
  <2>2. CASE ~Rebuild
    <3>1. screen' # "Home" => screen # "Home"
      BY <2>2 DEF Disposes, LeaveUserView, ScrollAway, LeaveEdit, UpdatePictureOnly, CloseUserView
    <3> QED
      BY <1>1, <2>2, <3>1 DEF PagesInv, Drawn, Rows
  <2> QED
    BY <2>1, <2>2
<1>6. FormOpen'
  <2> SUFFICES ASSUME NEW t \in Taps, task'[t].pc = "upload", task'[t].mounted, screen' # "Edit"
               PROVE  FALSE
    BY DEF FormOpen
  <2>1. task[t].pc = "upload" /\ task[t].kind = "update" /\ task[t].mounted
    BY <1>2, PhaseFacts
  <2>2. screen = "Edit"
    BY <2>1 DEF PagesInv, FormOpen
  <2> QED
    BY <1>1, <2>1, <2>2
<1>7. FormFits'
  BY <1>1, <1>2 DEF HandlersInv, FormFits
<1>8. \A t \in Taps : task'[t].pc \in Live => HandlerFits(t)'
  BY <1>1, <1>2 DEF HandlerFits, NotOlder
<1>9. Distinct(userList')
  BY <1>1 DEF HandlersInv
<1>10. home'.phase = "done" => RowsInv'
  BY <1>1, RowsKept
<1>11. QueryFresh(early)' /\ QueryFresh(home)'
  BY <1>1, QueriesKept
<1> QED
  BY <1>3, <1>4, <1>5, <1>6, <1>7, <1>8, <1>9, <1>10, <1>11 DEF PagesInv, HandlersInv

(* Opening the page and a form, while nothing runs.  *)
LEMMA OpeningKeeps ==
    ASSUME TypeOK, PatientInv, Quiet, UNCHANGED touched,
           OpenUserView \/ \E i \in DOMAIN cards : TapEdit(i)
    PROVE  PatientInv'
<1> USE DEF PatientInv
<1>1. UNCHANGED <<users, userList, early, home, task, dirty, spinning>>
  BY DEF OpenUserView, TapEdit, loads
<1>2. Arrived
  BY DEF OpenUserView, TapEdit, Arrived, PagesInv, BeforeHome, Quiet
<1>3. \A t \in Taps : task'[t].pc \notin Live
  BY <1>1 DEF Quiet
<1>4. cards' = Rows
  BY DEF OpenUserView, TapEdit, PagesInv, Drawn, Quiet
<1>5. PagesInv'
  BY <1>1, <1>2, <1>3, <1>4, PhaseFacts
     DEF PagesInv, BeforeHome, Arrived, OneAtATime, Drawn, FormOpen, Rows
<1>6. FormFits'
  <2>1. CASE OpenUserView
    BY <2>1 DEF OpenUserView, FormFits
  <2>2. ASSUME NEW i \in DOMAIN cards, TapEdit(i) PROVE FormFits'
    <3>1. cards = Rows /\ form'.index = i /\ form'.obj = cards[i].obj
      BY <1>4, <2>2 DEF TapEdit
    <3>2. i \in DOMAIN userList /\ Rows[i].obj = userList[i]
      BY <3>1, RowsType
    <3> QED
      BY <1>1, <1>3, <3>1, <3>2 DEF FormFits
  <2> QED
    BY <2>1, <2>2
<1>7. HandlersInv'
  BY <1>1, <1>3, <1>6 DEF HandlersInv
<1>8. QueryFresh(early)' /\ QueryFresh(home)'
  BY <1>1, QueriesKept
<1>9. home'.phase = "done" => RowsInv'
  <2>1. \A t \in Taps : Keeps(t)
    BY <1>1 DEF Keeps
  <2> QED
    BY <1>1, <2>1, RowsKept
<1> QED
  BY <1>5, <1>7, <1>8, <1>9

(* Another client's write.  *)
LEMMA OthersKeep ==
    ASSUME TypeOK, PatientInv, NEW u \in Users, OtherClient(u) PROVE PatientInv'
<1> USE DEF PatientInv
<1>1. /\ touched' = touched \cup {u}
      /\ \A v \in Users \ {u} : users'[v] = users[v]
      /\ UNCHANGED <<userList, early, home, screen, form, cards, spinning, dirty, task>>
      /\ users[u].state # "deleted"
  BY OtherTypes DEF OtherClient
<1>2. PagesInv'
  BY <1>1 DEF PagesInv, BeforeHome, Arrived, OneAtATime, Drawn, FormOpen, Rows
<1>3. FormFits' /\ Distinct(userList')
  BY <1>1 DEF HandlersInv, FormFits
<1>4. \A x : x.id \in Users => /\ NotOlder(x) => NotOlder(x)'
                               /\ \/ x.id \in touched \/ Look(users[x.id]) = Look(x)
                                  => x.id \in touched' \/ Look(users'[x.id]) = Look(x)
  BY <1>1 DEF NotOlder, Look
<1>5. ASSUME NEW t \in Taps, task'[t].pc \in Live PROVE HandlerFits(t)'
  <2>1. HandlerFits(t) /\ task'[t] = task[t] /\ task[t].obj.id \in Users
    BY <1>1, <1>5, LiveTask DEF HandlersInv
  <2>2. users[task[t].obj.id].state = "deleted" => users'[task[t].obj.id] = users[task[t].obj.id]
    BY <1>1, <2>1
  <2> QED
    BY <1>1, <1>4, <2>1, <2>2 DEF HandlerFits
<1>6. ASSUME NEW s \in Seq(Models) PROVE \A x \in ToSet(s) : x.id \in Users
  <2>1. \A x \in Models : x.id \in Users
    BY DEF Models
  <2> QED
    BY <2>1 DEF ToSet
<1>7. \A s \in Seq(Models) : Mirror(s) =>
         /\ \A v \in Users \ touched' :
               users'[v].state = "stored" <=> \E x \in ToSet(s) : x.id = v
         /\ \A x \in ToSet(s) : x.id \in touched' \/ Look(x) = Look(users'[x.id])
  BY <1>1, <1>6 DEF Mirror
<1>8. early.rows \in Seq(Models) /\ home.rows \in Seq(Models) /\ userList \in Seq(Models)
  BY DEF TypeOK, Queries
<1>9. QueryFresh(early)' /\ QueryFresh(home)'
  <2>1. early'.phase = "answered" => Mirror(early.rows)'
    BY <1>1, <1>7, <1>8 DEF QueryFresh, Mirror
  <2>2. home'.phase = "answered" => Mirror(home.rows)'
    BY <1>1, <1>7, <1>8 DEF QueryFresh, Mirror
  <2> QED
    BY <1>1, <2>1, <2>2 DEF QueryFresh, Distinct
<1>10. ASSUME home'.phase = "done" PROVE RowsInv'
  <2>1. RowsInv /\ \A x \in ToSet(userList) : x.id \in Users
    BY <1>1, <1>6, <1>8, <1>10
  <2>2. \A k : /\ \A kind : AcceptedOn(kind, k)' <=> AcceptedOn(kind, k)
               /\ UnsavedOn(k)' <=> UnsavedOn(k)
    BY <1>1 DEF AcceptedOn, UnsavedOn
  <2>3. StoredListed'
    BY <1>1, <2>1, <2>2 DEF RowsInv, StoredListed, Listed
  <2>4. LooksFit'
    BY <1>1, <2>1, <2>2 DEF RowsInv, LooksFit
  <2>5. RowsFresh'
    BY <1>1, <1>4, <2>1, <2>2 DEF RowsInv, RowsFresh
  <2> QED
    BY <2>3, <2>4, <2>5 DEF RowsInv
<1> QED
  BY <1>2, <1>3, <1>5, <1>9, <1>10 DEF HandlersInv

(* A tap, while nothing runs and no frame is due.  *)
LEMMA TapKeeps ==
    ASSUME TypeOK, PatientInv, Quiet, NEW t \in Taps, Tap(t), UNCHANGED touched
    PROVE  PatientInv'
<1> USE DEF PatientInv
<1>1. /\ task[t] = Unused
      /\ task'[t] \in Running /\ task'[t].pc \in {"upload", "write"}
      /\ UNCHANGED <<users, userList, early, home, cards>>
      /\ StartsDelete(t) \/ StartsUpload(t) \/ StartsWrite(t)
  BY TapFacts DEF StartsDelete, StartsUpload, StartsWrite
<1>2. screen # "Home" /\ Arrived /\ cards = Rows
  BY <1>1 DEF StartsDelete, StartsUpload, StartsWrite, StartsForm, PagesInv, BeforeHome, Drawn, Quiet
<1>3. \A u \in Taps \ {t} : task'[u] = task[u] /\ task'[u].pc \notin Live
  BY <1>1 DEF StartsDelete, StartsUpload, StartsWrite, Keeps, Quiet
<1>4. \A u \in Taps : task'[u].pc \in Live => u = t
  BY <1>3
<1>5. RowsInv
  BY <1>2 DEF Arrived
<1>6. PagesInv'
  <2>1. BeforeHome' /\ OneAtATime'
    BY <1>1, <1>2, <1>4 DEF BeforeHome, Arrived, OneAtATime
  <2>2. Drawn'
    BY <1>1, <1>2 DEF Drawn, Rows, StartsDelete, StartsUpload, StartsWrite, StartsForm
  <2>3. FormOpen'
    BY <1>1, <1>4, PhaseFacts DEF FormOpen, StartsDelete, StartsUpload, StartsWrite, StartsForm
  <2> QED
    BY <2>1, <2>2, <2>3 DEF PagesInv
<1>7. FormFits'
  BY <1>1, <1>4 DEF HandlersInv, FormFits, StartsDelete, StartsUpload, StartsWrite, StartsForm
<1>8. HandlerFits(t)'
  <2>1. CASE StartsDelete(t)
    <3>1. PICK i \in DOMAIN cards : task'[t].obj = cards[i].obj
      BY <2>1 DEF StartsDelete
    <3>2. i \in DOMAIN userList /\ task'[t].obj = userList[i]
      BY <1>2, <3>1, RowsType
    <3>3. task'[t].obj \in ToSet(userList')
      BY <1>1, <3>2 DEF ToSet
    <3> QED
      BY <2>1, <3>3 DEF StartsDelete, HandlerFits
  <2>2. CASE StartsForm(t)
    <3>1. /\ form.index \in DOMAIN userList /\ form.obj = userList[form.index]
          /\ task'[t].place = form.index /\ task'[t].obj.id = form.obj.id
      BY <2>2 DEF StartsForm, HandlersInv, FormFits
    <3>2. form.obj \in ToSet(userList)
      BY <3>1 DEF ToSet
    <3>3. ~AcceptedOn("update", form.obj.id)
      BY PhaseFacts DEF AcceptedOn, Quiet
    <3>4. NotOlder(form.obj)
      BY <1>5, <3>2, <3>3 DEF RowsInv, RowsFresh
    <3>5. NotOlder(task[t].obj)'
      BY <1>1, <2>2, <3>1, <3>4 DEF NotOlder, StartsForm
    <3> QED
      BY <1>1, <2>2, <3>1, <3>5 DEF StartsForm, HandlerFits
  <2> QED
    BY <1>1, <2>1, <2>2 DEF StartsUpload, StartsWrite
<1>9. HandlersInv'
  BY <1>1, <1>4, <1>7, <1>8 DEF HandlersInv
<1>10. QueryFresh(early)' /\ QueryFresh(home)'
  BY <1>1, QueriesKept
<1>11. RowsInv'
  <2>1. \A u \in Taps \ {t} : Keeps(u)
    BY <1>3 DEF Keeps
  <2>2. task[t].pc \notin {"accepted", "unsaved"} /\ task'[t].pc \notin {"accepted", "unsaved"}
    BY <1>1 DEF Unused
  <2> QED
    BY <1>1, <1>5, <2>1, <2>2, RowsKept
<1> QED
  BY <1>6, <1>9, <1>10, <1>11

(* The handler of a step is the only one.  *)
LEMMA OnlyOne ==
    ASSUME TypeOK, PatientInv, NEW t \in Taps, Serve(t) \/ Resume(t)
    PROVE  /\ task[t].pc \in Live /\ Arrived
           /\ task[t] \in Running /\ task[t].obj \in Models /\ task[t].obj.id \in Users
           /\ task[t].kind \in Kinds
           /\ HandlerFits(t) /\ RowsInv
           /\ \A u \in Taps \ {t} : task[u].pc \notin Live /\ task'[u] = task[u]
           /\ UNCHANGED <<early, home>>
<1> USE DEF PatientInv
<1>1. task[t].pc \in Live
  BY ServeFacts, ResumeFacts, PhaseFacts
<1>2. task[t] \in Running /\ task[t].obj \in Models /\ task[t].obj.id \in Users /\ task[t].kind \in Kinds
  BY <1>1, LiveTask
<1>3. Arrived
  BY <1>1, PhaseFacts DEF PagesInv, BeforeHome, Unused
<1>4. HandlerFits(t) /\ RowsInv
  BY <1>1, <1>3 DEF HandlersInv, Arrived
<1>5. \A u \in Taps \ {t} : task[u].pc \notin Live
  BY <1>1 DEF PagesInv, OneAtATime
<1>6. \A u \in Taps \ {t} : task'[u] = task[u]
  BY <1>5, ServeFacts, ResumeFacts DEF Keeps
<1>7. UNCHANGED <<early, home>>
  BY ServeFacts, ResumeFacts
<1> QED
  BY <1>1, <1>2, <1>3, <1>4, <1>5, <1>6, <1>7

(* The marks before and after a step of the only handler.  *)
LEMMA OnlyMarks ==
    ASSUME TypeOK, PatientInv, NEW t \in Taps, Serve(t) \/ Resume(t), NEW k
    PROVE  /\ \A kind : AcceptedOn(kind, k) <=> task[t].pc = "accepted" /\ task[t].kind = kind
                                                 /\ task[t].obj.id = k
           /\ \A kind : AcceptedOn(kind, k)' <=> task'[t].pc = "accepted" /\ task'[t].kind = kind
                                                  /\ task'[t].obj.id = k
           /\ UnsavedOn(k)' <=> UnsavedOn(k) \/ (task'[t].pc = "unsaved" /\ task'[t].id = k)
<1>1. /\ task[t].pc \in Live /\ task[t].pc # "unsaved"
      /\ \A u \in Taps \ {t} : /\ task[u].pc # "accepted" /\ task'[u] = task[u]
                               /\ task'[u].pc # "accepted"
  BY OnlyOne, PhaseFacts
<1> QED
  BY <1>1 DEF AcceptedOn, UnsavedOn

(* The answers of Firestore and Storage.  *)
LEMMA ServeKeeps ==
    ASSUME TypeOK, PatientInv, NEW t \in Taps, Serve(t), UNCHANGED touched PROVE PatientInv'
<1> USE DEF PatientInv
<1> DEFINE x == task[t].obj
<1>1. /\ task[t].pc \in Live /\ Arrived /\ x \in Models /\ x.id \in Users /\ task[t].kind \in Kinds
      /\ HandlerFits(t) /\ RowsInv
      /\ \A u \in Taps \ {t} : task[u].pc \notin Live /\ task'[u] = task[u]
      /\ UNCHANGED <<early, home>>
  BY OnlyOne
<1>2. /\ task[t].pc \in {"upload", "write"}
      /\ UploadDone(t) => task[t].pc = "upload" /\ Goes(t, "write")
      /\ UploadFails(t) => task[t].pc = "upload" /\ Ends(t, "failed")
      /\ Writes(t) => task[t].pc = "write" /\ Goes(t, "accepted")
      /\ Refuse(t) => task[t].pc = "write" /\ Goes(t, "refused")
      /\ ~Writes(t) => users' = users
      /\ UNCHANGED <<userList, cards, spinning, dirty>>
  BY ServeFacts
<1>3. UploadDone(t) \/ UploadFails(t) \/ Writes(t) \/ Refuse(t)
  BY DEF Serve, Writes
<1>4. /\ task'[t].pc \in Live => task'[t].kind = task[t].kind /\ task'[t].obj = x
                                   /\ task'[t].place = task[t].place
      /\ task'[t].pc \notin {"upload", "unsaved"}
      /\ task'[t].pc = "accepted" <=> Writes(t)
  <2>1. (\E p \in {"write", "accepted", "refused"} : Goes(t, p)) \/ Ends(t, "failed")
    BY <1>2, <1>3
  <2>2. Writes(t) => task'[t].pc = "accepted"
    BY <1>2 DEF Goes
  <2>3. ~Writes(t) => task'[t].pc # "accepted"
    BY <1>2, <1>3 DEF Goes, Ends
  <2> QED
    BY <2>1, <2>2, <2>3, PhaseFacts DEF Goes, Ends
<1>5. \A u \in Taps : task'[u].pc \in Live => u = t
  BY <1>1
<1>6. screen' # screen => screen' = "Users" /\ screen = "Edit"
  BY ServeFacts DEF PagesInv, FormOpen
<1>7. PagesInv'
  <2>1. BeforeHome' /\ OneAtATime'
    BY <1>1, <1>5 DEF BeforeHome, Arrived, OneAtATime
  <2>2. Drawn'
    BY <1>2, <1>6 DEF PagesInv, Drawn, Rows
  <2>3. FormOpen'
    BY <1>4, <1>5, PhaseFacts DEF FormOpen
  <2> QED
    BY <2>1, <2>2, <2>3 DEF PagesInv
<1>8. FormFits'
  <2> SUFFICES ASSUME screen' = "Edit"
               PROVE  /\ screen = "Edit" /\ UNCHANGED form
                      /\ task'[t].pc \notin Live
    BY <1>2, <1>5 DEF HandlersInv, FormFits
  <2>1. screen = "Edit" /\ UNCHANGED form
    BY <1>6, ServeFacts
  <2>2. task[t].pc = "upload" /\ task[t].mounted
    BY <1>1, <2>1 DEF HandlersInv, FormFits
  <2>3. ~UploadDone(t)
    BY <2>2 DEF UploadDone, CloseForm
  <2>4. UploadFails(t)
    BY <1>2, <1>3, <2>2, <2>3
  <2> QED
    BY <1>2, <2>1, <2>4, PhaseFacts DEF Ends
<1>9. Writes(t) =>
         /\ \A u \in Users \ {x.id} : users'[u] = users[u]
         /\ DeleteSingleUser(t) \/ UpdateSingleUser(t)
         /\ DeleteSingleUser(t) => /\ task[t].kind = "delete"
                                   /\ users'[x.id].state = "deleted"
                                   /\ users'[x.id].name = users[x.id].name
                                   /\ users'[x.id].image = users[x.id].image
         /\ UpdateSingleUser(t) => /\ task[t].kind = "update"
                                   /\ users[x.id].state = "stored"
                                   /\ users'[x.id].state = "stored"
                                   /\ users'[x.id].name = x.name
                                   /\ users'[x.id].image = x.image
  BY WriteFacts DEF Writes
<1>10. ASSUME task'[t].pc \in Live PROVE HandlerFits(t)'
  <2>1. task'[t].kind = task[t].kind /\ task'[t].obj = x /\ task'[t].place = task[t].place
    BY <1>4, <1>10
  <2>2. CASE ~Writes(t)
    BY <1>1, <1>2, <1>4, <2>1, <2>2 DEF HandlerFits, NotOlder
  <2>3. CASE DeleteSingleUser(t)
    <3>1. task[t].kind = "delete" /\ users'[x.id].state = "deleted"
      BY <1>9, <2>3 DEF Writes
    <3> HIDE DEF x
    <3> QED
      BY <1>1, <1>2, <1>4, <2>1, <3>1 DEF HandlerFits, x
  <2>4. CASE UpdateSingleUser(t)
    <3>1. /\ task[t].kind = "update"
          /\ users'[x.id].name = x.name /\ users'[x.id].image = x.image
      BY <1>9, <2>4 DEF Writes
    <3>2. Look(users'[x.id]) = Look(x)
      BY <3>1 DEF Look
    <3>3. NotOlder(task[t].obj)'
      BY <2>1, <3>1 DEF NotOlder
    <3> QED
      BY <1>1, <1>2, <1>4, <2>1, <3>1, <3>2, <3>3 DEF HandlerFits
  <2> QED
    BY <2>2, <2>3, <2>4 DEF Writes
<1>11. HandlersInv'
  BY <1>2, <1>5, <1>8, <1>10 DEF HandlersInv
<1>12. QueryFresh(early)' /\ QueryFresh(home)'
  BY <1>1, QueriesKept
<1>13. RowsInv'
  <2>1. CASE ~Writes(t)
    <3>1. \A u \in Taps \ {t} : Keeps(u)
      BY <1>1 DEF Keeps
    <3>2. task[t].pc \notin {"accepted", "unsaved"} /\ task'[t].pc \notin {"accepted", "unsaved"}
      BY <1>2, <1>4, <2>1
    <3> QED
      BY <1>1, <1>2, <2>1, <3>1, <3>2, RowsKept
  <2>2. CASE Writes(t)
    <3>1. /\ \A k, kind : ~AcceptedOn(kind, k)
          /\ \A k, kind : AcceptedOn(kind, k)' <=> task[t].kind = kind /\ x.id = k
          /\ \A k : UnsavedOn(k)' <=> UnsavedOn(k)
      <4>1. /\ task[t].pc = "write" /\ task'[t].pc = "accepted"
            /\ task'[t].kind = task[t].kind /\ task'[t].obj = x
        BY <1>2, <2>2 DEF Goes
      <4>2. ASSUME NEW k
            PROVE  /\ \A kind : ~AcceptedOn(kind, k)
                   /\ \A kind : AcceptedOn(kind, k)' <=> task[t].kind = kind /\ x.id = k
                   /\ UnsavedOn(k)' <=> UnsavedOn(k)
        <5>1. /\ \A kind : AcceptedOn(kind, k) <=> task[t].pc = "accepted" /\ task[t].kind = kind
                                                      /\ task[t].obj.id = k
              /\ \A kind : AcceptedOn(kind, k)' <=> task'[t].pc = "accepted" /\ task'[t].kind = kind
                                                       /\ task'[t].obj.id = k
              /\ UnsavedOn(k)' <=> UnsavedOn(k) \/ (task'[t].pc = "unsaved" /\ task'[t].id = k)
          BY OnlyMarks
        <5> QED
          BY <4>1, <5>1
      <4> QED
        BY <4>2
    <3>2. StoredListed'
      <4>1. task[t].kind = "update" => users'[x.id].state = users[x.id].state
        BY <1>9, <2>2
      <4>2. \A u \in Users : u # x.id => users'[u] = users[u]
        BY <1>9, <2>2
      <4>3. Listed' = Listed
        BY <1>2 DEF Listed
      <4>4. task[t].kind = "delete" => users'[x.id].state = "deleted"
        BY <1>9, <2>2
      <4>5. task[t].kind \in {"delete", "update"}
        BY <1>1 DEF Kinds
      <4> HIDE DEF x
      <4> QED
        BY <1>1, <3>1, <4>1, <4>2, <4>3, <4>4, <4>5 DEF RowsInv, StoredListed
    <3>3. \A y \in Models : y.id # x.id => users'[y.id] = users[y.id]
      BY <1>9, <2>2 DEF Models
    <3>4. userList \in Seq(Models) /\ \A y \in ToSet(userList) : y \in Models
      BY DEF TypeOK, ToSet
    <3>5. /\ task[t].kind = "delete" => /\ users'[x.id].name = users[x.id].name
                                        /\ users'[x.id].image = users[x.id].image
          /\ task[t].kind \in {"delete", "update"}
      BY <1>1, <1>9, <2>2 DEF Kinds
    <3> HIDE DEF x
    <3>6. LooksFit'
      BY <1>1, <1>2, <3>1, <3>3, <3>4, <3>5 DEF RowsInv, LooksFit, Look
    <3>7. RowsFresh'
      BY <1>1, <1>2, <3>1, <3>3, <3>4, <3>5 DEF RowsInv, RowsFresh, NotOlder
    <3> QED
      BY <3>2, <3>6, <3>7 DEF RowsInv
  <2> QED
    BY <2>1, <2>2
<1> QED
  BY <1>7, <1>11, <1>12, <1>13

(* The list after the rest of a handler: the row of an accepted delete is  *)
(* gone, the row of an update is replaced, and nothing else changes.       *)
LEMMA ListResumed ==
    ASSUME TypeOK, PatientInv, NEW t \in Taps, Resume(t)
    PROVE  LET x == task[t].obj
           IN  /\ Distinct(userList')
               /\ \/ /\ task[t].kind = "delete" /\ task[t].pc = "accepted"
                     /\ task'[t].pc = "deleted"
                     /\ ToSet(userList') \subseteq ToSet(userList)
                     /\ Listed' = Listed \ {x.id}
                  \/ /\ task[t].kind = "delete" /\ task[t].pc = "refused"
                     /\ task'[t].pc = "kept"
                     /\ userList' = userList /\ Listed' = Listed
                  \/ /\ task[t].kind = "update" /\ task[t].pc \in {"accepted", "refused"}
                     /\ task'[t].pc = IF task[t].pc = "accepted" THEN "saved" ELSE "unsaved"
                     /\ Listed' = Listed
                     /\ \A y \in ToSet(userList') :
                           y = x \/ (y \in ToSet(userList) /\ y.id # x.id)
<1> USE DEF PatientInv
<1> DEFINE x == task[t].obj
           s == userList
           r == userList'
<1>1. /\ x \in Models /\ HandlerFits(t) /\ task[t].pc \in {"accepted", "refused"}
      /\ s \in Seq(Models) /\ r \in Seq(Models) /\ Distinct(s)
  BY OnlyOne, ResumeFacts DEF TypeOK, HandlersInv
<1>2. IsInjective(s) /\ \A y, z \in ToSet(s) : y.id = z.id => y = z
  BY <1>1, DistinctMembers
<1>3. CASE ResumeDelete(t) /\ task[t].pc = "accepted"
  <2>1. /\ task[t].kind = "delete" /\ r = RemoveFirst(s, x) /\ task'[t].pc = "deleted"
    BY <1>3, ResumeFacts DEF ResumeDelete
  <2>2. x \in ToSet(s)
    BY <1>1, <2>1 DEF HandlerFits
  <2> HIDE DEF s, x
  <2>3. ToSet(r) = ToSet(s) \ {x} /\ IsInjective(r)
    BY <1>1, <1>2, <2>1, RemoveFacts
  <2> HIDE DEF r
  <2>4. Distinct(r)
    BY <1>1, <1>2, <2>3, DistinctMembers
  <2>5. {y.id : y \in ToSet(r)} = {y.id : y \in ToSet(s)} \ {x.id}
    BY <1>2, <2>2, <2>3
  <2> QED
    BY <1>3, <2>1, <2>3, <2>4, <2>5 DEF Listed, r, s, x
<1>4. CASE ResumeDelete(t) /\ task[t].pc = "refused"
  BY <1>1, <1>4, ResumeFacts DEF ResumeDelete, Listed
<1>5. CASE ResumeUpdate(t)
  <2> DEFINE n == task[t].place
  <2>1. /\ task[t].kind = "update" /\ n \in DOMAIN s /\ s[n].id = x.id
    BY <1>1, <1>5 DEF ResumeUpdate, HandlerFits
  <2>2. /\ r = [s EXCEPT ![n] = x]
        /\ task'[t].pc = IF task[t].pc = "accepted" THEN "saved" ELSE "unsaved"
    BY <1>5, <2>1, ResumeFacts DEF ResumeUpdate
  <2> HIDE DEF s, x, n, r
  <2>3. /\ DOMAIN r = DOMAIN s
        /\ \A i \in DOMAIN s : r[i].id = s[i].id
        /\ \A i \in DOMAIN s : r[i] = IF i = n THEN x ELSE s[i]
    BY <1>1, <2>1, <2>2
  <2>4. Distinct(r)
    BY <1>1, <2>3 DEF Distinct
  <2>5. {y.id : y \in ToSet(r)} = {y.id : y \in ToSet(s)}
    BY <2>3 DEF ToSet
  <2>6. \A i \in DOMAIN s : i # n => s[i].id # x.id
    BY <1>1, <2>1 DEF Distinct
  <2>7. ASSUME NEW y \in ToSet(r) PROVE y = x \/ (y \in ToSet(s) /\ y.id # x.id)
    <3>1. PICK i \in DOMAIN s : y = r[i]
      BY <2>3 DEF ToSet
    <3>2. s[i] \in ToSet(s)
      BY DEF ToSet
    <3> QED
      BY <2>3, <2>6, <3>1, <3>2
  <2> QED
    BY <1>1, <2>1, <2>2, <2>4, <2>5, <2>7 DEF Listed, r, s, x
<1> QED
  BY <1>1, <1>3, <1>4, <1>5 DEF Resume

(* The rest of a handler.  *)
LEMMA ResumeKeeps ==
    ASSUME TypeOK, PatientInv, NEW t \in Taps, Resume(t), UNCHANGED touched PROVE PatientInv'
<1> USE DEF PatientInv
<1> DEFINE x == task[t].obj
<1>1. /\ task[t].pc \in Live /\ Arrived /\ x.id \in Users
      /\ HandlerFits(t) /\ RowsInv
      /\ \A u \in Taps \ {t} : task[u].pc \notin Live /\ task'[u] = task[u]
      /\ UNCHANGED <<early, home>>
  BY OnlyOne
<1>2. /\ task[t].pc \in {"accepted", "refused"}
      /\ task'[t].pc \in Ended /\ task'[t].id = x.id
      /\ UNCHANGED <<users, screen, form, cards>>
  BY ResumeFacts
<1>3. \A u \in Taps : task'[u].pc \notin Live
  BY <1>1, <1>2, PhaseFacts
<1>4. screen # "Edit"
  BY <1>1, <1>2 DEF HandlersInv, FormFits
<1>5. Drawn'
  <2>1. CASE ResumeDelete(t) \/ (ResumeUpdate(t) /\ task[t].place \in DOMAIN userList)
    BY <1>2, <2>1 DEF ResumeDelete, ResumeUpdate, NotifyListeners, Drawn
  <2>2. CASE ResumeUpdate(t) /\ task[t].place \notin DOMAIN userList
    BY <1>1, <2>2 DEF ResumeUpdate, HandlerFits
  <2> QED
    BY <2>1, <2>2 DEF Resume
<1>6. PagesInv'
  BY <1>1, <1>3, <1>5, PhaseFacts DEF PagesInv, BeforeHome, Arrived, OneAtATime, FormOpen
<1>7. HandlersInv'
  BY <1>2, <1>3, <1>4, ListResumed DEF HandlersInv, FormFits
<1>8. QueryFresh(early)' /\ QueryFresh(home)'
  BY <1>1, QueriesKept
<1>9. ASSUME NEW k
      PROVE  /\ \A kind : AcceptedOn(kind, k) <=> /\ task[t].pc = "accepted"
                                                  /\ task[t].kind = kind /\ x.id = k
             /\ \A kind : ~AcceptedOn(kind, k)'
             /\ UnsavedOn(k)' <=> UnsavedOn(k) \/ (task'[t].pc = "unsaved" /\ x.id = k)
  <2>1. /\ \A kind : AcceptedOn(kind, k) <=> /\ task[t].pc = "accepted"
                                             /\ task[t].kind = kind /\ x.id = k
        /\ \A kind : AcceptedOn(kind, k)' <=> task'[t].pc = "accepted" /\ task'[t].kind = kind
                                               /\ task'[t].obj.id = k
        /\ UnsavedOn(k)' <=> UnsavedOn(k) \/ (task'[t].pc = "unsaved" /\ task'[t].id = k)
    BY OnlyMarks
  <2>2. task'[t].pc # "accepted"
    BY <1>2 DEF Ended
  <2> QED
    BY <1>2, <2>1, <2>2
<1> HIDE DEF x
<1>10. CASE task[t].kind = "delete"
  <2>1. /\ ToSet(userList') \subseteq ToSet(userList)
        /\ task[t].pc = "accepted" => Listed' = Listed \ {x.id}
        /\ task[t].pc = "refused" => Listed' = Listed
        /\ task'[t].pc # "unsaved"
    BY <1>2, <1>10, ListResumed DEF x
  <2>2. task[t].pc = "accepted" => users[x.id].state = "deleted"
    BY <1>1, <1>10 DEF HandlerFits, x
  <2>3. StoredListed'
    BY <1>1, <1>2, <1>9, <1>10, <2>1, <2>2 DEF RowsInv, StoredListed
  <2>4. LooksFit'
    BY <1>1, <1>2, <1>9, <1>10, <2>1 DEF RowsInv, LooksFit
  <2>5. RowsFresh'
    <3>1. ASSUME NEW k PROVE ~AcceptedOn("update", k)
      <4>1. AcceptedOn("update", k) => task[t].kind = "update"
        BY <1>9, Zenon
      <4> QED
        BY <1>10, <4>1
    <3>2. \A y \in ToSet(userList) : NotOlder(y)
      BY <1>1, <3>1 DEF RowsInv, RowsFresh
    <3>3. ASSUME NEW y \in ToSet(userList') PROVE NotOlder(y)'
      BY <1>2, <2>1, <3>2 DEF NotOlder
    <3> QED
      BY <3>3 DEF RowsFresh
  <2> QED
    BY <1>6, <1>7, <1>8, <2>3, <2>4, <2>5 DEF RowsInv
<1>11. CASE task[t].kind = "update"
  <2>1. /\ Listed' = Listed
        /\ task'[t].pc = IF task[t].pc = "accepted" THEN "saved" ELSE "unsaved"
        /\ \A y \in ToSet(userList') : y = x \/ (y \in ToSet(userList) /\ y.id # x.id)
    BY <1>11, ListResumed DEF x
  <2>2. /\ NotOlder(x)
        /\ task[t].pc # "accepted" \/ x.id \in touched \/ Look(users[x.id]) = Look(x)
    BY <1>1, <1>11 DEF HandlerFits, x
  <2>3. StoredListed'
    BY <1>1, <1>2, <1>9, <1>11, <2>1 DEF RowsInv, StoredListed
  <2>4. LooksFit'
    BY <1>1, <1>2, <1>9, <2>1, <2>2 DEF RowsInv, LooksFit
  <2>5. RowsFresh'
    BY <1>1, <1>2, <1>9, <2>1, <2>2 DEF RowsInv, RowsFresh, NotOlder
  <2> QED
    BY <1>6, <1>7, <1>8, <2>3, <2>4, <2>5 DEF RowsInv
<1> QED
  BY <1>10, <1>11, OnlyOne DEF Kinds

(* Every step of a patient admin's desk.  *)
LEMMA PatientStep ==
    ASSUME TypeOK, PatientInv, [PatientNext]_vars PROVE PatientInv'
<1>1. CASE UNCHANGED vars
  <2>1. UNCHANGED <<users, userList, early, home, screen, form, cards, spinning, dirty, task, touched>>
    BY <1>1 DEF vars, pages, loads
  <2>2. (\A t \in Taps : Keeps(t)) /\ QueryFresh(early)' /\ QueryFresh(home)'
    BY <2>1, QueriesKept DEF Keeps, PatientInv
  <2>3. home'.phase = "done" => RowsInv'
    BY <2>1, <2>2, RowsKept DEF PatientInv
  <2>4. PagesInv'
    BY <2>1 DEF PatientInv, PagesInv, BeforeHome, Arrived, OneAtATime, Drawn, FormOpen, Rows
  <2>5. HandlersInv'
    BY <2>1 DEF PatientInv, HandlersInv, FormFits, HandlerFits, NotOlder
  <2> QED
    BY <2>2, <2>3, <2>4, <2>5 DEF PatientInv
<1> QED
  BY <1>1, LoadingKeeps, DisposingKeeps, OpeningKeeps, TapKeeps, ServeKeeps, ResumeKeeps,
     OthersKeep DEF PatientNext, Ongoing, Disposes

(* What every behaviour of a patient admin's desk keeps.  *)
LEMMA PatientInvariant == PatientSpec => []PatientInv
<1>1. Init => PatientInv
  <2> SUFFICES ASSUME Init PROVE PatientInv
    OBVIOUS
  <2>1. \A t \in Taps : task[t].pc \notin Live /\ task[t] = Unused
    BY PhaseFacts DEF Init, Unused
  <2>2. PagesInv
    BY <2>1, PhaseFacts DEF Init, PagesInv, BeforeHome, OneAtATime, Drawn, FormOpen
  <2>3. Distinct(<< >>)
    BY DEF Distinct
  <2>4. HandlersInv
    BY <2>1, <2>3 DEF Init, HandlersInv, FormFits
  <2> QED
    BY <2>2, <2>3, <2>4 DEF Init, PatientInv, QueryFresh
<1>2. TypeOK /\ PatientInv /\ [PatientNext]_vars => PatientInv'
  BY PatientStep
<1>3. PatientSpec => []TypeOK
  BY TypesElsewhere
<1> QED
  BY <1>1, <1>2, <1>3, PTL DEF PatientSpec

(* For a patient admin no user is listed twice.  *)
THEOREM UsersAreListedOnce == PatientSpec => []ListedOnce
<1>1. PatientInv => ListedOnce
  BY DEF PatientInv, HandlersInv, Distinct, ListedOnce
<1> QED
  BY <1>1, PatientInvariant, PTL

(* Whenever a patient admin may tap, each row shows what the list has at   *)
(* its position.                                                           *)
THEOREM RowsAreFresh == PatientSpec => []FreshRows
<1>1. PatientInv => FreshRows
  BY DEF PatientInv, PagesInv, Drawn, FreshRows, Quiet
<1> QED
  BY <1>1, PatientInvariant, PTL

(* Whenever nothing runs, the users no other client wrote to are listed if *)
(* and only if they are stored, with the name and picture they have, but   *)
(* for those whose update was refused.                                     *)
THEOREM RosterIsMirrored == PatientSpec => []RosterMirrors
<1>1. PatientInv => RosterMirrors
  <2> SUFFICES ASSUME PatientInv, Quiet, home.phase = "done"
               PROVE  /\ \A u \in Users \ touched : u \in Listed <=> users[u].state = "stored"
                      /\ \A x \in ToSet(userList) :
                            \/ x.id \in touched
                            \/ x.name = users[x.id].name /\ x.image = users[x.id].image
                            \/ \E t \in Taps : task[t].pc = "unsaved" /\ task[t].id = x.id
    BY DEF RosterMirrors
  <2>1. RowsInv /\ \A k, kind : ~AcceptedOn(kind, k)
    BY PhaseFacts DEF PatientInv, AcceptedOn, Quiet
  <2>2. \A u \in Users \ touched : u \in Listed <=> users[u].state = "stored"
    BY <2>1 DEF RowsInv, StoredListed
  <2>3. ASSUME NEW x \in ToSet(userList)
        PROVE  \/ x.id \in touched
               \/ x.name = users[x.id].name /\ x.image = users[x.id].image
               \/ \E t \in Taps : task[t].pc = "unsaved" /\ task[t].id = x.id
    BY <2>1 DEF RowsInv, LooksFit, Look, UnsavedOn
  <2> QED
    BY <2>2, <2>3
<1> QED
  BY <1>1, PatientInvariant, PTL

(* Once both queries are back, a user leaves a patient admin's list only   *)
(* after the document is deleted.                                          *)
THEOREM OnlyDeletedUsersLeave == PatientSpec => OnlyDeletedLeave
<1>1. ASSUME TypeOK, PatientInv, [PatientNext]_vars, home.phase = "done", early.phase = "done"
      PROVE  \A u \in Listed \ Listed' : users[u].state = "deleted"
  <2>1. ASSUME NEW t \in Taps, Resume(t)
        PROVE  \A u \in Listed \ Listed' : users[u].state = "deleted"
    <3>1. \/ Listed' = Listed
          \/ /\ Listed' = Listed \ {task[t].obj.id}
             /\ task[t].kind = "delete" /\ task[t].pc = "accepted"
      BY <1>1, <2>1, ListResumed
    <3>2. HandlerFits(t)
      BY <1>1, <2>1, OnlyOne
    <3> QED
      BY <3>1, <3>2 DEF HandlerFits
  <2>2. CASE UNCHANGED userList
    BY <2>2 DEF Listed
  <2>3. ~Loading
    BY <1>1 DEF Loading, AnswerEarly, ArriveEarly, AnswerHome, ArriveHome, QueryFails
  <2>4. Disposes => UNCHANGED userList
    BY <1>1, DisposeFacts
  <2>5. \A t \in Taps : Serve(t) \/ Tap(t) => UNCHANGED userList
    BY <1>1, ServeFacts, TapFacts
  <2>6. \/ OpenUserView \/ (\E i \in DOMAIN cards : TapEdit(i))
        \/ (\E u \in Users : OtherClient(u)) \/ UNCHANGED vars
        => UNCHANGED userList
    BY DEF OpenUserView, TapEdit, OtherClient, vars
  <2> QED
    BY <1>1, <2>1, <2>2, <2>3, <2>4, <2>5, <2>6 DEF PatientNext, Ongoing, Disposes
<1>2. TypeOK /\ PatientInv /\ [PatientNext]_vars
         => [home.phase = "done" /\ early.phase = "done" =>
                \A u \in Listed \ Listed' : users[u].state = "deleted"]_vars
  BY <1>1
<1>3. PatientSpec => []TypeOK
  BY TypesElsewhere
<1> QED
  BY <1>2, <1>3, PatientInvariant, PTL DEF PatientSpec, OnlyDeletedLeave

(* A patient admin's update stores all fields of a model that was read     *)
(* earlier, and still puts no earlier name or picture back, unless another *)
(* client had written to that user.                                        *)
THEOREM UpdatesPutNothingBack == PatientSpec => NothingPutBack
<1>1. ASSUME TypeOK, PatientInv, [PatientNext]_vars, NEW u \in Users \ touched'
      PROVE  /\ users[u].name = "new" => users'[u].name = "new"
             /\ users[u].image = "new" => users'[u].image = "new"
  <2>1. ASSUME NEW t \in Taps, Serve(t), UNCHANGED touched
        PROVE  /\ users[u].name = "new" => users'[u].name = "new"
               /\ users[u].image = "new" => users'[u].image = "new"
    <3>1. CASE ~Writes(t)
      BY <1>1, <2>1, <3>1, ServeFacts
    <3>2. CASE DeleteSingleUser(t)
      BY <1>1, <3>2, WriteFacts DEF Writes
    <3>3. CASE UpdateSingleUser(t)
      <4>1. HandlerFits(t)
        BY <1>1, <2>1, OnlyOne
      <4> DEFINE x == task[t].obj
      <4>2. /\ \A v \in Users \ {x.id} : users'[v] = users[v]
            /\ task[t].kind = "update"
            /\ users'[x.id].name = x.name /\ users'[x.id].image = x.image
        BY <1>1, <3>3, WriteFacts DEF Writes
      <4>3. NotOlder(x)
        BY <4>1, <4>2 DEF HandlerFits
      <4> HIDE DEF x
      <4> QED
        BY <1>1, <2>1, <4>2, <4>3 DEF NotOlder
    <3> QED
      BY <3>1, <3>2, <3>3 DEF Writes
  <2>2. ASSUME NEW v \in Users, OtherClient(v) PROVE users'[u] = users[u]
    BY <1>1, <2>2, OtherTypes
  <2>3. CASE UNCHANGED users
    BY <2>3
  <2>4. Disposes => UNCHANGED users
    BY <1>1, DisposeFacts
  <2>5. \A t \in Taps : Resume(t) \/ Tap(t) => UNCHANGED users
    BY <1>1, ResumeFacts, TapFacts
  <2>6. \/ Loading \/ OpenUserView \/ (\E i \in DOMAIN cards : TapEdit(i)) \/ UNCHANGED vars
        => UNCHANGED users
    BY DEF Loading, AnswerEarly, ArriveEarly, AnswerHome, ArriveHome, QueryFails,
           OpenUserView, TapEdit, vars
  <2> QED
    BY <1>1, <2>1, <2>2, <2>3, <2>4, <2>5, <2>6 DEF PatientNext, Ongoing, Disposes
<1>2. TypeOK /\ PatientInv /\ [PatientNext]_vars
         => [\A u \in Users \ touched' :
                /\ users[u].name = "new" => users'[u].name = "new"
                /\ users[u].image = "new" => users'[u].image = "new"]_vars
  BY <1>1
<1>3. PatientSpec => []TypeOK
  BY TypesElsewhere
<1> QED
  BY <1>2, <1>3, PatientInvariant, PTL DEF PatientSpec, NothingPutBack
=============================================================================
