------------------------- MODULE WindowsRunnerProofs -------------------------
(***************************************************************************)
(* Proofs about the Windows runner: the message loop finds its window      *)
(* whole or gone, no message reaches a freed object, and the program       *)
(* leaves nothing behind.                                                  *)
(*                                                                         *)
(* What is true depends on what is still to be run, so the inductive       *)
(* invariant, RunnerInv, goes through the stacks the program can have.  A  *)
(* window is destroyed in two places, from the loop and from the           *)
(* destructor, by the same calls: Ending(r) is the destruction that goes   *)
(* on with r.                                                              *)
(***************************************************************************)
EXTENDS WindowsRunner, TLAPS

(* The call c, and after it the calls of r.  *)
Push(c, r) == <<c>> \o r

AtDestructor == Push("destructor", << >>)
AtLoop       == Push("loop", AtDestructor)
AtCreated    == Push("created", << >>)
AtGone(r)    == Push("WM_NCDESTROY", r)

-----------------------------------------------------------------------------
(* What is left of the window and of the engine.  *)
Blank  == window = "none" /\ ~windowHandle /\ controller = "none" /\ ~callback /\ ~quit
Whole  == window = "alive" /\ windowHandle /\ controller = "live" /\ childContent /\ ~quit
Broken == /\ window \in {"none", "alive"} /\ controller # "live"
          /\ window = "alive" => windowHandle
Gone   == window = "gone" /\ ~windowHandle /\ controller = "none" /\ ~callback /\ quit
Silent == ~windowHandle /\ controller = "none" /\ ~callback

(* The window is being destroyed; the calls of r follow.  *)
Ending(r) ==
    /\ window = "dying"
    /\ \/ stack = Push("WM_DESTROY", AtGone(r))
       \/ stack = Push("Destroy", Push("quit", AtGone(r))) /\ ~windowHandle
       \/ stack = Push("destroyed", Push("quit", AtGone(r))) /\ Silent
       \/ stack = Push("quit", AtGone(r)) /\ Silent
       \/ stack = AtGone(r) /\ Silent /\ (quitOnClose => quit)

(* The phases of the program, in the order it goes through them.  *)
Starting ==
    stack = Push("wWinMain", << >>) /\ object = "none" /\ activeWindows = 0 /\ Blank

Creating ==
    /\ Blank
    /\ \/ stack = Push("Create", AtCreated)
       \/ stack = Push("Destroy", Push("CreateWindow", AtCreated))
       \/ stack = Push("destroyed", Push("CreateWindow", AtCreated))
       \/ stack = Push("CreateWindow", AtCreated)

Opening ==
    /\ stack = Push("OnCreate", AtCreated)
    /\ window = "alive" /\ windowHandle /\ controller = "none" /\ ~quit

Opened ==
    /\ stack = AtCreated
    /\ \/ result = "success" /\ Whole
       \/ result = "failure" /\ Broken

Looping ==
    /\ quitOnClose
    /\ \/ stack = AtLoop /\ (Whole \/ Gone)
       \/ \E m \in Messages : stack = Push(m, AtLoop) /\ Whole
       \/ Ending(AtLoop)

Leaving == stack = AtDestructor /\ (Broken \/ Gone)

(* From Create to the destructor the window is an object, and counted.  *)
Alive ==
    /\ object = "alive" /\ activeWindows = 1
    /\ Creating \/ Opening \/ Opened \/ Looping \/ Leaving

Destructing ==
    /\ object = "base" /\ activeWindows = 0 /\ controller = "none" /\ ~callback
    /\ \/ /\ stack = Push("Destroy", AtDestructor)
          /\ window # "dying" /\ (window = "alive" => windowHandle)
       \/ Ending(Push("destroyed", AtDestructor))
       \/ stack = Push("destroyed", AtDestructor) /\ window \in {"none", "gone"}
       \/ /\ stack = AtDestructor /\ window \in {"none", "gone"}
          /\ ~classKnown /\ ~registered

Dead ==
    /\ stack = << >>
    /\ object = "dead" /\ activeWindows = 0 /\ controller = "none"
    /\ window \in {"none", "gone"} /\ ~classKnown /\ ~registered

(* Messages wait for a window only.  *)
QueueOwned == queue # << >> => window \in {"alive", "dying"}

(* The inductive invariant.  *)
RunnerInv == TypeOK /\ QueueOwned /\ (Starting \/ Alive \/ Destructing \/ Dead)
-----------------------------------------------------------------------------
(* Pushing a call leaves the calls under it alone.  *)
LEMMA PushFacts ==
    ASSUME NEW c \in Calls, NEW r \in Seq(Calls)
    PROVE  /\ Push(c, r) \in Seq(Calls) /\ Push(c, r) # << >>
           /\ Head(Push(c, r)) = c /\ Tail(Push(c, r)) = r
<1>1. <<c>> \in Seq(Calls)
  OBVIOUS
<1>2. Push(c, r) \in Seq(Calls) /\ Len(Push(c, r)) = Len(r) + 1 /\ Push(c, r)[1] = c
  BY <1>1 DEF Push
<1>3. \A i \in 1 .. Len(r) : Push(c, r)[i + 1] = r[i]
  BY <1>1 DEF Push
<1>4. Tail(Push(c, r)) = r
  BY <1>2, <1>3
<1> QED
  BY <1>2, <1>4

(* Calls that are added together are pushed from the last to the first.  *)
LEMMA PushMany ==
    ASSUME NEW c \in Calls, NEW d \in Calls, NEW e \in Calls, NEW r \in Seq(Calls)
    PROVE  /\ << >> \o r = r
           /\ <<c>> \o r = Push(c, r)
           /\ <<c, d>> \o r = Push(c, Push(d, r))
           /\ <<c, d, e>> \o r = Push(c, Push(d, Push(e, r)))
<1>1. <<c>> \in Seq(Calls) /\ <<d>> \in Seq(Calls) /\ <<e>> \in Seq(Calls)
  OBVIOUS
<1>2. \A s, t, u \in Seq(Calls) : (s \o t) \o u = s \o (t \o u)
  OBVIOUS
<1>3. <<c, d>> \in Seq(Calls) /\ <<c, d, e>> \in Seq(Calls)
  OBVIOUS
<1>4. ASSUME NEW s \in Seq(Calls) PROVE <<c, d>> \o s = <<c>> \o (<<d>> \o s)
  <2>1. /\ <<d>> \o s \in Seq(Calls) /\ Len(<<d>> \o s) = Len(s) + 1
        /\ (<<d>> \o s)[1] = d
        /\ \A i \in 1 .. Len(s) : (<<d>> \o s)[i + 1] = s[i]
    BY <1>1
  <2>2. PICK t \in Seq(Calls) : t = <<d>> \o s
    BY <2>1
  <2>3. /\ Len(<<c>> \o t) = Len(s) + 2
        /\ (<<c>> \o t)[1] = c /\ (<<c>> \o t)[2] = d
        /\ \A i \in 1 .. Len(s) : (<<c>> \o t)[i + 2] = s[i]
    BY <1>1, <2>1, <2>2
  <2>4. /\ Len(<<c, d>> \o s) = Len(s) + 2
        /\ (<<c, d>> \o s)[1] = c /\ (<<c, d>> \o s)[2] = d
        /\ \A i \in 1 .. Len(s) : (<<c, d>> \o s)[i + 2] = s[i]
    BY <1>3
  <2>5. <<c, d>> \o s \in Seq(Calls) /\ <<c>> \o t \in Seq(Calls)
    BY <1>1, <1>3
  <2>6. PICK u \in Seq(Calls) : u = <<c, d>> \o s
    BY <2>5
  <2>7. PICK v \in Seq(Calls) : v = <<c>> \o t
    BY <2>5
  <2>8. ASSUME NEW i \in 1 .. Len(s) + 2 PROVE u[i] = v[i]
    <3>1. i = 1 \/ i = 2 \/ i - 2 \in 1 .. Len(s)
      OBVIOUS
    <3>2. i - 2 \in 1 .. Len(s) => u[(i - 2) + 2] = v[(i - 2) + 2]
      BY <2>3, <2>4, <2>6, <2>7
    <3> QED
      BY <2>3, <2>4, <2>6, <2>7, <3>1, <3>2
  <2>9. Len(u) = Len(s) + 2 /\ Len(v) = Len(s) + 2
    BY <2>3, <2>4, <2>6, <2>7
  <2>10. u = v
    BY <2>8, <2>9
  <2> QED
    BY <2>2, <2>6, <2>7, <2>10
<1>5. <<c, d, e>> = <<c, d>> \o <<e>>
  OBVIOUS
<1>6. <<c, d, e>> \o r = <<c, d>> \o (<<e>> \o r)
  BY <1>1, <1>2, <1>3, <1>5
<1>7. <<e>> \o r \in Seq(Calls)
  BY <1>1
<1>8. PICK t \in Seq(Calls) : t = <<e>> \o r
  BY <1>7
<1>9. <<c, d>> \o t = <<c>> \o (<<d>> \o t)
  BY <1>4
<1> QED
  BY <1>4, <1>6, <1>8, <1>9 DEF Push

(* The continuations are stacks.  *)
LEMMA StackTypes ==
    /\ << >> \in Seq(Calls) /\ AtDestructor \in Seq(Calls)
    /\ AtLoop \in Seq(Calls) /\ AtCreated \in Seq(Calls)
    /\ Push("destroyed", AtDestructor) \in Seq(Calls)
    /\ \A r \in Seq(Calls) : AtGone(r) \in Seq(Calls)
<1>1. << >> \in Seq(Calls)
  OBVIOUS
<1>2. AtDestructor \in Seq(Calls) /\ AtCreated \in Seq(Calls)
  BY <1>1, PushFacts DEF AtDestructor, AtCreated, Calls
<1>3. AtLoop \in Seq(Calls) /\ Push("destroyed", AtDestructor) \in Seq(Calls)
  BY <1>2, PushFacts DEF AtLoop, Calls
<1>4. \A r \in Seq(Calls) : AtGone(r) \in Seq(Calls)
  BY PushFacts DEF AtGone, Calls
<1> QED
  BY <1>1, <1>2, <1>3, <1>4

(* The call that runs is the one on top, ...  *)
LEMMA OnTop ==
    ASSUME NEW c \in Calls, NEW r \in Seq(Calls), stack = Push(c, r)
    PROVE  \A d : Runs(d) <=> d = c
BY PushFacts DEF Runs

(* ... and what follows it is where its action goes on.  *)
LEMMA Onward ==
    ASSUME NEW c \in Calls, NEW r \in Seq(Calls), stack = Push(c, r),
           NEW d \in Calls, NEW e \in Calls, NEW f \in Calls
    PROVE  /\ Continue(<< >>) => stack' = r
           /\ Continue(<<d>>) => stack' = Push(d, r)
           /\ Continue(<<d, e>>) => stack' = Push(d, Push(e, r))
           /\ Continue(<<d, e, f>>) => stack' = Push(d, Push(e, Push(f, r)))
<1>1. Tail(stack) = r
  BY PushFacts
<1>2. /\ << >> \o r = r
      /\ <<d>> \o r = Push(d, r)
      /\ <<d, e>> \o r = Push(d, Push(e, r))
      /\ <<d, e, f>> \o r = Push(d, Push(e, Push(f, r)))
  BY PushMany
<1> QED
  BY <1>1, <1>2 DEF Continue

(* Every step of the program belongs to the call on top.  *)
LEMMA WhoRuns ==
    ASSUME NEW c, \A d : Runs(d) <=> d = c, Program
    PROVE  /\ c = "wWinMain" => WWinMain
           /\ c = "Create" => Create
           /\ c = "CreateWindow" => CreateWindow \/ CreateWindowFails
           /\ c = "OnCreate" => OnCreate \/ OnCreateFails
           /\ c = "created" => Created
           /\ c = "loop" => Dispatch \/ LeaveLoop
           /\ c = "WM_CLOSE" => HandleClose
           /\ c = "WM_FONTCHANGE" => HandleFontChange
           /\ c = "WM_SIZE" => HandleSize
           /\ c = "frame" => HandleFrame
           /\ c = "WM_DESTROY" => HandleDestroy
           /\ c = "quit" => PostQuit
           /\ c = "Destroy" => Destroy
           /\ c = "destroyed" => Destroyed
           /\ c = "WM_NCDESTROY" => WindowGone
           /\ c = "destructor" => Destructor
<1>1. /\ WWinMain => Runs("wWinMain")
      /\ Create => Runs("Create")
      /\ CreateWindow => Runs("CreateWindow")
      /\ CreateWindowFails => Runs("CreateWindow")
      /\ OnCreate => Runs("OnCreate")
      /\ OnCreateFails => Runs("OnCreate")
      /\ Created => Runs("created")
  BY DEF WWinMain, Create, CreateWindow, CreateWindowFails, OnCreate, OnCreateFails, Created
<1>2. /\ Dispatch => Runs("loop")
      /\ LeaveLoop => Runs("loop")
      /\ HandleClose => Runs("WM_CLOSE")
      /\ HandleFontChange => Runs("WM_FONTCHANGE")
      /\ HandleSize => Runs("WM_SIZE")
      /\ HandleFrame => Runs("frame")
  BY DEF Dispatch, LeaveLoop, HandleClose, HandleFontChange, HandleSize, HandleFrame
<1>3. /\ HandleDestroy => Runs("WM_DESTROY")
      /\ PostQuit => Runs("quit")
      /\ Destroy => Runs("Destroy")
      /\ Destroyed => Runs("destroyed")
      /\ WindowGone => Runs("WM_NCDESTROY")
      /\ Destructor => Runs("destructor")
  BY DEF HandleDestroy, PostQuit, Destroy, Destroyed, WindowGone, Destructor
<1>4. Program <=>
        \/ WWinMain \/ Create \/ CreateWindow \/ CreateWindowFails
        \/ OnCreate \/ OnCreateFails \/ Created
        \/ Dispatch \/ LeaveLoop \/ HandleClose
        \/ HandleFontChange \/ HandleSize \/ HandleFrame
        \/ HandleDestroy \/ PostQuit \/ Destroy \/ Destroyed \/ WindowGone
        \/ Destructor
  BY DEF Program
<1> QED
  BY <1>1, <1>2, <1>3, <1>4

-----------------------------------------------------------------------------
(* The destruction of a window comes to its end whoever began it: the      *)
(* object, its count and quit_on_close_ stay as they are, and a controller *)
(* that was let go of stays so.                                            *)
LEMMA EndingStep ==
    ASSUME NEW r \in Seq(Calls), Ending(r), Program,
           object = "alive" \/ (controller = "none" /\ ~callback)
    PROVE  /\ UNCHANGED <<object, activeWindows, quitOnClose>>
           /\ (controller = "none" /\ ~callback) => (controller' = "none" /\ ~callback')
           /\ \/ Ending(r)'
              \/ stack' = r /\ window' = "gone" /\ Silent' /\ (quitOnClose => quit')
<1>1. AtGone(r) \in Seq(Calls) /\ Push("quit", AtGone(r)) \in Seq(Calls)
  BY PushFacts, StackTypes DEF Calls
<1>2. CASE stack = Push("WM_DESTROY", AtGone(r))
  <2>1. HandleDestroy
    <3>1. \A d : Runs(d) <=> d = "WM_DESTROY"
      BY <1>1, <1>2, OnTop DEF Calls
    <3> QED
      BY <3>1, WhoRuns
  <2>2. stack' = Push("Destroy", Push("quit", AtGone(r)))
    BY <1>1, <1>2, <2>1, Onward DEF HandleDestroy, Calls
  <2> QED
    BY <2>1, <2>2 DEF HandleDestroy, Ending, os, engine
<1>3. CASE stack = Push("Destroy", Push("quit", AtGone(r))) /\ ~windowHandle
  <2>1. Destroy
    BY <1>1, <1>3, OnTop, WhoRuns DEF Calls
  <2>2. Continue(<<"destroyed">>) /\ window' = window
    BY <1>3, <2>1 DEF Destroy
  <2>3. stack' = Push("destroyed", Push("quit", AtGone(r)))
    BY <1>1, <1>3, <2>2, Onward DEF Calls
  <2>4. controller' = "none" /\ ~callback'
    BY <2>1 DEF Destroy, OnDestroy
  <2> QED
    BY <1>3, <2>1, <2>2, <2>3, <2>4 DEF Destroy, Ending, Silent, flags
<1>4. CASE stack = Push("destroyed", Push("quit", AtGone(r))) /\ Silent
  <2>1. Destroyed
    BY <1>1, <1>4, OnTop, WhoRuns DEF Calls
  <2>2. stack' = Push("quit", AtGone(r))
    BY <1>1, <1>4, <2>1, Onward DEF Destroyed, Calls
  <2> QED
    BY <1>4, <2>1, <2>2 DEF Destroyed, Ending, Silent, engine
<1>5. CASE stack = Push("quit", AtGone(r)) /\ Silent
  <2>1. PostQuit
    BY <1>1, <1>5, OnTop, WhoRuns DEF Calls
  <2>2. stack' = AtGone(r)
    BY <1>1, <1>5, <2>1, Onward DEF PostQuit, Calls
  <2> QED
    BY <1>5, <2>1, <2>2 DEF PostQuit, Ending, Silent, engine, flags
<1>6. CASE stack = AtGone(r) /\ Silent /\ (quitOnClose => quit)
  <2>1. WindowGone
    <3>1. \A d : Runs(d) <=> d = "WM_NCDESTROY"
      BY <1>6, OnTop DEF AtGone, Calls
    <3> QED
      BY <3>1, WhoRuns
  <2>2. stack' = r
    BY <1>6, <2>1, Onward DEF WindowGone, AtGone, Calls
  <2> QED
    BY <1>6, <2>1, <2>2 DEF WindowGone, Silent, engine, flags
<1> QED
  BY <1>2, <1>3, <1>4, <1>5, <1>6 DEF Ending

-----------------------------------------------------------------------------
(* One lemma for each phase: what the call on top does leads to the same   *)
(* phase or to the next one.                                               *)
LEMMA StartingStep ==
    ASSUME Starting, Program PROVE Alive'
<1>1. WWinMain
  <2>1. \A d : Runs(d) <=> d = "wWinMain"
    BY OnTop, StackTypes DEF Starting, Calls
  <2> QED
    BY <2>1, WhoRuns
<1>2. stack' = Push("Create", AtCreated)
  BY <1>1, Onward, StackTypes DEF WWinMain, Starting, AtCreated, Calls
<1>3. Creating'
  BY <1>1, <1>2 DEF WWinMain, Creating, Starting, Blank, os, flags, engine
<1> QED
  BY <1>1, <1>3 DEF WWinMain, Alive, Starting

(* Destroy finds nothing to destroy; a refused window leaves at most a     *)
(* handle that is stale.                                                   *)
LEMMA CreatingStep ==
    ASSUME Creating, object = "alive", activeWindows = 1, Program
    PROVE  Alive'
<1>1. Push("CreateWindow", AtCreated) \in Seq(Calls)
  BY StackTypes, PushFacts DEF Calls
<1>2. CASE stack = Push("Create", AtCreated)
  <2>1. Create
    BY <1>2, OnTop, WhoRuns, StackTypes DEF Calls
  <2>2. stack' = Push("Destroy", Push("CreateWindow", AtCreated))
    BY <1>2, <2>1, Onward, StackTypes DEF Create, Calls
  <2> QED
    BY <2>1, <2>2 DEF Create, Creating, Blank, Alive, os, flags, engine
<1>3. CASE stack = Push("Destroy", Push("CreateWindow", AtCreated))
  <2>1. Destroy
    BY <1>1, <1>3, OnTop, WhoRuns DEF Calls
  <2>2. Continue(<<"destroyed">>) /\ window' = window
    BY <2>1 DEF Destroy, Creating, Blank
  <2>3. stack' = Push("destroyed", Push("CreateWindow", AtCreated))
    BY <1>1, <1>3, <2>2, Onward DEF Calls
  <2>4. controller' = "none" /\ ~callback'
    BY <2>1 DEF Destroy, OnDestroy
  <2> QED
    BY <2>1, <2>2, <2>3, <2>4 DEF Destroy, Creating, Blank, Alive, flags
<1>4. CASE stack = Push("destroyed", Push("CreateWindow", AtCreated))
  <2>1. Destroyed
    BY <1>1, <1>4, OnTop, WhoRuns DEF Calls
  <2>2. stack' = Push("CreateWindow", AtCreated)
    BY <1>1, <1>4, <2>1, Onward DEF Destroyed, Calls
  <2> QED
    BY <2>1, <2>2 DEF Destroyed, Creating, Blank, Alive, engine
<1>5. CASE stack = Push("CreateWindow", AtCreated)
  <2>1. \A d : Runs(d) <=> d = "CreateWindow"
    BY <1>5, OnTop, StackTypes DEF Calls
  <2>2. CASE CreateWindow
    <3>1. stack' = Push("OnCreate", AtCreated)
      BY <1>5, <2>2, Onward, StackTypes DEF CreateWindow, Calls
    <3> QED
      BY <2>2, <3>1 DEF CreateWindow, Creating, Opening, Blank, Alive, engine
  <2>3. CASE CreateWindowFails
    <3>1. stack' = AtCreated
      BY <1>5, <2>3, Onward, StackTypes DEF CreateWindowFails, Calls
    <3> QED
      BY <2>3, <3>1 DEF CreateWindowFails, Creating, Opened, Broken, Blank, Alive, engine
  <2> QED
    BY <2>1, <2>2, <2>3, WhoRuns
<1> QED
  BY <1>2, <1>3, <1>4, <1>5 DEF Creating

LEMMA OpeningStep ==
    ASSUME Opening, object = "alive", activeWindows = 1, Program
    PROVE  Alive'
<1>1. \A d : Runs(d) <=> d = "OnCreate"
  BY OnTop, StackTypes DEF Opening, Calls
<1>2. CASE OnCreate
  <2>1. stack' = AtCreated
    BY <1>2, Onward, StackTypes DEF OnCreate, Opening, Calls
  <2> QED
    BY <1>2, <2>1 DEF OnCreate, Opening, Opened, Whole, Alive, os
<1>3. CASE OnCreateFails
  <2>1. stack' = AtCreated
    BY <1>3, Onward, StackTypes DEF OnCreateFails, Opening, Calls
  <2> QED
    BY <1>3, <2>1 DEF OnCreateFails, Opening, Opened, Broken, Alive, os, flags
<1> QED
  BY <1>1, <1>2, <1>3, WhoRuns

LEMMA OpenedStep ==
    ASSUME Opened, object = "alive", activeWindows = 1, Program
    PROVE  Alive'
<1>1. Created
  <2>1. \A d : Runs(d) <=> d = "created"
    BY OnTop, StackTypes DEF Opened, AtCreated, Calls
  <2> QED
    BY <2>1, WhoRuns
<1>2. /\ Continue(<<"destructor">>) => stack' = AtDestructor
      /\ Continue(<<"loop", "destructor">>) => stack' = AtLoop
  BY Onward, StackTypes DEF Opened, AtCreated, AtDestructor, AtLoop, Calls
<1>3. UNCHANGED <<window, windowHandle, childContent, controller, quit, object, activeWindows>>
  BY <1>1 DEF Created, os, engine
<1>4. CASE result = "failure"
  <2>1. stack' = AtDestructor /\ Broken'
    BY <1>1, <1>2, <1>3, <1>4 DEF Created, Opened, Broken
  <2> QED
    BY <1>3, <2>1 DEF Leaving, Alive
<1>5. CASE result = "success"
  <2>1. stack' = AtLoop /\ Whole' /\ quitOnClose'
    BY <1>1, <1>2, <1>3, <1>5 DEF Created, Opened, Whole
  <2> QED
    BY <1>3, <2>1 DEF Looping, Alive
<1> QED
  BY <1>4, <1>5 DEF Opened

(* In the loop a message finds the window whole; the one that closes it    *)
(* begins its destruction, after which only WM_QUIT is left.               *)
LEMMA LoopingStep ==
    ASSUME Looping, QueueOwned, TypeOK, object = "alive", activeWindows = 1, Program
    PROVE  Alive'
<1>1. CASE stack = AtLoop /\ (Whole \/ Gone)
  <2>1. \A d : Runs(d) <=> d = "loop"
    BY <1>1, OnTop, StackTypes DEF AtLoop, Calls
  <2>2. CASE Dispatch
    <3>1. Head(queue) \in Messages
      BY <2>2 DEF Dispatch, TypeOK
    <3>2. Whole
      BY <1>1, <2>2 DEF Dispatch, QueueOwned, Gone
    <3>3. stack' = Push(Head(queue), AtLoop)
      BY <1>1, <2>2 DEF Dispatch, Push
    <3>4. Whole' /\ quitOnClose' /\ UNCHANGED <<object, activeWindows>>
      BY <2>2, <3>2 DEF Dispatch, Whole, Looping, flags, engine
    <3> QED
      BY <3>1, <3>3, <3>4 DEF Looping, Alive
  <2>3. CASE LeaveLoop
    <3>1. stack' = AtDestructor
      BY <1>1, <2>3, Onward, StackTypes DEF LeaveLoop, AtLoop, Calls
    <3>2. Gone
      BY <1>1, <2>3 DEF LeaveLoop, Whole
    <3>3. Gone' /\ UNCHANGED <<object, activeWindows>>
      BY <2>3, <3>2 DEF LeaveLoop, Gone, os, flags, engine
    <3> QED
      BY <3>1, <3>3 DEF Leaving, Alive
  <2> QED
    BY <2>1, <2>2, <2>3, WhoRuns
<1>2. ASSUME NEW m \in Messages, stack = Push(m, AtLoop), Whole PROVE Alive'
  <2>1. m \in Calls /\ \A d : Runs(d) <=> d = m
    BY <1>2, OnTop, StackTypes DEF Calls
  <2>2. HandleClose \/ HandleFontChange \/ HandleSize \/ HandleFrame
    BY <2>1, WhoRuns DEF Messages
  <2>3. CASE HandleClose
    <3>1. stack' = Push("WM_DESTROY", AtGone(AtLoop))
      BY <1>2, <2>1, <2>3, Onward, StackTypes DEF HandleClose, AtGone, Calls
    <3>2. Ending(AtLoop)' /\ quitOnClose' /\ UNCHANGED <<object, activeWindows>>
      BY <2>3, <3>1 DEF HandleClose, Ending, Looping, flags
    <3> QED
      BY <3>2 DEF Looping, Alive
  <2>4. CASE HandleFontChange \/ HandleSize \/ HandleFrame
    <3>1. stack' = AtLoop
      BY <1>2, <2>1, <2>4, Onward, StackTypes
      DEF HandleFontChange, HandleSize, HandleFrame, Calls
    <3>2. UNCHANGED <<os, flags, controller, object, activeWindows>>
      BY <2>4 DEF HandleFontChange, HandleSize, HandleFrame, engine
    <3>3. Whole' /\ quitOnClose'
      BY <1>2, <3>2 DEF Whole, Looping, os, flags
    <3> QED
      BY <3>1, <3>2, <3>3 DEF Looping, Alive
  <2> QED
    BY <2>2, <2>3, <2>4
<1>3. CASE Ending(AtLoop)
  <2>1. /\ UNCHANGED <<object, activeWindows, quitOnClose>>
        /\ \/ Ending(AtLoop)'
           \/ stack' = AtLoop /\ window' = "gone" /\ Silent' /\ (quitOnClose => quit')
    BY <1>3, EndingStep, StackTypes
  <2>2. Ending(AtLoop)' \/ (stack' = AtLoop /\ Gone')
    BY <2>1 DEF Silent, Gone, Looping
  <2> QED
    BY <2>1, <2>2 DEF Looping, Alive
<1> QED
  BY <1>1, <1>2, <1>3 DEF Looping

(* The destructor of FlutterWindow lets go of what is left of the engine   *)
(* before ~Win32Window destroys the window.                                *)
LEMMA LeavingStep ==
    ASSUME Leaving, object = "alive", activeWindows = 1, Program
    PROVE  Destructing'
<1>1. Destructor
  <2>1. \A d : Runs(d) <=> d = "destructor"
    BY OnTop, StackTypes DEF Leaving, AtDestructor, Calls
  <2> QED
    BY <2>1, WhoRuns
<1>2. /\ object' = "base" /\ activeWindows' = 0 /\ controller' = "none" /\ ~callback'
      /\ Continue(<<"Destroy", "destructor">>) /\ UNCHANGED <<window, windowHandle>>
  BY <1>1 DEF Destructor, os, flags
<1>3. stack' = Push("Destroy", AtDestructor)
  BY <1>2, Onward, StackTypes DEF Leaving, AtDestructor, Calls
<1>4. window' # "dying" /\ (window' = "alive" => windowHandle')
  BY <1>2 DEF Leaving, Broken, Gone
<1> QED
  BY <1>2, <1>3, <1>4 DEF Destructing

(* Destroy runs with a window that is alive, and then a second time inside *)
(* it, or with none.  The last of them finds the window gone, so that the  *)
(* class is unregistered even where the first came too early.              *)
LEMMA DestructingStep ==
    ASSUME Destructing, TypeOK, Program
    PROVE  Destructing' \/ Dead'
<1>1. CASE /\ stack = Push("Destroy", AtDestructor)
           /\ window # "dying" /\ (window = "alive" => windowHandle)
  <2>1. Destroy
    BY <1>1, OnTop, WhoRuns, StackTypes DEF Calls
  <2>2. /\ object' = "base" /\ activeWindows' = 0 /\ controller' = "none" /\ ~callback'
    BY <2>1 DEF Destroy, OnDestroy, Destructing
  <2>3. CASE windowHandle /\ window = "alive"
    <3>1. window' = "dying" /\ Continue(<<"WM_DESTROY", "WM_NCDESTROY", "destroyed">>)
      BY <2>1, <2>3 DEF Destroy
    <3>2. stack' = Push("WM_DESTROY", AtGone(Push("destroyed", AtDestructor)))
      <4>1. {"Destroy", "WM_DESTROY", "WM_NCDESTROY", "destroyed"} \subseteq Calls
        BY DEF Calls
      <4> QED
        BY <1>1, <3>1, <4>1, Onward, StackTypes DEF AtGone
    <3> QED
      BY <2>2, <3>1, <3>2 DEF Destructing, Ending
  <2>4. CASE ~(windowHandle /\ window = "alive")
    <3>1. window' = window /\ Continue(<<"destroyed">>)
      BY <2>1, <2>4 DEF Destroy
    <3>2. stack' = Push("destroyed", AtDestructor)
      BY <1>1, <3>1, Onward, StackTypes DEF Calls
    <3>3. window \in {"none", "gone"}
      BY <1>1, <2>4 DEF TypeOK
    <3> QED
      BY <2>2, <3>1, <3>2, <3>3 DEF Destructing
  <2> QED
    BY <2>3, <2>4
<1>2. CASE Ending(Push("destroyed", AtDestructor))
  <2> DEFINE r == Push("destroyed", AtDestructor)
  <2>1. r \in Seq(Calls)
    BY StackTypes
  <2>2. /\ UNCHANGED <<object, activeWindows, quitOnClose>>
        /\ controller' = "none" /\ ~callback'
        /\ Ending(r)' \/ (stack' = r /\ window' = "gone")
    BY <1>2, <2>1, EndingStep DEF Destructing
  <2> QED
    BY <2>2 DEF Destructing
<1>3. CASE stack = Push("destroyed", AtDestructor) /\ window \in {"none", "gone"}
  <2>1. Destroyed
    <3>1. \A d : Runs(d) <=> d = "destroyed"
      BY <1>3, OnTop, StackTypes DEF Calls
    <3> QED
      BY <3>1, WhoRuns
  <2>2. stack' = AtDestructor
    BY <1>3, <2>1, Onward, StackTypes DEF Destroyed, Calls
  <2>3. ~classKnown' /\ ~registered'
    BY <1>3, <2>1 DEF Destroyed, UnregisterWindowClass, Destructing
  <2> QED
    BY <1>3, <2>1, <2>2, <2>3 DEF Destroyed, Destructing, engine
<1>4. CASE /\ stack = AtDestructor /\ window \in {"none", "gone"}
           /\ ~classKnown /\ ~registered
  <2>1. Destructor
    <3>1. \A d : Runs(d) <=> d = "destructor"
      BY <1>4, OnTop, StackTypes DEF AtDestructor, Calls
    <3> QED
      BY <3>1, WhoRuns
  <2>2. /\ object' = "dead" /\ UNCHANGED <<controller, activeWindows>> /\ Continue(<< >>)
        /\ UNCHANGED <<window, classKnown, registered>>
    BY <2>1 DEF Destructor, Destructing, os
  <2>3. stack' = << >>
    BY <1>4, <2>2, Onward, StackTypes DEF AtDestructor, Calls
  <2> QED
    BY <1>4, <2>2, <2>3 DEF Destructing, Dead
<1> QED
  BY <1>1, <1>2, <1>3, <1>4 DEF Destructing

-----------------------------------------------------------------------------
(* TypeOK without the stack and the count, which the phases give.  *)
OwnTypes ==
    /\ window \in {"none", "alive", "dying", "gone"}
    /\ classKnown \in BOOLEAN
    /\ queue \in Seq(Messages) /\ Len(queue) <= MaxQueue
    /\ quit \in BOOLEAN
    /\ object \in {"none", "alive", "base", "dead"}
    /\ windowHandle \in BOOLEAN
    /\ childContent \in BOOLEAN
    /\ quitOnClose \in BOOLEAN
    /\ controller \in {"none", "half", "live"}
    /\ callback \in BOOLEAN
    /\ visible \in BOOLEAN
    /\ registered \in BOOLEAN
    /\ result \in {"none", "success", "failure"}

Phase == Starting \/ Alive \/ Destructing \/ Dead

LEMMA EndingTypes ==
    ASSUME NEW r \in Seq(Calls), Ending(r) PROVE stack \in Seq(Calls)
<1>1. AtGone(r) \in Seq(Calls) /\ Push("quit", AtGone(r)) \in Seq(Calls)
  BY PushFacts, StackTypes DEF Calls
<1>2. /\ Push("WM_DESTROY", AtGone(r)) \in Seq(Calls)
      /\ Push("Destroy", Push("quit", AtGone(r))) \in Seq(Calls)
      /\ Push("destroyed", Push("quit", AtGone(r))) \in Seq(Calls)
  BY <1>1, PushFacts DEF Calls
<1> QED
  BY <1>1, <1>2 DEF Ending

(* The phases have stacks of calls, and at most one window is counted.  *)
LEMMA PhaseTypes ==
    ASSUME Phase PROVE stack \in Seq(Calls) /\ activeWindows \in 0 .. 1
<1>1. activeWindows \in 0 .. 1
  BY DEF Phase, Starting, Alive, Destructing, Dead
<1>2. {"wWinMain", "Create", "Destroy", "destroyed", "CreateWindow", "OnCreate"} \subseteq Calls
  BY DEF Calls
<1>3. Push("CreateWindow", AtCreated) \in Seq(Calls)
  BY <1>2, StackTypes, PushFacts
<1>4. ASSUME Starting PROVE stack \in Seq(Calls)
  BY <1>2, <1>4, StackTypes, PushFacts DEF Starting
<1>5. ASSUME Creating PROVE stack \in Seq(Calls)
  <2>1. \A c \in {"Create", "Destroy", "destroyed", "CreateWindow"} :
           Push(c, AtCreated) \in Seq(Calls) /\ Push(c, Push("CreateWindow", AtCreated)) \in Seq(Calls)
    BY <1>2, <1>3, StackTypes, PushFacts
  <2> QED
    BY <1>5, <2>1 DEF Creating
<1>6. ASSUME Opening PROVE stack \in Seq(Calls)
  <2>1. Push("OnCreate", AtCreated) \in Seq(Calls)
    BY <1>2, StackTypes, PushFacts
  <2> QED
    BY <1>6, <2>1 DEF Opening
<1>7. ASSUME Opened \/ Leaving PROVE stack \in Seq(Calls)
  BY <1>7, StackTypes DEF Opened, Leaving
<1>8. ASSUME Looping PROVE stack \in Seq(Calls)
  <2>1. Messages \subseteq Calls
    BY DEF Calls
  <2>2. \A m \in Messages : Push(m, AtLoop) \in Seq(Calls)
    BY <2>1, StackTypes, PushFacts
  <2> QED
    BY <1>8, <2>2, StackTypes, EndingTypes DEF Looping
<1>9. ASSUME Destructing PROVE stack \in Seq(Calls)
  <2>1. Push("Destroy", AtDestructor) \in Seq(Calls)
    BY <1>2, StackTypes, PushFacts
  <2> QED
    BY <1>9, <2>1, StackTypes, EndingTypes DEF Destructing
<1>10. ASSUME Dead PROVE stack \in Seq(Calls)
  BY <1>10, StackTypes DEF Dead
<1>11. stack \in Seq(Calls)
  BY <1>4, <1>5, <1>6, <1>7, <1>8, <1>9, <1>10 DEF Phase, Alive
<1> QED
  BY <1>1, <1>11

LEMMA RunnerParts == RunnerInv <=> OwnTypes /\ QueueOwned /\ Phase
<1>1. TypeOK <=> OwnTypes /\ stack \in Seq(Calls) /\ activeWindows \in 0 .. 1
  BY DEF TypeOK, OwnTypes
<1> QED
  BY <1>1, PhaseTypes DEF RunnerInv, Phase

-----------------------------------------------------------------------------
(* One step per action: the types, and whom the messages wait for.  *)
LEMMA TypesKept ==
    ASSUME OwnTypes, QueueOwned, Next PROVE OwnTypes' /\ QueueOwned'
<1> USE DEF OwnTypes, QueueOwned, os, flags, engine
<1>1. ASSUME WWinMain PROVE OwnTypes' /\ QueueOwned'
  BY <1>1 DEF WWinMain
<1>2. ASSUME Create PROVE OwnTypes' /\ QueueOwned'
  BY <1>2 DEF Create
<1>3. ASSUME CreateWindow PROVE OwnTypes' /\ QueueOwned'
  BY <1>3 DEF CreateWindow, GetWindowClass
<1>4. ASSUME CreateWindowFails PROVE OwnTypes' /\ QueueOwned'
  BY <1>4 DEF CreateWindowFails, GetWindowClass
<1>5. ASSUME OnCreate PROVE OwnTypes' /\ QueueOwned'
  BY <1>5 DEF OnCreate
<1>6. ASSUME OnCreateFails PROVE OwnTypes' /\ QueueOwned'
  BY <1>6 DEF OnCreateFails
<1>7. ASSUME Created PROVE OwnTypes' /\ QueueOwned'
  <2>1. quitOnClose' \in BOOLEAN
    BY <1>7 DEF Created
  <2> QED
    BY <1>7, <2>1 DEF Created
<1>8. ASSUME Dispatch PROVE OwnTypes' /\ QueueOwned'
  <2>1. Tail(queue) \in Seq(Messages) /\ Len(Tail(queue)) <= MaxQueue
    BY <1>8, QueueType DEF Dispatch
  <2> QED
    BY <1>8, <2>1 DEF Dispatch
<1>9. ASSUME LeaveLoop PROVE OwnTypes' /\ QueueOwned'
  BY <1>9 DEF LeaveLoop
<1>10. ASSUME HandleClose PROVE OwnTypes' /\ QueueOwned'
  BY <1>10 DEF HandleClose
<1>11. ASSUME HandleFontChange \/ HandleSize PROVE OwnTypes' /\ QueueOwned'
  BY <1>11 DEF HandleFontChange, HandleSize
<1>12. ASSUME HandleFrame PROVE OwnTypes' /\ QueueOwned'
  <2>1. visible' \in BOOLEAN /\ callback' \in BOOLEAN
    BY <1>12 DEF HandleFrame
  <2> QED
    BY <1>12, <2>1 DEF HandleFrame
<1>13. ASSUME HandleDestroy PROVE OwnTypes' /\ QueueOwned'
  <2>1. windowHandle' \in BOOLEAN
    BY <1>13 DEF HandleDestroy
  <2> QED
    BY <1>13, <2>1 DEF HandleDestroy
<1>14. ASSUME PostQuit PROVE OwnTypes' /\ QueueOwned'
  BY <1>14 DEF PostQuit
<1>15. ASSUME Destroy PROVE OwnTypes' /\ QueueOwned'
  <2>1. controller' \in {"none", "half", "live"} /\ callback' \in BOOLEAN
    BY <1>15 DEF Destroy, OnDestroy
  <2>2. window' = window \/ window' = "dying"
    BY <1>15 DEF Destroy
  <2> QED
    BY <1>15, <2>1, <2>2 DEF Destroy
<1>16. ASSUME Destroyed PROVE OwnTypes' /\ QueueOwned'
  <2>1. classKnown' \in BOOLEAN /\ registered' \in BOOLEAN
    BY <1>16 DEF Destroyed, UnregisterWindowClass
  <2> QED
    BY <1>16, <2>1 DEF Destroyed
<1>17. ASSUME WindowGone PROVE OwnTypes' /\ QueueOwned'
  <2>1. << >> \in Seq(Messages) /\ Len(<< >>) <= MaxQueue
    BY QueueType
  <2> QED
    BY <1>17, <2>1 DEF WindowGone
<1>18. ASSUME Destructor PROVE OwnTypes' /\ QueueOwned'
  <2>1. /\ controller' \in {"none", "half", "live"} /\ callback' \in BOOLEAN
        /\ object' \in {"base", "dead"}
    BY <1>18 DEF Destructor
  <2> QED
    BY <1>18, <2>1 DEF Destructor
<1>19. ASSUME NEW m \in Messages, Post(m) PROVE OwnTypes' /\ QueueOwned'
  <2>1. Append(queue, m) \in Seq(Messages) /\ Len(Append(queue, m)) <= MaxQueue
    BY <1>19, QueueType DEF Post
  <2> QED
    BY <1>19, <2>1 DEF Post
<1> QED
  BY <1>1, <1>2, <1>3, <1>4, <1>5, <1>6, <1>7, <1>8, <1>9, <1>10, <1>11, <1>12,
     <1>13, <1>14, <1>15, <1>16, <1>17, <1>18, <1>19 DEF Next, Program

(* A step that only touches the queue.  *)
LEMMA PhaseUnmoved ==
    ASSUME Phase, UNCHANGED <<stack, window, classKnown, quit, object, flags, engine,
                              activeWindows, registered, result>>
    PROVE  Phase'
<1>1. /\ Blank' <=> Blank
      /\ Whole' <=> Whole
      /\ Broken' <=> Broken
      /\ Gone' <=> Gone
      /\ Silent' <=> Silent
  BY DEF Blank, Whole, Broken, Gone, Silent, flags, engine
<1>2. \A r : Ending(r) => Ending(r)'
  BY <1>1 DEF Ending, flags
<1>3. Starting => Starting'
  BY <1>1 DEF Starting
<1>4. Alive => Alive'
  BY <1>1, <1>2 DEF Alive, Creating, Opening, Opened, Looping, Leaving, flags, engine
<1>5. Destructing => Destructing'
  BY <1>2 DEF Destructing, flags, engine
<1>6. Dead => Dead'
  BY DEF Dead, engine
<1> QED
  BY <1>3, <1>4, <1>5, <1>6 DEF Phase

(* The inductive step.  *)
LEMMA RunnerStep ==
    ASSUME RunnerInv, [Next]_vars PROVE RunnerInv'
<1>1. OwnTypes /\ QueueOwned /\ Phase /\ TypeOK
  BY RunnerParts DEF RunnerInv
<1>2. (OwnTypes' /\ QueueOwned' /\ Phase') => RunnerInv'
  BY RunnerParts, PTL
<1>3. CASE Program
  <2>1. ASSUME Starting PROVE Phase'
    BY <1>3, <2>1, StartingStep DEF Phase
  <2>2. ASSUME Alive PROVE Phase'
    BY <1>1, <1>3, <2>2, CreatingStep, OpeningStep, OpenedStep, LoopingStep, LeavingStep
    DEF Phase, Alive
  <2>3. ASSUME Destructing PROVE Phase'
    BY <1>1, <1>3, <2>3, DestructingStep DEF Phase
  <2>4. ASSUME Dead PROVE FALSE
    <3>1. \A d : ~Runs(d)
      BY <2>4 DEF Dead, Runs
    <3> QED
      BY <1>3, <3>1
      DEF Program, WWinMain, Create, CreateWindow, CreateWindowFails, OnCreate,
          OnCreateFails, Created, Dispatch, LeaveLoop, HandleClose, HandleFontChange,
          HandleSize, HandleFrame, HandleDestroy, PostQuit, Destroy, Destroyed,
          WindowGone, Destructor
  <2>5. Phase'
    BY <1>1, <2>1, <2>2, <2>3, <2>4 DEF Phase
  <2> QED
    BY <1>1, <1>3, <2>5, <1>2, TypesKept DEF Next
<1>4. ASSUME NEW m \in Messages, Post(m) PROVE RunnerInv'
  <2>1. Phase'
    BY <1>1, <1>4, PhaseUnmoved DEF Post
  <2> QED
    BY <1>1, <1>4, <2>1, <1>2, TypesKept DEF Next
<1>5. CASE UNCHANGED vars
  <2>1. Phase'
    BY <1>1, <1>5, PhaseUnmoved DEF vars, os
  <2>2. OwnTypes' /\ QueueOwned'
    BY <1>1, <1>5 DEF OwnTypes, QueueOwned, vars, os, flags, engine
  <2> QED
    BY <1>2, <2>1, <2>2
<1> QED
  BY <1>3, <1>4, <1>5 DEF Next

LEMMA RunnerStart == Init => RunnerInv
<1> SUFFICES ASSUME Init PROVE RunnerInv
  OBVIOUS
<1>1. stack = Push("wWinMain", << >>)
  BY DEF Init, Push
<1>2. Starting
  BY <1>1 DEF Init, Starting, Blank
<1>3. << >> \in Seq(Messages) /\ Len(<< >>) <= MaxQueue
  BY QueueType
<1>4. OwnTypes /\ QueueOwned
  BY <1>3 DEF Init, OwnTypes, QueueOwned
<1> QED
  BY <1>2, <1>4, RunnerParts DEF Phase

(* The invariant holds in every state of the program.  *)
LEMMA RunnerAlways == Spec => []RunnerInv
<1> QED
  BY RunnerStart, RunnerStep, PTL DEF Spec

-----------------------------------------------------------------------------
(* While a window is destroyed, neither the loop nor the destructor runs.  *)
LEMMA EndingTop ==
    ASSUME NEW r \in Seq(Calls), Ending(r)
    PROVE  ~Runs("loop") /\ ~Runs("destructor")
<1>1. AtGone(r) \in Seq(Calls) /\ Push("quit", AtGone(r)) \in Seq(Calls)
  BY PushFacts, StackTypes DEF Calls
<1>2. \A c \in Calls, s \in Seq(Calls) : stack = Push(c, s) => (\A d : Runs(d) <=> d = c)
  BY OnTop
<1>3. {"WM_DESTROY", "Destroy", "destroyed", "quit", "WM_NCDESTROY"} \subseteq Calls
  BY DEF Calls
<1>4. \E d \in {"WM_DESTROY", "Destroy", "destroyed", "quit", "WM_NCDESTROY"},
         s \in Seq(Calls) : stack = Push(d, s)
  BY <1>1 DEF Ending, AtGone
<1> QED
  BY <1>2, <1>3, <1>4

(* Only a window that is whole or gone lets the loop run, and only one     *)
(* that is broken or gone lets the destructor begin.                       *)
LEMMA TopPhase ==
    ASSUME Phase
    PROVE  /\ Runs("loop") => Whole \/ Gone
           /\ Runs("destructor") /\ object = "alive" => Broken \/ Gone
<1>1. \A c \in Calls, s \in Seq(Calls) : stack = Push(c, s) => (\A d : Runs(d) <=> d = c)
  BY OnTop
<1>2. {"wWinMain", "Create", "Destroy", "destroyed", "CreateWindow", "OnCreate", "created",
       "loop", "destructor"} \subseteq Calls
  BY DEF Calls
<1>3. Push("CreateWindow", AtCreated) \in Seq(Calls)
  BY <1>2, StackTypes, PushFacts
<1>4. ASSUME Starting PROVE ~Runs("loop") /\ ~Runs("destructor")
  BY <1>1, <1>2, <1>4, StackTypes DEF Starting
<1>5. ASSUME Creating PROVE ~Runs("loop") /\ ~Runs("destructor")
  <2>1. \E c \in {"Create", "Destroy", "destroyed", "CreateWindow"}, s \in Seq(Calls) :
           stack = Push(c, s)
    BY <1>3, <1>5, StackTypes DEF Creating
  <2> QED
    BY <1>1, <1>2, <2>1
<1>6. ASSUME Opening \/ Opened PROVE ~Runs("loop") /\ ~Runs("destructor")
  <2>1. \E c \in {"OnCreate", "created"}, s \in Seq(Calls) : stack = Push(c, s)
    BY <1>6, StackTypes DEF Opening, Opened, AtCreated
  <2> QED
    BY <1>1, <1>2, <2>1
<1>7. ASSUME Looping PROVE ~Runs("destructor") /\ (Runs("loop") => Whole \/ Gone)
  <2>1. ASSUME stack = AtLoop PROVE ~Runs("destructor")
    BY <1>1, <1>2, <2>1, StackTypes DEF AtLoop
  <2>2. ASSUME NEW m \in Messages, stack = Push(m, AtLoop)
        PROVE  ~Runs("destructor") /\ ~Runs("loop")
    <3>1. m \in Calls /\ m # "loop" /\ m # "destructor"
      BY DEF Messages, Calls
    <3> QED
      BY <1>1, <2>2, <3>1, StackTypes
  <2> QED
    BY <1>7, <2>1, <2>2, EndingTop, StackTypes DEF Looping
<1>8. ASSUME Leaving PROVE ~Runs("loop") /\ (Broken \/ Gone)
  <2>1. ~Runs("loop")
    BY <1>1, <1>2, <1>8, StackTypes DEF Leaving, AtDestructor
  <2> QED
    BY <1>8, <2>1 DEF Leaving
<1>9. ASSUME Destructing PROVE ~Runs("loop") /\ object # "alive"
  <2>1. ASSUME stack = AtDestructor PROVE ~Runs("loop")
    BY <1>1, <1>2, <2>1, StackTypes DEF AtDestructor
  <2>2. ASSUME NEW c \in {"Destroy", "destroyed"}, stack = Push(c, AtDestructor)
        PROVE  ~Runs("loop")
    BY <1>1, <1>2, <2>2, StackTypes
  <2> QED
    BY <1>9, <2>1, <2>2, EndingTop, StackTypes DEF Destructing
<1>10. ASSUME Dead PROVE ~Runs("loop") /\ object # "alive"
  BY <1>10 DEF Dead, Runs
<1> QED
  BY <1>4, <1>5, <1>6, <1>7, <1>8, <1>9, <1>10 DEF Phase, Alive

(* The calls, flags and counts of the runner always have the shape         *)
(* wWinMain, Win32Window and FlutterWindow give them:                      *)
(* g_active_window_count never counts below zero or twice.                 *)
THEOREM TypeCorrect == Spec => []TypeOK
<1>1. RunnerInv => TypeOK
  BY DEF RunnerInv
<1> QED
  BY <1>1, RunnerAlways, PTL

(* GetMessage and DispatchMessage of wWinMain find the window whole, with  *)
(* its handle, its controller and its child, or gone with WM_QUIT on its   *)
(* way, whatever Windows and the engine post and whenever.                 *)
THEOREM LoopFindsWindow == Spec => []LoopIsWhole
<1>1. RunnerInv => LoopIsWhole
  BY TopPhase, RunnerParts DEF LoopIsWhole, Whole, Gone
<1> QED
  BY <1>1, RunnerAlways, PTL

(* No message of the window's end finds the object dead or the controller  *)
(* half freed: ~FlutterWindow begins only when OnDestroy has let go of the *)
(* controller or OnCreate never completed it.                              *)
THEOREM ObjectOutlivesWindow == Spec => []NoLateMessage
<1>1. ASSUME RunnerInv PROVE NoLateMessage
  <2>1. Phase
    BY <1>1, RunnerParts
  <2>2. object = "dead" => window \in {"none", "gone"}
    BY <2>1 DEF Phase, Starting, Alive, Destructing, Dead
  <2>3. Runs("destructor") /\ object = "alive" => controller # "live"
    BY <2>1, TopPhase DEF Broken, Gone
  <2> QED
    BY <2>2, <2>3 DEF NoLateMessage
<1> QED
  BY <1>1, RunnerAlways, PTL

(* However wWinMain ends, Destroy and UnregisterWindowClass have left no   *)
(* window, no controller, no class and no count behind.                    *)
THEOREM NothingIsLeft == Spec => []CleanExit
<1>1. ASSUME RunnerInv, Ended PROVE Dead
  <2>1. Phase /\ stack = << >>
    BY <1>1, RunnerParts DEF Ended
  <2>2. \A c \in Calls, s \in Seq(Calls) : stack # Push(c, s)
    BY <2>1, PushFacts
  <2>3. {"wWinMain", "Create", "Destroy", "destroyed", "CreateWindow", "OnCreate", "created",
         "loop", "destructor", "WM_DESTROY", "WM_NCDESTROY", "quit"} \subseteq Calls
    BY DEF Calls
  <2>4. Push("CreateWindow", AtCreated) \in Seq(Calls)
    BY <2>3, StackTypes, PushFacts
  <2>5. ~Starting /\ ~Creating /\ ~Opening /\ ~Opened /\ ~Leaving
    BY <2>2, <2>3, <2>4, StackTypes
    DEF Starting, Creating, Opening, Opened, Leaving, AtCreated, AtDestructor
  <2>6. ASSUME NEW r \in Seq(Calls) PROVE ~Ending(r)
    <3>1. AtGone(r) \in Seq(Calls) /\ Push("quit", AtGone(r)) \in Seq(Calls)
      BY <2>3, PushFacts, StackTypes
    <3> QED
      BY <2>2, <2>3, <3>1 DEF Ending, AtGone
  <2>7. ~Looping
    <3>1. Messages \subseteq Calls
      BY DEF Calls
    <3> QED
      BY <2>2, <2>3, <2>6, <3>1, StackTypes DEF Looping, AtLoop
  <2>8. ~Destructing
    BY <2>2, <2>3, <2>6, StackTypes DEF Destructing, AtDestructor
  <2> QED
    BY <2>1, <2>5, <2>7, <2>8 DEF Phase, Alive
<1>2. RunnerInv => CleanExit
  BY <1>1 DEF CleanExit, Dead
<1> QED
  BY <1>2, RunnerAlways, PTL
=============================================================================
