---------------------------- MODULE WindowsRunner ----------------------------
(***************************************************************************)
(* The Windows runner that hosts the panel: wWinMain, Win32Window,         *)
(* FlutterWindow and the window class registrar, in one thread.            *)
(*                                                                         *)
(* Destroying a window sends it messages at once, so Destroy,              *)
(* DestroyWindow and MessageHandler call one another: "stack" holds what   *)
(* is still to be run, the innermost call first, and every action runs the *)
(* code up to the next call that can come back.  Windows and the Flutter   *)
(* engine are external.  FlutterViewController's constructor is taken to   *)
(* dispatch no message, and the plugins to leave the messages below to     *)
(* the runner.                                                             *)
(***************************************************************************)
EXTENDS Integers, SequencesExt

CONSTANT MaxQueue  \* length of the message queue (bounds TLC)

ASSUME QueueType == MaxQueue \in Nat

VARIABLES
    stack,           \* the calls that are still to be finished
    window,          \* the OS window: "none", "alive", "dying" or "gone"
    classKnown,      \* the window class is registered with Windows
    queue,           \* posted messages, oldest first
    quit,            \* PostQuitMessage was called
    object,          \* the FlutterWindow: "none", "alive", "base", "dead"
    windowHandle,    \* window_handle_ is not null
    childContent,    \* child_content_: the engine's view is in the window
    quitOnClose,     \* quit_on_close_
    controller,      \* flutter_controller_: "none", "half" or "live"
    callback,        \* the next frame is to call Show
    visible,         \* Show was called
    activeWindows,   \* g_active_window_count
    registered,      \* WindowClassRegistrar.class_registered_
    result           \* of Create, and then of wWinMain

os     == <<window, classKnown, queue, quit>>
flags  == <<windowHandle, childContent, quitOnClose>>
engine == <<controller, callback, visible>>
vars   == <<stack, os, object, flags, engine, activeWindows, registered, result>>

-----------------------------------------------------------------------------
Messages == {"WM_CLOSE", "WM_FONTCHANGE", "WM_SIZE", "frame"}
Calls    == {"wWinMain", "Create", "CreateWindow", "OnCreate", "created", "loop",
             "destructor", "Destroy", "destroyed", "WM_DESTROY", "WM_NCDESTROY",
             "quit"} \cup Messages

(* The innermost call is c; it ends after the calls of s.  *)
Runs(c)      == stack # << >> /\ Head(stack) = c
Continue(s)  == stack' = s \o Tail(stack)

Init ==
    /\ stack = <<"wWinMain">>
    /\ window = "none"
    /\ classKnown = FALSE
    /\ queue = << >>
    /\ quit = FALSE
    /\ object = "none"
    /\ windowHandle = FALSE
    /\ childContent = FALSE
    /\ quitOnClose = FALSE
    /\ controller = "none"
    /\ callback = FALSE
    /\ visible = FALSE
    /\ activeWindows = 0
    /\ registered = FALSE
    /\ result = "none"

-----------------------------------------------------------------------------
(* Mutant of WWinMain: a window that is not counted.  *)
WWinMainUncounted ==
    /\ Runs("wWinMain")
    /\ object' = "alive"
    /\ Continue(<<"Create", "created">>)
    /\ UNCHANGED <<os, flags, engine, activeWindows, registered, result>>

(* wWinMain up to Create; the constructor counts the window.  *)
WWinMain ==
    /\ Runs("wWinMain")
    /\ object' = "alive"
    /\ activeWindows' = activeWindows + 1
    /\ Continue(<<"Create", "created">>)
    /\ UNCHANGED <<os, flags, engine, registered, result>>

(* Create destroys what an earlier call may have left, ...  *)
Create ==
    /\ Runs("Create")
    /\ Continue(<<"Destroy", "CreateWindow">>)
    /\ UNCHANGED <<os, object, flags, engine, activeWindows, registered, result>>

(* WindowClassRegistrar.  UnregisterClass fails while a window of the      *)
(* class exists, but UnregisterWindowClass does not look.                  *)
GetWindowClass ==
    /\ classKnown' = (classKnown \/ ~registered)
    /\ registered' = TRUE

UnregisterWindowClass ==
    /\ classKnown' = (classKnown /\ window \in {"alive", "dying"})
    /\ registered' = FALSE

(* ... asks the registrar for the class and Windows for a window.  WndProc *)
(* stores the handle at WM_NCCREATE; nothing else handles the messages of  *)
(* the creation.                                                           *)
CreateWindow ==
    /\ Runs("CreateWindow")
    /\ GetWindowClass
    /\ window' = "alive"
    /\ windowHandle' = TRUE
    /\ Continue(<<"OnCreate">>)
    /\ UNCHANGED <<queue, quit, object, childContent, quitOnClose, engine,
                   activeWindows, result>>

(* Windows refuses, before WM_NCCREATE or after it: then the handle of a   *)
(* window that is no more stays behind.                                    *)
CreateWindowFails ==
    /\ Runs("CreateWindow")
    /\ GetWindowClass
    /\ windowHandle' \in BOOLEAN
    /\ result' = "failure"
    /\ Continue(<< >>)
    /\ UNCHANGED <<window, queue, quit, object, childContent, quitOnClose, engine,
                   activeWindows>>

(* FlutterWindow::OnCreate, with SetChildContent and SetNextFrameCallback. *)
OnCreate ==
    /\ Runs("OnCreate")
    /\ controller' = "live"
    /\ childContent' = TRUE
    /\ callback' = TRUE
    /\ result' = "success"
    /\ Continue(<< >>)
    /\ UNCHANGED <<os, object, windowHandle, quitOnClose, visible, activeWindows,
                   registered>>

(* The engine or the view is missing.  *)
OnCreateFails ==
    /\ Runs("OnCreate")
    /\ controller' = "half"
    /\ result' = "failure"
    /\ Continue(<< >>)
    /\ UNCHANGED <<os, object, flags, callback, visible, activeWindows, registered>>

(* Mutant of Created: the answer of Create is not looked at.  *)
CreatedAnyway ==
    /\ Runs("created")
    /\ quitOnClose' = TRUE
    /\ Continue(<<"loop", "destructor">>)
    /\ UNCHANGED <<os, object, windowHandle, childContent, engine, activeWindows,
                   registered, result>>

(* wWinMain returns EXIT_FAILURE, or has the window quit on close.  *)
Created ==
    /\ Runs("created")
    /\ \/ /\ result = "failure"
          /\ Continue(<<"destructor">>)
          /\ UNCHANGED quitOnClose
       \/ /\ result = "success"
          /\ quitOnClose' = TRUE
          /\ Continue(<<"loop", "destructor">>)
    /\ UNCHANGED <<os, object, windowHandle, childContent, engine, activeWindows,
                   registered, result>>

-----------------------------------------------------------------------------
(* GetMessage and DispatchMessage: one posted message at a time, and       *)
(* WM_QUIT once there is none.                                             *)
Dispatch ==
    /\ Runs("loop")
    /\ queue # << >>
    /\ queue' = Tail(queue)
    /\ stack' = <<Head(queue)>> \o stack
    /\ UNCHANGED <<window, classKnown, quit, object, flags, engine, activeWindows,
                   registered, result>>

LeaveLoop ==
    /\ Runs("loop")
    /\ queue = << >>
    /\ quit
    /\ Continue(<< >>)
    /\ UNCHANGED <<os, object, flags, engine, activeWindows, registered, result>>

(* WM_CLOSE reaches DefWindowProc, which calls DestroyWindow.  *)
HandleClose ==
    /\ Runs("WM_CLOSE")
    /\ window' = "dying"
    /\ Continue(<<"WM_DESTROY", "WM_NCDESTROY">>)
    /\ UNCHANGED <<classKnown, queue, quit, object, flags, engine, activeWindows,
                   registered, result>>

(* FlutterWindow::MessageHandler has the engine reload its fonts, which    *)
(* changes nothing here but needs the controller.                          *)
HandleFontChange ==
    /\ Runs("WM_FONTCHANGE")
    /\ Continue(<< >>)
    /\ UNCHANGED <<os, object, flags, engine, activeWindows, registered, result>>

(* WM_SIZE, and like it a change of resolution, focus or colours: the      *)
(* child, if there is one, is moved or focused.                            *)
HandleSize ==
    /\ Runs("WM_SIZE")
    /\ Continue(<< >>)
    /\ UNCHANGED <<os, object, flags, engine, activeWindows, registered, result>>

(* The engine's frame runs the callback of OnCreate: Show.  *)
HandleFrame ==
    /\ Runs("frame")
    /\ visible' = (visible \/ callback)
    /\ callback' = FALSE
    /\ Continue(<< >>)
    /\ UNCHANGED <<os, object, flags, controller, activeWindows, registered, result>>

(* Mutant of HandleDestroy: Destroy is left to the destructor.  *)
HandleDestroyForgets ==
    /\ Runs("WM_DESTROY")
    /\ windowHandle' = FALSE
    /\ Continue(<<"quit">>)
    /\ UNCHANGED <<os, object, childContent, quitOnClose, engine, activeWindows,
                   registered, result>>

(* MessageHandler, WM_DESTROY: ...  *)
HandleDestroy ==
    /\ Runs("WM_DESTROY")
    /\ windowHandle' = FALSE
    /\ Continue(<<"Destroy", "quit">>)
    /\ UNCHANGED <<os, object, childContent, quitOnClose, engine, activeWindows,
                   registered, result>>

(* Mutant of PostQuit: only a window that was shown ends the program.  *)
PostQuitShown ==
    /\ Runs("quit")
    /\ quit' = (quit \/ (quitOnClose /\ visible))
    /\ Continue(<< >>)
    /\ UNCHANGED <<window, classKnown, queue, object, flags, engine, activeWindows,
                   registered, result>>

(* ... and its end.  *)
PostQuit ==
    /\ Runs("quit")
    /\ quit' = (quit \/ quitOnClose)
    /\ Continue(<< >>)
    /\ UNCHANGED <<window, classKnown, queue, object, flags, engine, activeWindows,
                   registered, result>>

(* FlutterWindow::OnDestroy lets go of the controller.  In the destructor  *)
(* it is Win32Window's, which is empty.                                    *)
OnDestroy ==
    IF object = "alive" THEN controller' = "none" /\ callback' = FALSE
                        ELSE UNCHANGED <<controller, callback>>

(* Win32Window::Destroy.  DestroyWindow of a window that is no more does   *)
(* nothing.                                                                *)
Destroy ==
    /\ Runs("Destroy")
    /\ OnDestroy
    /\ IF windowHandle /\ window = "alive"
       THEN /\ window' = "dying"
            /\ Continue(<<"WM_DESTROY", "WM_NCDESTROY", "destroyed">>)
       ELSE /\ Continue(<<"destroyed">>)
            /\ UNCHANGED window
    /\ UNCHANGED <<classKnown, queue, quit, object, flags, visible, activeWindows,
                   registered, result>>

(* The rest of it.  *)
Destroyed ==
    /\ Runs("destroyed")
    /\ windowHandle' = FALSE
    /\ IF activeWindows = 0 THEN UnregisterWindowClass
                            ELSE UNCHANGED <<classKnown, registered>>
    /\ Continue(<< >>)
    /\ UNCHANGED <<window, queue, quit, object, childContent, quitOnClose, engine,
                   activeWindows, result>>

(* The end of DestroyWindow: the window and its messages are gone.  *)
WindowGone ==
    /\ Runs("WM_NCDESTROY")
    /\ window' = "gone"
    /\ queue' = << >>
    /\ Continue(<< >>)
    /\ UNCHANGED <<classKnown, quit, object, flags, engine, activeWindows, registered,
                   result>>

(* Mutant of Destructor: counted down too late.  *)
DestructorLate ==
    /\ Runs("destructor")
    /\ \/ /\ object = "alive"
          /\ object' = "base"
          /\ controller' = "none"
          /\ callback' = FALSE
          /\ UNCHANGED activeWindows
          /\ Continue(<<"Destroy", "destructor">>)
       \/ /\ object = "base"
          /\ object' = "dead"
          /\ activeWindows' = activeWindows - 1
          /\ Continue(<< >>)
          /\ UNCHANGED <<controller, callback>>
    /\ UNCHANGED <<os, flags, visible, registered, result>>

(* The end of wWinMain: ~FlutterWindow lets go of the controller, then     *)
(* ~Win32Window counts the window down and calls Destroy; messages now     *)
(* find the base class.                                                    *)
Destructor ==
    /\ Runs("destructor")
    /\ \/ /\ object = "alive"
          /\ object' = "base"
          /\ controller' = "none"
          /\ callback' = FALSE
          /\ activeWindows' = activeWindows - 1
          /\ Continue(<<"Destroy", "destructor">>)
       \/ /\ object = "base"
          /\ object' = "dead"
          /\ Continue(<< >>)
          /\ UNCHANGED <<controller, callback, activeWindows>>
    /\ UNCHANGED <<os, flags, visible, registered, result>>

(* The user, Windows and the engine post messages to a window.  *)
Post(m) ==
    /\ window = "alive"
    /\ Len(queue) < MaxQueue
    /\ m = "frame" => controller = "live"
    /\ queue' = Append(queue, m)
    /\ UNCHANGED <<stack, window, classKnown, quit, object, flags, engine,
                   activeWindows, registered, result>>

-----------------------------------------------------------------------------
Program ==
    \/ WWinMain \/ Create \/ CreateWindow \/ CreateWindowFails
    \/ OnCreate \/ OnCreateFails \/ Created
    \/ Dispatch \/ LeaveLoop \/ HandleClose
    \/ HandleFontChange \/ HandleSize \/ HandleFrame
    \/ HandleDestroy \/ PostQuit \/ Destroy \/ Destroyed \/ WindowGone
    \/ Destructor

Next == Program \/ \E m \in Messages : Post(m)

Spec == Init /\ [][Next]_vars

(* The thread of the program goes on as long as it can.  *)
FairSpec == Spec /\ WF_vars(Program)

-----------------------------------------------------------------------------
(* The calls, flags and counts have the shape the code gives them.  *)
TypeOK ==
    /\ stack \in Seq(Calls)
    /\ window \in {"none", "alive", "dying", "gone"}
    /\ classKnown \in BOOLEAN
    /\ queue \in Seq(Messages) /\ Len(queue) <= MaxQueue
    /\ quit \in BOOLEAN
    /\ object \in {"none", "alive", "base", "dead"}
    /\ windowHandle \in BOOLEAN
    /\ childContent \in BOOLEAN
    /\ quitOnClose \in BOOLEAN
    /\ controller \in {"none", "half", "live"}
    /\ callback \in BOOLEAN
    /\ visible \in BOOLEAN
    /\ activeWindows \in 0 .. 1
    /\ registered \in BOOLEAN
    /\ result \in {"none", "success", "failure"}

Ended == stack = << >>

(* However the program ends, and although the first UnregisterClass may    *)
(* come too early and fail, it leaves no window, no controller and no      *)
(* class behind, and the registrar knows.                                  *)
CleanExit ==
    Ended => /\ window \in {"none", "gone"}
             /\ controller = "none"
             /\ ~classKnown /\ ~registered
             /\ activeWindows = 0

(* The message loop finds the window whole (a font change, the first frame *)
(* and the child's resizing need the controller and the handle), or gone   *)
(* with nothing left of it and the end on its way.                         *)
LoopIsWhole ==
    Runs("loop") =>
        \/ window = "alive" /\ windowHandle /\ controller = "live" /\ childContent
        \/ window = "gone" /\ ~windowHandle /\ controller = "none" /\ ~callback /\ quit

(* A window never outlives the object its messages are sent to, and the    *)
(* controller's view never sits in a window when the destructor frees it:  *)
(* the messages of its end would find the pointer that is being freed.     *)
NoLateMessage ==
    /\ object = "dead" => window \in {"none", "gone"}
    /\ Runs("destructor") /\ object = "alive" => controller # "live"

(* A window that is asked to close ends the program.  *)
CloseEnds == "WM_CLOSE" \in ToSet(queue) ~> Ended
=============================================================================
