------------------------------- MODULE Launch -------------------------------
(***************************************************************************)
(* Launching an instance: MainWindow::launchInstance, BaseProcess with     *)
(* MinecraftProcess, the console window, the profilers and the Java side   *)
(* that waits for the word to start (EntryPoint).                          *)
(*                                                                         *)
(* Everything runs in the main thread. `stack' is its chain of calls: the  *)
(* head is the innermost. A call either runs code or waits in an event     *)
(* loop of its own (the pre- and post-launch commands, the Java check,     *)
(* the dialogs). Events are delivered only while the innermost call waits  *)
(* (or there is none), and a loop that was told to quit returns only when  *)
(* the calls nested in it have returned.                                   *)
(***************************************************************************)
EXTENDS Naturals, Sequences

CONSTANTS
  MaxLaunches,   \* bound on the launches of the instance
  Settings,      \* the settings an instance may have
  MayProfile     \* the launches that may be made with a profiler

ASSUME LaunchAssumption ==
  /\ MaxLaunches \in Nat
  /\ Settings \subseteq [pre : BOOLEAN, post : BOOLEAN, autoClose : BOOLEAN]
  /\ MayProfile \subseteq 1..MaxLaunches

VARIABLES
  settings,      \* the instance's commands and AutoCloseConsole
  mainVisible,   \* the main window is shown
  running,       \* BaseInstance::m_isRunning
  launches,      \* launches so far
  proc,          \* for each launch: its BaseProcess, console and profiler
  stack,         \* the calls in progress
  crashed        \* a handler has run on a deleted console

vars == <<settings, mainVisible, running, launches, proc, stack, crashed>>

Launches == 1..MaxLaunches
Loops    == {"commandLoop", "checkLoop", "open"}
Dialogs  == {"kill", "ready", "aborted", "error"}

Frame == [call : {"arm", "finish"} \cup Dialogs, of : Launches,
          at : Loops \cup {"preLaunch", "commandEnded", "checkJava", "javaGood",
                           "javaBad", "start", "armed", "postLaunch", "cleanup",
                           "yes", "no", "gone"}]

\* A process object that has not been made yet.
NoProc == [console |-> "none", level |-> 0, button |-> FALSE,
           dying |-> "none", command |-> "idle", checker |-> "idle", game |-> "none",
           exit |-> "none", word |-> "none", profiler |-> "none"]

TypeOK ==
  /\ settings \in Settings
  /\ {mainVisible, running, crashed} \subseteq BOOLEAN
  /\ launches \in 0..MaxLaunches
  /\ stack \in Seq(Frame)
  /\ proc \in [Launches ->
       [console : {"none", "locked", "closable", "dying", "dead"}, level : Nat,
        button : BOOLEAN, dying : {"none", "command", "game"},
        command : {"idle", "running", "crash", "normal"},
        checker : {"idle", "running", "silent"},
        game : {"none", "listening", "playing", "over"}, exit : {"none", "clean", "crash"},
        word : {"none", "launch", "abort"},
        profiler : {"none", "wanted", "starting", "silent", "running"}]]

Init ==
  /\ settings \in Settings
  /\ mainVisible = TRUE
  /\ running = FALSE
  /\ launches = 0
  /\ proc = [l \in Launches |-> NoProc]
  /\ stack = <<>>
  /\ crashed = FALSE

-----------------------------------------------------------------------------
\* The chain of calls.

Call(c, l, a)  == [call |-> c, of |-> l, at |-> a]
InEventLoop    == ~crashed /\ (stack # <<>> => Head(stack).at \in Loops)
Runs(c, a)     == ~crashed /\ stack # <<>> /\ Head(stack).call = c /\ Head(stack).at = a
l0             == Head(stack).of
Enter(c, l, a) == stack' = <<Call(c, l, a)>> \o stack
GoTo(a)        == stack' = [stack EXCEPT ![1].at = a]
Return         == stack' = Tail(stack)

\* a plausible bug: only the innermost loop hears of it
Quit_Innermost(l, a, b) ==
  stack' = IF stack # <<>> /\ Head(stack).of = l /\ Head(stack).at = a
             THEN [stack EXCEPT ![1].at = b] ELSE stack

\* The call of l that waits at a is told to go on at b.
Quit(l, a, b) ==
  stack' = [i \in DOMAIN stack |->
              IF stack[i].of = l /\ stack[i].at = a THEN [stack[i] EXCEPT !.at = b]
                                                    ELSE stack[i]]

\* The dialogs are modal: input goes to the innermost that is open.
OpenDialogs == {i \in DOMAIN stack : stack[i].call \in Dialogs /\ stack[i].at = "open"}

Alive(p) == p.game \in {"listening", "playing"}

\* a plausible bug: the closing handler counted as one call deeper
Over_OneLess(p, c, left) == [NoProc EXCEPT !.console = c, !.level = left - 1]

\* What is left of a launch that is over; nothing reads the rest.
Over(p, c, left) ==
  [NoProc EXCEPT !.console = c, !.level = left,
                 !.profiler = IF p.profiler = "silent" THEN "none" ELSE p.profiler,
                 !.exit = IF settings.autoClose THEN p.exit ELSE "none"]

\* a plausible bug: only a peaceful end lets the console close
Opened_IfPeaceful(p, peaceful, left) ==
  IF peaceful THEN Over(p, IF settings.autoClose THEN "dying" ELSE "closable", left) ELSE p

\* ConsoleWindow::onEnded and onLaunchFailed: the console may be closed, and closes
\* itself after a peaceful exit. `left' is the length of the stack it happens in.
Opened(p, peaceful, left) ==
  IF settings.autoClose /\ peaceful THEN Over(p, "dying", left) ELSE Over(p, "closable", 0)

\* What is written to the launcher part: read only if it still listens.
Said(p, w) == IF Alive(p) /\ p.word = "none" THEN [p EXCEPT !.word = w] ELSE p

\* Pressing Kill: the command if it runs, else the game; neither, and it is lost.
Target(p) == IF p.command = "running" THEN "command"
             ELSE IF Alive(p) THEN "game" ELSE "none"

\* Who may be launched: whatever the main window offers.
MayLaunch == mainVisible /\ stack = <<>>

-----------------------------------------------------------------------------
\* MainWindow::launchInstance, up to the call of arm().
LaunchInstance(profiled) ==
  /\ ~crashed /\ MayLaunch /\ launches < MaxLaunches
  /\ profiled => launches + 1 \in MayProfile
  /\ launches' = launches + 1
  /\ mainVisible' = FALSE
  /\ running' = TRUE
  /\ proc' = [proc EXCEPT ![launches + 1] =
                [NoProc EXCEPT !.console = "locked", !.button = TRUE,
                               !.profiler = IF profiled THEN "wanted" ELSE "none"]]
  /\ stack' = <<Call("arm", launches + 1, "preLaunch")>>
  /\ UNCHANGED <<settings, crashed>>

\* BaseProcess::preLaunch: there is a command or not; it may fail to start, and
\* then the launch is reported as ended with the instance still marked running.
SkipPreLaunch ==
  /\ Runs("arm", "preLaunch") /\ ~settings.pre
  /\ GoTo("checkJava")
  /\ UNCHANGED <<settings, mainVisible, running, launches, proc, crashed>>

PreLaunchFailsToStart ==
  /\ Runs("arm", "preLaunch") /\ settings.pre
  /\ proc' = [proc EXCEPT ![l0] = Opened(@, FALSE, Len(stack))]
  /\ GoTo("armed")
  /\ UNCHANGED <<settings, mainVisible, running, launches, crashed>>

StartCommand ==
  /\ \/ Runs("arm", "preLaunch") /\ settings.pre
     \/ Runs("finish", "postLaunch") /\ settings.post
  /\ proc' = [proc EXCEPT ![l0].command = "running"]
  /\ GoTo("commandLoop")
  /\ UNCHANGED <<settings, mainVisible, running, launches, crashed>>

\* The command ends by itself or because it was killed; its loop quits.
CommandEnds(l) ==
  /\ InEventLoop /\ proc[l].command = "running"
  /\ \E status \in {"crash", "normal"} :
       /\ proc[l].dying = "command" => status = "crash"
       /\ proc' = [proc EXCEPT ![l].command = status]
  /\ Quit(l, "commandLoop", "commandEnded")
  /\ UNCHANGED <<settings, mainVisible, running, launches, crashed>>

\* The end of preLaunch. It fails if the command crashed, or if the instance
\* cannot be reloaded; only in the first case is the instance marked as stopped.
PreLaunchCrashed ==
  /\ Runs("arm", "commandEnded") /\ proc[l0].command = "crash"
  /\ running' = FALSE
  /\ proc' = [proc EXCEPT ![l0] = Opened(@, FALSE, Len(stack))]
  /\ GoTo("armed")
  /\ UNCHANGED <<settings, mainVisible, launches, crashed>>

PreLaunchReloads ==
  /\ Runs("arm", "commandEnded") /\ proc[l0].command = "normal"
  /\ \/ /\ proc' = [proc EXCEPT ![l0].command = "idle"]
        /\ GoTo("checkJava")
     \/ /\ proc' = [proc EXCEPT ![l0] =
                      Opened(@, FALSE, Len(stack))]
        /\ GoTo("armed")
  /\ UNCHANGED <<settings, mainVisible, running, launches, crashed>>

\* MinecraftProcess::arm: the check of an unknown Java runs in a loop of its own. A
\* checker that cannot even be started may report before the loop runs; then
\* nobody ends the loop ("silent").
CheckJava ==
  /\ Runs("arm", "checkJava")
  /\ \/ GoTo("start") /\ UNCHANGED proc
     \/ /\ \E c \in {"running", "silent"} : proc' = [proc EXCEPT ![l0].checker = c]
        /\ GoTo("checkLoop")
  /\ UNCHANGED <<settings, mainVisible, running, launches, crashed>>

CheckEnds(l) ==
  /\ InEventLoop /\ proc[l].checker = "running"
  /\ proc' = [proc EXCEPT ![l].checker = "idle"]
  /\ \E verdict \in {"javaGood", "javaBad"} : Quit(l, "checkLoop", verdict)
  /\ UNCHANGED <<settings, mainVisible, running, launches, crashed>>

JavaIsGood ==
  /\ Runs("arm", "javaGood")
  /\ GoTo("start")
  /\ UNCHANGED <<settings, mainVisible, running, launches, proc, crashed>>

\* No good Java, no wrapper, or the process cannot be started: launch_failed.
LaunchFails ==
  /\ Runs("arm", "javaBad") \/ Runs("arm", "start")
  /\ running' = FALSE
  /\ proc' = [proc EXCEPT ![l0] = Opened(@, FALSE, Len(stack))]
  /\ GoTo("armed")
  /\ UNCHANGED <<settings, mainVisible, launches, crashed>>

StartGame ==
  /\ Runs("arm", "start")
  /\ proc' = [proc EXCEPT ![l0].game = "listening"]
  /\ GoTo("armed")
  /\ UNCHANGED <<settings, mainVisible, running, launches, crashed>>

\* The rest of launchInstance, whatever became of arm().
ArmReturns ==
  /\ Runs("arm", "armed")
  /\ \/ /\ proc[l0].profiler = "none"
        /\ proc' = [proc EXCEPT ![l0] = Said(@, "launch")]
        /\ Return
     \/ /\ proc[l0].profiler = "wanted"      \* check() refuses the profiler
        /\ proc' = [proc EXCEPT ![l0] = [Said(@, "abort") EXCEPT !.profiler = "none"]]
        /\ stack' = <<Call("error", l0, "open")>> \o Tail(stack)
     \/ /\ proc[l0].profiler = "wanted"
        /\ proc' = [proc EXCEPT ![l0].profiler = "starting"]
        /\ Return
  /\ UNCHANGED <<settings, mainVisible, running, launches, crashed>>

-----------------------------------------------------------------------------
\* The profiler: started() and finished() are its only signals, and a program that
\* cannot be started sends neither.
ProfilerStarts(l) ==
  /\ InEventLoop /\ proc[l].profiler = "starting"
  /\ proc' = [proc EXCEPT ![l].profiler = "running"]
  /\ Enter("ready", l, "open")
  /\ UNCHANGED <<settings, mainVisible, running, launches, crashed>>

ProfilerFailsToStart(l) ==
  /\ InEventLoop /\ proc[l].profiler = "starting"
  /\ proc' = [proc EXCEPT ![l].profiler = "silent"]
  /\ UNCHANGED <<settings, mainVisible, running, launches, stack, crashed>>

ProfilerEnds(l) ==
  /\ InEventLoop /\ proc[l].profiler = "running"
  /\ proc' = [proc EXCEPT ![l].profiler = "none"]
  /\ Enter("aborted", l, "open") \/ UNCHANGED stack
  /\ UNCHANGED <<settings, mainVisible, running, launches, crashed>>

\* EntryPoint::listen: the first word decides.
GameReads(l) ==
  /\ ~crashed /\ proc[l].game = "listening" /\ proc[l].word # "none"
  /\ proc' = [proc EXCEPT ![l] =
                IF @.word = "launch" THEN [@ EXCEPT !.game = "playing"]
                                     ELSE [@ EXCEPT !.game = "over", !.exit = "crash"]]
  /\ UNCHANGED <<settings, mainVisible, running, launches, stack, crashed>>

\* The game ends: by itself, by a crash, or because it was killed.
GameEnds(l) ==
  /\ ~crashed /\ Alive(proc[l])
  /\ \E e \in {"clean", "crash"} :
       /\ e = "clean" => proc[l].game = "playing" /\ proc[l].dying # "game"
       /\ proc' = [proc EXCEPT ![l].game = "over", ![l].exit = e]
  /\ UNCHANGED <<settings, mainVisible, running, launches, stack, crashed>>

\* a plausible bug: the flag is cleared before the post-exit command
Finish_FlagFirst(l) ==
  /\ InEventLoop /\ proc[l].game = "over"
  /\ proc' = [proc EXCEPT ![l].game = "none"]
  /\ running' = FALSE
  /\ Enter("finish", l, "postLaunch")
  /\ UNCHANGED <<settings, mainVisible, launches, crashed>>

\* BaseProcess::finish, called when the event loop hears of it, in whatever loop.
Finish(l) ==
  /\ InEventLoop /\ proc[l].game = "over"
  /\ proc' = [proc EXCEPT ![l].game = "none"]
  /\ Enter("finish", l, "postLaunch")
  /\ UNCHANGED <<settings, mainVisible, running, launches, crashed>>

\* postLaunch without a command, or with one that cannot be started.
NoPostLaunch ==
  /\ Runs("finish", "postLaunch")
  /\ GoTo("cleanup")
  /\ UNCHANGED <<settings, mainVisible, running, launches, proc, crashed>>

PostLaunchEnded ==
  /\ Runs("finish", "commandEnded")
  /\ running' = (running /\ proc[l0].command = "normal")
  /\ proc' = [proc EXCEPT ![l0].command = "idle"]
  /\ GoTo("cleanup")
  /\ UNCHANGED <<settings, mainVisible, launches, crashed>>

\* The end of finish(): the flag, then the signal `ended', to which the console
\* answers by opening up or by closing, which shows the main window.
Ended ==
  /\ Runs("finish", "cleanup")
  /\ running' = FALSE
  /\ proc' = [proc EXCEPT ![l0] = Opened(@, @.exit = "clean", Len(stack) - 1)]
  /\ mainVisible' = (mainVisible \/ proc'[l0].console = "dying")
  /\ Return
  /\ UNCHANGED <<settings, launches, crashed>>

-----------------------------------------------------------------------------
\* The console window.

\* a plausible bug: the console may be closed from the start
CanClose_Always(p) == p.console \in {"locked", "closable"}

\* closeEvent: the console closes only when it may, and the main window comes back.
CanClose(p) == p.console = "closable"

CloseConsole(l) ==
  /\ InEventLoop /\ OpenDialogs = {} /\ CanClose(proc[l])
  /\ proc' = [proc EXCEPT ![l] = Over(@, "dying", Len(stack))]
  /\ mainVisible' = TRUE
  /\ UNCHANGED <<settings, running, launches, stack, crashed>>

\* The deferred deletion is delivered by the loop that ran the closing handler, or by
\* an outer one. The dialog on the console goes with it.
DeleteConsole(l) ==
  /\ InEventLoop /\ proc[l].console = "dying" /\ Len(stack) <= proc[l].level
  /\ proc' = [proc EXCEPT ![l] = Over(@, "dead", 0)]
  /\ stack' = [i \in DOMAIN stack |->
                 IF stack[i] = Call("kill", l, "open") THEN Call("kill", l, "gone")
                                                       ELSE stack[i]]
  /\ UNCHANGED <<settings, mainVisible, running, launches, crashed>>

\* on_btnKillMinecraft_clicked, until its dialog returns.
ClickKill(l) ==
  /\ InEventLoop /\ OpenDialogs = {}
  /\ proc[l].console \in {"locked", "closable"} /\ proc[l].button
  /\ proc' = [proc EXCEPT ![l].button = FALSE]
  /\ Enter("kill", l, "open")
  /\ UNCHANGED <<settings, mainVisible, running, launches, crashed>>

AnswerDialog ==
  /\ InEventLoop /\ OpenDialogs # {}
  /\ LET i == CHOOSE j \in OpenDialogs : \A k \in OpenDialogs : j <= k IN
       \E answer \in {"yes", "no"} :
         /\ answer = "no" => stack[i].call = "kill"
         /\ stack' = [stack EXCEPT ![i].at = answer]
  /\ UNCHANGED <<settings, mainVisible, running, launches, proc, crashed>>

\* The dialog returns to the handler that opened it, and that one runs its rest.
KillConfirmed ==
  /\ Runs("kill", "yes") /\ proc[l0].console # "dead"
  /\ proc' = [proc EXCEPT ![l0].dying = Target(proc[l0])]
  /\ Return
  /\ UNCHANGED <<settings, mainVisible, running, launches, crashed>>

KillDeclined ==
  /\ Runs("kill", "no") /\ proc[l0].console # "dead"
  /\ proc' = [proc EXCEPT ![l0].button = TRUE]
  /\ Return
  /\ UNCHANGED <<settings, mainVisible, running, launches, crashed>>

\* The handler goes on after its console was deleted.
HandlerOfDeadConsole ==
  /\ \E a \in {"yes", "no", "gone"} : Runs("kill", a)
  /\ proc[l0].console = "dead"
  /\ crashed' = TRUE
  /\ UNCHANGED <<settings, mainVisible, running, launches, proc, stack>>

ProfilerDialogReturns ==
  /\ \E c \in Dialogs \ {"kill"} : Runs(c, "yes")
  /\ proc' = [proc EXCEPT ![l0] =
                CASE Head(stack).call = "ready"   -> Said(@, "launch")
                  [] Head(stack).call = "aborted" -> Said(@, "abort")
                  [] OTHER -> @]
  /\ Return
  /\ UNCHANGED <<settings, mainVisible, running, launches, crashed>>

-----------------------------------------------------------------------------
\* What the code does without waiting for anybody.
Code ==
  \/ SkipPreLaunch \/ PreLaunchFailsToStart \/ StartCommand \/ PreLaunchCrashed
  \/ PreLaunchReloads \/ CheckJava \/ JavaIsGood \/ LaunchFails \/ StartGame
  \/ ArmReturns \/ NoPostLaunch \/ PostLaunchEnded \/ Ended
  \/ KillConfirmed \/ KillDeclined \/ HandlerOfDeadConsole \/ ProfilerDialogReturns

ProfilerEvent(l) == ProfilerStarts(l) \/ ProfilerFailsToStart(l) \/ ProfilerEnds(l)

Next ==
  \/ Code \/ AnswerDialog
  \/ \E profiled \in BOOLEAN : LaunchInstance(profiled)
  \/ \E l \in Launches :
       \/ CommandEnds(l) \/ CheckEnds(l) \/ ProfilerEvent(l) \/ GameReads(l)
       \/ GameEnds(l) \/ Finish(l) \/ CloseConsole(l) \/ DeleteConsole(l) \/ ClickKill(l)

Spec == Init /\ [][Next]_vars

\* Code runs on; commands, checks and games end some time; the user answers the
\* dialogs that are open. An event loop delivers what is pending in order, whatever
\* comes after it: strong fairness, since a dialog may open and close in between (one
\* condition for all events, each of which happens a bounded number of times).
\* Nobody needs to press Kill, to close the console, or to start a profiler that speaks.
Event(l) ==
  \/ CommandEnds(l) \/ CheckEnds(l) \/ Finish(l) \/ DeleteConsole(l)
  \/ ProfilerStarts(l) \/ ProfilerFailsToStart(l)

Fairness ==
  /\ WF_vars(Code) /\ WF_vars(AnswerDialog)
  /\ SF_vars(\E l \in Launches : Event(l))
  /\ WF_vars(\E l \in Launches : GameReads(l))
  /\ WF_vars(\E l \in Launches : GameEnds(l) /\ (proc[l].game = "playing" \/ proc[l].dying = "game"))

FairSpec == Spec /\ Fairness

-----------------------------------------------------------------------------
\* Something of launch l is going on.
Busy(l) ==
  \/ Alive(proc[l]) \/ proc[l].game = "over"
  \/ proc[l].command # "idle" \/ proc[l].checker # "idle"

\* While anything of a launch runs -- the commands, the Java check, the game -- the
\* instance counts as running (BaseInstance::isRunning), so the pages that change
\* its files stay closed.
RunningWhileBusy == \A l \in Launches : Busy(l) => running

\* A console that may be closed, and a main window that is shown, mean that the
\* launch is over: nothing of it runs and nothing of it will start again.
OverMeansOver ==
  \A l \in 1..launches :
    (proc[l].console # "locked" \/ mainVisible) =>
      /\ ~Busy(l)
      /\ \A i \in DOMAIN stack : stack[i].of = l => stack[i].at \notin
           {"preLaunch", "checkJava", "start", "commandLoop", "checkLoop"}

\* The only way to run the kill handler of a deleted console is the console that
\* closes itself while the question is open, after a game that ended well.
CrashNeedsAutoClose ==
  crashed => /\ settings.autoClose
             /\ \E l \in Launches : proc[l].console = "dead" /\ proc[l].exit = "clean"

\* A console that closes leaves nothing behind that still needs it.
ConsoleIsSafe == OverMeansOver /\ CrashNeedsAutoClose

\* Every launch comes to an end that frees the console, unless the Java check has
\* spoken too early or the profiler never speaks.
LaunchEnds ==
  (\E l \in Launches : proc[l].console = "locked") ~>
    \/ crashed \/ \A l \in Launches : proc[l].console # "locked"
    \/ \E l \in Launches : proc[l].checker = "silent" \/ proc[l].profiler = "silent"

\* A kill that has found the command or the game ends the launch, whatever else waits.
KillEndsLaunch ==
  (\E l \in Launches : proc[l].dying # "none") ~>
    (crashed \/ \A l \in Launches : proc[l].console # "locked")

=============================================================================
