---------------------------- MODULE Launch_proofs ----------------------------
(* What holds of launching for any number of launches and any settings: the   *)
(* running flag covers everything that runs, and a console that may be closed *)
(* belongs to a launch that is over.                                          *)
(*                                                                            *)
(* At most one call on the stack is a handler of a process (arm or finish),   *)
(* that of the last launch, and its place tells what can be going on.  All    *)
(* other calls are dialogs, whose loops other events interrupt.               *)
EXTENDS Launch, SequenceTheorems, WellFoundedInduction, TLAPS

Consoles == {"none", "locked", "closable", "dying", "dead"}
Procs ==
  [console : Consoles, level : Nat,
   button : BOOLEAN, dying : {"none", "command", "game"},
   command : {"idle", "running", "crash", "normal"},
   checker : {"idle", "running", "silent"},
   game : {"none", "listening", "playing", "over"}, exit : {"none", "clean", "crash"},
   word : {"none", "launch", "abort"},
   profiler : {"none", "wanted", "starting", "silent", "running"}]

(* Where a call of each kind can be.                                          *)
ArmPlaces == {"preLaunch", "commandLoop", "commandEnded", "checkJava", "checkLoop",
              "javaGood", "javaBad", "start", "armed"}
FinishPlaces == {"postLaunch", "commandLoop", "commandEnded", "cleanup"}
DialogPlaces == {"open", "yes", "no", "gone"}

Placed(f) ==
  /\ f.call = "arm" => f.at \in ArmPlaces
  /\ f.call = "finish" => f.at \in FinishPlaces
  /\ f.call \in Dialogs => f.at \in DialogPlaces

Works(f) == f.call \in {"arm", "finish"}

(* A console whose kill dialog is open is there, or goes by itself (x is the  *)
(* setting that lets it).                                                     *)
KillSafe(p, x) ==
  \/ p.console \in {"locked", "closable"}
  \/ p.console \in {"dying", "dead"} /\ x /\ p.exit = "clean"

(* What call f says of its process p, if n launches were made and the flag    *)
(* of the instance is r.                                                      *)
FrameSound(f, n, p, r, x) ==
  /\ Works(f) => f.of = n
  /\ Works(f) /\ f.at # "armed" =>
       /\ p.console = "locked" /\ p.game = "none"
       /\ f.at # "cleanup" => r
       /\ f.at # "checkLoop" => p.checker = "idle"
  /\ f.call = "kill" => KillSafe(p, x)

OneWork(s) == \A i, j \in DOMAIN s : Works(s[i]) /\ Works(s[j]) => i = j
ArmedFirst(s) == \A i \in DOMAIN s : Works(s[i]) /\ s[i].at = "armed" => i = 1

(* A chain of calls that fits the processes P.                                *)
Fits(s, n, P, r, x) ==
  /\ s \in Seq(Frame)
  /\ \A i \in DOMAIN s : Placed(s[i]) /\ FrameSound(s[i], n, P[s[i].of], r, x)
  /\ OneWork(s) /\ ArmedFirst(s)

StackSound == Fits(stack, launches, proc, running, settings.autoClose)

BusyProc(p) ==
  \/ p.game \in {"listening", "playing"} \/ p.game = "over"
  \/ p.command # "idle" \/ p.checker # "idle"

(* Launch l's process p, if n launches were made and the flag is r.           *)
ProcSound(l, n, p, r) ==
  /\ l < n => p.console \in {"dying", "dead"}
  /\ l > n => p.console = "none"
  /\ BusyProc(p) => p.console = "locked" /\ r
  /\ p.game # "none" => p.checker = "idle"

ProcsSound == \A l \in Launches : ProcSound(l, launches, proc[l], running)

(* The main window comes back when the last console goes.                     *)
WindowSound == mainVisible => \A l \in 1..launches : proc[l].console \in {"dying", "dead"}

IInv == TypeOK /\ StackSound /\ ProcsSound /\ WindowSound /\ CrashNeedsAutoClose

-----------------------------------------------------------------------------
(* Chains of calls.                                                           *)

Places == Loops \cup {"preLaunch", "commandEnded", "checkJava", "javaGood",
                      "javaBad", "start", "armed", "postLaunch", "cleanup",
                      "yes", "no", "gone"}
Moved(s, a) == [s EXCEPT ![1].at = a]

LEMMA CallTyped ==
  ASSUME NEW c \in {"arm", "finish"} \cup Dialogs, NEW l \in Launches, NEW a \in Places
  PROVE  /\ Call(c, l, a) \in Frame
         /\ Call(c, l, a).call = c /\ Call(c, l, a).of = l /\ Call(c, l, a).at = a
  BY DEF Call, Frame, Places

(* The innermost call goes on at another place.                               *)
LEMMA MovedIs ==
  ASSUME NEW s \in Seq(Frame), s # <<>>, NEW a \in Places
  PROVE  /\ Moved(s, a) \in Seq(Frame)
         /\ DOMAIN Moved(s, a) = DOMAIN s /\ 1 \in DOMAIN s
         /\ Moved(s, a)[1].call = s[1].call /\ Moved(s, a)[1].of = s[1].of
         /\ Moved(s, a)[1].at = a
         /\ \A i \in DOMAIN s : i # 1 => Moved(s, a)[i] = s[i]
<1>1. 1 \in DOMAIN s /\ s[1] \in Frame
  OBVIOUS
<1>2. [s[1] EXCEPT !.at = a] \in Frame
  BY <1>1 DEF Frame, Places
<1>3. Moved(s, a) = [s EXCEPT ![1] = [s[1] EXCEPT !.at = a]]
  BY DEF Moved
<1>4. Moved(s, a) \in Seq(Frame) /\ DOMAIN Moved(s, a) = DOMAIN s
  BY <1>1, <1>2, <1>3
<1>5. Moved(s, a)[1] = [s[1] EXCEPT !.at = a]
  BY <1>1, <1>3
<1>6. \A i \in DOMAIN s : i # 1 => Moved(s, a)[i] = s[i]
  BY <1>3
<1> QED BY <1>1, <1>4, <1>5, <1>6 DEF Frame

(* The innermost call returns.                                                *)
LEMMA TailIs ==
  ASSUME NEW s \in Seq(Frame), s # <<>>
  PROVE  /\ Tail(s) \in Seq(Frame)
         /\ \A i \in DOMAIN Tail(s) : i + 1 \in DOMAIN s /\ i \in Nat /\ i >= 1
                                      /\ Tail(s)[i] = s[i + 1]
  OBVIOUS

(* An event loop delivers an event.                                           *)
LEMMA PushIs ==
  ASSUME NEW s \in Seq(Frame), NEW f \in Frame
  PROVE  /\ <<f>> \o s \in Seq(Frame)
         /\ (<<f>> \o s)[1] = f
         /\ \A i \in DOMAIN (<<f>> \o s) :
              i # 1 => i - 1 \in DOMAIN s /\ (<<f>> \o s)[i] = s[i - 1]
  OBVIOUS

-----------------------------------------------------------------------------
(* Chains that fit.                                                           *)

LEMMA FrameOf ==
  ASSUME NEW s \in Seq(Frame), NEW i \in DOMAIN s
  PROVE  s[i] \in Frame /\ s[i].of \in Launches
<1>1. s[i] \in Frame
  OBVIOUS
<1> QED BY <1>1 DEF Frame

LEMMA FitsTail ==
  ASSUME NEW s, NEW n, NEW P, NEW r, NEW x, Fits(s, n, P, r, x), s # <<>>
  PROVE  Fits(Tail(s), n, P, r, x)
<1> DEFINE t == Tail(s)
<1>1. /\ t \in Seq(Frame)
      /\ \A i \in DOMAIN t : i + 1 \in DOMAIN s /\ i \in Nat /\ i >= 1 /\ t[i] = s[i + 1]
  BY TailIs DEF Fits
<1> HIDE DEF t
<1>2. \A i \in DOMAIN t : Placed(t[i]) /\ FrameSound(t[i], n, P[t[i].of], r, x)
  BY <1>1 DEF Fits
<1>3. OneWork(t)
  <2>1. \A i, j \in DOMAIN t : Works(t[i]) /\ Works(t[j]) => i + 1 = j + 1
    BY <1>1 DEF Fits, OneWork
  <2> QED BY <1>1, <2>1 DEF OneWork
<1>4. ArmedFirst(t)
  <2>1. \A i \in DOMAIN t : Works(t[i]) /\ t[i].at = "armed" => i + 1 = 1
    BY <1>1 DEF Fits, ArmedFirst
  <2> QED BY <1>1, <2>1 DEF ArmedFirst
<1> QED BY <1>1, <1>2, <1>3, <1>4 DEF Fits, t

(* A dialog opens in an event loop.                                           *)
LEMMA FitsPush ==
  ASSUME NEW s, NEW n, NEW P, NEW r, NEW x, Fits(s, n, P, r, x),
         NEW f \in Frame, Placed(f), FrameSound(f, n, P[f.of], r, x),
         Works(f) => f.at # "armed" /\ \A i \in DOMAIN s : ~Works(s[i]),
         s # <<>> => s[1].at # "armed"
  PROVE  Fits(<<f>> \o s, n, P, r, x)
<1> DEFINE t == <<f>> \o s
<1>1. /\ t \in Seq(Frame) /\ t[1] = f
      /\ \A i \in DOMAIN t : i # 1 => i - 1 \in DOMAIN s /\ t[i] = s[i - 1]
  BY PushIs DEF Fits
<1>2. s \in Seq(Frame)
  BY DEF Fits
<1> HIDE DEF t
<1>3. \A i \in DOMAIN t : i \in Nat /\ i >= 1
  BY <1>1
<1>4. \A i \in DOMAIN t : Placed(t[i]) /\ FrameSound(t[i], n, P[t[i].of], r, x)
  <2> SUFFICES ASSUME NEW i \in DOMAIN t
               PROVE  Placed(t[i]) /\ FrameSound(t[i], n, P[t[i].of], r, x)
    OBVIOUS
  <2>1. CASE i = 1
    BY <1>1, <2>1
  <2>2. CASE i # 1
    BY <1>1, <2>2 DEF Fits
  <2> QED BY <2>1, <2>2
<1>5. OneWork(t)
  <2> SUFFICES ASSUME NEW i \in DOMAIN t, NEW j \in DOMAIN t, Works(t[i]), Works(t[j])
               PROVE  i = j
    BY DEF OneWork
  <2>1. CASE Works(f)
    BY <1>1, <2>1
  <2>2. CASE ~Works(f)
    <3>1. i # 1 /\ j # 1
      BY <1>1, <2>2
    <3>2. i - 1 = j - 1
      BY <1>1, <3>1 DEF Fits, OneWork
    <3> QED BY <1>3, <3>2
  <2> QED BY <2>1, <2>2
<1>6. ArmedFirst(t)
  <2> SUFFICES ASSUME NEW i \in DOMAIN t, Works(t[i]), t[i].at = "armed", i # 1
               PROVE  FALSE
    BY DEF ArmedFirst
  <2>1. i - 1 \in DOMAIN s /\ t[i] = s[i - 1]
    BY <1>1
  <2>2. i - 1 = 1
    BY <2>1 DEF Fits, ArmedFirst
  <2>3. s # <<>> /\ s[1].at = "armed"
    BY <2>1, <2>2, <1>2
  <2> QED BY <2>3
<1> QED BY <1>1, <1>4, <1>5, <1>6 DEF Fits, t

(* Calls other than the innermost are told something; none of them is a       *)
(* handler that becomes armed by it.                                          *)
LEMMA FitsRelabelled ==
  ASSUME NEW s, NEW n, NEW P, NEW r, NEW x, Fits(s, n, P, r, x),
         NEW t \in Seq(Frame), DOMAIN t = DOMAIN s,
         \A i \in DOMAIN s :
           /\ t[i].call = s[i].call
           /\ Works(s[i]) /\ t[i].at = "armed" => s[i].at = "armed"
           /\ Placed(t[i]) /\ FrameSound(t[i], n, P[t[i].of], r, x)
  PROVE  Fits(t, n, P, r, x)
  BY DEF Fits, OneWork, ArmedFirst, Works

(* The innermost call, a handler, goes on at place b, and may change its      *)
(* process on the way: no other call minds but the dialogs for a kill.        *)
LEMMA FitsHandler ==
  ASSUME NEW s, NEW n, NEW P, NEW r, NEW x, Fits(s, n, P, r, x),
         s # <<>>, Works(s[1]), NEW b \in Places, NEW Q, NEW q,
         Placed(Call(s[1].call, n, b)),
         FrameSound(Call(s[1].call, n, b), n, Q[n], q, x),
         \A l \in Launches : KillSafe(P[l], x) => KillSafe(Q[l], x)
  PROVE  Fits(Moved(s, b), n, Q, q, x)
<1> DEFINE t == Moved(s, b)
<1>1. /\ t \in Seq(Frame) /\ DOMAIN t = DOMAIN s /\ 1 \in DOMAIN s
      /\ t[1].call = s[1].call /\ t[1].of = s[1].of /\ t[1].at = b
      /\ \A i \in DOMAIN s : i # 1 => t[i] = s[i]
  BY MovedIs DEF Fits
<1> HIDE DEF t
<1>2. s[1].of = n /\ s[1] \in Frame
  BY <1>1 DEF Fits, FrameSound
<1>3. \A i \in DOMAIN s : i # 1 => ~Works(s[i])
  BY <1>1 DEF Fits, OneWork
<1>4. Placed(t[1]) /\ FrameSound(t[1], n, Q[t[1].of], q, x)
  BY <1>1, <1>2 DEF Placed, FrameSound, Works, Call
<1>5. \A i \in DOMAIN t : Placed(t[i]) /\ FrameSound(t[i], n, Q[t[i].of], q, x)
  <2> SUFFICES ASSUME NEW i \in DOMAIN t, i # 1
               PROVE  Placed(t[i]) /\ FrameSound(t[i], n, Q[t[i].of], q, x)
    BY <1>4
  <2>0. t[i] \in Frame
    BY <1>1
  <2>1. t[i] = s[i] /\ ~Works(s[i]) /\ s[i].of \in Launches
    BY <1>1, <1>3, <2>0 DEF Frame
  <2>2. Placed(s[i]) /\ FrameSound(s[i], n, P[s[i].of], r, x)
    BY <1>1 DEF Fits
  <2> QED BY <2>1, <2>2 DEF FrameSound
<1>6. OneWork(t) /\ ArmedFirst(t)
  BY <1>1, <1>3 DEF OneWork, ArmedFirst
<1> QED BY <1>1, <1>5, <1>6 DEF Fits, t

(* The handler returns.                                                       *)
LEMMA FitsReturn ==
  ASSUME NEW s, NEW n, NEW P, NEW r, NEW x, Fits(s, n, P, r, x),
         s # <<>>, Works(s[1]), NEW Q, NEW q,
         \A l \in Launches : KillSafe(P[l], x) => KillSafe(Q[l], x)
  PROVE  Fits(Tail(s), n, Q, q, x)
<1> DEFINE t == Tail(s)
<1>1. Fits(t, n, P, r, x)
  BY FitsTail
<1>2. \A i \in DOMAIN t : i + 1 \in DOMAIN s /\ i \in Nat /\ i >= 1 /\ t[i] = s[i + 1]
  BY TailIs DEF Fits
<1>3. s \in Seq(Frame) /\ 1 \in DOMAIN s
  <2>1. s \in Seq(Frame)
    BY DEF Fits
  <2> QED BY <2>1
<1> HIDE DEF t
<1>4. \A i \in DOMAIN t : ~Works(t[i])
  <2> SUFFICES ASSUME NEW i \in DOMAIN t, Works(t[i]) PROVE FALSE
    OBVIOUS
  <2>1. i + 1 = 1
    BY <1>2, <1>3 DEF Fits, OneWork
  <2> QED BY <1>2, <2>1
<1>5. \A i \in DOMAIN t : t[i].of \in Launches
  BY <1>1, FrameOf DEF Fits
<1> QED BY <1>1, <1>4, <1>5 DEF Fits, FrameSound, t

(* A change of a process that no call minds.                                  *)
View(q, p) ==
  /\ q.console = p.console
  /\ q.exit = p.exit \/ p.console \notin {"dying", "dead"}
  /\ q.game = "none" \/ p.game # "none"
  /\ q.checker = "idle" \/ q.checker = p.checker
  /\ BusyProc(q) => BusyProc(p)

LEMMA FitsView ==
  ASSUME NEW s, NEW n, NEW P, NEW r, NEW x, Fits(s, n, P, r, x),
         NEW Q, \A l \in Launches : View(Q[l], P[l])
  PROVE  Fits(s, n, Q, r, x)
<1>1. \A i \in DOMAIN s : s[i].of \in Launches
  BY FrameOf DEF Fits
<1>2. \A f, p, q : FrameSound(f, n, p, r, x) /\ View(q, p) => FrameSound(f, n, q, r, x)
  BY DEF FrameSound, View, KillSafe
<1> QED BY <1>1, <1>2 DEF Fits

-----------------------------------------------------------------------------
(* Processes.                                                                 *)

LEMMA ProcsTyped ==
  ASSUME TypeOK
  PROVE  /\ proc \in [Launches -> Procs] /\ launches \in Nat /\ settings \in Settings
         /\ launches \in 0..MaxLaunches /\ stack \in Seq(Frame)
         /\ running \in BOOLEAN /\ mainVisible \in BOOLEAN /\ crashed \in BOOLEAN
<1>1. proc \in [Launches -> Procs]
  BY DEF TypeOK, Procs, Consoles
<1>2. launches \in 0..MaxLaunches /\ settings \in Settings /\ stack \in Seq(Frame)
  BY DEF TypeOK
<1>3. launches \in Nat
  BY <1>2, LaunchAssumption
<1>4. running \in BOOLEAN /\ mainVisible \in BOOLEAN /\ crashed \in BOOLEAN
  BY DEF TypeOK
<1> QED BY <1>1, <1>2, <1>3, <1>4

(* A launch that is over.                                                     *)
LEMMA OverIs ==
  ASSUME NEW p \in Procs, NEW c \in Consoles, NEW n \in Nat
  PROVE  /\ Over(p, c, n) \in Procs
         /\ Over(p, c, n).console = c
         /\ Over(p, c, n).game = "none" /\ Over(p, c, n).checker = "idle"
         /\ Over(p, c, n).command = "idle"
         /\ settings.autoClose => Over(p, c, n).exit = p.exit
<1> DEFINE q == IF p.profiler = "silent" THEN "none" ELSE p.profiler
           e == IF settings.autoClose THEN p.exit ELSE "none"
           o == [NoProc EXCEPT !.console = c, !.level = n, !.profiler = q, !.exit = e]
<1>1. q \in {"none", "wanted", "starting", "silent", "running"} /\ e \in {"none", "clean", "crash"}
  BY DEF Procs
<1>2. Over(p, c, n) = o
  BY DEF Over
<1>3. settings.autoClose => e = p.exit
  OBVIOUS
<1> HIDE DEF q, e
<1>4. /\ o.console = c /\ o.game = "none" /\ o.checker = "idle" /\ o.command = "idle"
      /\ o.exit = e
  BY DEF NoProc
<1>5. o \in Procs
  <2>1. o \in [console : {c}, level : {n}, button : BOOLEAN, dying : {"none"},
               command : {"idle"}, checker : {"idle"}, game : {"none"}, exit : {e},
               word : {"none"}, profiler : {q}]
    BY DEF NoProc
  <2> HIDE DEF o
  <2> QED BY <1>1, <2>1 DEF Procs
<1> HIDE DEF o
<1> QED BY <1>2, <1>3, <1>4, <1>5

-----------------------------------------------------------------------------
(* Steps.                                                                     *)

(* What a step has to show.                                                   *)
LEMMA Step ==
  ASSUME IInv, ~crashed', crashed' \in BOOLEAN, settings' = settings, launches' = launches,
         running' \in BOOLEAN, mainVisible' \in BOOLEAN,
         proc' \in [Launches -> Procs],
         \A l \in Launches : ProcSound(l, launches, proc'[l], running'),
         mainVisible' => \A l \in 1..launches : proc'[l].console \in {"dying", "dead"},
         Fits(stack', launches, proc', running', settings.autoClose)
  PROVE  IInv'
<1>1. stack' \in Seq(Frame)
  BY DEF Fits
<1>2. TypeOK'
  BY <1>1 DEF IInv, TypeOK, Procs, Consoles
<1>3. StackSound' /\ ProcsSound' /\ WindowSound' /\ CrashNeedsAutoClose'
  BY DEF StackSound, ProcsSound, WindowSound, CrashNeedsAutoClose
<1> QED BY <1>2, <1>3 DEF IInv

(* A step of the last launch alone, while its console is locked.              *)
LEMMA LastStep ==
  ASSUME IInv, ~crashed', crashed' \in BOOLEAN, settings' = settings, launches' = launches,
         launches \in Launches, proc[launches].console = "locked",
         NEW p \in Procs, proc' = [proc EXCEPT ![launches] = p],
         running' \in BOOLEAN, ProcSound(launches, launches, p, running'),
         mainVisible' \in BOOLEAN, mainVisible' => mainVisible \/ p.console = "dying",
         Fits(stack', launches, proc', running', settings.autoClose)
  PROVE  IInv'
<1>1. proc \in [Launches -> Procs] /\ launches \in Nat
  BY ProcsTyped DEF IInv
<1>2. /\ proc' \in [Launches -> Procs]
      /\ proc'[launches] = p
      /\ \A l \in Launches : l # launches => proc'[l] = proc[l]
  BY <1>1
<1>3. \A l \in Launches : l \in Nat
  BY LaunchAssumption DEF Launches
<1>4. ASSUME NEW l \in Launches, l # launches
      PROVE  ProcSound(l, launches, proc[l], running')
  <2>1. ProcSound(l, launches, proc[l], running)
    BY DEF IInv, ProcsSound
  <2>2. l < launches \/ l > launches
    BY <1>1, <1>3, <1>4
  <2>3. proc[l].console # "locked"
    BY <2>1, <2>2 DEF ProcSound
  <2> QED BY <2>1, <2>3 DEF ProcSound
<1>5. \A l \in Launches : ProcSound(l, launches, proc'[l], running')
  BY <1>2, <1>4
<1>6. ~mainVisible
  <2>1. launches \in 1..launches
    BY <1>1, <1>3, LaunchAssumption DEF Launches
  <2> QED BY <2>1 DEF IInv, WindowSound
<1>7. \A l \in 1..launches : l # launches => proc[l].console \in {"dying", "dead"}
  <2> SUFFICES ASSUME NEW l \in 1..launches, l # launches
               PROVE  proc[l].console \in {"dying", "dead"}
    OBVIOUS
  <2>1. l \in Launches /\ l < launches
    BY <1>1, LaunchAssumption DEF Launches
  <2> QED BY <2>1 DEF IInv, ProcsSound, ProcSound
<1>8. mainVisible' => \A l \in 1..launches : proc'[l].console \in {"dying", "dead"}
  <2>1. 1..launches \subseteq Launches
    BY <1>1, LaunchAssumption DEF Launches
  <2> QED BY <1>2, <1>6, <1>7, <2>1
<1> QED BY <1>2, <1>5, <1>8, Step

(* A handler that runs, other than one that has just armed the process.       *)
LEMMA HandlerRuns ==
  ASSUME IInv, NEW c \in {"arm", "finish"}, NEW a, a # "armed", Runs(c, a)
  PROVE  /\ stack \in Seq(Frame) /\ stack # <<>> /\ stack[1].call = c /\ Works(stack[1])
         /\ l0 = launches /\ launches \in Launches /\ proc[launches] \in Procs
         /\ proc[launches].console = "locked" /\ proc[launches].game = "none"
         /\ a # "cleanup" => running
         /\ a # "checkLoop" => proc[launches].checker = "idle"
         /\ ProcSound(launches, launches, proc[launches], running)
         /\ ~crashed
         /\ StackSound
<1>1. stack \in Seq(Frame) /\ stack # <<>> /\ proc \in [Launches -> Procs]
  BY ProcsTyped DEF IInv, Runs
<1>2. Head(stack) = stack[1] /\ 1 \in DOMAIN stack
  BY <1>1
<1>3. stack[1].call = c /\ stack[1].at = a /\ ~crashed
  BY <1>2 DEF Runs
<1>4. FrameSound(stack[1], launches, proc[stack[1].of], running, settings.autoClose)
  BY <1>2 DEF IInv, StackSound, Fits
<1>5. stack[1].of = launches /\ stack[1].of \in Launches
  BY <1>1, <1>2, <1>3, <1>4, FrameOf DEF FrameSound, Works
<1>6. /\ proc[launches].console = "locked" /\ proc[launches].game = "none"
      /\ a # "cleanup" => running
      /\ a # "checkLoop" => proc[launches].checker = "idle"
  BY <1>3, <1>4, <1>5 DEF FrameSound, Works
<1>7. ProcSound(launches, launches, proc[launches], running)
  BY <1>5 DEF IInv, ProcsSound
<1> QED BY <1>1, <1>2, <1>3, <1>5, <1>6, <1>7 DEF Works, l0, IInv

(* The kill dialogs do not mind what becomes of a locked console, unless it   *)
(* closes after a bad end.                                                    *)
LEMMA KillsStaySafe ==
  ASSUME proc \in [Launches -> Procs], launches \in Launches,
         NEW p \in Procs, NEW Q, Q = [proc EXCEPT ![launches] = p],
         NEW x, KillSafe(p, x)
  PROVE  \A l \in Launches : KillSafe(proc[l], x) => KillSafe(Q[l], x)
<1>1. Q[launches] = p /\ \A l \in Launches : l # launches => Q[l] = proc[l]
  OBVIOUS
<1> QED BY <1>1

(* The handler goes on at place b with the process p.                         *)
LEMMA HandlerGoes ==
  ASSUME IInv, NEW c \in {"arm", "finish"}, NEW a, a # "armed", Runs(c, a),
         NEW b \in Places, Placed(Call(c, launches, b)), stack' = Moved(stack, b),
         NEW p \in Procs, proc' = [proc EXCEPT ![launches] = p],
         running' \in BOOLEAN, UNCHANGED <<settings, mainVisible, launches, crashed>>,
         ProcSound(launches, launches, p, running'),
         FrameSound(Call(c, launches, b), launches, p, running', settings.autoClose),
         KillSafe(p, settings.autoClose)
  PROVE  IInv'
<1>1. /\ stack \in Seq(Frame) /\ stack # <<>> /\ stack[1].call = c /\ Works(stack[1])
      /\ launches \in Launches /\ proc[launches].console = "locked"
      /\ ~crashed /\ StackSound
  BY HandlerRuns
<1>2. proc \in [Launches -> Procs] /\ mainVisible \in BOOLEAN /\ crashed \in BOOLEAN
  BY ProcsTyped DEF IInv
<1> DEFINE Q == [proc EXCEPT ![launches] = p]
<1>3. Q[launches] = p
  BY <1>1, <1>2
<1>4. \A l \in Launches : KillSafe(proc[l], settings.autoClose) => KillSafe(Q[l], settings.autoClose)
  BY <1>1, <1>2, KillsStaySafe
<1>5. proc' = Q
  OBVIOUS
<1> HIDE DEF Q
<1>6. Fits(Moved(stack, b), launches, Q, running', settings.autoClose)
  BY <1>1, <1>3, <1>4, FitsHandler DEF StackSound
<1> QED BY <1>1, <1>2, <1>5, <1>6, LastStep

(* The handler returns, and the console may be closed or closes.              *)
LEMMA HandlerReturns ==
  ASSUME IInv, NEW c \in {"arm", "finish"}, NEW a, a # "armed", Runs(c, a),
         stack' = Tail(stack),
         NEW p \in Procs, proc' = [proc EXCEPT ![launches] = p],
         running' \in BOOLEAN, UNCHANGED <<settings, launches, crashed>>,
         mainVisible' \in BOOLEAN, mainVisible' => mainVisible \/ p.console = "dying",
         ProcSound(launches, launches, p, running'),
         KillSafe(p, settings.autoClose)
  PROVE  IInv'
<1>1. /\ stack \in Seq(Frame) /\ stack # <<>> /\ Works(stack[1])
      /\ launches \in Launches /\ proc[launches].console = "locked"
      /\ ~crashed /\ StackSound
  BY HandlerRuns
<1>2. proc \in [Launches -> Procs] /\ crashed \in BOOLEAN
  BY ProcsTyped DEF IInv
<1> DEFINE Q == [proc EXCEPT ![launches] = p]
<1>4. \A l \in Launches : KillSafe(proc[l], settings.autoClose) => KillSafe(Q[l], settings.autoClose)
  BY <1>1, <1>2, KillsStaySafe
<1>5. proc' = Q
  OBVIOUS
<1> HIDE DEF Q
<1>6. Fits(Tail(stack), launches, Q, running', settings.autoClose)
  BY <1>1, <1>4, FitsReturn DEF StackSound
<1> QED BY <1>1, <1>2, <1>5, <1>6, LastStep

-----------------------------------------------------------------------------
(* The handlers' steps.                                                       *)

LEMMA NoChange ==
  ASSUME IInv
  PROVE  [proc EXCEPT ![launches] = proc[launches]] = proc
  BY ProcsTyped DEF IInv

LEMMA KeepsSkipPreLaunch == IInv /\ SkipPreLaunch => IInv'
<1> SUFFICES ASSUME IInv, SkipPreLaunch PROVE IInv'
  OBVIOUS
<1>1. /\ Runs("arm", "preLaunch") /\ stack' = Moved(stack, "checkJava")
      /\ UNCHANGED <<settings, mainVisible, running, launches, proc, crashed>>
  BY DEF SkipPreLaunch, GoTo, Moved
<1>2. /\ launches \in Launches /\ proc[launches] \in Procs /\ running
      /\ proc[launches].console = "locked" /\ proc[launches].game = "none"
      /\ proc[launches].checker = "idle"
      /\ ProcSound(launches, launches, proc[launches], running)
  BY <1>1, HandlerRuns
<1>3. Placed(Call("arm", launches, "checkJava"))
  BY DEF Placed, Call, ArmPlaces, Dialogs
<1>4. FrameSound(Call("arm", launches, "checkJava"), launches, proc[launches], running, settings.autoClose)
  BY <1>2 DEF FrameSound, Call, Works
<1>5. KillSafe(proc[launches], settings.autoClose)
  BY <1>2 DEF KillSafe
<1>6. running' \in BOOLEAN
  BY <1>1, ProcsTyped DEF IInv
<1> QED BY <1>1, <1>2, <1>3, <1>4, <1>5, <1>6, NoChange, HandlerGoes DEF Places

(* One field of a process changes.                                            *)
LEMMA WithCommand ==
  ASSUME NEW p \in Procs, NEW v \in {"idle", "running", "crash", "normal"}, NEW q, q = [p EXCEPT !.command = v]
  PROVE  /\ q \in Procs /\ q.command = v
         /\ q.console = p.console /\ q.game = p.game /\ q.checker = p.checker /\ q.exit = p.exit
  BY DEF Procs

LEMMA WithChecker ==
  ASSUME NEW p \in Procs, NEW v \in {"idle", "running", "silent"}, NEW q, q = [p EXCEPT !.checker = v]
  PROVE  /\ q \in Procs /\ q.checker = v
         /\ q.console = p.console /\ q.game = p.game /\ q.command = p.command /\ q.exit = p.exit
  BY DEF Procs

LEMMA WithGame ==
  ASSUME NEW p \in Procs, NEW v \in {"none", "listening", "playing", "over"}, NEW q, q = [p EXCEPT !.game = v]
  PROVE  /\ q \in Procs /\ q.game = v
         /\ q.console = p.console /\ q.checker = p.checker /\ q.command = p.command /\ q.exit = p.exit
  BY DEF Procs

(* The launch fails: whatever becomes of the flag, the console is open.       *)
LEMMA ArmFails ==
  ASSUME IInv, NEW a, a # "armed", Runs("arm", a),
         proc' = [proc EXCEPT ![l0] = Opened(@, FALSE, Len(stack))],
         GoTo("armed"), running' \in BOOLEAN,
         UNCHANGED <<settings, mainVisible, launches, crashed>>
  PROVE  IInv'
<1>1. /\ l0 = launches /\ launches \in Launches /\ proc[launches] \in Procs
      /\ stack' = Moved(stack, "armed")
  BY HandlerRuns DEF GoTo, Moved
<1> DEFINE p == Over(proc[launches], "closable", 0)
<1>2. proc' = [proc EXCEPT ![launches] = p]
  BY <1>1 DEF Opened
<1>3. p \in Procs /\ p.console = "closable" /\ p.game = "none" /\ p.checker = "idle" /\ p.command = "idle"
  <2>1. "closable" \in Consoles
    BY DEF Consoles
  <2> QED BY <1>1, <2>1, OverIs
<1> HIDE DEF p
<1>4. Placed(Call("arm", launches, "armed"))
  BY DEF Placed, Call, ArmPlaces, Dialogs
<1>5. FrameSound(Call("arm", launches, "armed"), launches, p, running', settings.autoClose)
  BY DEF FrameSound, Call, Works
<1>6. ProcSound(launches, launches, p, running')
  <2>1. ~(launches < launches) /\ ~(launches > launches)
    BY ProcsTyped DEF IInv
  <2> QED BY <1>3, <2>1 DEF ProcSound, BusyProc
<1>7. KillSafe(p, settings.autoClose)
  BY <1>3 DEF KillSafe
<1> QED BY <1>1, <1>2, <1>3, <1>4, <1>5, <1>6, <1>7, HandlerGoes DEF Places

LEMMA KeepsPreLaunchFailsToStart == IInv /\ PreLaunchFailsToStart => IInv'
<1> SUFFICES ASSUME IInv, PreLaunchFailsToStart PROVE IInv'
  OBVIOUS
<1>1. running' \in BOOLEAN
  BY ProcsTyped DEF IInv, PreLaunchFailsToStart
<1> QED BY <1>1, ArmFails DEF PreLaunchFailsToStart

LEMMA KeepsPreLaunchCrashed == IInv /\ PreLaunchCrashed => IInv'
<1> SUFFICES ASSUME IInv, PreLaunchCrashed PROVE IInv'
  OBVIOUS
<1>1. running' \in BOOLEAN
  BY DEF PreLaunchCrashed
<1> QED BY <1>1, ArmFails DEF PreLaunchCrashed

LEMMA KeepsLaunchFails == IInv /\ LaunchFails => IInv'
<1> SUFFICES ASSUME IInv, LaunchFails PROVE IInv'
  OBVIOUS
<1>1. running' \in BOOLEAN
  BY DEF LaunchFails
<1>2. \E a \in {"javaBad", "start"} : Runs("arm", a)
  BY DEF LaunchFails
<1> QED BY <1>1, <1>2, ArmFails DEF LaunchFails

LEMMA KeepsStartCommand == IInv /\ StartCommand => IInv'
<1> SUFFICES ASSUME IInv, StartCommand PROVE IInv'
  OBVIOUS
<1> PICK c \in {"arm", "finish"}, a \in {"preLaunch", "postLaunch"} : Runs(c, a)
  BY DEF StartCommand
<1>1. /\ l0 = launches /\ launches \in Launches /\ proc[launches] \in Procs /\ running
      /\ proc[launches].console = "locked" /\ proc[launches].game = "none"
      /\ proc[launches].checker = "idle"
  BY HandlerRuns
<1> DEFINE p == [proc[launches] EXCEPT !.command = "running"]
<1>2. /\ proc' = [proc EXCEPT ![launches] = p] /\ stack' = Moved(stack, "commandLoop")
      /\ UNCHANGED <<settings, mainVisible, running, launches, crashed>>
  BY <1>1 DEF StartCommand, GoTo, Moved
<1>3. p \in Procs /\ p.console = "locked" /\ p.game = "none" /\ p.checker = "idle"
  BY <1>1, WithCommand
<1> HIDE DEF p
<1>4. Placed(Call(c, launches, "commandLoop"))
  BY DEF Placed, Call, ArmPlaces, FinishPlaces, Dialogs
<1>5. FrameSound(Call(c, launches, "commandLoop"), launches, p, running', settings.autoClose)
  BY <1>1, <1>2, <1>3 DEF FrameSound, Call, Works, Dialogs
<1>6. ProcSound(launches, launches, p, running') /\ running' \in BOOLEAN
  <2>1. ~(launches < launches) /\ ~(launches > launches) /\ running \in BOOLEAN
    BY ProcsTyped DEF IInv
  <2> QED BY <1>1, <1>2, <1>3, <2>1 DEF ProcSound, BusyProc
<1>7. KillSafe(p, settings.autoClose)
  BY <1>3 DEF KillSafe
<1> QED BY <1>2, <1>3, <1>4, <1>5, <1>6, <1>7, HandlerGoes DEF Places, Loops

LEMMA KeepsPreLaunchReloads == IInv /\ PreLaunchReloads => IInv'
<1> SUFFICES ASSUME IInv, PreLaunchReloads PROVE IInv'
  OBVIOUS
<1>1. /\ Runs("arm", "commandEnded")
      /\ UNCHANGED <<settings, mainVisible, running, launches, crashed>>
  BY DEF PreLaunchReloads
<1>2. /\ l0 = launches /\ launches \in Launches /\ proc[launches] \in Procs /\ running
      /\ proc[launches].console = "locked" /\ proc[launches].game = "none"
      /\ proc[launches].checker = "idle"
  BY <1>1, HandlerRuns
<1>3. ~(launches < launches) /\ ~(launches > launches) /\ running \in BOOLEAN
  BY ProcsTyped DEF IInv
<1>4. CASE proc' = [proc EXCEPT ![l0] = Opened(@, FALSE, Len(stack))] /\ GoTo("armed")
  BY <1>1, <1>3, <1>4, ArmFails
<1>5. CASE proc' = [proc EXCEPT ![l0].command = "idle"] /\ GoTo("checkJava")
  <2> DEFINE p == [proc[launches] EXCEPT !.command = "idle"]
  <2>1. proc' = [proc EXCEPT ![launches] = p] /\ stack' = Moved(stack, "checkJava")
    BY <1>2, <1>5 DEF GoTo, Moved
  <2>2. p \in Procs /\ p.console = "locked" /\ p.game = "none" /\ p.checker = "idle"
    BY <1>2, WithCommand
  <2> HIDE DEF p
  <2>3. Placed(Call("arm", launches, "checkJava"))
    BY DEF Placed, Call, ArmPlaces, Dialogs
  <2>4. FrameSound(Call("arm", launches, "checkJava"), launches, p, running', settings.autoClose)
    BY <1>1, <1>2, <2>2 DEF FrameSound, Call, Works, Dialogs
  <2>5. ProcSound(launches, launches, p, running') /\ running' \in BOOLEAN
    BY <1>1, <1>2, <1>3, <2>2 DEF ProcSound, BusyProc
  <2>6. KillSafe(p, settings.autoClose)
    BY <2>2 DEF KillSafe
  <2> QED BY <1>1, <2>1, <2>2, <2>3, <2>4, <2>5, <2>6, HandlerGoes DEF Places
<1> QED BY <1>4, <1>5 DEF PreLaunchReloads

LEMMA KeepsCheckJava == IInv /\ CheckJava => IInv'
<1> SUFFICES ASSUME IInv, CheckJava PROVE IInv'
  OBVIOUS
<1>1. /\ Runs("arm", "checkJava")
      /\ UNCHANGED <<settings, mainVisible, running, launches, crashed>>
  BY DEF CheckJava
<1>2. /\ l0 = launches /\ launches \in Launches /\ proc[launches] \in Procs /\ running
      /\ proc[launches].console = "locked" /\ proc[launches].game = "none"
      /\ proc[launches].checker = "idle"
      /\ ProcSound(launches, launches, proc[launches], running)
  BY <1>1, HandlerRuns
<1>3. ~(launches < launches) /\ ~(launches > launches) /\ running \in BOOLEAN
  BY ProcsTyped DEF IInv
<1>4. CASE GoTo("start") /\ UNCHANGED proc
  <2>1. stack' = Moved(stack, "start") /\ proc' = [proc EXCEPT ![launches] = proc[launches]]
    BY <1>4, NoChange DEF GoTo, Moved
  <2>2. Placed(Call("arm", launches, "start"))
    BY DEF Placed, Call, ArmPlaces, Dialogs
  <2>3. FrameSound(Call("arm", launches, "start"), launches, proc[launches], running', settings.autoClose)
    BY <1>1, <1>2 DEF FrameSound, Call, Works, Dialogs
  <2>4. KillSafe(proc[launches], settings.autoClose)
    BY <1>2 DEF KillSafe
  <2> QED BY <1>1, <1>2, <1>3, <2>1, <2>2, <2>3, <2>4, HandlerGoes DEF Places
<1>5. ASSUME NEW k \in {"running", "silent"}, proc' = [proc EXCEPT ![l0].checker = k],
             GoTo("checkLoop")
      PROVE  IInv'
  <2> DEFINE p == [proc[launches] EXCEPT !.checker = k]
  <2>1. proc' = [proc EXCEPT ![launches] = p] /\ stack' = Moved(stack, "checkLoop")
    BY <1>2, <1>5 DEF GoTo, Moved
  <2>2. p \in Procs /\ p.console = "locked" /\ p.game = "none"
    BY <1>2, WithChecker
  <2> HIDE DEF p
  <2>3. Placed(Call("arm", launches, "checkLoop"))
    BY DEF Placed, Call, ArmPlaces, Dialogs
  <2>4. FrameSound(Call("arm", launches, "checkLoop"), launches, p, running', settings.autoClose)
    BY <1>1, <1>2, <2>2 DEF FrameSound, Call, Works, Dialogs
  <2>5. ProcSound(launches, launches, p, running') /\ running' \in BOOLEAN
    BY <1>1, <1>2, <1>3, <2>2 DEF ProcSound, BusyProc
  <2>6. KillSafe(p, settings.autoClose)
    BY <2>2 DEF KillSafe
  <2> QED BY <1>1, <2>1, <2>2, <2>3, <2>4, <2>5, <2>6, HandlerGoes DEF Places, Loops
<1> QED BY <1>4, <1>5 DEF CheckJava

LEMMA KeepsJavaIsGood == IInv /\ JavaIsGood => IInv'
<1> SUFFICES ASSUME IInv, JavaIsGood PROVE IInv'
  OBVIOUS
<1>1. /\ Runs("arm", "javaGood") /\ stack' = Moved(stack, "start")
      /\ UNCHANGED <<settings, mainVisible, running, launches, proc, crashed>>
  BY DEF JavaIsGood, GoTo, Moved
<1>2. /\ launches \in Launches /\ proc[launches] \in Procs /\ running
      /\ proc[launches].console = "locked" /\ proc[launches].game = "none"
      /\ proc[launches].checker = "idle"
      /\ ProcSound(launches, launches, proc[launches], running)
  BY <1>1, HandlerRuns
<1>3. Placed(Call("arm", launches, "start"))
  BY DEF Placed, Call, ArmPlaces, Dialogs
<1>4. FrameSound(Call("arm", launches, "start"), launches, proc[launches], running, settings.autoClose)
  BY <1>2 DEF FrameSound, Call, Works, Dialogs
<1>5. KillSafe(proc[launches], settings.autoClose)
  BY <1>2 DEF KillSafe
<1>6. running' \in BOOLEAN
  BY <1>1, ProcsTyped DEF IInv
<1> QED BY <1>1, <1>2, <1>3, <1>4, <1>5, <1>6, NoChange, HandlerGoes DEF Places

LEMMA KeepsStartGame == IInv /\ StartGame => IInv'
<1> SUFFICES ASSUME IInv, StartGame PROVE IInv'
  OBVIOUS
<1>1. /\ Runs("arm", "start")
      /\ UNCHANGED <<settings, mainVisible, running, launches, crashed>>
  BY DEF StartGame
<1>2. /\ l0 = launches /\ launches \in Launches /\ proc[launches] \in Procs /\ running
      /\ proc[launches].console = "locked" /\ proc[launches].checker = "idle"
  BY <1>1, HandlerRuns
<1> DEFINE p == [proc[launches] EXCEPT !.game = "listening"]
<1>3. proc' = [proc EXCEPT ![launches] = p] /\ stack' = Moved(stack, "armed")
  BY <1>2 DEF StartGame, GoTo, Moved
<1>4. p \in Procs /\ p.console = "locked" /\ p.checker = "idle"
  BY <1>2, WithGame
<1> HIDE DEF p
<1>5. Placed(Call("arm", launches, "armed"))
  BY DEF Placed, Call, ArmPlaces, Dialogs
<1>6. FrameSound(Call("arm", launches, "armed"), launches, p, running', settings.autoClose)
  BY DEF FrameSound, Call, Works
<1>7. ProcSound(launches, launches, p, running') /\ running' \in BOOLEAN
  <2>1. ~(launches < launches) /\ ~(launches > launches) /\ running \in BOOLEAN
    BY ProcsTyped DEF IInv
  <2> QED BY <1>1, <1>2, <1>4, <2>1 DEF ProcSound, BusyProc
<1>8. KillSafe(p, settings.autoClose)
  BY <1>4 DEF KillSafe
<1> QED BY <1>1, <1>3, <1>4, <1>5, <1>6, <1>7, <1>8, HandlerGoes DEF Places

LEMMA KeepsNoPostLaunch == IInv /\ NoPostLaunch => IInv'
<1> SUFFICES ASSUME IInv, NoPostLaunch PROVE IInv'
  OBVIOUS
<1>1. /\ Runs("finish", "postLaunch") /\ stack' = Moved(stack, "cleanup")
      /\ UNCHANGED <<settings, mainVisible, running, launches, proc, crashed>>
  BY DEF NoPostLaunch, GoTo, Moved
<1>2. /\ launches \in Launches /\ proc[launches] \in Procs /\ running
      /\ proc[launches].console = "locked" /\ proc[launches].game = "none"
      /\ proc[launches].checker = "idle"
      /\ ProcSound(launches, launches, proc[launches], running)
  BY <1>1, HandlerRuns
<1>3. Placed(Call("finish", launches, "cleanup"))
  BY DEF Placed, Call, FinishPlaces, Dialogs
<1>4. FrameSound(Call("finish", launches, "cleanup"), launches, proc[launches], running, settings.autoClose)
  BY <1>2 DEF FrameSound, Call, Works, Dialogs
<1>5. KillSafe(proc[launches], settings.autoClose)
  BY <1>2 DEF KillSafe
<1>6. running' \in BOOLEAN
  BY <1>1, ProcsTyped DEF IInv
<1> QED BY <1>1, <1>2, <1>3, <1>4, <1>5, <1>6, NoChange, HandlerGoes DEF Places

LEMMA KeepsPostLaunchEnded == IInv /\ PostLaunchEnded => IInv'
<1> SUFFICES ASSUME IInv, PostLaunchEnded PROVE IInv'
  OBVIOUS
<1>1. /\ Runs("finish", "commandEnded")
      /\ UNCHANGED <<settings, mainVisible, launches, crashed>>
      /\ running' \in BOOLEAN
  BY DEF PostLaunchEnded
<1>2. /\ l0 = launches /\ launches \in Launches /\ proc[launches] \in Procs
      /\ proc[launches].console = "locked" /\ proc[launches].game = "none"
      /\ proc[launches].checker = "idle"
  BY <1>1, HandlerRuns
<1> DEFINE p == [proc[launches] EXCEPT !.command = "idle"]
<1>3. proc' = [proc EXCEPT ![launches] = p] /\ stack' = Moved(stack, "cleanup")
  BY <1>2 DEF PostLaunchEnded, GoTo, Moved
<1>4. /\ p \in Procs /\ p.console = "locked" /\ p.game = "none" /\ p.checker = "idle"
      /\ p.command = "idle"
  BY <1>2, WithCommand
<1> HIDE DEF p
<1>5. Placed(Call("finish", launches, "cleanup"))
  BY DEF Placed, Call, FinishPlaces, Dialogs
<1>6. FrameSound(Call("finish", launches, "cleanup"), launches, p, running', settings.autoClose)
  BY <1>4 DEF FrameSound, Call, Works, Dialogs
<1>7. ProcSound(launches, launches, p, running')
  <2>1. ~(launches < launches) /\ ~(launches > launches)
    BY ProcsTyped DEF IInv
  <2> QED BY <1>4, <2>1 DEF ProcSound, BusyProc
<1>8. KillSafe(p, settings.autoClose)
  BY <1>4 DEF KillSafe
<1> QED BY <1>1, <1>3, <1>4, <1>5, <1>6, <1>7, <1>8, HandlerGoes DEF Places

LEMMA KeepsEnded == IInv /\ Ended => IInv'
<1> SUFFICES ASSUME IInv, Ended PROVE IInv'
  OBVIOUS
<1>1. /\ Runs("finish", "cleanup") /\ stack' = Tail(stack) /\ running' = FALSE
      /\ UNCHANGED <<settings, launches, crashed>>
  BY DEF Ended, Return
<1>2. /\ l0 = launches /\ launches \in Launches /\ proc[launches] \in Procs
      /\ stack \in Seq(Frame) /\ stack # <<>>
  BY <1>1, HandlerRuns
<1> DEFINE p == Opened(proc[launches], proc[launches].exit = "clean", Len(stack) - 1)
<1>3. proc \in [Launches -> Procs] /\ mainVisible \in BOOLEAN
  BY ProcsTyped DEF IInv
<1>4. proc' = [proc EXCEPT ![launches] = p]
  BY <1>2 DEF Ended
<1>5. Len(stack) - 1 \in Nat
  BY <1>2
<1>6. /\ p \in Procs /\ p.game = "none" /\ p.checker = "idle" /\ p.command = "idle"
      /\ KillSafe(p, settings.autoClose)
  <2>1. CASE settings.autoClose /\ proc[launches].exit = "clean"
    <3>1. p = Over(proc[launches], "dying", Len(stack) - 1)
      BY <2>1 DEF Opened
    <3>2. "dying" \in Consoles
      BY DEF Consoles
    <3> HIDE DEF p
    <3> QED BY <1>2, <1>5, <2>1, <3>1, <3>2, OverIs DEF KillSafe
  <2>2. CASE ~(settings.autoClose /\ proc[launches].exit = "clean")
    <3>1. p = Over(proc[launches], "closable", 0)
      BY <2>2 DEF Opened
    <3>2. "closable" \in Consoles
      BY DEF Consoles
    <3> HIDE DEF p
    <3> QED BY <1>2, <3>1, <3>2, OverIs DEF KillSafe
  <2> QED BY <2>1, <2>2
<1> HIDE DEF p
<1>7. proc'[launches] = p
  BY <1>2, <1>3, <1>4
<1>8. mainVisible' \in BOOLEAN /\ (mainVisible' => mainVisible \/ p.console = "dying")
  BY <1>2, <1>3, <1>7 DEF Ended
<1>9. ProcSound(launches, launches, p, running')
  <2>1. ~(launches < launches) /\ ~(launches > launches)
    BY ProcsTyped DEF IInv
  <2> QED BY <1>6, <2>1 DEF ProcSound, BusyProc
<1> QED BY <1>1, <1>4, <1>6, <1>8, <1>9, HandlerReturns

-----------------------------------------------------------------------------
(* Events and dialogs.                                                        *)

(* A step that changes no process in a way that a call minds.                 *)
LEMMA Quiet ==
  ASSUME IInv, ~crashed', crashed' \in BOOLEAN,
         UNCHANGED <<settings, mainVisible, running, launches>>,
         proc' \in [Launches -> Procs], \A l \in Launches : View(proc'[l], proc[l]),
         Fits(stack', launches, proc', running, settings.autoClose)
  PROVE  IInv'
<1>1. running \in BOOLEAN /\ mainVisible \in BOOLEAN /\ launches \in Nat
  BY ProcsTyped DEF IInv
<1>2. ASSUME NEW l \in Launches
      PROVE  ProcSound(l, launches, proc'[l], running')
  <2>1. ProcSound(l, launches, proc[l], running) /\ View(proc'[l], proc[l])
    BY DEF IInv, ProcsSound
  <2>2. /\ proc'[l].console = proc[l].console
        /\ BusyProc(proc'[l]) => BusyProc(proc[l])
        /\ proc'[l].game = "none" \/ proc[l].game # "none"
        /\ proc'[l].checker = "idle" \/ proc'[l].checker = proc[l].checker
    BY <2>1 DEF View
  <2>3. proc'[l].game # "none" => proc'[l].checker = "idle"
    BY <2>1, <2>2 DEF ProcSound
  <2> QED BY <2>1, <2>2, <2>3 DEF ProcSound
<1>3. mainVisible' => \A l \in 1..launches : proc'[l].console \in {"dying", "dead"}
  <2>1. 1..launches \subseteq Launches
    BY ProcsTyped, LaunchAssumption DEF IInv, Launches
  <2>2. \A l \in Launches : proc'[l].console = proc[l].console
    BY DEF View
  <2> QED BY <2>1, <2>2 DEF IInv, WindowSound
<1> QED BY <1>1, <1>2, <1>3, Step

LEMMA ViewSelf == \A p : View(p, p)
  BY DEF View

(* The same for a step of one process.                                        *)
LEMMA OneView ==
  ASSUME IInv, NEW l \in Launches, NEW q \in Procs, View(q, proc[l]),
         NEW Q, Q = [proc EXCEPT ![l] = q]
  PROVE  /\ Q \in [Launches -> Procs] /\ Q[l] = q
         /\ \A k \in Launches : View(Q[k], proc[k])
         /\ Fits(stack, launches, Q, running, settings.autoClose)
<1>1. proc \in [Launches -> Procs]
  BY ProcsTyped DEF IInv
<1>2. /\ Q \in [Launches -> Procs] /\ Q[l] = q
      /\ \A k \in Launches : k # l => Q[k] = proc[k]
  BY <1>1
<1>3. \A k \in Launches : View(Q[k], proc[k])
  BY <1>2, ViewSelf
<1>4. Fits(stack, launches, Q, running, settings.autoClose)
  BY <1>3, FitsView DEF IInv, StackSound
<1> QED BY <1>2, <1>3, <1>4

LEMMA QuietOne ==
  ASSUME IInv, ~crashed, crashed' = crashed,
         UNCHANGED <<settings, mainVisible, running, launches>>,
         NEW l \in Launches, NEW q \in Procs, View(q, proc[l]),
         proc' = [proc EXCEPT ![l] = q],
         Fits(stack', launches, proc', running, settings.autoClose)
  PROVE  IInv'
<1>1. proc' \in [Launches -> Procs] /\ \A k \in Launches : View(proc'[k], proc[k])
  BY OneView
<1>2. crashed' \in BOOLEAN
  BY ProcsTyped DEF IInv
<1> QED BY <1>1, <1>2, Quiet

(* What is told to the launcher part.                                         *)
LEMMA SaidIs ==
  ASSUME NEW p \in Procs, NEW w \in {"launch", "abort"}
  PROVE  /\ Said(p, w) \in Procs /\ View(Said(p, w), p)
         /\ Said(p, w).profiler = p.profiler
<1> DEFINE q == [p EXCEPT !.word = w]
<1>1. /\ q \in Procs /\ q.console = p.console /\ q.game = p.game /\ q.exit = p.exit
      /\ q.command = p.command /\ q.checker = p.checker /\ q.profiler = p.profiler
  BY DEF Procs
<1>2. Said(p, w) = q \/ Said(p, w) = p
  BY DEF Said
<1> HIDE DEF q
<1>3. View(q, p)
  BY <1>1 DEF View, BusyProc
<1> QED BY <1>1, <1>2, <1>3, ViewSelf

LEMMA WithProfiler ==
  ASSUME NEW p \in Procs, NEW v \in {"none", "wanted", "starting", "silent", "running"}
  PROVE  [p EXCEPT !.profiler = v] \in Procs /\ View([p EXCEPT !.profiler = v], p)
<1> DEFINE q == [p EXCEPT !.profiler = v]
<1>1. /\ q \in Procs /\ q.console = p.console /\ q.game = p.game /\ q.exit = p.exit
      /\ q.command = p.command /\ q.checker = p.checker
  BY DEF Procs
<1> HIDE DEF q
<1>2. View(q, p)
  BY <1>1 DEF View, BusyProc
<1> QED BY <1>1, <1>2 DEF q

LEMMA ViewTrans == \A p, q, r : View(r, q) /\ View(q, p) => View(r, p)
  BY DEF View

(* The innermost call.                                                        *)
LEMMA HeadIs ==
  ASSUME IInv, stack # <<>>
  PROVE  /\ 1 \in DOMAIN stack /\ Head(stack) = stack[1]
         /\ stack[1] \in Frame /\ stack[1].of \in Launches
         /\ Placed(stack[1])
         /\ FrameSound(stack[1], launches, proc[stack[1].of], running, settings.autoClose)
<1>1. stack \in Seq(Frame)
  BY ProcsTyped DEF IInv
<1>2. 1 \in DOMAIN stack /\ Head(stack) = stack[1]
  BY <1>1
<1> QED BY <1>1, <1>2, FrameOf DEF IInv, StackSound, Fits

LEMMA ArmedWorks ==
  ASSUME NEW f \in Frame, Placed(f), f.at = "armed"
  PROVE  Works(f)
<1>1. f.call \in {"arm", "finish"} \cup Dialogs
  BY DEF Frame
<1> QED BY <1>1 DEF Placed, Works, DialogPlaces

(* A dialog opens.                                                            *)
LEMMA FitsDialog ==
  ASSUME NEW s, NEW n, NEW P, NEW r, NEW x, Fits(s, n, P, r, x),
         NEW c \in Dialogs, NEW l \in Launches,
         c = "kill" => KillSafe(P[l], x),
         s # <<>> => s[1].at # "armed"
  PROVE  Fits(<<Call(c, l, "open")>> \o s, n, P, r, x)
<1> DEFINE f == Call(c, l, "open")
<1>0. c \in {"arm", "finish"} \cup Dialogs /\ "open" \in Places
  BY DEF Places, Loops
<1>1. f \in Frame /\ f.call = c /\ f.of = l /\ f.at = "open"
  BY <1>0, CallTyped
<1>2. ~Works(f)
  BY <1>1 DEF Works, Dialogs
<1> HIDE DEF f
<1>3. Placed(f)
  BY <1>1, <1>2 DEF Placed, Works, DialogPlaces
<1>4. FrameSound(f, n, P[f.of], r, x)
  BY <1>1, <1>2 DEF FrameSound
<1> QED BY <1>1, <1>2, <1>3, <1>4, FitsPush DEF f

(* An event loop is open, or nothing runs.                                    *)
LEMMA LoopOpen ==
  ASSUME IInv, InEventLoop
  PROVE  ~crashed /\ (stack # <<>> => stack[1].at \in Loops /\ stack[1].at # "armed")
<1>1. stack # <<>> => Head(stack) = stack[1]
  BY HeadIs
<1> QED BY <1>1 DEF InEventLoop, Loops

LEMMA KeepsProfilerEvent ==
  ASSUME IInv, NEW l \in Launches, ProfilerEvent(l)
  PROVE  IInv'
<1>1. PICK v \in {"none", "silent", "running"} :
        /\ InEventLoop /\ proc' = [proc EXCEPT ![l].profiler = v]
        /\ \/ UNCHANGED stack
           \/ \E c \in {"ready", "aborted"} : Enter(c, l, "open")
        /\ UNCHANGED <<settings, mainVisible, running, launches, crashed>>
  BY DEF ProfilerEvent, ProfilerStarts, ProfilerFailsToStart, ProfilerEnds
<1>2. proc \in [Launches -> Procs]
  BY ProcsTyped DEF IInv
<1> DEFINE q == [proc[l] EXCEPT !.profiler = v]
<1>3. q \in Procs /\ View(q, proc[l])
  BY <1>2, WithProfiler
<1>4. proc' = [proc EXCEPT ![l] = q]
  BY <1>1
<1> HIDE DEF q
<1>5. Fits(stack, launches, proc', running, settings.autoClose)
  BY <1>3, <1>4, OneView
<1>6. ~crashed /\ (stack # <<>> => stack[1].at # "armed")
  BY <1>1, LoopOpen
<1>7. Fits(stack', launches, proc', running, settings.autoClose)
  <2>1. CASE UNCHANGED stack
    BY <1>5, <2>1
  <2>2. ASSUME NEW c \in {"ready", "aborted"}, Enter(c, l, "open")
        PROVE  Fits(stack', launches, proc', running, settings.autoClose)
    <3>1. c \in Dialogs /\ c # "kill"
      BY DEF Dialogs
    <3>2. Fits(<<Call(c, l, "open")>> \o stack, launches, proc', running, settings.autoClose)
      BY <1>5, <1>6, <3>1, FitsDialog
    <3> QED BY <2>2, <3>2 DEF Enter
  <2> QED BY <1>1, <2>1, <2>2
<1> QED BY <1>1, <1>3, <1>4, <1>6, <1>7, QuietOne

(* What runs keeps its console.                                               *)
LEMMA BusyIsLast ==
  ASSUME IInv, NEW l \in Launches, BusyProc(proc[l])
  PROVE  l = launches /\ proc[l].console = "locked" /\ running
<1>1. ProcSound(l, launches, proc[l], running)
  BY DEF IInv, ProcsSound
<1>2. proc[l].console = "locked" /\ running /\ ~(l < launches) /\ ~(l > launches)
  BY <1>1 DEF ProcSound
<1>3. l \in Nat /\ launches \in Nat
  BY ProcsTyped, LaunchAssumption DEF IInv, Launches
<1> QED BY <1>2, <1>3

(* The game goes on, or ends.                                                 *)
LEMMA GameView ==
  ASSUME IInv, NEW l \in Launches, proc[l].game # "none",
         NEW q \in Procs, q.console = proc[l].console, q.command = proc[l].command,
         q.checker = proc[l].checker
  PROVE  View(q, proc[l])
<1>1. proc[l] \in Procs
  BY ProcsTyped DEF IInv
<1>2. proc[l].game \in {"listening", "playing", "over"}
  BY <1>1 DEF Procs
<1>3. BusyProc(proc[l])
  BY <1>2 DEF BusyProc
<1>4. proc[l].console = "locked"
  BY <1>3, BusyIsLast
<1> QED BY <1>3, <1>4 DEF View

LEMMA KeepsGameReads ==
  ASSUME IInv, NEW l \in Launches, GameReads(l)
  PROVE  IInv'
<1>1. proc[l] \in Procs
  BY ProcsTyped DEF IInv
<1> DEFINE p == proc[l]
           q1 == [p EXCEPT !.game = "playing"]
           q2 == [p EXCEPT !.game = "over", !.exit = "crash"]
           q == IF p.word = "launch" THEN q1 ELSE q2
<1>2. ~crashed /\ proc' = [proc EXCEPT ![l] = q] /\ proc[l].game # "none"
  BY DEF GameReads
<1>3. UNCHANGED <<settings, mainVisible, running, launches, stack, crashed>>
  BY DEF GameReads
<1>4. /\ q1 \in Procs /\ q1.console = p.console /\ q1.command = p.command
      /\ q1.checker = p.checker
  BY <1>1 DEF Procs
<1>5. /\ q2 \in Procs /\ q2.console = p.console /\ q2.command = p.command
      /\ q2.checker = p.checker
  BY <1>1 DEF Procs
<1> HIDE DEF q1, q2
<1>6. /\ q \in Procs /\ q.console = p.console /\ q.command = p.command
      /\ q.checker = p.checker
  BY <1>4, <1>5
<1> HIDE DEF q
<1>7. View(q, proc[l])
  BY <1>2, <1>6, GameView
<1>8. Fits(stack', launches, proc', running, settings.autoClose)
  BY <1>2, <1>3, <1>6, <1>7, OneView
<1> QED BY <1>2, <1>3, <1>6, <1>7, <1>8, QuietOne

LEMMA KeepsGameEnds ==
  ASSUME IInv, NEW l \in Launches, GameEnds(l)
  PROVE  IInv'
<1>1. proc[l] \in Procs /\ proc \in [Launches -> Procs]
  BY ProcsTyped DEF IInv
<1>2. PICK e \in {"clean", "crash"} : proc' = [proc EXCEPT ![l].game = "over", ![l].exit = e]
  BY DEF GameEnds
<1>3. /\ ~crashed /\ proc[l].game # "none"
      /\ UNCHANGED <<settings, mainVisible, running, launches, stack, crashed>>
  BY DEF GameEnds, Alive
<1> DEFINE q == [proc[l] EXCEPT !.game = "over", !.exit = e]
<1>4. proc' = [proc EXCEPT ![l] = q]
  BY <1>1, <1>2
<1>5. /\ q \in Procs /\ q.console = proc[l].console /\ q.command = proc[l].command
      /\ q.checker = proc[l].checker
  BY <1>1 DEF Procs
<1> HIDE DEF q
<1>6. View(q, proc[l])
  BY <1>3, <1>5, GameView
<1>7. Fits(stack', launches, proc', running, settings.autoClose)
  BY <1>3, <1>4, <1>5, <1>6, OneView
<1> QED BY <1>3, <1>4, <1>5, <1>6, <1>7, QuietOne

LEMMA KeepsFinish ==
  ASSUME IInv, NEW l \in Launches, Finish(l)
  PROVE  IInv'
<1>1. proc[l] \in Procs /\ stack \in Seq(Frame)
  BY ProcsTyped DEF IInv
<1>2. /\ InEventLoop /\ proc[l].game = "over" /\ proc' = [proc EXCEPT ![l].game = "none"]
      /\ stack' = <<Call("finish", l, "postLaunch")>> \o stack
      /\ UNCHANGED <<settings, mainVisible, running, launches, crashed>>
  BY DEF Finish, Enter
<1>3. ~crashed /\ (stack # <<>> => stack[1].at # "armed")
  BY <1>2, LoopOpen
<1>4. l = launches /\ proc[l].console = "locked" /\ running
  BY <1>2, BusyIsLast DEF BusyProc
<1>5. proc[l].checker = "idle"
  BY <1>2 DEF IInv, ProcsSound, ProcSound
<1> DEFINE q == [proc[l] EXCEPT !.game = "none"]
<1>6. proc' = [proc EXCEPT ![l] = q]
  BY <1>2
<1>7. /\ q \in Procs /\ q.console = "locked" /\ q.command = proc[l].command
      /\ q.checker = "idle" /\ q.game = "none" /\ q.exit = proc[l].exit
  BY <1>1, <1>4, <1>5, WithGame
<1> HIDE DEF q
<1>8. View(q, proc[l])
  BY <1>2, <1>4, <1>5, <1>7 DEF View, BusyProc
<1>9. Fits(stack, launches, proc', running, settings.autoClose) /\ proc'[l] = q
  BY <1>6, <1>7, <1>8, OneView
<1>10. \A i \in DOMAIN stack : ~Works(stack[i])
  <2> SUFFICES ASSUME NEW i \in DOMAIN stack, Works(stack[i]) PROVE FALSE
    OBVIOUS
  <2>1. /\ FrameSound(stack[i], launches, proc[stack[i].of], running, settings.autoClose)
        /\ stack[i].at = "armed" => i = 1
    BY DEF IInv, StackSound, Fits, ArmedFirst
  <2>2. stack[i].of = l
    BY <1>4, <2>1 DEF FrameSound
  <2>3. stack[i].at = "armed"
    BY <1>2, <2>1, <2>2 DEF FrameSound
  <2>4. stack[1].at = "armed" /\ stack # <<>>
    BY <1>1, <2>1, <2>3
  <2> QED BY <1>3, <2>4
<1> DEFINE f == Call("finish", l, "postLaunch")
<1>11. f \in Frame /\ f.call = "finish" /\ f.of = l /\ f.at = "postLaunch"
  <2>1. "postLaunch" \in Places
    BY DEF Places
  <2> QED BY <2>1, CallTyped
<1>12. stack' = <<f>> \o stack
  BY <1>2
<1> HIDE DEF f
<1>13. Placed(f)
  BY <1>11 DEF Placed, FinishPlaces, Dialogs
<1>14. FrameSound(f, launches, proc'[f.of], running, settings.autoClose)
  BY <1>4, <1>7, <1>9, <1>11 DEF FrameSound
<1>15. Fits(<<f>> \o stack, launches, proc', running, settings.autoClose)
  BY <1>3, <1>9, <1>10, <1>11, <1>13, <1>14, FitsPush
<1> QED BY <1>2, <1>3, <1>6, <1>7, <1>8, <1>12, <1>15, QuietOne

LEMMA KeepsClickKill ==
  ASSUME IInv, NEW l \in Launches, ClickKill(l)
  PROVE  IInv'
<1>1. proc[l] \in Procs
  BY ProcsTyped DEF IInv
<1>2. /\ InEventLoop /\ proc[l].console \in {"locked", "closable"}
      /\ proc' = [proc EXCEPT ![l].button = FALSE]
      /\ stack' = <<Call("kill", l, "open")>> \o stack
      /\ UNCHANGED <<settings, mainVisible, running, launches, crashed>>
  BY DEF ClickKill, Enter
<1> DEFINE q == [proc[l] EXCEPT !.button = FALSE]
<1>3. proc' = [proc EXCEPT ![l] = q]
  BY <1>2
<1>4. /\ q \in Procs /\ q.console = proc[l].console /\ q.game = proc[l].game
      /\ q.exit = proc[l].exit /\ q.command = proc[l].command /\ q.checker = proc[l].checker
  BY <1>1 DEF Procs
<1> HIDE DEF q
<1>5. View(q, proc[l])
  BY <1>4 DEF View, BusyProc
<1>6. Fits(stack, launches, proc', running, settings.autoClose) /\ proc'[l] = q
  BY <1>3, <1>4, <1>5, OneView
<1>7. ~crashed /\ (stack # <<>> => stack[1].at # "armed")
  BY <1>2, LoopOpen
<1>8. KillSafe(proc'[l], settings.autoClose) /\ "kill" \in Dialogs
  BY <1>2, <1>4, <1>6 DEF KillSafe, Dialogs
<1>9. Fits(<<Call("kill", l, "open")>> \o stack, launches, proc', running, settings.autoClose)
  BY <1>6, <1>7, <1>8, FitsDialog
<1> QED BY <1>2, <1>3, <1>4, <1>5, <1>7, <1>9, QuietOne

(* The innermost call returns, and its process changes a little.              *)
LEMMA QuietReturn ==
  ASSUME IInv, ~crashed, stack # <<>>, stack' = Tail(stack),
         NEW q \in Procs, View(q, proc[l0]), proc' = [proc EXCEPT ![l0] = q],
         UNCHANGED <<settings, mainVisible, running, launches, crashed>>
  PROVE  IInv'
<1>1. l0 \in Launches
  BY HeadIs DEF l0
<1> HIDE DEF l0
<1>2. Fits(stack, launches, proc', running, settings.autoClose)
  BY <1>1, OneView
<1>3. Fits(Tail(stack), launches, proc', running, settings.autoClose)
  BY <1>2, FitsTail
<1> QED BY <1>1, <1>3, QuietOne

LEMMA KeepsArmReturns == IInv /\ ArmReturns => IInv'
<1> SUFFICES ASSUME IInv, ArmReturns PROVE IInv'
  OBVIOUS
<1>1. /\ Runs("arm", "armed") /\ stack # <<>> /\ ~crashed
      /\ UNCHANGED <<settings, mainVisible, running, launches, crashed>>
  BY DEF ArmReturns, Runs
<1>2. l0 \in Launches /\ proc[l0] \in Procs /\ proc \in [Launches -> Procs]
  BY <1>1, HeadIs, ProcsTyped DEF l0, IInv
<1> DEFINE p == proc[l0]
<1>3. CASE proc' = [proc EXCEPT ![l0] = Said(@, "launch")] /\ Return
  <2> DEFINE q == Said(p, "launch")
  <2>1. q \in Procs /\ View(q, p)
    BY <1>2, SaidIs
  <2>2. proc' = [proc EXCEPT ![l0] = q] /\ stack' = Tail(stack)
    BY <1>3 DEF Return
  <2> HIDE DEF q
  <2> QED BY <1>1, <2>1, <2>2, QuietReturn
<1>4. CASE proc' = [proc EXCEPT ![l0].profiler = "starting"] /\ Return
  <2> DEFINE q == [p EXCEPT !.profiler = "starting"]
  <2>1. q \in Procs /\ View(q, p)
    BY <1>2, WithProfiler
  <2>2. proc' = [proc EXCEPT ![l0] = q] /\ stack' = Tail(stack)
    BY <1>4 DEF Return
  <2> HIDE DEF q
  <2> QED BY <1>1, <2>1, <2>2, QuietReturn
<1>5. CASE /\ proc' = [proc EXCEPT ![l0] = [Said(@, "abort") EXCEPT !.profiler = "none"]]
           /\ stack' = <<Call("error", l0, "open")>> \o Tail(stack)
  <2> DEFINE q1 == Said(p, "abort")
             q == [q1 EXCEPT !.profiler = "none"]
  <2>1. q1 \in Procs /\ View(q1, p)
    BY <1>2, SaidIs
  <2>2. proc' = [proc EXCEPT ![l0] = q]
    BY <1>5
  <2> HIDE DEF q1
  <2>3. q \in Procs /\ View(q, q1)
    BY <2>1, WithProfiler
  <2> HIDE DEF q
  <2>4. View(q, p)
    BY <2>1, <2>3, ViewTrans
  <2> DEFINE t == Tail(stack)
  <2>5. Fits(stack, launches, proc', running, settings.autoClose)
    BY <1>2, <2>2, <2>3, <2>4, OneView
  <2>6. Fits(t, launches, proc', running, settings.autoClose)
    BY <1>1, <2>5, FitsTail
  <2>7. t # <<>> => t[1].at # "armed"
    <3>1. stack \in Seq(Frame)
      BY ProcsTyped DEF IInv
    <3>2. t # <<>> => 2 \in DOMAIN stack /\ t[1] = stack[2]
      BY <1>1, <3>1
    <3>3. 2 \in DOMAIN stack => stack[2] \in Frame
      BY <3>1
    <3>4. ASSUME 2 \in DOMAIN stack, stack[2].at = "armed" PROVE FALSE
      <4>1. Placed(stack[2]) /\ (Works(stack[2]) => 2 = 1)
        BY <3>4 DEF IInv, StackSound, Fits, ArmedFirst
      <4> QED BY <3>3, <3>4, <4>1, ArmedWorks
    <3> QED BY <3>2, <3>4
  <2> HIDE DEF t
  <2>8. "error" \in Dialogs /\ "error" # "kill"
    BY DEF Dialogs
  <2>9. Fits(<<Call("error", l0, "open")>> \o t, launches, proc', running, settings.autoClose)
    BY <1>2, <2>6, <2>7, <2>8, FitsDialog
  <2>10. Fits(stack', launches, proc', running, settings.autoClose)
    BY <1>5, <2>9 DEF t
  <2> QED BY <1>1, <1>2, <2>2, <2>3, <2>4, <2>10, QuietOne
<1> QED BY <1>3, <1>4, <1>5 DEF ArmReturns

LEMMA KeepsKillAnswered == IInv /\ (KillConfirmed \/ KillDeclined) => IInv'
<1> SUFFICES ASSUME IInv, KillConfirmed \/ KillDeclined PROVE IInv'
  OBVIOUS
<1>1. /\ stack # <<>> /\ ~crashed /\ stack' = Tail(stack)
      /\ UNCHANGED <<settings, mainVisible, running, launches, crashed>>
  BY DEF KillConfirmed, KillDeclined, Runs, Return
<1>2. l0 \in Launches /\ proc[l0] \in Procs
  BY <1>1, HeadIs, ProcsTyped DEF l0, IInv
<1> DEFINE p == proc[l0]
<1>3. CASE KillConfirmed
  <2> DEFINE v == Target(p)
             q == [p EXCEPT !.dying = v]
  <2>1. proc' = [proc EXCEPT ![l0] = q]
    BY <1>3 DEF KillConfirmed
  <2>2. v \in {"none", "command", "game"}
    BY DEF Target
  <2> HIDE DEF v
  <2>3. /\ q \in Procs /\ q.console = p.console /\ q.game = p.game /\ q.exit = p.exit
        /\ q.command = p.command /\ q.checker = p.checker
    BY <1>2, <2>2 DEF Procs
  <2> HIDE DEF q
  <2>4. View(q, p)
    BY <2>3 DEF View, BusyProc
  <2> QED BY <1>1, <2>1, <2>3, <2>4, QuietReturn
<1>4. CASE KillDeclined
  <2> DEFINE q == [p EXCEPT !.button = TRUE]
  <2>1. proc' = [proc EXCEPT ![l0] = q]
    BY <1>4 DEF KillDeclined
  <2>2. /\ q \in Procs /\ q.console = p.console /\ q.game = p.game /\ q.exit = p.exit
        /\ q.command = p.command /\ q.checker = p.checker
    BY <1>2 DEF Procs
  <2> HIDE DEF q
  <2>3. View(q, p)
    BY <2>2 DEF View, BusyProc
  <2> QED BY <1>1, <2>1, <2>2, <2>3, QuietReturn
<1> QED BY <1>3, <1>4

LEMMA KeepsProfilerDialogReturns == IInv /\ ProfilerDialogReturns => IInv'
<1> SUFFICES ASSUME IInv, ProfilerDialogReturns PROVE IInv'
  OBVIOUS
<1>1. /\ stack # <<>> /\ ~crashed /\ stack' = Tail(stack)
      /\ UNCHANGED <<settings, mainVisible, running, launches, crashed>>
  BY DEF ProfilerDialogReturns, Runs, Return
<1>2. l0 \in Launches /\ proc[l0] \in Procs
  BY <1>1, HeadIs, ProcsTyped DEF l0, IInv
<1> DEFINE p == proc[l0]
           q == CASE Head(stack).call = "ready"   -> Said(p, "launch")
                  [] Head(stack).call = "aborted" -> Said(p, "abort")
                  [] OTHER -> p
<1>3. proc' = [proc EXCEPT ![l0] = q]
  BY DEF ProfilerDialogReturns
<1>4. q = Said(p, "launch") \/ q = Said(p, "abort") \/ q = p
  OBVIOUS
<1> HIDE DEF q
<1>5. q \in Procs /\ View(q, p)
  BY <1>2, <1>4, SaidIs, ViewSelf
<1> QED BY <1>1, <1>3, <1>5, QuietReturn

(* A loop that waits at a is told to go on at b.                              *)
LEMMA QuitIs ==
  ASSUME stack \in Seq(Frame), NEW l, NEW a, NEW b \in Places, Quit(l, a, b)
  PROVE  /\ stack' \in Seq(Frame) /\ DOMAIN stack' = DOMAIN stack
         /\ \A i \in DOMAIN stack :
              \/ stack'[i] = stack[i] /\ ~(stack[i].of = l /\ stack[i].at = a)
              \/ /\ stack[i].of = l /\ stack[i].at = a
                 /\ stack'[i].call = stack[i].call /\ stack'[i].of = l /\ stack'[i].at = b
<1> DEFINE g(i) == IF stack[i].of = l /\ stack[i].at = a THEN [stack[i] EXCEPT !.at = b]
                                                         ELSE stack[i]
<1>1. \A f \in Frame : /\ [f EXCEPT !.at = b] \in Frame
                       /\ [f EXCEPT !.at = b].call = f.call
                       /\ [f EXCEPT !.at = b].of = f.of /\ [f EXCEPT !.at = b].at = b
  BY DEF Frame, Places
<1>2. \A i \in DOMAIN stack : stack[i] \in Frame
  OBVIOUS
<1>3. \A i \in DOMAIN stack :
        /\ g(i) \in Frame
        /\ \/ g(i) = stack[i] /\ ~(stack[i].of = l /\ stack[i].at = a)
           \/ /\ stack[i].of = l /\ stack[i].at = a
              /\ g(i).call = stack[i].call /\ g(i).of = l /\ g(i).at = b
  BY <1>1, <1>2
<1>4. stack' = [i \in DOMAIN stack |-> g(i)]
  BY DEF Quit
<1> HIDE DEF g
<1>5. stack' \in Seq(Frame)
  BY <1>3, <1>4
<1> QED BY <1>3, <1>4, <1>5

LEMMA KeepsCommandEnds ==
  ASSUME IInv, NEW l \in Launches, CommandEnds(l)
  PROVE  IInv'
<1>1. proc[l] \in Procs /\ stack \in Seq(Frame)
  BY ProcsTyped DEF IInv
<1>2. PICK v \in {"crash", "normal"} : proc' = [proc EXCEPT ![l].command = v]
  BY DEF CommandEnds
<1>3. /\ ~crashed /\ proc[l].command = "running" /\ Quit(l, "commandLoop", "commandEnded")
      /\ UNCHANGED <<settings, mainVisible, running, launches, crashed>>
  BY DEF CommandEnds, InEventLoop
<1> DEFINE q == [proc[l] EXCEPT !.command = v]
<1>4. proc' = [proc EXCEPT ![l] = q]
  BY <1>2
<1>5. /\ q \in Procs /\ q.console = proc[l].console /\ q.game = proc[l].game
      /\ q.exit = proc[l].exit /\ q.checker = proc[l].checker
  BY <1>1, WithCommand
<1> HIDE DEF q
<1>6. View(q, proc[l])
  BY <1>3, <1>5 DEF View, BusyProc
<1>7. Fits(stack, launches, proc', running, settings.autoClose)
  BY <1>4, <1>5, <1>6, OneView
<1>8. /\ stack' \in Seq(Frame) /\ DOMAIN stack' = DOMAIN stack
      /\ \A i \in DOMAIN stack :
           \/ stack'[i] = stack[i]
           \/ /\ stack[i].of = l /\ stack[i].at = "commandLoop"
              /\ stack'[i].call = stack[i].call /\ stack'[i].of = l
              /\ stack'[i].at = "commandEnded"
  <2>1. "commandEnded" \in Places
    BY DEF Places
  <2> QED BY <1>1, <1>3, <2>1, QuitIs
<1>9. ASSUME NEW i \in DOMAIN stack
      PROVE  /\ stack'[i].call = stack[i].call
             /\ Works(stack[i]) /\ stack'[i].at = "armed" => stack[i].at = "armed"
             /\ Placed(stack'[i])
             /\ FrameSound(stack'[i], launches, proc'[stack'[i].of], running, settings.autoClose)
  <2>1. /\ Placed(stack[i])
        /\ FrameSound(stack[i], launches, proc'[stack[i].of], running, settings.autoClose)
    BY <1>7 DEF Fits
  <2>2. CASE stack'[i] = stack[i]
    BY <2>1, <2>2
  <2>3. CASE /\ stack[i].of = l /\ stack[i].at = "commandLoop"
             /\ stack'[i].call = stack[i].call /\ stack'[i].of = l
             /\ stack'[i].at = "commandEnded"
    <3>1. Placed(stack'[i])
      BY <2>1, <2>3 DEF Placed, ArmPlaces, FinishPlaces, DialogPlaces
    <3>2. FrameSound(stack'[i], launches, proc'[stack'[i].of], running, settings.autoClose)
      BY <2>1, <2>3 DEF FrameSound, Works
    <3> QED BY <2>3, <3>1, <3>2
  <2> QED BY <1>8, <2>2, <2>3
<1>10. Fits(stack', launches, proc', running, settings.autoClose)
  BY <1>7, <1>8, <1>9, FitsRelabelled
<1> QED BY <1>3, <1>4, <1>5, <1>6, <1>10, QuietOne

LEMMA KeepsCheckEnds ==
  ASSUME IInv, NEW l \in Launches, CheckEnds(l)
  PROVE  IInv'
<1>1. proc[l] \in Procs /\ stack \in Seq(Frame)
  BY ProcsTyped DEF IInv
<1>2. PICK b \in {"javaGood", "javaBad"} : Quit(l, "checkLoop", b)
  BY DEF CheckEnds
<1>3. /\ ~crashed /\ proc[l].checker = "running"
      /\ proc' = [proc EXCEPT ![l].checker = "idle"]
      /\ UNCHANGED <<settings, mainVisible, running, launches, crashed>>
  BY DEF CheckEnds, InEventLoop
<1> DEFINE q == [proc[l] EXCEPT !.checker = "idle"]
<1>4. proc' = [proc EXCEPT ![l] = q]
  BY <1>3
<1>5. /\ q \in Procs /\ q.console = proc[l].console /\ q.game = proc[l].game
      /\ q.exit = proc[l].exit /\ q.command = proc[l].command /\ q.checker = "idle"
  BY <1>1, WithChecker
<1> HIDE DEF q
<1>6. View(q, proc[l])
  BY <1>3, <1>5 DEF View, BusyProc
<1>7. Fits(stack, launches, proc', running, settings.autoClose) /\ proc'[l] = q
  BY <1>4, <1>5, <1>6, OneView
<1>8. /\ stack' \in Seq(Frame) /\ DOMAIN stack' = DOMAIN stack
      /\ \A i \in DOMAIN stack :
           \/ stack'[i] = stack[i]
           \/ /\ stack[i].of = l /\ stack[i].at = "checkLoop"
              /\ stack'[i].call = stack[i].call /\ stack'[i].of = l
              /\ stack'[i].at = b
  <2>1. b \in Places
    BY DEF Places
  <2> QED BY <1>1, <1>2, <2>1, QuitIs
<1>9. ASSUME NEW i \in DOMAIN stack
      PROVE  /\ stack'[i].call = stack[i].call
             /\ Works(stack[i]) /\ stack'[i].at = "armed" => stack[i].at = "armed"
             /\ Placed(stack'[i])
             /\ FrameSound(stack'[i], launches, proc'[stack'[i].of], running, settings.autoClose)
  <2>1. /\ Placed(stack[i])
        /\ FrameSound(stack[i], launches, proc'[stack[i].of], running, settings.autoClose)
    BY <1>7 DEF Fits
  <2>2. CASE stack'[i] = stack[i]
    BY <2>1, <2>2
  <2>3. CASE /\ stack[i].of = l /\ stack[i].at = "checkLoop"
             /\ stack'[i].call = stack[i].call /\ stack'[i].of = l
             /\ stack'[i].at = b
    <3>1. Placed(stack'[i])
      BY <2>1, <2>3 DEF Placed, ArmPlaces, FinishPlaces, DialogPlaces
    <3>2. FrameSound(stack'[i], launches, proc'[stack'[i].of], running, settings.autoClose)
      BY <1>5, <1>7, <2>1, <2>3 DEF FrameSound, Works
    <3> QED BY <2>3, <3>1, <3>2
  <2> QED BY <1>8, <2>2, <2>3
<1>10. Fits(stack', launches, proc', running, settings.autoClose)
  BY <1>7, <1>8, <1>9, FitsRelabelled
<1> QED BY <1>3, <1>4, <1>5, <1>6, <1>10, QuietOne

LEMMA HasFirst ==
  ASSUME NEW S \in SUBSET Nat, S # {}
  PROVE  \E j \in S : \A k \in S : j <= k
<1>1. IsWellFoundedOn(OpToRel(<, Nat), Nat)
  BY NatLessThanWellFounded
<1>2. PICK j \in S : \A k \in S : ~(<<k, j>> \in OpToRel(<, Nat))
  BY <1>1, WFMin
<1>3. \A k \in S : ~(k < j)
  BY <1>2 DEF OpToRel
<1> QED BY <1>3

LEMMA KeepsAnswerDialog == IInv /\ AnswerDialog => IInv'
<1> SUFFICES ASSUME IInv, AnswerDialog PROVE IInv'
  OBVIOUS
<1> DEFINE i == CHOOSE j \in OpenDialogs : \A k \in OpenDialogs : j <= k
<1>1. /\ ~crashed /\ OpenDialogs # {}
      /\ UNCHANGED <<settings, mainVisible, running, launches, proc, crashed>>
  BY DEF AnswerDialog, InEventLoop
<1>2. PICK b \in {"yes", "no"} : stack' = [stack EXCEPT ![i].at = b]
  BY DEF AnswerDialog
<1>3. stack \in Seq(Frame)
  BY ProcsTyped DEF IInv
<1>4. i \in OpenDialogs
  <2>1. OpenDialogs \in SUBSET Nat
    BY <1>3 DEF OpenDialogs
  <2>2. \E j \in OpenDialogs : \A k \in OpenDialogs : j <= k
    BY <1>1, <2>1, HasFirst
  <2> QED BY <2>2
<1> HIDE DEF i
<1>5. i \in DOMAIN stack /\ stack[i].call \in Dialogs
  BY <1>4 DEF OpenDialogs
<1> DEFINE f == [stack[i] EXCEPT !.at = b]
<1>6. stack[i] \in Frame
  BY <1>3, <1>5
<1>7. f \in Frame /\ f.call = stack[i].call /\ f.of = stack[i].of /\ f.at = b
  BY <1>6 DEF Frame
<1>8. stack' = [stack EXCEPT ![i] = f]
  BY <1>2
<1> HIDE DEF f
<1>9. /\ stack' \in Seq(Frame) /\ DOMAIN stack' = DOMAIN stack /\ stack'[i] = f
      /\ \A k \in DOMAIN stack : k # i => stack'[k] = stack[k]
  BY <1>3, <1>5, <1>7, <1>8
<1>10. ASSUME NEW k \in DOMAIN stack
       PROVE  /\ stack'[k].call = stack[k].call
              /\ Works(stack[k]) /\ stack'[k].at = "armed" => stack[k].at = "armed"
              /\ Placed(stack'[k])
              /\ FrameSound(stack'[k], launches, proc[stack'[k].of], running, settings.autoClose)
  <2>1. /\ Placed(stack[k])
        /\ FrameSound(stack[k], launches, proc[stack[k].of], running, settings.autoClose)
    BY DEF IInv, StackSound, Fits
  <2>2. CASE k # i
    BY <1>9, <2>1, <2>2
  <2>3. CASE k = i
    <3>1. f.call \in Dialogs /\ ~Works(f)
      BY <1>5, <1>7 DEF Works, Dialogs
    <3>2. Placed(f)
      BY <1>7, <3>1 DEF Placed, DialogPlaces, Dialogs
    <3>3. FrameSound(f, launches, proc[f.of], running, settings.autoClose)
      BY <1>7, <2>1, <2>3, <3>1 DEF FrameSound
    <3> QED BY <1>7, <1>9, <2>3, <3>1, <3>2, <3>3 DEF Works
  <2> QED BY <2>2, <2>3
<1>11. Fits(stack', launches, proc, running, settings.autoClose)
  BY <1>9, <1>10, FitsRelabelled DEF IInv, StackSound
<1>12. proc' \in [Launches -> Procs] /\ crashed' \in BOOLEAN
  BY <1>1, ProcsTyped DEF IInv
<1>13. \A k \in Launches : View(proc'[k], proc[k])
  BY <1>1, ViewSelf
<1> QED BY <1>1, <1>11, <1>12, <1>13, Quiet

(* The handler of a deleted console: only one that closed by itself.          *)
LEMMA KeepsHandlerOfDeadConsole == IInv /\ HandlerOfDeadConsole => IInv'
<1> SUFFICES ASSUME IInv, HandlerOfDeadConsole PROVE IInv'
  OBVIOUS
<1>1. /\ stack # <<>> /\ Head(stack).call = "kill" /\ proc[l0].console = "dead" /\ crashed' = TRUE
      /\ UNCHANGED <<settings, mainVisible, running, launches, proc, stack>>
  BY DEF HandlerOfDeadConsole, Runs
<1>2. /\ l0 \in Launches /\ Head(stack) = stack[1]
      /\ FrameSound(stack[1], launches, proc[l0], running, settings.autoClose)
  BY <1>1, HeadIs DEF l0
<1>3. settings.autoClose /\ proc[l0].exit = "clean"
  BY <1>1, <1>2 DEF FrameSound, KillSafe
<1>4. CrashNeedsAutoClose'
  BY <1>1, <1>2, <1>3 DEF CrashNeedsAutoClose
<1>5. TypeOK'
  BY <1>1 DEF IInv, TypeOK
<1>6. StackSound' /\ ProcsSound' /\ WindowSound'
  BY <1>1 DEF IInv, StackSound, ProcsSound, WindowSound
<1> QED BY <1>4, <1>5, <1>6 DEF IInv

(* The console closes only when no call is left that could need it.           *)
LEMMA KeepsCloseConsole ==
  ASSUME IInv, NEW l \in Launches, CloseConsole(l)
  PROVE  IInv'
<1>1. /\ InEventLoop /\ OpenDialogs = {} /\ proc[l].console = "closable"
      /\ proc' = [proc EXCEPT ![l] = Over(@, "dying", Len(stack))] /\ mainVisible' = TRUE
      /\ UNCHANGED <<settings, running, launches, stack, crashed>>
  BY DEF CloseConsole, CanClose
<1>2. /\ proc \in [Launches -> Procs] /\ stack \in Seq(Frame) /\ launches \in Nat
      /\ running \in BOOLEAN /\ crashed \in BOOLEAN
  BY ProcsTyped DEF IInv
<1>3. l = launches
  <2>1. ~(l < launches) /\ ~(l > launches)
    BY <1>1 DEF IInv, ProcsSound, ProcSound
  <2> QED BY <1>2, <2>1, LaunchAssumption DEF Launches
<1>4. ~crashed /\ (stack # <<>> => stack[1].at \in Loops /\ stack[1].at # "armed")
  BY <1>1, LoopOpen
<1>5. stack = <<>>
  <2> SUFFICES ASSUME stack # <<>> PROVE FALSE
    OBVIOUS
  <2>1. /\ 1 \in DOMAIN stack /\ stack[1] \in Frame /\ Placed(stack[1])
        /\ FrameSound(stack[1], launches, proc[stack[1].of], running, settings.autoClose)
    BY HeadIs
  <2>2. stack[1].call \notin Dialogs
    <3>1. ASSUME stack[1].call \in Dialogs PROVE stack[1].at = "open"
      BY <1>4, <2>1, <3>1 DEF Placed, DialogPlaces, Loops
    <3> QED BY <1>1, <2>1, <3>1 DEF OpenDialogs
  <2>3. Works(stack[1])
    BY <2>1, <2>2 DEF Frame, Works
  <2>4. proc[launches].console = "locked"
    BY <1>4, <2>1, <2>3 DEF FrameSound
  <2> QED BY <1>1, <1>3, <2>4
<1> DEFINE q == Over(proc[l], "dying", Len(stack))
<1>6. q \in Procs /\ q.console = "dying" /\ q.game = "none" /\ q.checker = "idle" /\ q.command = "idle"
  <2>1. "dying" \in Consoles /\ Len(stack) \in Nat
    BY <1>2 DEF Consoles
  <2> QED BY <1>2, <2>1, OverIs
<1>7. proc' = [proc EXCEPT ![l] = q]
  BY <1>1
<1> HIDE DEF q
<1>8. /\ proc' \in [Launches -> Procs] /\ proc'[l] = q
      /\ \A k \in Launches : k # l => proc'[k] = proc[k]
  BY <1>2, <1>6, <1>7
<1>9. \A k \in Launches : ProcSound(k, launches, proc'[k], running')
  <2>1. ~(launches < launches) /\ ~(launches > launches)
    BY <1>2
  <2>2. ProcSound(l, launches, q, running')
    BY <1>3, <1>6, <2>1 DEF ProcSound, BusyProc
  <2>3. \A k \in Launches : ProcSound(k, launches, proc[k], running')
    BY <1>1 DEF IInv, ProcsSound
  <2> QED BY <1>8, <2>2, <2>3
<1>10. \A k \in 1..launches : proc'[k].console \in {"dying", "dead"}
  <2> SUFFICES ASSUME NEW k \in 1..launches, k # l PROVE proc'[k].console \in {"dying", "dead"}
    BY <1>6, <1>8
  <2>1. k \in Launches /\ k < launches
    BY <1>2, <1>3, LaunchAssumption DEF Launches
  <2> QED BY <1>8, <2>1 DEF IInv, ProcsSound, ProcSound
<1>11. Fits(stack', launches, proc', running, settings.autoClose)
  BY <1>1, <1>2, <1>5 DEF Fits, OneWork, ArmedFirst
<1> QED BY <1>1, <1>2, <1>4, <1>8, <1>9, <1>10, <1>11, Step

(* The dialog over a deleted console goes with it.                            *)
LEMMA KeepsDeleteConsole ==
  ASSUME IInv, NEW l \in Launches, DeleteConsole(l)
  PROVE  IInv'
<1> DEFINE g(i) == IF stack[i] = Call("kill", l, "open") THEN Call("kill", l, "gone")
                                                         ELSE stack[i]
<1>1. /\ ~crashed /\ proc[l].console = "dying"
      /\ proc' = [proc EXCEPT ![l] = Over(@, "dead", 0)]
      /\ stack' = [i \in DOMAIN stack |-> g(i)]
      /\ UNCHANGED <<settings, mainVisible, running, launches, crashed>>
  BY DEF DeleteConsole, InEventLoop
<1>2. /\ proc \in [Launches -> Procs] /\ stack \in Seq(Frame) /\ launches \in Nat
      /\ running \in BOOLEAN /\ crashed \in BOOLEAN /\ mainVisible \in BOOLEAN
      /\ launches \in 0..MaxLaunches
  BY ProcsTyped DEF IInv
<1> DEFINE q == Over(proc[l], "dead", 0)
<1>3. /\ q \in Procs /\ q.console = "dead" /\ q.game = "none" /\ q.checker = "idle"
      /\ q.command = "idle" /\ (settings.autoClose => q.exit = proc[l].exit)
  <2>1. "dead" \in Consoles
    BY DEF Consoles
  <2> QED BY <1>2, <2>1, OverIs
<1>4. proc' = [proc EXCEPT ![l] = q]
  BY <1>1
<1> HIDE DEF q
<1>5. /\ proc' \in [Launches -> Procs] /\ proc'[l] = q
      /\ \A k \in Launches : k # l => proc'[k] = proc[k]
  BY <1>2, <1>3, <1>4
<1>6. \A k \in Launches : ProcSound(k, launches, proc'[k], running')
  <2>1. ~(l > launches)
    BY <1>1 DEF IInv, ProcsSound, ProcSound
  <2>2. ProcSound(l, launches, q, running')
    BY <1>3, <2>1 DEF ProcSound, BusyProc
  <2>3. \A k \in Launches : ProcSound(k, launches, proc[k], running')
    BY <1>1 DEF IInv, ProcsSound
  <2> QED BY <1>5, <2>2, <2>3
<1>7. mainVisible' => \A k \in 1..launches : proc'[k].console \in {"dying", "dead"}
  <2>1. 1..launches \subseteq Launches
    BY <1>2, LaunchAssumption DEF Launches
  <2> QED BY <1>1, <1>3, <1>5, <2>1 DEF IInv, WindowSound
<1>8. \A i \in DOMAIN stack : stack[i] \in Frame
  BY <1>2
<1>9. /\ Call("kill", l, "gone") \in Frame /\ Call("kill", l, "gone").call = "kill"
      /\ Call("kill", l, "gone").of = l /\ Call("kill", l, "gone").at = "gone"
      /\ Call("kill", l, "open").call = "kill" /\ Call("kill", l, "open").of = l
  <2>1. "kill" \in {"arm", "finish"} \cup Dialogs /\ "gone" \in Places /\ "open" \in Places
    BY DEF Places, Loops, Dialogs
  <2> QED BY <2>1, CallTyped
<1>10. \A i \in DOMAIN stack :
         /\ g(i) \in Frame
         /\ \/ g(i) = stack[i]
            \/ /\ stack[i].call = "kill" /\ stack[i].of = l
               /\ g(i).call = "kill" /\ g(i).of = l /\ g(i).at = "gone"
  BY <1>8, <1>9
<1> HIDE DEF g
<1>11. /\ stack' \in Seq(Frame) /\ DOMAIN stack' = DOMAIN stack
       /\ \A i \in DOMAIN stack : stack'[i] = g(i)
  BY <1>1, <1>2, <1>10
<1>12. \A f \in Frame :
         FrameSound(f, launches, proc[f.of], running, settings.autoClose)
           => FrameSound(f, launches, proc'[f.of], running, settings.autoClose)
  <2> SUFFICES ASSUME NEW f \in Frame, f.of = l,
                      FrameSound(f, launches, proc[l], running, settings.autoClose)
               PROVE  FrameSound(f, launches, q, running, settings.autoClose)
    <3>1. \A f \in Frame : f.of \in Launches
      BY DEF Frame
    <3> QED BY <1>5, <3>1
  <2>1. ~(Works(f) /\ f.at # "armed")
    BY <1>1 DEF FrameSound
  <2>2. f.call = "kill" => KillSafe(q, settings.autoClose)
    BY <1>1, <1>3 DEF FrameSound, KillSafe
  <2> QED BY <2>1, <2>2 DEF FrameSound
<1>13. Fits(stack, launches, proc', running, settings.autoClose)
  BY <1>8, <1>12 DEF IInv, StackSound, Fits
<1>14. ASSUME NEW i \in DOMAIN stack
       PROVE  /\ stack'[i].call = stack[i].call
              /\ Works(stack[i]) /\ stack'[i].at = "armed" => stack[i].at = "armed"
              /\ Placed(stack'[i])
              /\ FrameSound(stack'[i], launches, proc'[stack'[i].of], running, settings.autoClose)
  <2>1. /\ Placed(stack[i])
        /\ FrameSound(stack[i], launches, proc'[stack[i].of], running, settings.autoClose)
    BY <1>13 DEF Fits
  <2>2. CASE g(i) = stack[i]
    BY <1>11, <2>1, <2>2
  <2>3. CASE /\ stack[i].call = "kill" /\ stack[i].of = l
             /\ g(i).call = "kill" /\ g(i).of = l /\ g(i).at = "gone"
    <3>1. Placed(g(i))
      BY <2>3 DEF Placed, DialogPlaces
    <3>2. FrameSound(g(i), launches, proc'[g(i).of], running, settings.autoClose)
      BY <2>1, <2>3 DEF FrameSound, Works
    <3> QED BY <1>11, <2>3, <3>1, <3>2 DEF Works
  <2> QED BY <1>10, <2>2, <2>3
<1>15. Fits(stack', launches, proc', running, settings.autoClose)
  BY <1>11, <1>13, <1>14, FitsRelabelled
<1> QED BY <1>1, <1>2, <1>5, <1>6, <1>7, <1>15, Step

(* A new launch: all earlier ones are over, and nothing is being called.      *)
LEMMA KeepsLaunchInstance ==
  ASSUME IInv, NEW profiled \in BOOLEAN, LaunchInstance(profiled)
  PROVE  IInv'
<1> DEFINE n == launches + 1
           w == IF profiled THEN "wanted" ELSE "none"
           q == [NoProc EXCEPT !.console = "locked", !.button = TRUE, !.profiler = w]
           f == Call("arm", n, "preLaunch")
<1>1. /\ ~crashed /\ mainVisible /\ stack = <<>> /\ launches < MaxLaunches
      /\ launches' = n /\ mainVisible' = FALSE /\ running' = TRUE
      /\ proc' = [proc EXCEPT ![n] = q] /\ stack' = <<f>>
      /\ UNCHANGED <<settings, crashed>>
  BY DEF LaunchInstance, MayLaunch
<1>2. /\ proc \in [Launches -> Procs] /\ launches \in Nat /\ settings \in Settings
      /\ crashed \in BOOLEAN
  BY ProcsTyped DEF IInv
<1>3. n \in Launches /\ n \in 0..MaxLaunches /\ \A l \in Launches : l \in Nat
  BY <1>1, <1>2, LaunchAssumption DEF Launches
<1>4. /\ q \in Procs /\ q.console = "locked" /\ q.game = "none" /\ q.checker = "idle"
  <2>1. w \in {"none", "wanted", "starting", "silent", "running"}
    OBVIOUS
  <2>2. "locked" \in Consoles
    BY DEF Consoles
  <2> HIDE DEF w
  <2>3. q.console = "locked" /\ q.game = "none" /\ q.checker = "idle"
    BY DEF NoProc
  <2>4. q \in [console : {"locked"}, level : {0}, button : BOOLEAN, dying : {"none"},
               command : {"idle"}, checker : {"idle"}, game : {"none"}, exit : {"none"},
               word : {"none"}, profiler : {w}]
    BY DEF NoProc
  <2> HIDE DEF q
  <2> QED BY <2>1, <2>2, <2>3, <2>4 DEF Procs
<1> HIDE DEF q
<1>5. /\ f \in Frame /\ f.call = "arm" /\ f.of = n /\ f.at = "preLaunch"
  <2>1. "preLaunch" \in Places
    BY DEF Places
  <2> QED BY <1>3, <2>1, CallTyped
<1> HIDE DEF f
<1>6. /\ proc' \in [Launches -> Procs] /\ proc'[n] = q
      /\ \A l \in Launches : l # n => proc'[l] = proc[l]
  BY <1>1, <1>2, <1>3, <1>4
<1>7. \A l \in Launches : ProcSound(l, launches', proc'[l], running')
  <2>1. ASSUME NEW l \in Launches, l # n
        PROVE  ProcSound(l, n, proc[l], TRUE)
    <3>1. ProcSound(l, launches, proc[l], running)
      BY DEF IInv, ProcsSound
    <3>2. l \in Nat
      BY <1>3
    <3>3. l < n => proc[l].console \in {"dying", "dead"}
      <4>1. l < n /\ ~(l < launches) => l = launches
        BY <1>2, <3>2
      <4>2. l = launches => l \in 1..launches
        BY <1>2, LaunchAssumption DEF Launches
      <4> QED BY <1>1, <3>1, <4>1, <4>2 DEF ProcSound, IInv, WindowSound
    <3>4. l > n => l > launches
      BY <1>2, <3>2
    <3> QED BY <3>1, <3>3, <3>4 DEF ProcSound
  <2>2. ProcSound(n, n, q, TRUE)
    <3>1. ~(n < n) /\ ~(n > n)
      BY <1>2
    <3> QED BY <1>4, <3>1 DEF ProcSound
  <2> QED BY <1>1, <1>6, <2>1, <2>2
<1>8. Fits(stack', launches', proc', running', settings'.autoClose)
  <2>1. /\ stack' \in Seq(Frame) /\ DOMAIN stack' = {1} /\ stack'[1] = f
    BY <1>1, <1>5
  <2>2. Placed(f)
    BY <1>5 DEF Placed, ArmPlaces, Dialogs
  <2>3. FrameSound(f, launches', proc'[f.of], running', settings'.autoClose)
    BY <1>1, <1>4, <1>5, <1>6 DEF FrameSound
  <2> QED BY <2>1, <2>2, <2>3 DEF Fits, OneWork, ArmedFirst
<1>9. TypeOK'
  <2>1. stack' \in Seq(Frame)
    BY <1>8 DEF Fits
  <2>2. launches' \in 0..MaxLaunches
    BY <1>1, <1>3
  <2>3. settings' \in Settings /\ {mainVisible', running', crashed'} \subseteq BOOLEAN
    BY <1>1, <1>2
  <2> QED BY <1>6, <2>1, <2>2, <2>3 DEF TypeOK, Procs, Consoles
<1>10. WindowSound' /\ CrashNeedsAutoClose'
  BY <1>1 DEF WindowSound, CrashNeedsAutoClose
<1> QED BY <1>7, <1>8, <1>9, <1>10 DEF IInv, StackSound, ProcsSound

-----------------------------------------------------------------------------
(* The invariant holds.                                                       *)

LEMMA Starts == Init => IInv
<1> SUFFICES ASSUME Init PROVE IInv
  OBVIOUS
<1>1. /\ settings \in Settings /\ mainVisible = TRUE /\ running = FALSE /\ launches = 0
      /\ proc = [l \in Launches |-> NoProc] /\ stack = <<>> /\ crashed = FALSE
  BY DEF Init
<1>2. NoProc \in Procs /\ NoProc.console = "none" /\ ~BusyProc(NoProc) /\ NoProc.game = "none"
  <2>1. /\ NoProc.console = "none" /\ NoProc.game = "none" /\ NoProc.command = "idle"
        /\ NoProc.checker = "idle"
    BY DEF NoProc
  <2>2. NoProc \in Procs
    BY DEF NoProc, Procs, Consoles
  <2> QED BY <2>1, <2>2 DEF BusyProc
<1>3. TypeOK
  <2>1. proc \in [Launches -> Procs]
    BY <1>1, <1>2
  <2>2. launches \in 0..MaxLaunches
    BY <1>1, LaunchAssumption
  <2>3. stack \in Seq(Frame) /\ settings \in Settings
    BY <1>1
  <2>4. {mainVisible, running, crashed} \subseteq BOOLEAN
    BY <1>1
  <2> QED BY <2>1, <2>2, <2>3, <2>4 DEF TypeOK, Procs, Consoles
<1>4. StackSound
  BY <1>1 DEF StackSound, Fits, OneWork, ArmedFirst
<1>5. ProcsSound
  <2> SUFFICES ASSUME NEW l \in Launches PROVE ProcSound(l, launches, proc[l], running)
    BY DEF ProcsSound
  <2>1. ~(l < launches) /\ proc[l] = NoProc
    BY <1>1, LaunchAssumption DEF Launches
  <2> QED BY <1>2, <2>1 DEF ProcSound
<1>6. WindowSound /\ CrashNeedsAutoClose
  BY <1>1 DEF WindowSound, CrashNeedsAutoClose
<1> QED BY <1>3, <1>4, <1>5, <1>6 DEF IInv

LEMMA Keeps == IInv /\ [Next]_vars => IInv'
<1> SUFFICES ASSUME IInv, [Next]_vars PROVE IInv'
  OBVIOUS
<1>1. CASE Code
  <2>1. CASE SkipPreLaunch \/ PreLaunchFailsToStart \/ StartCommand \/ PreLaunchCrashed
             \/ PreLaunchReloads
    BY <2>1, KeepsSkipPreLaunch, KeepsPreLaunchFailsToStart, KeepsStartCommand,
       KeepsPreLaunchCrashed, KeepsPreLaunchReloads
  <2>2. CASE CheckJava \/ JavaIsGood \/ LaunchFails \/ StartGame \/ ArmReturns
    BY <2>2, KeepsCheckJava, KeepsJavaIsGood, KeepsLaunchFails, KeepsStartGame,
       KeepsArmReturns
  <2>3. CASE NoPostLaunch \/ PostLaunchEnded \/ Ended
    BY <2>3, KeepsNoPostLaunch, KeepsPostLaunchEnded, KeepsEnded
  <2>4. CASE KillConfirmed \/ KillDeclined \/ HandlerOfDeadConsole \/ ProfilerDialogReturns
    BY <2>4, KeepsKillAnswered, KeepsHandlerOfDeadConsole, KeepsProfilerDialogReturns
  <2> QED BY <1>1, <2>1, <2>2, <2>3, <2>4 DEF Code
<1>2. CASE AnswerDialog
  BY <1>2, KeepsAnswerDialog
<1>3. CASE \E profiled \in BOOLEAN : LaunchInstance(profiled)
  BY <1>3, KeepsLaunchInstance
<1>4. ASSUME NEW l \in Launches,
             \/ CommandEnds(l) \/ CheckEnds(l) \/ ProfilerEvent(l) \/ GameReads(l)
             \/ GameEnds(l) \/ Finish(l) \/ CloseConsole(l) \/ DeleteConsole(l) \/ ClickKill(l)
      PROVE  IInv'
  BY <1>4, KeepsCommandEnds, KeepsCheckEnds, KeepsProfilerEvent, KeepsGameReads,
     KeepsGameEnds, KeepsFinish, KeepsCloseConsole, KeepsDeleteConsole, KeepsClickKill
<1>5. CASE UNCHANGED vars
  <2>1. /\ settings' = settings /\ mainVisible' = mainVisible /\ running' = running
        /\ launches' = launches /\ proc' = proc /\ stack' = stack /\ crashed' = crashed
    BY <1>5 DEF vars
  <2>2. TypeOK'
    BY <2>1 DEF IInv, TypeOK
  <2>3. StackSound' /\ ProcsSound' /\ WindowSound' /\ CrashNeedsAutoClose'
    BY <2>1 DEF IInv, StackSound, ProcsSound, WindowSound, CrashNeedsAutoClose
  <2> QED BY <2>2, <2>3 DEF IInv
<1> QED BY <1>1, <1>2, <1>3, <1>4, <1>5 DEF Next

(* The invariant of launching: MainWindow::launchInstance hides the main      *)
(* window until the console of the launch closes, so one launch at a time is  *)
(* not over, and its place in BaseProcess and MinecraftProcess tells what     *)
(* can run.                                                                   *)
THEOREM Invariance == Spec => []IInv
<1> QED BY Starts, Keeps, PTL DEF Spec

(* Every variable keeps its type.                                             *)
THEOREM TypeCorrect == Spec => []TypeOK
<1>1. IInv => TypeOK
  BY DEF IInv
<1> QED BY <1>1, Invariance, PTL

(* While a command, the Java check or the game of any launch runs, the        *)
(* instance counts as running (BaseInstance::isRunning).                      *)
THEOREM RunningCorrect == Spec => []RunningWhileBusy
<1>1. IInv => RunningWhileBusy
  <2> SUFFICES ASSUME IInv, NEW l \in Launches, Busy(l) PROVE running
    BY DEF RunningWhileBusy
  <2>1. BusyProc(proc[l])
    BY DEF Busy, BusyProc, Alive
  <2> QED BY <2>1, BusyIsLast
<1> QED BY <1>1, Invariance, PTL

(* A console that may be closed, or a main window that is back, belongs to a  *)
(* launch of which nothing runs and nothing starts again; and the handler of  *)
(* a deleted console runs only where the console closes itself.               *)
THEOREM ConsoleCorrect == Spec => []ConsoleIsSafe
<1>1. IInv => OverMeansOver
  <2> SUFFICES ASSUME IInv, NEW l \in 1..launches, proc[l].console # "locked" \/ mainVisible
               PROVE  /\ ~Busy(l)
                      /\ \A i \in DOMAIN stack : stack[i].of = l => stack[i].at \notin
                           {"preLaunch", "checkJava", "start", "commandLoop", "checkLoop"}
    BY DEF OverMeansOver
  <2>1. l \in Launches
    BY ProcsTyped, LaunchAssumption DEF IInv, Launches
  <2>2. proc[l].console # "locked"
    BY DEF IInv, WindowSound
  <2>3. ~Busy(l)
    <3>1. ~BusyProc(proc[l])
      BY <2>1, <2>2, BusyIsLast
    <3> QED BY <3>1 DEF Busy, BusyProc, Alive
  <2>4. ASSUME NEW i \in DOMAIN stack, stack[i].of = l,
               stack[i].at \in {"preLaunch", "checkJava", "start", "commandLoop", "checkLoop"}
        PROVE  FALSE
    <3>1. stack[i] \in Frame
      BY ProcsTyped, FrameOf DEF IInv
    <3>2. /\ Placed(stack[i])
          /\ FrameSound(stack[i], launches, proc[l], running, settings.autoClose)
      BY <2>4 DEF IInv, StackSound, Fits
    <3>3. Works(stack[i])
      BY <2>4, <3>1, <3>2 DEF Frame, Placed, DialogPlaces, Works
    <3> QED BY <2>2, <2>4, <3>2, <3>3 DEF FrameSound
  <2> QED BY <2>3, <2>4
<1>2. IInv => ConsoleIsSafe
  BY <1>1 DEF IInv, ConsoleIsSafe
<1> QED BY <1>2, Invariance, PTL
=============================================================================
