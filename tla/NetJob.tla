------------------------------- MODULE NetJob -------------------------------
(***************************************************************************)
(* logic/net/NetJob: a Task that runs a list of NetActions, at most        *)
(* MaxParallel at a time, and retries each failed one MaxFailures times.   *)
(*                                                                         *)
(* The job lives in one thread.  A signal of a part calls a slot of the    *)
(* job, which calls startMoreParts, which calls start() of other parts,    *)
(* which may report before start() returns: `stack' is that chain of calls *)
(* (its head is the innermost).  When it is empty the thread is back in    *)
(* its event loop and the next reply can arrive.                           *)
(*                                                                         *)
(* A slot is an index of `downloads', which usually holds a part of its    *)
(* own; a part is named by its first slot.  A part of Mirrors is a         *)
(* ForgeMirrors action: when its reply arrives it calls addNetAction on    *)
(* the running job `Injected' times and then succeeds, and does so twice   *)
(* with the same parts when the mirror list has no usable line.            *)
(***************************************************************************)
EXTENDS Naturals, Sequences, FiniteSets

CONSTANTS
  InitialParts,   \* number of actions added before the job is started
  Mirrors,        \* those of them that are ForgeMirrors actions
  Injected,       \* number of actions a ForgeMirrors adds to the job
  EmptyLists,     \* whether a mirror list may come without a usable line
  MaxParallel,    \* 6 in the code
  MaxFailures     \* 3 in the code

ASSUME NetJobAssumption ==
  /\ InitialParts \in Nat /\ Injected \in Nat /\ MaxFailures \in Nat
  /\ MaxParallel \in Nat \ {0} /\ EmptyLists \in BOOLEAN
  /\ Mirrors \subseteq 0..(InitialParts - 1)

VARIABLES
  size,        \* downloads.size()
  object,      \* downloads: the part of a slot
  m_todo,      \* QQueue<int>: waiting parts
  m_doing,     \* QSet<int>: parts taken from the queue and not yet answered
  m_done,      \* QSet<int>
  m_failed,    \* QSet<int>: parts that used up their retries
  failures,    \* parts_progress[i].failures
  connected,   \* parts whose signals reach the slots of the job
  inFlight,    \* parts with an outstanding network reply
  taskRunning, \* Task::m_running
  jobRunning,  \* NetJob::m_running, which hides Task::m_running
  m_succeeded, \* Task::m_succeeded
  posted,      \* the queued call of startMoreParts that executeTask posts
  stack,       \* the calls in progress, innermost first
  starts,      \* history: how many times start() of a part was called
  outcomes     \* history: the signals succeeded/failed the job has emitted

parts   == <<size, object>>
queues  == <<m_todo, m_doing, m_done, m_failed, failures>>
status  == <<taskRunning, jobRunning, m_succeeded, outcomes>>
wires   == <<connected, inFlight>>
vars    == <<parts, queues, wires, status, posted, stack, starts>>

Slots   == 0..(size - 1)
Call(f, i) == [call |-> f, part |-> i]
None    == 0    \* the part of a call that concerns none

Top(f)  == stack # <<>> /\ Head(stack).call = f
Part    == Head(stack).part

(***************************************************************************)
(* The job as its creator hands it over: actions added, start() not called *)
(***************************************************************************)
Init ==
  /\ size = InitialParts
  /\ object = [i \in 0..(InitialParts - 1) |-> i]
  /\ m_todo = <<>> /\ m_doing = {} /\ m_done = {} /\ m_failed = {}
  /\ failures = [i \in 0..(InitialParts - 1) |-> 0]
  /\ connected = {} /\ inFlight = {}
  /\ taskRunning = FALSE /\ jobRunning = FALSE /\ m_succeeded = FALSE
  /\ posted = FALSE /\ stack = <<>>
  /\ starts = [i \in 0..(InitialParts - 1) |-> 0]
  /\ outcomes = <<>>

\* Task::start and NetJob::executeTask; a job is started once.
ExecuteTask ==
  /\ ~ jobRunning
  /\ taskRunning' = TRUE /\ jobRunning' = TRUE
  /\ m_todo' = [k \in 1..size |-> k - 1]
  /\ posted' = TRUE
  /\ UNCHANGED <<parts, m_doing, m_done, m_failed, failures, wires, m_succeeded,
                 outcomes, stack, starts>>

\* The event loop delivers the queued call of startMoreParts.
DeliverPosted ==
  /\ stack = <<>> /\ posted
  /\ posted' = FALSE
  /\ stack' = <<Call("startMoreParts", None)>>
  /\ UNCHANGED <<parts, queues, wires, status, starts>>

-----------------------------------------------------------------------------
(* startMoreParts *)

\* Task::emitSucceeded
EmitSucceeded ==
  IF taskRunning
  THEN /\ taskRunning' = FALSE
       /\ m_succeeded' = TRUE
       /\ outcomes' = Append(outcomes, "succeeded")
  ELSE UNCHANGED <<taskRunning, m_succeeded, outcomes>>

\* Mutants: the check forgets the parts that run; emitFailed gets the guard
\* of emitSucceeded.
AllAnswered_IgnoresDoing == m_todo = <<>>
EmitFailed_OnlyOnce ==
  IF taskRunning
  THEN /\ taskRunning' = FALSE
       /\ m_succeeded' = FALSE
       /\ outcomes' = Append(outcomes, "failed")
  ELSE UNCHANGED <<taskRunning, m_succeeded, outcomes>>

\* Task::emitFailed
EmitFailed ==
  /\ taskRunning' = FALSE
  /\ m_succeeded' = FALSE
  /\ outcomes' = Append(outcomes, "failed")

\* The final condition of startMoreParts.
AllAnswered == m_todo = <<>> /\ m_doing = {}

\* Nothing is queued and nothing runs: the job reports its result.
Finish ==
  /\ Top("startMoreParts") /\ AllAnswered
  /\ IF m_failed = {} THEN EmitSucceeded ELSE EmitFailed
  /\ stack' = Tail(stack)
  /\ UNCHANGED <<parts, queues, wires, jobRunning, posted, starts>>

\* Nothing is queued but some part still runs.
NothingToStart ==
  /\ Top("startMoreParts") /\ m_todo = <<>> /\ ~ AllAnswered
  /\ stack' = Tail(stack)
  /\ UNCHANGED <<parts, queues, wires, status, posted, starts>>

EnterLoop ==
  /\ Top("startMoreParts") /\ m_todo # <<>>
  /\ stack' = <<Call("loop", None)>> \o Tail(stack)
  /\ UNCHANGED <<parts, queues, wires, status, posted, starts>>

CanDequeue == m_todo # <<>> /\ Cardinality(m_doing) < MaxParallel

ConnectSignals(p) == connected' = connected \cup {p}

\* One turn of the loop: dequeue a slot, connect the signals of its part, start it.
Dequeue ==
  /\ Top("loop") /\ CanDequeue
  /\ m_todo' = Tail(m_todo)
  /\ m_doing' = m_doing \cup {Head(m_todo)}
  /\ ConnectSignals(object[Head(m_todo)])
  /\ stack' = <<Call("start", object[Head(m_todo)])>> \o stack
  /\ UNCHANGED <<parts, m_done, m_failed, failures, inFlight, status, posted, starts>>

LeaveLoop ==
  /\ Top("loop") /\ ~ CanDequeue
  /\ stack' = Tail(stack)
  /\ UNCHANGED <<parts, queues, wires, status, posted, starts>>

-----------------------------------------------------------------------------
(* partSucceeded and partFailed.  A signal that is no longer connected     *)
(* reaches nobody.                                                         *)

\* NetAction::m_index_within_job: the last slot the part was given.
Index(p) == CHOOSE i \in Slots : object[i] = p /\ \A j \in Slots : object[j] = p => j <= i

Lost(f) ==
  /\ Top(f) /\ Part \notin connected
  /\ stack' = Tail(stack)
  /\ UNCHANGED <<parts, queues, wires, status, posted, starts>>

\* Mutants: the part stays connected; startMoreParts is not called.
Retire_StaysConnected ==
  /\ m_doing' = m_doing \ {Index(Part)}
  /\ UNCHANGED connected
  /\ stack' = <<Call("startMoreParts", None)>> \o Tail(stack)
Retire_StartsNoMore ==
  /\ m_doing' = m_doing \ {Index(Part)}
  /\ connected' = connected \ {Part}
  /\ stack' = Tail(stack)

\* What both do besides recording the result: the slot leaves m_doing, the
\* signals of the part are disconnected, startMoreParts is called.
Retire ==
  /\ m_doing' = m_doing \ {Index(Part)}
  /\ connected' = connected \ {Part}
  /\ stack' = <<Call("startMoreParts", None)>> \o Tail(stack)

PartSucceeded ==
  /\ Top("succeeded") /\ Part \in connected
  /\ Retire
  /\ m_done' = m_done \cup {Index(Part)}
  /\ UNCHANGED <<parts, m_todo, m_failed, failures, inFlight, status, posted, starts>>

\* Mutant: failures is never counted up to the limit.
OutOfRetries_OffByOne == failures[Index(Part)] > MaxFailures

OutOfRetries == failures[Index(Part)] = MaxFailures

\* The failure after MaxFailures retries is final, an earlier one sends the
\* part back to the queue.
PartFailed ==
  /\ Top("failed") /\ Part \in connected
  /\ Retire
  /\ IF OutOfRetries
     THEN /\ m_failed' = m_failed \cup {Index(Part)}
          /\ UNCHANGED <<failures, m_todo>>
     ELSE /\ failures' = [failures EXCEPT ![Index(Part)] = @ + 1]
          /\ m_todo' = Append(m_todo, Index(Part))
          /\ UNCHANGED m_failed
  /\ UNCHANGED <<parts, m_done, inFlight, status, posted, starts>>

-----------------------------------------------------------------------------
(* The parts *)

\* addNetAction(p): the action gets the next index and, in a running job, is
\* started at once, without passing through m_todo and m_doing.
Add(p) ==
  /\ size' = size + 1
  /\ object' = [i \in 0..size |-> IF i = size THEN p ELSE object[i]]
  /\ failures' = [i \in 0..size |-> IF i = size THEN 0 ELSE failures[i]]
  /\ starts' = [i \in 0..size |-> IF i = size THEN 0 ELSE starts[i]]
  /\ IF jobRunning
     THEN /\ ConnectSignals(p)
          /\ stack' = <<Call("start", p)>> \o Tail(stack)
     ELSE /\ stack' = Tail(stack)
          /\ UNCHANGED connected
  /\ UNCHANGED <<m_todo, m_doing, m_done, m_failed, inFlight, status, posted>>

\* The action is new to the job.
AddNetAction == Top("addNetAction") /\ Add(size)

\* The action is the one that the first injection added `Injected' slots before.
AddAgain == Top("addAgain") /\ Add(size - Injected)

\* start() of a part sends a request, or reports before it returns: a file
\* that is not stale succeeds, a target that cannot be opened fails.
StartPart ==
  /\ Top("start")
  /\ starts' = [starts EXCEPT ![Part] = @ + 1]
  /\ \/ /\ inFlight' = inFlight \cup {Part}
        /\ stack' = Tail(stack)
     \/ /\ Part \notin Mirrors
        /\ \E f \in {"succeeded", "failed"} :
              stack' = <<Call(f, Part)>> \o Tail(stack)
        /\ UNCHANGED inFlight
  /\ UNCHANGED <<parts, queues, connected, status, posted>>

\* The reply of part i ends: the action emits succeeded or failed.  When
\* writing the target fails inside downloadReadyRead, aborting the reply
\* emits failed and the handler then emits failed once more.
Answer(i) ==
  /\ stack = <<>> /\ i \in inFlight /\ i \notin Mirrors
  /\ inFlight' = inFlight \ {i}
  /\ stack' \in { <<Call("succeeded", i)>>,
                  <<Call("failed", i)>>,
                  <<Call("failed", i), Call("failed", i)>> }
  /\ UNCHANGED <<parts, queues, connected, status, posted, starts>>

\* injectDownloads for each library, then succeeded.
InjectDownloads(f, i) == [k \in 1..Injected |-> Call(f, None)] \o <<Call("succeeded", i)>>

\* The mirror list arrives, or its download fails and a fixed list is used.
\* parseMirrorList goes on after deferToFixedList has injected and succeeded.
MirrorsFinished(i) ==
  /\ stack = <<>> /\ i \in inFlight /\ i \in Mirrors
  /\ inFlight' = inFlight \ {i}
  /\ \/ stack' = InjectDownloads("addNetAction", i)
     \/ EmptyLists /\ stack' = InjectDownloads("addNetAction", i) \o InjectDownloads("addAgain", i)
  /\ UNCHANGED <<parts, queues, connected, status, posted, starts>>

-----------------------------------------------------------------------------
\* The steps of a call in progress.
Handler ==
  \/ Finish \/ NothingToStart \/ EnterLoop \/ Dequeue \/ LeaveLoop
  \/ Lost("succeeded") \/ Lost("failed") \/ PartSucceeded \/ PartFailed
  \/ AddNetAction \/ AddAgain \/ StartPart

\* The network answers some request.
Network == \E i \in inFlight : Answer(i) \/ MirrorsFinished(i)

Next == ExecuteTask \/ DeliverPosted \/ Handler \/ Network

Spec == Init /\ [][Next]_vars

\* A call that is made returns, the event loop runs, and while requests are
\* outstanding one of them is answered (Qt ends every reply with finished()).
Fairness == WF_vars(ExecuteTask) /\ WF_vars(DeliverPosted) /\ WF_vars(Handler) /\ WF_vars(Network)

FairSpec == Spec /\ Fairness

-----------------------------------------------------------------------------
(* Properties *)

Elements(q) == {q[k] : k \in 1..Len(q)}
Distinct(q) == \A k, l \in 1..Len(q) : q[k] = q[l] => k = l

ToDo == Elements(m_todo)

\* Parts that addNetAction started on the running job and that have not
\* reported yet: the job does not count them in m_todo or m_doing.
Unqueued == connected \ m_doing

Frames == [call : {"startMoreParts", "loop", "addNetAction", "addAgain"}, part : {None}]
            \cup [call : {"start", "succeeded", "failed"}, part : Slots]

SlotsTyped ==
  /\ size \in Nat /\ object \in [Slots -> Slots]
  /\ m_todo \in Seq(Slots)
  /\ m_doing \subseteq Slots /\ m_done \subseteq Slots /\ m_failed \subseteq Slots
  /\ failures \in [Slots -> 0..MaxFailures]
  /\ connected \subseteq Slots /\ inFlight \subseteq Slots
  /\ starts \in [Slots -> Nat]

StatusTyped ==
  /\ taskRunning \in BOOLEAN /\ jobRunning \in BOOLEAN /\ m_succeeded \in BOOLEAN
  /\ posted \in BOOLEAN
  /\ outcomes \in Seq({"succeeded", "failed"})

StackTyped == stack \in Seq(Frames)

\* Every index the job keeps in a set, a queue or a call in progress is the
\* index of one of its parts, and no part's failure count passes the limit.
TypeOK == SlotsTyped /\ StatusTyped /\ StackTyped

\* A slot of a running job is in exactly one place: waiting once, connected
\* (running), done or finally failed.  Reports that come twice or before
\* start() returns never put a part in two sets or queue it twice
\* (partSucceeded, partFailed and the loop of startMoreParts).
SlotsPartitioned ==
  jobRunning =>
    /\ Distinct(m_todo)
    /\ Slots = ToDo \cup connected \cup m_done \cup m_failed
    /\ ToDo \cap connected = {}
    /\ (ToDo \cup connected) \cap m_done = {}
    /\ (ToDo \cup connected \cup m_done) \cap m_failed = {}
    /\ m_doing \subseteq connected

\* Every failure partFailed counts belongs to a start of its own, even when an
\* action reports one failure twice: a part is started at most
\* MaxFailures + 1 times and is given up only after that many.
RetriesBounded ==
  \A i \in Slots :
    /\ starts[i] <= MaxFailures + 1
    /\ i \in m_failed => starts[i] = MaxFailures + 1

\* The loop of startMoreParts keeps at most MaxParallel dequeued parts running,
\* however deep the slots call it again.
ParallelLimit == Cardinality(m_doing) <= MaxParallel

\* startMoreParts reports only when each queued part is done or has failed
\* finally, and the signal it emits says whether any has failed.
VerdictJustified ==
  [][ Len(outcomes') > Len(outcomes) =>
        /\ Slots = m_done \cup m_failed \cup Unqueued
        /\ outcomes'[Len(outcomes')] = "succeeded" <=> m_failed = {} ]_vars

\* Some part has two slots, of which it reports to the second.
AddedTwice == \E i \in Slots : object[i] # i

\* Even when actions that ForgeMirrors added report after the job did, the
\* result Task::successful() returns is right once all have reported.  It never
\* says that the job succeeded when a part was given up; and it says so if none was,
\* unless parts were added twice, whose first slots may keep the job from reporting.
VerdictSettles ==
  jobRunning /\ ~ posted /\ stack = <<>> /\ ToDo \cup connected = {} =>
    /\ m_failed # {} => ~ m_succeeded
    /\ m_failed = {} => m_succeeded \/ AddedTwice

\* A started job reports a result.
JobFinishes == jobRunning ~> outcomes # <<>>

\* Every slot, also one that ForgeMirrors adds to the running job, is in the end
\* done or given up; none is forgotten in a set of the job.  The exception is a
\* mirror list without a usable line, which adds the parts twice: then slots are
\* forgotten, and may stay in m_doing for ever.
EveryPartSettles == jobRunning ~> [](Slots = m_done \cup m_failed \/ AddedTwice)

\* The job as its users see it (module DownloadBatch).
Verdict(i) == IF i \in m_done THEN "done"
              ELSE IF i \in m_failed THEN "failed" ELSE "pending"

Batch == INSTANCE DownloadBatch WITH
           Parts    <- 0..(InitialParts - 1),
           Attempts <- MaxFailures + 1,
           tries    <- starts,
           verdict  <- [i \in 0..(InitialParts - 1) |-> Verdict(i)],
           reported <- outcomes

\* The job does what DownloadBatch promises, when no part adds others.
ImplementsBatch == Batch!Spec

=============================================================================
