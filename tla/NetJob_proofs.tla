--------------------------- MODULE NetJob_proofs ---------------------------
(***************************************************************************)
(* Theorems about NetJob for every number of parts, mirrors, injected      *)
(* actions, parallel parts and retries, of jobs to which no part is added  *)
(* twice.                                                                  *)
(***************************************************************************)
EXTENDS NetJob, TLAPS, SequenceTheorems, FiniteSetTheorems

\* The tuple of what addNetAction changes, and addNetAction itself, are
\* expanded wherever the action or the tuple that holds them is.
USE DEF parts, Add

-----------------------------------------------------------------------------
(* Sequences *)

\* Pushing an element on a stack keeps its type.
LEMMA Pushed ==
  ASSUME NEW S, NEW f \in S, NEW s \in Seq(S)
  PROVE  <<f>> \o s \in Seq(S)
  OBVIOUS

\* The head and the tail of a non-empty stack have its type.
LEMMA Popped ==
  ASSUME NEW S, NEW s \in Seq(S), s # <<>>
  PROVE  Head(s) \in S /\ Tail(s) \in Seq(S)
  OBVIOUS

\* A sequence that repeats one value.
LEMMA Repeated ==
  ASSUME NEW S, NEW c \in S, NEW n \in Nat
  PROVE  [k \in 1..n |-> c] \in Seq(S)
<1>1. [k \in 1..n |-> c] \in [1..n -> S]
  OBVIOUS
<1> QED
  BY <1>1, SeqDef

\* Stacks of one and of two calls.
LEMMA Short ==
  ASSUME NEW S, NEW f \in S, NEW g \in S
  PROVE  <<f>> \in Seq(S) /\ <<f, g>> \in Seq(S)
  OBVIOUS

\* Appending a new element to a queue without repetitions adds it to its
\* elements and repeats nothing (m_todo.enqueue in partFailed).
LEMMA Enqueued ==
  ASSUME NEW S, NEW q \in Seq(S), NEW e \in S, Distinct(q), e \notin Elements(q)
  PROVE  /\ Elements(Append(q, e)) = Elements(q) \cup {e}
         /\ Distinct(Append(q, e))
<1> DEFINE r == Append(q, e)
<1>1. Len(r) = Len(q) + 1 /\ r[Len(r)] = e /\ \A k \in 1..Len(q) : r[k] = q[k]
  OBVIOUS
<1>2. 1..Len(r) = 1..Len(q) \cup {Len(r)} /\ Len(q) \in Nat
  BY <1>1
<1> HIDE DEF r
<1>3. Elements(r) = Elements(q) \cup {e}
  BY <1>1, <1>2 DEF Elements
<1>4. Distinct(r)
  BY <1>1, <1>2 DEF Elements, Distinct
<1> QED
  BY <1>3, <1>4 DEF r

\* Taking the head of a queue without repetitions leaves the other elements
\* (m_todo.dequeue in startMoreParts).
LEMMA Dequeued ==
  ASSUME NEW S, NEW q \in Seq(S), q # <<>>, Distinct(q)
  PROVE  /\ Head(q) \in Elements(q)
         /\ Elements(Tail(q)) = Elements(q) \ {Head(q)}
         /\ Distinct(Tail(q))
<1> DEFINE r == Tail(q)
<1>1. /\ Len(q) \in Nat /\ Len(q) > 0 /\ Len(r) = Len(q) - 1
      /\ Head(q) = q[1]
      /\ \A k \in 1..Len(r) : r[k] = q[k + 1]
  OBVIOUS
<1>2. \A k \in 2..Len(q) : k - 1 \in 1..Len(r) /\ r[k - 1] = q[k]
  BY <1>1
<1> HIDE DEF r
<1>3. Head(q) \in Elements(q)
  BY <1>1 DEF Elements
<1>4. Elements(r) \subseteq Elements(q) \ {Head(q)}
  BY <1>1 DEF Elements, Distinct
<1>5. Elements(q) \ {Head(q)} \subseteq Elements(r)
  BY <1>1, <1>2 DEF Elements
<1>6. Distinct(r)
  BY <1>1 DEF Distinct
<1> QED
  BY <1>3, <1>4, <1>5, <1>6 DEF r

-----------------------------------------------------------------------------
(* Slots and parts.  The theorems are about jobs in which each slot has a  *)
(* part of its own; only a mirror list without a usable line adds a part   *)
(* to a job that has it.                                                   *)

NoPartTwice == EmptyLists => Mirrors = {}

NoAgain(s) == \A k \in 1..Len(s) : s[k].call # "addAgain"

Plain == object = [i \in Slots |-> i] /\ NoAgain(stack)

\* Then the index a part reports under is its slot.
LEMMA IndexIs ==
  ASSUME Plain, NEW i \in Slots
  PROVE  object[i] = i /\ Index(i) = i
<1>1. \A j \in Slots : object[j] = j
  BY DEF Plain
<1> DEFINE I(k) == object[k] = i /\ \A j \in Slots : object[j] = i => j <= k
<1>2. I(i)
  <2>1. i <= i
    BY DEF Slots
  <2> QED
    BY <1>1, <2>1
<1>3. \A k \in Slots : I(k) => k = i
  BY <1>1
<1>4. Index(i) = CHOOSE k \in Slots : I(k)
  BY DEF Index
<1> QED
  BY <1>1, <1>2, <1>3, <1>4

\* Then partSucceeded and partFailed record the slot of the part that reports.
LEMMA RetireIs ==
  ASSUME Plain, Part \in Slots, Retire
  PROVE  /\ m_doing' = m_doing \ {Part} /\ connected' = connected \ {Part}
         /\ stack' = <<Call("startMoreParts", None)>> \o Tail(stack)
  BY IndexIs DEF Retire

LEMMA SucceededIs ==
  ASSUME Plain, Part \in Slots, PartSucceeded
  PROVE  /\ Retire /\ m_done' = m_done \cup {Part}
         /\ UNCHANGED <<parts, m_todo, m_failed, failures, inFlight, status, posted, starts>>
  BY IndexIs DEF PartSucceeded

LEMMA FailedIs ==
  ASSUME Plain, Part \in Slots, PartFailed
  PROVE  /\ Retire
         /\ OutOfRetries => /\ failures[Part] = MaxFailures
                            /\ m_failed' = m_failed \cup {Part}
                            /\ UNCHANGED <<failures, m_todo>>
         /\ ~ OutOfRetries => /\ failures[Part] # MaxFailures
                              /\ failures' = [failures EXCEPT ![Part] = @ + 1]
                              /\ m_todo' = Append(m_todo, Part)
                              /\ UNCHANGED m_failed
         /\ UNCHANGED <<parts, m_done, inFlight, status, posted, starts>>
  BY IndexIs DEF PartFailed, OutOfRetries

\* Then the loop starts the part of the slot it takes from the queue.
LEMMA DequeueIs ==
  ASSUME Plain, m_todo \in Seq(Slots), Dequeue
  PROVE  /\ m_todo # <<>> /\ Head(m_todo) \in Slots /\ Tail(m_todo) \in Seq(Slots)
         /\ connected' = connected \cup {Head(m_todo)}
         /\ stack' = <<Call("start", Head(m_todo))>> \o stack
<1>1. m_todo # <<>> /\ Head(m_todo) \in Slots /\ Tail(m_todo) \in Seq(Slots)
  BY Popped DEF Dequeue, CanDequeue
<1> QED
  BY <1>1, IndexIs DEF Dequeue, ConnectSignals

-----------------------------------------------------------------------------
(* Types *)

\* The part of a call of a part or of its signal is a slot of the job.
LEMMA TopPart ==
  ASSUME StackTyped, stack # <<>>, Head(stack).call \in {"start", "succeeded", "failed"}
  PROVE  Part \in Slots
  BY Popped DEF Frames, StackTyped, Part

\* Only addNetAction changes the slots.
LEMMA SlotsStay ==
  ASSUME [Next]_vars, ~ AddNetAction, ~ AddAgain
  PROVE  size' = size /\ object' = object /\ Slots' = Slots /\ Frames' = Frames
<1>1. size' = size /\ object' = object
  BY DEF Next, Handler, Network, ExecuteTask, DeliverPosted, Finish, NothingToStart,
         EnterLoop, Dequeue, LeaveLoop, Lost, PartSucceeded, PartFailed, StartPart,
         Answer, MirrorsFinished, vars
<1> QED
  BY <1>1 DEF Slots, Frames

\* addNetAction gives the new part an index no other part has.
LEMMA SlotAdded ==
  ASSUME SlotsTyped, AddNetAction
  PROVE  /\ Slots' = Slots \cup {size} /\ size \notin Slots
         /\ Slots' = 0..size
         /\ Frames \subseteq Frames'
<1>1. Slots' = 0..size /\ Slots' = Slots \cup {size} /\ size \notin Slots
  BY DEF SlotsTyped, Slots, AddNetAction
<1> QED
  BY <1>1 DEF Frames

\* Then nothing is added again.
LEMMA NeverAgain ==
  ASSUME StackTyped, Plain
  PROVE  ~ AddAgain
<1>1. stack # <<>> => Head(stack) = stack[1] /\ 1 \in 1..Len(stack)
  BY DEF StackTyped
<1> QED
  BY <1>1 DEF AddAgain, Top, Plain, NoAgain

LEMMA SlotsTypedStep ==
  ASSUME TypeOK, Plain, [Next]_vars
  PROVE  SlotsTyped'
<1> USE DEF TypeOK, SlotsTyped, queues, wires
<1>1. CASE ExecuteTask
  <2>1. [k \in 1..size |-> k - 1] \in [1..size -> Slots]
    BY DEF Slots
  <2>2. m_todo' \in Seq(Slots)
    BY <1>1, <2>1, SeqDef DEF ExecuteTask
  <2> QED
    BY <1>1, <2>2 DEF ExecuteTask, Slots
<1>2. CASE DeliverPosted \/ Finish \/ NothingToStart \/ EnterLoop \/ LeaveLoop
           \/ Lost("succeeded") \/ Lost("failed")
  BY <1>2 DEF DeliverPosted, Finish, NothingToStart, EnterLoop, LeaveLoop, Lost, Slots
<1>3. CASE Dequeue
  <2>1. /\ Head(m_todo) \in Slots /\ Tail(m_todo) \in Seq(Slots)
        /\ connected' = connected \cup {Head(m_todo)}
    BY <1>3, DequeueIs
  <2> QED
    BY <1>3, <2>1 DEF Dequeue, Slots
<1>4. CASE PartSucceeded
  <2>1. Part \in Slots
    BY <1>4, TopPart DEF PartSucceeded, Top
  <2> QED
    BY <1>4, <2>1, SucceededIs, RetireIs DEF Slots
<1>5. CASE PartFailed
  <2>1. Part \in Slots /\ Slots' = Slots
    BY <1>5, TopPart DEF PartFailed, Top, Slots
  <2>2. failures[Part] # MaxFailures => failures[Part] + 1 \in 0..MaxFailures
    BY <2>1, NetJobAssumption
  <2>3. CASE OutOfRetries
    BY <1>5, <2>1, <2>3, FailedIs, RetireIs
  <2>4. CASE ~ OutOfRetries
    <3>1. failures' \in [Slots -> 0..MaxFailures]
      <4>1. failures' = [failures EXCEPT ![Part] = @ + 1]
        BY <1>5, <2>1, <2>4, FailedIs
      <4>2. failures[Part] + 1 \in 0..MaxFailures
        BY <1>5, <2>1, <2>2, <2>4, FailedIs
      <4> QED
        BY <2>1, <4>1, <4>2
    <3>2. m_todo' \in Seq(Slots)
      <4>1. m_todo' = Append(m_todo, Part)
        BY <1>5, <2>1, <2>4, FailedIs
      <4> QED
        BY <2>1, <4>1
    <3> QED
      BY <1>5, <2>1, <2>4, <3>1, <3>2, FailedIs, RetireIs
  <2> QED
    BY <2>3, <2>4
<1>6. CASE AddNetAction
  <2>1. Slots' = Slots \cup {size} /\ Slots' = 0..size /\ size \notin Slots
    BY <1>6, SlotAdded
  <2>2. failures' \in [Slots' -> 0..MaxFailures] /\ starts' \in [Slots' -> Nat]
    BY <1>6, <2>1, NetJobAssumption DEF AddNetAction
  <2>3. m_todo' \in Seq(Slots')
    BY <1>6, <2>1 DEF AddNetAction
  <2>4. connected' \subseteq Slots'
    BY <1>6, <2>1 DEF AddNetAction, ConnectSignals
  <2>5. size' \in Nat /\ object' \in [Slots' -> Slots']
    BY <1>6, <2>1 DEF AddNetAction
  <2> QED
    BY <1>6, <2>1, <2>2, <2>3, <2>4, <2>5 DEF AddNetAction
<1>7. CASE StartPart
  <2>1. Part \in Slots
    BY <1>7, TopPart DEF StartPart, Top
  <2>2. starts' \in [Slots -> Nat] /\ inFlight' \subseteq Slots
    BY <1>7, <2>1 DEF StartPart
  <2> QED
    BY <1>7, <2>2 DEF StartPart, Slots
<1>8. CASE Network
  BY <1>8 DEF Network, Answer, MirrorsFinished, Slots
<1>9. CASE UNCHANGED vars
  BY <1>9 DEF vars, Slots
<1> QED
  BY <1>1, <1>2, <1>3, <1>4, <1>5, <1>6, <1>7, <1>8, <1>9, NeverAgain DEF Next, Handler

LEMMA StatusTypedStep ==
  ASSUME TypeOK, Plain, [Next]_vars
  PROVE  StatusTyped'
<1> USE DEF TypeOK, StatusTyped, status
<1>1. CASE Finish
  <2>1. \A v \in {"succeeded", "failed"} : Append(outcomes, v) \in Seq({"succeeded", "failed"})
    OBVIOUS
  <2> QED
    BY <1>1, <2>1 DEF Finish, EmitSucceeded, EmitFailed
<1>2. CASE ExecuteTask \/ DeliverPosted
  BY <1>2 DEF ExecuteTask, DeliverPosted
<1>3. CASE NothingToStart \/ EnterLoop \/ Dequeue \/ LeaveLoop \/ Lost("succeeded")
           \/ Lost("failed") \/ PartSucceeded \/ PartFailed \/ AddNetAction
           \/ StartPart \/ Network \/ UNCHANGED vars
  <2>1. status' = status /\ posted' = posted
    BY <1>3 DEF NothingToStart, EnterLoop, Dequeue, LeaveLoop, Lost, PartSucceeded,
       PartFailed, AddNetAction, StartPart, Network, Answer, MirrorsFinished, vars
  <2> QED
    BY <2>1
<1> QED
  BY <1>1, <1>2, <1>3, NeverAgain DEF Next, Handler

LEMMA StackTypedStep ==
  ASSUME NoPartTwice, TypeOK, Plain, [Next]_vars
  PROVE  StackTyped'
<1> USE DEF TypeOK, StackTyped
<1> DEFINE Job == {"startMoreParts", "loop", "addNetAction"}
<1>1. \A f \in Job : Call(f, None) \in Frames
  BY DEF Call, Frames
<1>2. \A f \in {"start", "succeeded", "failed"}, i \in Slots : Call(f, i) \in Frames
  BY DEF Call, Frames
<1>3. stack # <<>> => Tail(stack) \in Seq(Frames)
  BY Popped
<1>4. CASE DeliverPosted
  BY <1>1, <1>4, SlotsStay DEF DeliverPosted, AddNetAction, AddAgain, Top, Frames, Slots
<1>5. CASE Finish \/ NothingToStart \/ LeaveLoop \/ Lost("succeeded") \/ Lost("failed")
  BY <1>3, <1>5 DEF Finish, NothingToStart, LeaveLoop, Lost, Top, Frames, Slots
<1>6. CASE EnterLoop
  <2>1. Frames' = Frames
    BY <1>6 DEF EnterLoop, Frames, Slots
  <2> QED
    BY <1>1, <1>3, <1>6, <2>1, Pushed DEF EnterLoop, Top
<1>7. CASE Dequeue
  <2>1. Head(m_todo) \in Slots /\ stack' = <<Call("start", Head(m_todo))>> \o stack
    BY <1>7, DequeueIs DEF SlotsTyped
  <2>2. Frames' = Frames
    BY <1>7 DEF Dequeue, Frames, Slots
  <2> QED
    BY <1>2, <2>1, <2>2, Pushed
<1>8. CASE PartSucceeded \/ PartFailed
  <2>1. Frames' = Frames
    BY <1>8 DEF PartSucceeded, PartFailed, Frames, Slots
  <2> QED
    BY <1>1, <1>3, <1>8, <2>1, Pushed DEF PartSucceeded, PartFailed, Retire, Top
<1>9. CASE AddNetAction
  <2>1. Slots' = Slots \cup {size} /\ Frames \subseteq Frames'
    BY <1>9, SlotAdded
  <2>2. Tail(stack) \in Seq(Frames')
    BY <1>3, <1>9, <2>1 DEF AddNetAction, Top
  <2>3. Call("start", size) \in Frames'
    BY <2>1 DEF Call, Frames
  <2> QED
    BY <1>9, <2>2, <2>3, Pushed DEF AddNetAction
<1>10. CASE StartPart
  <2>1. Part \in Slots
    BY <1>10, TopPart DEF StartPart, Top
  <2>2. Frames' = Frames
    BY <1>10 DEF StartPart, Frames, Slots
  <2> QED
    BY <1>2, <1>3, <1>10, <2>1, <2>2, Pushed DEF StartPart, Top
<1>11. CASE Network
  <2> SUFFICES ASSUME NEW i \in inFlight, Answer(i) \/ MirrorsFinished(i)
               PROVE  StackTyped'
    BY <1>11 DEF Network
  <2>1. Call("succeeded", i) \in Frames /\ Call("failed", i) \in Frames
    BY <1>2 DEF SlotsTyped
  <2>2. Frames' = Frames
    BY DEF Answer, MirrorsFinished, Frames, Slots
  <2>3. CASE Answer(i)
    BY <2>1, <2>2, <2>3, Short DEF Answer
  <2>4. CASE MirrorsFinished(i)
    <3>1. [k \in 1..Injected |-> Call("addNetAction", None)] \in Seq(Frames)
      BY <1>1, Repeated, NetJobAssumption
    <3>2. stack' = InjectDownloads("addNetAction", i)
      BY <2>4 DEF MirrorsFinished, NoPartTwice
    <3> QED
      BY <2>1, <2>2, <3>1, <3>2 DEF InjectDownloads
  <2> QED
    BY <2>3, <2>4
<1>12. CASE ExecuteTask \/ UNCHANGED vars
  BY <1>12 DEF ExecuteTask, vars, Frames, Slots
<1> QED
  BY <1>4, <1>5, <1>6, <1>7, <1>8, <1>9, <1>10, <1>11, <1>12, NeverAgain
    DEF Next, Handler

\* The initial state is typed.
LEMMA InitTyped == Init => TypeOK
<1> SUFFICES ASSUME Init PROVE TypeOK
  OBVIOUS
<1>1. SlotsTyped
  BY NetJobAssumption DEF Init, SlotsTyped, Slots
<1>2. StatusTyped
  <2>1. outcomes \in Seq({"succeeded", "failed"})
    BY DEF Init
  <2> QED
    BY <2>1, Zenon DEF Init, StatusTyped
<1>3. StackTyped
  BY DEF Init, StackTyped
<1> QED
  BY <1>1, <1>2, <1>3 DEF TypeOK

\* No step gives a slot the part of another or plans to.
LEMMA PlainStep ==
  ASSUME NoPartTwice, TypeOK, Plain, [Next]_vars
  PROVE  Plain'
<1> USE DEF TypeOK, StackTyped
<1>1. object' = [i \in Slots' |-> i]
  <2>1. CASE AddNetAction
    <3>1. Slots' = 0..size /\ Slots' = Slots \cup {size}
      BY <2>1, SlotAdded
    <3>2. \A i \in 0..size : i # size => object[i] = i
      BY <3>1 DEF Plain
    <3> QED
      BY <2>1, <3>1, <3>2 DEF AddNetAction
  <2>2. CASE ~ AddNetAction
    BY <2>2, SlotsStay, NeverAgain DEF Plain
  <2> QED
    BY <2>1, <2>2
<1>2. NoAgain(stack) /\ stack \in Seq(Frames)
  BY DEF Plain
<1>3. ASSUME stack # <<>> PROVE NoAgain(Tail(stack)) /\ Tail(stack) \in Seq(Frames)
  <2>1. \A k \in 1..Len(Tail(stack)) : Tail(stack)[k] = stack[k + 1] /\ k + 1 \in 1..Len(stack)
    BY <1>2, <1>3
  <2> QED
    BY <1>2, <1>3, <2>1, Popped DEF NoAgain
<1>4. ASSUME NEW f, f # "addAgain", NEW i, NEW s \in Seq(Frames), NoAgain(s)
      PROVE  NoAgain(<<Call(f, i)>> \o s)
  <2> DEFINE F == Frames \cup {Call(f, i)}
             t == <<Call(f, i)>> \o s
  <2>1. s \in Seq(F) /\ Call(f, i) \in F
    <3>1. \E n \in Nat : s \in [1..n -> Frames]
      BY SeqDef
    <3> QED
      BY <3>1, SeqDef
  <2>2. Call(f, i).call = f
    BY DEF Call
  <2>3. /\ Len(t) = Len(s) + 1 /\ Len(s) \in Nat
        /\ \A k \in 1..Len(s) + 1 : t[k] = IF k = 1 THEN Call(f, i) ELSE s[k - 1]
    <3> HIDE DEF F
    <3>1. \A c \in F : /\ Len(<<c>> \o s) = Len(s) + 1 /\ Len(s) \in Nat
                       /\ \A k \in 1..Len(s) + 1 : (<<c>> \o s)[k] = IF k = 1 THEN c ELSE s[k - 1]
      BY <2>1
    <3> QED
      BY <2>1, <3>1
  <2>4. \A k \in 1..Len(s) + 1 : k = 1 \/ k - 1 \in 1..Len(s)
    BY <2>3
  <2> HIDE DEF t
  <2>5. NoAgain(t)
    BY <1>4, <2>2, <2>3, <2>4 DEF NoAgain
  <2> QED
    BY <2>5 DEF t
<1>5. CASE ExecuteTask \/ UNCHANGED vars
  BY <1>1, <1>2, <1>5 DEF ExecuteTask, vars, Plain
<1>6. CASE DeliverPosted
  BY <1>1, <1>6 DEF DeliverPosted, Plain, NoAgain, Call
<1>7. CASE Finish \/ NothingToStart \/ LeaveLoop \/ Lost("succeeded") \/ Lost("failed")
  <2>1. stack # <<>> /\ stack' = Tail(stack)
    BY <1>7 DEF Finish, NothingToStart, LeaveLoop, Lost, Top
  <2> QED
    BY <1>1, <1>3, <2>1 DEF Plain
<1>8. CASE EnterLoop \/ PartSucceeded \/ PartFailed \/ StartPart \/ AddNetAction
  <2>1. stack # <<>>
    BY <1>8 DEF EnterLoop, PartSucceeded, PartFailed, StartPart, AddNetAction, Top
  <2>2. \/ stack' = Tail(stack)
        \/ \E f \in {"loop", "startMoreParts", "start", "succeeded", "failed"} :
             \E i : stack' = <<Call(f, i)>> \o Tail(stack)
    BY <1>8 DEF EnterLoop, PartSucceeded, PartFailed, Retire, StartPart, AddNetAction
  <2> QED
    BY <1>1, <1>3, <1>4, <2>1, <2>2 DEF Plain
<1>9. CASE Dequeue
  <2>1. stack' = <<Call("start", Head(m_todo))>> \o stack
    BY <1>9, DequeueIs DEF SlotsTyped
  <2> QED
    BY <1>1, <1>2, <1>4, <2>1 DEF Plain
<1>10. CASE Network
  <2> SUFFICES ASSUME NEW i \in inFlight, Answer(i) \/ MirrorsFinished(i)
               PROVE  NoAgain(stack')
    BY <1>1, <1>10 DEF Network, Plain
  <2>1. CASE Answer(i)
    BY <2>1 DEF Answer, NoAgain, Call
  <2>2. CASE MirrorsFinished(i)
    <3>1. stack' = InjectDownloads("addNetAction", i)
      BY <2>2 DEF MirrorsFinished, NoPartTwice
    <3> QED
      BY <3>1, NetJobAssumption DEF InjectDownloads, NoAgain, Call
  <2> QED
    BY <2>1, <2>2
<1> QED
  BY <1>5, <1>6, <1>7, <1>8, <1>9, <1>10, NeverAgain DEF Next, Handler

\* The initial parts are all different.
LEMMA InitPlain == Init => Plain
  BY DEF Init, Plain, NoAgain, Slots

\* Every index the job handles is the index of one of its parts, and no part
\* fails more often than the limit, when no part is added to the job twice.
THEOREM TypeCorrect == NoPartTwice => (Spec => []TypeOK)
<1> SUFFICES ASSUME NoPartTwice PROVE Spec => []TypeOK
  OBVIOUS
<1>1. Init => TypeOK /\ Plain
  BY InitTyped, InitPlain
<1>2. TypeOK /\ Plain /\ [Next]_vars => TypeOK' /\ Plain'
  BY SlotsTypedStep, StatusTypedStep, StackTypedStep, PlainStep DEF TypeOK
<1> QED
  BY <1>1, <1>2, PTL DEF Spec

-----------------------------------------------------------------------------
(* The inductive invariant.  SlotsPartitioned is inductive once a job that *)
(* was not started is known to be empty; counting starts needs to know     *)
(* where a call of start() may be in the stack.                            *)

\* Nothing happens to the job before start().
Pristine ==
  jobRunning \/ /\ stack = <<>> /\ ~ posted /\ inFlight = {} /\ connected = {}
                /\ m_todo = <<>> /\ m_doing = {} /\ m_done = {} /\ m_failed = {}
                /\ \A i \in Slots : starts[i] = 0 /\ failures[i] = 0

NoStart(s) == \A k \in 1..Len(s) : s[k].call # "start"

\* A call of start() is the innermost one: it is the next to be carried out.
OnlyTopStarts == stack # <<>> => NoStart(Tail(stack))

\* The part whose start() was called and is not carried out.
Pending == IF Top("start") THEN {Part} ELSE {}

\* The parts that were started once more than they have failed.
Ran == (m_done \cup m_failed \cup connected) \ Pending

StartsCounted ==
  /\ Pending \subseteq connected
  /\ \A i \in Slots :
       /\ i \in Ran => starts[i] = failures[i] + 1
       /\ i \notin Ran => starts[i] = failures[i]
       /\ i \in m_failed => failures[i] = MaxFailures

IInv == TypeOK /\ Plain /\ Pristine /\ SlotsPartitioned /\ OnlyTopStarts /\ StartsCounted

LEMMA PushedTop ==
  ASSUME NEW S, NEW f, NEW s \in Seq(S)
  PROVE  <<f>> \o s # <<>> /\ Head(<<f>> \o s) = f /\ Tail(<<f>> \o s) = s
<1>1. \E n \in Nat : s \in [1..n -> S]
  BY SeqDef
<1>2. s \in Seq(S \cup {f}) /\ f \in S \cup {f}
  BY <1>1, SeqDef
<1> QED
  BY <1>2

LEMMA NoStartBelow ==
  ASSUME NEW S, NEW s \in Seq(S), NoStart(s), s # <<>>
  PROVE  Head(s).call # "start" /\ NoStart(Tail(s))
<1>1. Head(s) = s[1] /\ Len(s) \in Nat /\ Len(s) > 0
  OBVIOUS
<1>2. \A k \in 1..Len(Tail(s)) : Tail(s)[k] = s[k + 1] /\ k + 1 \in 1..Len(s)
  OBVIOUS
<1> QED
  BY <1>1, <1>2 DEF NoStart

\* Where a step leaves start() in the stack.
LEMMA PendingStep ==
  ASSUME NoPartTwice, TypeOK, Plain, OnlyTopStarts, Next
  PROVE  /\ OnlyTopStarts'
         /\ Dequeue => Pending' = {Head(m_todo)}
         /\ AddNetAction => Pending' = IF jobRunning THEN {size} ELSE {}
         /\ ~ Dequeue /\ ~ AddNetAction /\ ~ ExecuteTask => Pending' = {}
<1> USE DEF TypeOK, StackTyped
<1>1. ASSUME stack # <<>>, stack' = Tail(stack)
      PROVE  OnlyTopStarts' /\ Pending' = {}
  <2>1. NoStart(Tail(stack)) /\ Tail(stack) \in Seq(Frames)
    BY <1>1, Popped DEF OnlyTopStarts
  <2> QED
    BY <1>1, <2>1, NoStartBelow DEF OnlyTopStarts, Pending, Top
<1>2. ASSUME stack # <<>>, NEW f, NEW i, stack' = <<Call(f, i)>> \o Tail(stack)
      PROVE  /\ OnlyTopStarts'
             /\ Pending' = IF f = "start" THEN {i} ELSE {}
  <2>1. NoStart(Tail(stack)) /\ Tail(stack) \in Seq(Frames)
    BY <1>2, Popped DEF OnlyTopStarts
  <2>2. stack' # <<>> /\ Head(stack') = Call(f, i) /\ Tail(stack') = Tail(stack)
    BY <1>2, <2>1, PushedTop
  <2>3. OnlyTopStarts'
    BY <2>1, <2>2 DEF OnlyTopStarts
  <2>4. Head(stack').call = f /\ Head(stack').part = i
    BY <2>2 DEF Call
  <2> QED
    BY <2>2, <2>3, <2>4 DEF Pending, Top, Part
<1>3. CASE Finish \/ NothingToStart \/ LeaveLoop \/ Lost("succeeded") \/ Lost("failed")
  BY <1>1, <1>3 DEF Finish, NothingToStart, LeaveLoop, Lost, Top, Dequeue, AddNetAction
<1>4. CASE EnterLoop \/ PartSucceeded \/ PartFailed
  <2>1. stack # <<>> /\ \E f \in {"loop", "startMoreParts"} :
                            stack' = <<Call(f, None)>> \o Tail(stack)
    BY <1>4 DEF EnterLoop, PartSucceeded, PartFailed, Retire, Top
  <2>2. OnlyTopStarts' /\ Pending' = {}
    <3>1. PICK f \in {"loop", "startMoreParts"} : stack' = <<Call(f, None)>> \o Tail(stack)
      BY <2>1
    <3> QED
      BY <1>2, <2>1, <3>1
  <2>3. ~ Dequeue /\ ~ AddNetAction
    BY <1>4 DEF EnterLoop, PartSucceeded, PartFailed, Dequeue, AddNetAction, Top
  <2> QED
    BY <2>2, <2>3
<1>5. CASE StartPart
  <2>1. stack # <<>> /\ ~ Dequeue /\ ~ AddNetAction
    BY <1>5 DEF StartPart, Top, Dequeue, AddNetAction
  <2>2. CASE stack' = Tail(stack)
    BY <1>1, <2>1, <2>2
  <2>3. CASE \E f \in {"succeeded", "failed"} : stack' = <<Call(f, Part)>> \o Tail(stack)
    <3>1. PICK f \in {"succeeded", "failed"} : stack' = <<Call(f, Part)>> \o Tail(stack)
      BY <2>3
    <3> QED
      BY <1>2, <2>1, <3>1
  <2> QED
    BY <1>5, <2>2, <2>3 DEF StartPart
<1>6. CASE AddNetAction
  <2>1. stack # <<>> /\ ~ Dequeue
    BY <1>6 DEF AddNetAction, Top, Dequeue
  <2>2. CASE jobRunning
    <3>1. stack' = <<Call("start", size)>> \o Tail(stack)
      BY <1>6, <2>2 DEF AddNetAction
    <3>2. OnlyTopStarts' /\ Pending' = {size}
      BY <1>2, <2>1, <3>1
    <3> QED
      BY <1>6, <2>1, <2>2, <3>2
  <2>3. CASE ~ jobRunning
    <3>1. stack' = Tail(stack)
      BY <1>6, <2>3 DEF AddNetAction
    <3> QED
      BY <1>1, <1>6, <2>1, <2>3, <3>1
  <2> QED
    BY <2>2, <2>3
<1>7. CASE Dequeue
  <2>1. /\ stack' = <<Call("start", Head(m_todo))>> \o stack
        /\ Call("start", Head(m_todo)) \in Frames
    BY <1>7, DequeueIs DEF SlotsTyped, Call, Frames
  <2>2. /\ stack # <<>> /\ stack' # <<>>
        /\ Head(stack') = Call("start", Head(m_todo)) /\ Tail(stack') = stack
    BY <1>7, <2>1, PushedTop DEF Dequeue, Top
  <2>3. NoStart(stack)
    <3>1. Head(stack).call # "start" /\ NoStart(Tail(stack))
      BY <1>7, <2>2 DEF Dequeue, Top, OnlyTopStarts
    <3>2. /\ Len(Tail(stack)) = Len(stack) - 1
          /\ \A k \in 1..Len(Tail(stack)) : Tail(stack)[k] = stack[k + 1]
      BY <2>2
    <3>3. Head(stack) = stack[1] /\ Len(stack) \in Nat
      BY <2>2
    <3> QED
      <4> SUFFICES ASSUME NEW k \in 1..Len(stack) PROVE stack[k].call # "start"
        BY DEF NoStart
      <4>1. CASE k = 1
        BY <3>1, <3>3, <4>1
      <4>2. CASE k # 1
        <5>1. k - 1 \in 1..Len(Tail(stack)) /\ stack[(k - 1) + 1] = stack[k]
          BY <3>2, <3>3, <4>2
        <5> QED
          BY <3>1, <3>2, <5>1 DEF NoStart
      <4> QED
        BY <4>1, <4>2
  <2> QED
    <3>1. Head(stack').call = "start" /\ Head(stack').part = Head(m_todo)
      BY <2>2 DEF Call
    <3>2. OnlyTopStarts' /\ Pending' = {Head(m_todo)}
      BY <2>2, <2>3, <3>1 DEF OnlyTopStarts, Pending, Top, Part
    <3>3. ~ AddNetAction
      BY <1>7 DEF Dequeue, AddNetAction, Top
    <3> QED
      BY <1>7, <3>2, <3>3
<1>8. CASE DeliverPosted
  <2>1. stack' = <<Call("startMoreParts", None)>> /\ Tail(stack') = <<>>
    BY <1>8 DEF DeliverPosted
  <2> QED
    BY <1>8, <2>1 DEF OnlyTopStarts, NoStart, Pending, Top, Call, DeliverPosted, Dequeue,
                      AddNetAction
<1>9. CASE Network
  <2> SUFFICES ASSUME NEW i \in inFlight, Answer(i) \/ MirrorsFinished(i)
               PROVE  OnlyTopStarts' /\ Pending' = {}
    BY <1>9 DEF Network, Answer, MirrorsFinished, Dequeue, AddNetAction, Top
  <2>1. NoStart(stack')
    <3>1. CASE Answer(i)
      BY <3>1 DEF Answer, NoStart, Call
    <3>2. CASE MirrorsFinished(i)
      <4>1. stack' = InjectDownloads("addNetAction", i)
        BY <3>2 DEF MirrorsFinished, NoPartTwice
      <4> QED
        BY <4>1, NetJobAssumption DEF InjectDownloads, NoStart, Call
    <3> QED
      BY <3>1, <3>2
  <2>2. stack' \in Seq(Frames')
    BY StackTypedStep
  <2> QED
    BY <2>1, <2>2, NoStartBelow DEF OnlyTopStarts, Pending, Top
<1>10. CASE ExecuteTask
  <2>1. ~ Dequeue /\ ~ AddNetAction /\ stack' = stack
    BY <1>10 DEF ExecuteTask, Dequeue, AddNetAction, status
  <2> QED
    BY <1>10, <2>1 DEF OnlyTopStarts
<1> QED
  BY <1>3, <1>4, <1>5, <1>6, <1>7, <1>8, <1>9, <1>10, NeverAgain DEF Next, Handler

\* A step of a job that was not started leaves it empty or starts it.
LEMMA PristineStep ==
  ASSUME TypeOK, Plain, Pristine, [Next]_vars
  PROVE  Pristine' /\ (jobRunning => jobRunning')
<1>1. CASE jobRunning
  BY <1>1, NeverAgain DEF TypeOK, Pristine, Next, Handler, Network, ExecuteTask, DeliverPosted, Finish,
     NothingToStart, EnterLoop, Dequeue, LeaveLoop, Lost, PartSucceeded, PartFailed,
     AddNetAction, StartPart, Answer, MirrorsFinished, vars, status
<1>2. CASE ~ jobRunning
  <2>1. stack = <<>> /\ ~ posted /\ inFlight = {}
    BY <1>2 DEF Pristine
  <2>2. ~ Handler /\ ~ DeliverPosted /\ ~ Network
    BY <2>1, NeverAgain DEF TypeOK, Handler, Network, DeliverPosted, Finish, NothingToStart, EnterLoop, Dequeue,
       LeaveLoop, Lost, PartSucceeded, PartFailed, AddNetAction, StartPart, Top
  <2>3. CASE ExecuteTask
    BY <2>3, <1>2 DEF ExecuteTask, Pristine
  <2>4. CASE UNCHANGED vars
    BY <2>4, <1>2 DEF vars, Pristine, Slots, queues, wires, status
  <2> QED
    BY <2>2, <2>3, <2>4 DEF Next
<1> QED
  BY <1>1, <1>2

\* No step loses a part, puts it in two places or queues it twice.
LEMMA PartitionStep ==
  ASSUME TypeOK, Plain, Pristine, SlotsPartitioned, [Next]_vars
  PROVE  SlotsPartitioned'
<1> USE DEF SlotsPartitioned, ToDo
<1>1. CASE ExecuteTask
  <2>1. m_todo' = [k \in 1..size |-> k - 1] /\ size \in Nat /\ Slots' = Slots
    BY <1>1 DEF ExecuteTask, TypeOK, SlotsTyped, Slots
  <2>2. Len(m_todo') = size /\ \A k \in 1..size : m_todo'[k] = k - 1
    BY <2>1
  <2>3. Distinct(m_todo')
    BY <2>1, <2>2 DEF Distinct
  <2>4. Elements(m_todo') = Slots
    <3>1. \A i \in Slots : i + 1 \in 1..size /\ m_todo'[i + 1] = i
      BY <2>1, <2>2 DEF Slots
    <3>2. \A k \in 1..size : m_todo'[k] \in Slots
      BY <2>1, <2>2 DEF Slots
    <3> QED
      BY <2>2, <3>1, <3>2 DEF Elements
  <2>5. connected' = {} /\ m_doing' = {} /\ m_done' = {} /\ m_failed' = {}
    BY <1>1 DEF ExecuteTask, Pristine, wires
  <2> QED
    BY <2>1, <2>3, <2>4, <2>5
<1>2. CASE Dequeue
  <2> DEFINE h == Head(m_todo)
  <2>1. m_todo # <<>> /\ m_todo \in Seq(Slots) /\ Slots' = Slots /\ jobRunning' = jobRunning
    BY <1>2 DEF Dequeue, CanDequeue, TypeOK, SlotsTyped, Slots, status
  <2>2. /\ m_todo' = Tail(m_todo) /\ connected' = connected \cup {h}
        /\ m_doing' = m_doing \cup {h} /\ m_done' = m_done /\ m_failed' = m_failed
    BY <1>2, DequeueIs DEF Dequeue, TypeOK, SlotsTyped
  <2>3. jobRunning => /\ h \in Elements(m_todo)
                      /\ Elements(Tail(m_todo)) = Elements(m_todo) \ {h}
                      /\ Distinct(Tail(m_todo))
    BY <2>1, Dequeued
  <2> HIDE DEF h
  <2> QED
    BY <2>1, <2>2, <2>3
<1>3. CASE PartSucceeded
  <2>1. /\ Part \in connected /\ connected' = connected \ {Part} /\ m_done' = m_done \cup {Part}
        /\ m_doing' = m_doing \ {Part} /\ m_todo' = m_todo /\ m_failed' = m_failed
        /\ Slots' = Slots /\ jobRunning' = jobRunning
    <3>1. Part \in connected /\ Part \in Slots
      BY <1>3 DEF PartSucceeded, TypeOK, SlotsTyped
    <3> QED
      BY <1>3, <3>1, SucceededIs, RetireIs DEF Slots, status
  <2> QED
    BY <2>1
<1>4. CASE PartFailed
  <2>1. /\ Part \in connected /\ connected' = connected \ {Part} /\ m_done' = m_done
        /\ m_doing' = m_doing \ {Part} /\ Slots' = Slots /\ jobRunning' = jobRunning
        /\ Part \in Slots
    <3>1. Part \in connected /\ Part \in Slots
      BY <1>4 DEF PartFailed, TypeOK, SlotsTyped
    <3> QED
      BY <1>4, <3>1, FailedIs, RetireIs DEF Slots, status
  <2>2. CASE OutOfRetries
    <3>1. m_failed' = m_failed \cup {Part} /\ m_todo' = m_todo
      BY <1>4, <2>1, <2>2, FailedIs
    <3> QED
      BY <2>1, <3>1
  <2>3. CASE ~ OutOfRetries
    <3>1. m_failed' = m_failed /\ m_todo' = Append(m_todo, Part)
      BY <1>4, <2>1, <2>3, FailedIs
    <3>2. Part \in Slots /\ m_todo \in Seq(Slots)
      BY <2>1 DEF TypeOK, SlotsTyped
    <3>3. jobRunning => /\ Elements(Append(m_todo, Part)) = Elements(m_todo) \cup {Part}
                        /\ Distinct(Append(m_todo, Part))
      BY <2>1, <3>2, Enqueued
    <3> QED
      BY <2>1, <3>1, <3>3
  <2> QED
    BY <2>2, <2>3
<1>5. CASE AddNetAction
  <2>1. Slots' = Slots \cup {size} /\ size \notin Slots
    BY <1>5, SlotAdded DEF TypeOK
  <2>2. /\ jobRunning => connected' = connected \cup {size}
        /\ jobRunning' = jobRunning /\ m_todo' = m_todo
        /\ m_doing' = m_doing /\ m_done' = m_done /\ m_failed' = m_failed
    BY <1>5 DEF AddNetAction, ConnectSignals, status
  <2>3. Elements(m_todo) \subseteq Slots /\ connected \subseteq Slots /\ m_done \subseteq Slots
          /\ m_failed \subseteq Slots
    BY DEF TypeOK, SlotsTyped, Elements
  <2> QED
    BY <2>1, <2>2, <2>3
<1>6. CASE DeliverPosted \/ Finish \/ NothingToStart \/ EnterLoop \/ LeaveLoop
           \/ Lost("succeeded") \/ Lost("failed") \/ StartPart \/ Network \/ UNCHANGED vars
  <2>1. /\ size' = size /\ m_todo' = m_todo /\ connected' = connected /\ m_doing' = m_doing
        /\ m_done' = m_done /\ m_failed' = m_failed /\ jobRunning' = jobRunning
    BY <1>6 DEF DeliverPosted, Finish, EmitSucceeded, EmitFailed, NothingToStart, EnterLoop,
       LeaveLoop, Lost, StartPart, Network, Answer, MirrorsFinished, vars, queues, wires, status
  <2> QED
    BY <2>1 DEF Slots
<1> QED
  BY <1>1, <1>2, <1>3, <1>4, <1>5, <1>6, NeverAgain DEF Next, Handler, TypeOK

\* Each failure that is counted belongs to a start of its own.
LEMMA CountingStep ==
  ASSUME NoPartTwice, IInv, [Next]_vars
  PROVE  StartsCounted'
<1> USE DEF IInv
<1>1. CASE ExecuteTask
  <2>1. /\ connected' = {} /\ m_done' = {} /\ m_failed' = {} /\ Slots' = Slots
        /\ starts' = starts /\ failures' = failures /\ stack' = <<>>
        /\ \A i \in Slots : starts[i] = 0 /\ failures[i] = 0
    BY <1>1 DEF ExecuteTask, Pristine, wires, Slots
  <2> QED
    BY <2>1 DEF StartsCounted, Ran, Pending, Top
<1>2. CASE Dequeue
  <2> DEFINE h == Head(m_todo)
  <2>1. Pending' = {h} /\ Pending = {}
    BY <1>2, PendingStep DEF Dequeue, Pending, Top, Next, Handler
  <2>2. /\ connected' = connected \cup {h} /\ m_done' = m_done /\ m_failed' = m_failed
        /\ starts' = starts /\ failures' = failures /\ Slots' = Slots
    BY <1>2, DequeueIs DEF Dequeue, Slots, TypeOK, SlotsTyped
  <2>3. h \notin connected /\ h \notin m_done /\ h \notin m_failed
    <3>1. m_todo # <<>> /\ m_todo \in Seq(Slots) /\ jobRunning
      BY <1>2 DEF Dequeue, CanDequeue, TypeOK, SlotsTyped, Pristine
    <3>2. h \in Elements(m_todo)
      BY <3>1, Dequeued DEF SlotsPartitioned
    <3> QED
      BY <3>1, <3>2 DEF SlotsPartitioned, ToDo
  <2> HIDE DEF h
  <2>4. Ran' = Ran
    BY <2>1, <2>2, <2>3 DEF Ran
  <2> QED
    BY <2>1, <2>2, <2>4 DEF StartsCounted
<1>3. CASE PartSucceeded
  <2>1. Pending' = {} /\ Pending = {}
    BY <1>3, PendingStep DEF PartSucceeded, Dequeue, AddNetAction, ExecuteTask, Pending, Top,
       Next, Handler, Pristine
  <2>2. /\ Part \in connected /\ connected' = connected \ {Part} /\ m_done' = m_done \cup {Part}
        /\ m_failed' = m_failed /\ starts' = starts /\ failures' = failures /\ Slots' = Slots
    <3>1. Part \in connected /\ Part \in Slots
      BY <1>3 DEF PartSucceeded, TypeOK, SlotsTyped
    <3> QED
      BY <1>3, <3>1, SucceededIs, RetireIs DEF Slots
  <2> HIDE DEF Part
  <2>3. Ran' = Ran
    BY <2>1, <2>2 DEF Ran
  <2> QED
    BY <2>1, <2>2, <2>3 DEF StartsCounted
<1>4. CASE PartFailed
  <2>1. Pending' = {} /\ Pending = {}
    BY <1>4, PendingStep DEF PartFailed, Dequeue, AddNetAction, ExecuteTask, Pending, Top,
       Next, Handler, Pristine
  <2>2. /\ Part \in connected /\ connected' = connected \ {Part} /\ m_done' = m_done
        /\ starts' = starts /\ Slots' = Slots /\ Part \in Slots
    <3>1. Part \in connected /\ Part \in Slots
      BY <1>4 DEF PartFailed, TypeOK, SlotsTyped
    <3> QED
      BY <1>4, <3>1, FailedIs, RetireIs DEF Slots
  <2>3. CASE OutOfRetries
    <3>1. m_failed' = m_failed \cup {Part} /\ failures' = failures /\ failures[Part] = MaxFailures
      BY <1>4, <2>2, <2>3, FailedIs
    <3>2. Ran' = Ran
      BY <2>1, <2>2, <3>1 DEF Ran
    <3> QED
      BY <2>1, <2>2, <3>1, <3>2 DEF StartsCounted
  <2>4. CASE ~ OutOfRetries
    <3>1. m_failed' = m_failed /\ failures' = [failures EXCEPT ![Part] = @ + 1]
      BY <1>4, <2>2, <2>4, FailedIs
    <3>2. Part \notin m_done /\ Part \notin m_failed
      <4>1. jobRunning
        BY <1>4 DEF PartFailed, Pristine, Top
      <4> QED
        BY <2>2, <4>1 DEF SlotsPartitioned
    <3>3. Ran' = Ran \ {Part} /\ Part \in Ran
      BY <2>1, <2>2, <3>1, <3>2 DEF Ran
    <3>4. \A i \in Slots : failures'[i] = IF i = Part THEN failures[i] + 1 ELSE failures[i]
      BY <3>1, <2>2 DEF TypeOK, SlotsTyped
    <3> HIDE DEF Part
    <3> QED
      BY <2>1, <2>2, <3>1, <3>2, <3>3, <3>4 DEF StartsCounted
  <2> QED
    BY <2>3, <2>4
<1>5. CASE AddNetAction
  <2>1. jobRunning /\ Pending' = {size} /\ Pending = {}
    BY <1>5, PendingStep DEF AddNetAction, Pristine, Pending, Top, Next, Handler
  <2>2. /\ connected' = connected \cup {size} /\ m_done' = m_done /\ m_failed' = m_failed
        /\ failures' = [i \in 0..size |-> IF i = size THEN 0 ELSE failures[i]]
        /\ starts' = [i \in 0..size |-> IF i = size THEN 0 ELSE starts[i]]
    BY <1>5, <2>1 DEF AddNetAction, ConnectSignals
  <2>3. Slots' = Slots \cup {size} /\ Slots' = 0..size /\ size \notin Slots
    BY <1>5, SlotAdded DEF TypeOK
  <2>4. size \notin connected /\ size \notin m_done /\ size \notin m_failed
    BY <2>3 DEF TypeOK, SlotsTyped
  <2>5. Ran' = Ran
    BY <2>1, <2>2, <2>4 DEF Ran
  <2>6. size \notin Ran
    BY <2>4 DEF Ran
  <2> QED
    BY <2>1, <2>2, <2>3, <2>4, <2>5, <2>6 DEF StartsCounted
<1>6. CASE StartPart
  <2>1. Pending = {Part} /\ Pending' = {}
    BY <1>6, PendingStep DEF StartPart, Dequeue, AddNetAction, ExecuteTask, Pending, Top,
       Next, Handler, Pristine
  <2>2. /\ connected' = connected /\ m_done' = m_done /\ m_failed' = m_failed
        /\ failures' = failures /\ Slots' = Slots
        /\ starts' = [starts EXCEPT ![Part] = @ + 1]
    BY <1>6 DEF StartPart, Slots, queues
  <2>3. Part \in connected /\ Part \in Slots
    BY <2>1 DEF StartsCounted, TypeOK, SlotsTyped
  <2>4. Part \notin Ran /\ Ran' = Ran \cup {Part}
    BY <2>1, <2>2, <2>3 DEF Ran
  <2>5. \A i \in Slots : starts'[i] = IF i = Part THEN starts[i] + 1 ELSE starts[i]
    BY <2>2, <2>3 DEF TypeOK, SlotsTyped
  <2> HIDE DEF Part
  <2> QED
    BY <2>1, <2>2, <2>3, <2>4, <2>5 DEF StartsCounted
<1>7. CASE DeliverPosted \/ Finish \/ NothingToStart \/ EnterLoop \/ LeaveLoop
           \/ Lost("succeeded") \/ Lost("failed") \/ Network
  <2>1. Pending = {}
    BY <1>7 DEF DeliverPosted, Finish, NothingToStart, EnterLoop, LeaveLoop, Lost, Network,
       Answer, MirrorsFinished, Pending, Top
  <2>2. jobRunning /\ ~ Dequeue /\ ~ AddNetAction /\ ~ ExecuteTask
    BY <1>7 DEF DeliverPosted, Finish, NothingToStart, EnterLoop, LeaveLoop, Lost, Network,
       Answer, MirrorsFinished, Pristine, Top, Dequeue, AddNetAction, ExecuteTask
  <2>3. Pending' = {}
    BY <1>7, <2>2, PendingStep DEF Next, Handler
  <2>4. /\ connected' = connected /\ m_done' = m_done /\ m_failed' = m_failed
        /\ failures' = failures /\ starts' = starts /\ Slots' = Slots
    BY <1>7 DEF DeliverPosted, Finish, NothingToStart, EnterLoop, LeaveLoop, Lost, Network,
       Answer, MirrorsFinished, queues, wires, Slots
  <2>5. Ran' = Ran
    BY <2>1, <2>3, <2>4 DEF Ran
  <2> QED
    BY <2>3, <2>4, <2>5 DEF StartsCounted
<1>8. CASE UNCHANGED vars
  BY <1>8 DEF vars, queues, wires, StartsCounted, Ran, Pending, Top, Part, Slots
<1> QED
  BY <1>1, <1>2, <1>3, <1>4, <1>5, <1>6, <1>7, <1>8, NeverAgain DEF Next, Handler, TypeOK

-----------------------------------------------------------------------------
(* Theorems *)

\* The inductive invariant holds in every reachable state.
THEOREM Inductive == NoPartTwice => (Spec => []IInv)
<1> SUFFICES ASSUME NoPartTwice PROVE Spec => []IInv
  OBVIOUS
<1>1. Init => IInv
  <2> SUFFICES ASSUME Init PROVE IInv
    OBVIOUS
  <2>1. TypeOK /\ Plain
    BY InitTyped, InitPlain
  <2>2. Pristine /\ SlotsPartitioned /\ OnlyTopStarts /\ StartsCounted
    BY NetJobAssumption DEF Init, Pristine, SlotsPartitioned, OnlyTopStarts, StartsCounted,
       Ran, Pending, Top, Slots
  <2> QED
    BY <2>1, <2>2 DEF IInv
<1>2. IInv /\ [Next]_vars => IInv'
  <2> SUFFICES ASSUME IInv, [Next]_vars PROVE IInv'
    OBVIOUS
  <2>1. TypeOK' /\ Plain'
    BY SlotsTypedStep, StatusTypedStep, StackTypedStep, PlainStep DEF IInv, TypeOK
  <2>2. Pristine' /\ SlotsPartitioned'
    BY PristineStep, PartitionStep DEF IInv
  <2>3. OnlyTopStarts'
    <3>1. CASE Next
      BY <3>1, PendingStep DEF IInv
    <3>2. CASE UNCHANGED vars
      BY <3>2 DEF vars, IInv, OnlyTopStarts
    <3> QED
      BY <3>1, <3>2
  <2>4. StartsCounted'
    BY CountingStep
  <2> QED
    BY <2>1, <2>2, <2>3, <2>4 DEF IInv
<1> QED
  BY <1>1, <1>2, PTL DEF Spec

\* However the replies, the synchronous reports and the doubled failure
\* signals interleave, every slot of a running job is in one place.
THEOREM PartitionCorrect == NoPartTwice => (Spec => []SlotsPartitioned)
<1> SUFFICES ASSUME NoPartTwice PROVE Spec => []SlotsPartitioned
  OBVIOUS
<1>1. IInv => SlotsPartitioned
  BY DEF IInv
<1> QED
  BY <1>1, Inductive, PTL

\* partFailed gives a part up after exactly MaxFailures + 1 starts and never
\* starts it again.
THEOREM RetriesCorrect == NoPartTwice => (Spec => []RetriesBounded)
<1> SUFFICES ASSUME NoPartTwice PROVE Spec => []RetriesBounded
  OBVIOUS
<1>1. IInv => RetriesBounded
  <2> SUFFICES ASSUME IInv, NEW i \in Slots
               PROVE  /\ starts[i] <= MaxFailures + 1
                      /\ i \in m_failed => starts[i] = MaxFailures + 1
    BY DEF RetriesBounded
  <2>1. failures[i] \in 0..MaxFailures
    BY DEF IInv, TypeOK, SlotsTyped
  <2>2. starts[i] <= failures[i] + 1
    BY <2>1, NetJobAssumption DEF IInv, StartsCounted
  <2>3. i \in m_failed => i \in Ran
    <3> SUFFICES ASSUME i \in m_failed PROVE i \notin Pending
      BY DEF Ran
    <3>1. jobRunning
      BY DEF IInv, Pristine
    <3> QED
      BY <3>1 DEF IInv, StartsCounted, SlotsPartitioned
  <2> QED
    BY <2>1, <2>2, <2>3, NetJobAssumption DEF IInv, StartsCounted
<1> QED
  BY <1>1, Inductive, PTL

\* The loop of startMoreParts never has more than MaxParallel parts running.
THEOREM ParallelCorrect == NoPartTwice => (Spec => []ParallelLimit)
<1> SUFFICES ASSUME NoPartTwice PROVE Spec => []ParallelLimit
  OBVIOUS
<1>1. Init => ParallelLimit
  BY NetJobAssumption, FS_EmptySet DEF Init, ParallelLimit
<1>2. IInv /\ ParallelLimit /\ [Next]_vars => ParallelLimit'
  <2> SUFFICES ASSUME IInv, ParallelLimit, [Next]_vars PROVE ParallelLimit'
    OBVIOUS
  <2>1. IsFiniteSet(m_doing) /\ Cardinality(m_doing) \in Nat
    <3>1. IsFiniteSet(Slots)
      BY FS_Interval DEF IInv, TypeOK, SlotsTyped, Slots
    <3> QED
      BY <3>1, FS_Subset, FS_CardinalityType DEF IInv, TypeOK, SlotsTyped
  <2>2. CASE Dequeue
    <3>1. m_doing' = m_doing \cup {Head(m_todo)} /\ Cardinality(m_doing) < MaxParallel
      BY <2>2 DEF Dequeue, CanDequeue
    <3>2. Cardinality(m_doing \cup {Head(m_todo)}) <= Cardinality(m_doing) + 1
      BY <2>1, FS_AddElement
    <3>3. Cardinality(m_doing \cup {Head(m_todo)}) \in Nat
      BY <2>1, FS_AddElement, FS_CardinalityType
    <3> QED
      BY <2>1, <3>1, <3>2, <3>3, NetJobAssumption DEF ParallelLimit
  <2>3. CASE ~ Dequeue
    <3>1. m_doing' \subseteq m_doing
      BY <2>3, NeverAgain DEF IInv, TypeOK, Next, Handler, Network, ExecuteTask, DeliverPosted, Finish, NothingToStart,
         EnterLoop, LeaveLoop, Lost, PartSucceeded, PartFailed, Retire, AddNetAction,
         StartPart, Answer, MirrorsFinished, vars, queues
    <3>2. Cardinality(m_doing') <= Cardinality(m_doing) /\ Cardinality(m_doing') \in Nat
      BY <2>1, <3>1, FS_Subset, FS_CardinalityType
    <3> QED
      BY <2>1, <3>2, NetJobAssumption DEF ParallelLimit
  <2> QED
    BY <2>2, <2>3
<1> QED
  BY <1>1, <1>2, Inductive, PTL DEF Spec

\* Whenever the job reports, each queued part is done or given up, and the
\* report says whether one was given up.
THEOREM VerdictCorrect == NoPartTwice => (Spec => VerdictJustified)
<1> SUFFICES ASSUME NoPartTwice PROVE Spec => VerdictJustified
  OBVIOUS
<1> DEFINE Step == Len(outcomes') > Len(outcomes) =>
                     /\ Slots = m_done \cup m_failed \cup Unqueued
                     /\ outcomes'[Len(outcomes')] = "succeeded" <=> m_failed = {}
<1>1. IInv /\ [Next]_vars => [Step]_vars
  <2> SUFFICES ASSUME IInv, [Next]_vars, Len(outcomes') > Len(outcomes)
               PROVE  /\ Slots = m_done \cup m_failed \cup Unqueued
                      /\ outcomes'[Len(outcomes')] = "succeeded" <=> m_failed = {}
    OBVIOUS
  <2>1. outcomes \in Seq({"succeeded", "failed"})
    BY DEF IInv, TypeOK, StatusTyped
  <2>2. Finish
    <3>1. ~ Finish => outcomes' = outcomes
      BY NeverAgain DEF IInv, TypeOK, Next, Handler, Network, ExecuteTask, DeliverPosted, NothingToStart, EnterLoop,
         Dequeue, LeaveLoop, Lost, PartSucceeded, PartFailed, AddNetAction, StartPart, Answer,
         MirrorsFinished, vars, status
    <3> QED
      BY <2>1, <3>1
  <2>3. jobRunning /\ m_todo = <<>> /\ m_doing = {}
    BY <2>2 DEF Finish, AllAnswered, IInv, Pristine, Top
  <2>4. Slots = m_done \cup m_failed \cup Unqueued
    <3>1. Elements(m_todo) = {}
      BY <2>3 DEF Elements
    <3> QED
      BY <2>3, <3>1 DEF IInv, SlotsPartitioned, ToDo, Unqueued
  <2>5. outcomes' = Append(outcomes, IF m_failed = {} THEN "succeeded" ELSE "failed")
    <3>1. CASE m_failed = {}
      BY <2>1, <2>2, <3>1 DEF Finish, EmitSucceeded
    <3>2. CASE m_failed # {}
      BY <2>2, <3>2 DEF Finish, EmitFailed
    <3> QED
      BY <3>1, <3>2
  <2>6. outcomes'[Len(outcomes')] = IF m_failed = {} THEN "succeeded" ELSE "failed"
    BY <2>1, <2>5
  <2> QED
    BY <2>4, <2>6
<1>2. [][Step]_vars => VerdictJustified
  BY DEF VerdictJustified
<1> QED
  BY <1>1, <1>2, Inductive, PTL DEF Spec

-----------------------------------------------------------------------------
(* The result, also when injected parts report after the job did.          *)

\* When startMoreParts has no more to look at, the job has reported and
\* Task::m_succeeded is right; a later report only makes it so again.
Reported ==
  /\ jobRunning /\ ~ posted /\ ~ Top("startMoreParts") /\ m_todo = <<>> /\ m_doing = {} =>
       ~ taskRunning /\ (m_succeeded <=> m_failed = {})
  /\ jobRunning /\ ~ taskRunning /\ m_failed = {} => m_succeeded

LEMMA ReportedStep ==
  ASSUME IInv, Reported, [Next]_vars
  PROVE  Reported'
<1> USE DEF Reported, status, queues
<1>1. CASE Finish
  <2>1. m_todo' = m_todo /\ m_doing' = m_doing /\ m_failed' = m_failed /\ posted' = posted
        /\ jobRunning' = jobRunning
    BY <1>1 DEF Finish
  <2>2. CASE m_failed = {}
    <3>1. ~ taskRunning' /\ (taskRunning => m_succeeded') /\ (~ taskRunning => m_succeeded' = m_succeeded)
      BY <1>1, <2>2 DEF Finish, EmitSucceeded, IInv, TypeOK, StatusTyped
    <3> QED
      BY <2>1, <2>2, <3>1 DEF IInv, Pristine, Finish, Top
  <2>3. CASE m_failed # {}
    BY <1>1, <2>1, <2>3 DEF Finish, EmitFailed
  <2> QED
    BY <2>2, <2>3
<1>2. CASE ExecuteTask \/ DeliverPosted
  BY <1>2 DEF ExecuteTask, DeliverPosted, Top, Call
<1>3. CASE NothingToStart \/ EnterLoop \/ Dequeue
  <2>1. m_todo' # <<>> \/ m_doing' # {}
    BY <1>3 DEF NothingToStart, EnterLoop, Dequeue, AllAnswered
  <2>2. UNCHANGED <<jobRunning, taskRunning, m_succeeded, m_failed>>
    BY <1>3 DEF NothingToStart, EnterLoop, Dequeue
  <2> QED
    BY <2>1, <2>2
<1>4. CASE PartSucceeded \/ PartFailed
  <2>1. Top("startMoreParts")'
    <3>1. Tail(stack) \in Seq(Frames)
      BY <1>4, Popped DEF PartSucceeded, PartFailed, Top, IInv, TypeOK, StackTyped
    <3> QED
      BY <1>4, <3>1, PushedTop DEF PartSucceeded, PartFailed, Retire, Top, Call
  <2> QED
    BY <1>4, <2>1 DEF PartSucceeded, PartFailed
<1>5. CASE LeaveLoop \/ Lost("succeeded") \/ Lost("failed") \/ AddNetAction \/ StartPart
  BY <1>5 DEF LeaveLoop, Lost, AddNetAction, StartPart, Top
<1>6. CASE Network
  BY <1>6 DEF Network, Answer, MirrorsFinished, Top
<1>7. CASE UNCHANGED vars
  BY <1>7 DEF vars, Top
<1> QED
  BY <1>1, <1>2, <1>3, <1>4, <1>5, <1>6, <1>7, NeverAgain DEF Next, Handler, IInv, TypeOK

\* Once all parts have reported, those that a ForgeMirrors added to the running
\* job too, Task::successful() says whether one of them was given up
\* (startMoreParts, emitSucceeded, emitFailed).
THEOREM SettlesCorrect == NoPartTwice => (Spec => []VerdictSettles)
<1> SUFFICES ASSUME NoPartTwice PROVE Spec => []VerdictSettles
  OBVIOUS
<1>1. Init => Reported
  BY DEF Init, Reported
<1>2. IInv /\ Reported => VerdictSettles
  <2> SUFFICES ASSUME IInv, Reported, jobRunning, ~ posted, stack = <<>>, ToDo \cup connected = {}
               PROVE  m_succeeded <=> m_failed = {}
    BY DEF VerdictSettles
  <2>1. m_doing = {}
    BY DEF IInv, SlotsPartitioned
  <2>2. m_todo = <<>>
    <3>1. m_todo \in Seq(Slots) /\ Elements(m_todo) = {}
      BY DEF IInv, TypeOK, SlotsTyped, ToDo
    <3>2. m_todo # <<>> => 1 \in 1..Len(m_todo)
      BY <3>1
    <3> QED
      BY <3>1, <3>2 DEF Elements
  <2> QED
    BY <2>1, <2>2 DEF Reported, Top
<1> QED
  BY <1>1, <1>2, ReportedStep, Inductive, PTL DEF Spec

-----------------------------------------------------------------------------
(* The job implements DownloadBatch.                                       *)

\* Calls that wait for an inner one neither look for more to start nor add parts.
Quiet(s) == \A k \in 1..Len(s) : s[k].call \notin {"startMoreParts", "addNetAction"}

\* What holds when no part is a ForgeMirrors: the parts are the initial ones,
\* each that runs is counted, and after the report there is nothing to do.
Counted ==
  /\ size = InitialParts
  /\ connected \subseteq m_doing
  /\ stack # <<>> => Head(stack).call # "addNetAction" /\ Quiet(Tail(stack))
  /\ posted => stack = <<>> /\ inFlight = {}
  /\ jobRunning /\ outcomes = <<>> => taskRunning
  /\ outcomes # <<>> =>
       jobRunning /\ ~ posted /\ m_todo = <<>> /\ m_doing = {} /\ Quiet(stack)

LEMMA QuietTail ==
  ASSUME NEW S, NEW s \in Seq(S), s # <<>>, Quiet(s)
  PROVE  Quiet(Tail(s)) /\ Head(s).call \notin {"startMoreParts", "addNetAction"}
<1>1. Head(s) = s[1] /\ Len(s) \in Nat /\ Len(s) > 0
  OBVIOUS
<1>2. \A k \in 1..Len(Tail(s)) : Tail(s)[k] = s[k + 1] /\ k + 1 \in 1..Len(s)
  OBVIOUS
<1> QED
  BY <1>1, <1>2 DEF Quiet

LEMMA QuietPushed ==
  ASSUME NEW S, NEW s \in Seq(S), Quiet(s), NEW f \in S,
         f.call \notin {"startMoreParts", "addNetAction"}
  PROVE  Quiet(<<f>> \o s)
<1>1. /\ Len(<<f>> \o s) = Len(s) + 1 /\ Len(s) \in Nat
      /\ \A k \in 1..Len(s) + 1 : (<<f>> \o s)[k] = IF k = 1 THEN f ELSE s[k - 1]
  OBVIOUS
<1>2. \A k \in 1..Len(s) + 1 : k = 1 \/ k - 1 \in 1..Len(s)
  BY <1>1
<1> QED
  BY <1>1, <1>2 DEF Quiet

LEMMA QuietShort ==
  /\ Quiet(<<>>)
  /\ \A f : Quiet(Tail(<<f>>)) /\ Head(<<f>>) = f /\ <<f>> # <<>>
  /\ \A f, g : g.call \notin {"startMoreParts", "addNetAction"} =>
       Quiet(Tail(<<f, g>>)) /\ Head(<<f, g>>) = f /\ <<f, g>> # <<>>
<1>1. Quiet(<<>>)
  BY DEF Quiet
<1>2. ASSUME NEW f PROVE Tail(<<f>>) = <<>> /\ Head(<<f>>) = f /\ <<f>> # <<>>
  OBVIOUS
<1>3. ASSUME NEW f, NEW g
      PROVE  Tail(<<f, g>>) = <<g>> /\ Head(<<f, g>>) = f /\ <<f, g>> # <<>>
  OBVIOUS
<1>4. ASSUME NEW g, g.call \notin {"startMoreParts", "addNetAction"} PROVE Quiet(<<g>>)
  BY <1>4 DEF Quiet
<1> QED
  BY <1>1, <1>2, <1>3, <1>4

LEMMA CountedInit == Init => Counted
<1> SUFFICES ASSUME Init PROVE Counted
  OBVIOUS
<1> QED
  BY QuietShort DEF Init, Counted

\* The calls in progress.
LEMMA QuietStep ==
  ASSUME Mirrors = {}, IInv, Counted, [Next]_vars
  PROVE  /\ ~ AddNetAction
         /\ stack' # <<>> => Head(stack').call # "addNetAction" /\ Quiet(Tail(stack'))
<1> USE DEF IInv, TypeOK, StackTyped
<1>1. ~ AddNetAction
  BY DEF AddNetAction, Top, Counted
<1> SUFFICES stack' # <<>> => Head(stack').call # "addNetAction" /\ Quiet(Tail(stack'))
  BY <1>1
<1>2. stack # <<>> => Tail(stack) \in Seq(Frames) /\ Quiet(Tail(stack))
  BY Popped DEF Counted
<1>3. ASSUME stack # <<>>, stack' = Tail(stack)
      PROVE  stack' # <<>> => Head(stack').call # "addNetAction" /\ Quiet(Tail(stack'))
  BY <1>2, <1>3, QuietTail
<1>4. ASSUME stack # <<>>, NEW f \in {"startMoreParts", "loop", "start", "succeeded", "failed"},
             NEW i, stack' = <<Call(f, i)>> \o Tail(stack)
      PROVE  stack' # <<>> => Head(stack').call # "addNetAction" /\ Quiet(Tail(stack'))
  <2>1. Head(stack') = Call(f, i) /\ Tail(stack') = Tail(stack)
    BY <1>2, <1>4, PushedTop
  <2>2. Call(f, i).call # "addNetAction"
    BY DEF Call
  <2>3. Quiet(Tail(stack))
    BY <1>2, <1>4
  <2> QED
    BY <2>1, <2>2, <2>3
<1>5. CASE ExecuteTask \/ UNCHANGED vars
  BY <1>5 DEF ExecuteTask, vars, Counted
<1>6. CASE DeliverPosted
  BY <1>6, QuietShort DEF DeliverPosted, Call
<1>7. CASE Finish \/ NothingToStart \/ LeaveLoop \/ Lost("succeeded") \/ Lost("failed")
  <2>1. stack # <<>> /\ stack' = Tail(stack)
    BY <1>7 DEF Finish, NothingToStart, LeaveLoop, Lost, Top
  <2> QED
    BY <2>1, <1>3
<1>8. CASE EnterLoop
  <2>1. stack # <<>> /\ stack' = <<Call("loop", None)>> \o Tail(stack)
    BY <1>8 DEF EnterLoop, Top
  <2> QED
    BY <2>1, <1>4
<1>9. CASE PartSucceeded \/ PartFailed
  <2>1. stack # <<>> /\ stack' = <<Call("startMoreParts", None)>> \o Tail(stack)
    BY <1>9 DEF PartSucceeded, PartFailed, Retire, Top
  <2> QED
    BY <2>1, <1>4
<1>10. CASE StartPart
  <2>1. stack # <<>>
        /\ (stack' = Tail(stack)
            \/ \E f \in {"succeeded", "failed"} : stack' = <<Call(f, Part)>> \o Tail(stack))
    BY <1>10 DEF StartPart, Top
  <2> QED
    BY <2>1, <1>3, <1>4
<1>11. CASE Dequeue
  <2>1. /\ stack' = <<Call("start", Head(m_todo))>> \o stack
        /\ stack # <<>> /\ Head(stack).call = "loop"
    BY <1>11, DequeueIs DEF Dequeue, Top, SlotsTyped
  <2>6. Call("start", Head(m_todo)).call # "addNetAction"
    BY DEF Call
  <2>2. Head(stack') = Call("start", Head(m_todo)) /\ Tail(stack') = stack
    BY <2>1, PushedTop
  <2>3. stack = <<Head(stack)>> \o Tail(stack) /\ Head(stack) \in Frames
    BY <2>1
  <2>5. Quiet(stack)
    BY <1>2, <2>1, <2>3, QuietPushed
  <2> QED
    BY <2>2, <2>5, <2>6
<1>12. CASE Network
  <2>1. PICK i \in inFlight : Answer(i)
    BY <1>12 DEF Network, MirrorsFinished
  <2> DEFINE f == Call("failed", i)
             g == Call("succeeded", i)
  <2>2. /\ f.call \notin {"startMoreParts", "addNetAction"}
        /\ g.call \notin {"startMoreParts", "addNetAction"}
    BY DEF Call
  <2>3. stack' \in {<<g>>, <<f>>, <<f, f>>}
    BY <2>1 DEF Answer
  <2> HIDE DEF f, g
  <2> QED
    BY <2>2, <2>3, QuietShort
<1> QED
  BY <1>1, <1>5, <1>6, <1>7, <1>8, <1>9, <1>10, <1>11, <1>12, NeverAgain DEF Next, Handler

LEMMA CountedStep ==
  ASSUME Mirrors = {}, IInv, Counted, [Next]_vars
  PROVE  Counted'
<1>1. /\ ~ AddNetAction /\ ~ AddAgain
      /\ stack' # <<>> => Head(stack').call # "addNetAction" /\ Quiet(Tail(stack'))
  BY QuietStep, NeverAgain DEF IInv, TypeOK
<1>2. size' = InitialParts
  BY <1>1, SlotsStay DEF Counted
<1>8. posted' => stack' = <<>> /\ inFlight' = {}
  <2>1. CASE ExecuteTask
    BY <2>1 DEF ExecuteTask, wires, IInv, Pristine
  <2>2. CASE ~ ExecuteTask /\ posted
    BY <1>1, <2>2 DEF Counted, Next, Handler, Network, DeliverPosted, Finish, NothingToStart,
       EnterLoop, Dequeue, LeaveLoop, Lost, PartSucceeded, PartFailed, StartPart, Top, vars, wires
  <2>3. CASE ~ ExecuteTask /\ ~ posted
    <3>1. ~ posted'
      BY <1>1, <2>3 DEF Next, Handler, Network, DeliverPosted, Finish, NothingToStart,
       EnterLoop, Dequeue, LeaveLoop, Lost, PartSucceeded, PartFailed, StartPart, Answer,
       MirrorsFinished, vars
    <3> QED
      BY <3>1
  <2> QED
    BY <2>1, <2>2, <2>3
<1>3. connected' \subseteq m_doing'
  <2>1. CASE Dequeue
    BY <2>1, DequeueIs DEF Dequeue, Counted, IInv, TypeOK, SlotsTyped
  <2>2. CASE PartSucceeded \/ PartFailed
    <3>1. Part \in Slots
      BY <2>2 DEF PartSucceeded, PartFailed, IInv, TypeOK, SlotsTyped
    <3> QED
      BY <2>2, <3>1, RetireIs DEF PartSucceeded, PartFailed, Counted, IInv
  <2>3. CASE ~ Dequeue /\ ~ PartSucceeded /\ ~ PartFailed
    <3>1. connected' = connected /\ m_doing' = m_doing
      BY <1>1, <2>3 DEF Next, Handler, Network, ExecuteTask, DeliverPosted, Finish,
         NothingToStart, EnterLoop, LeaveLoop, Lost, StartPart, Answer, MirrorsFinished,
         vars, queues, wires
    <3> QED
      BY <3>1 DEF Counted
  <2> QED
    BY <2>1, <2>2, <2>3
<1>4. CASE outcomes # <<>>
  <2>1. jobRunning /\ ~ posted /\ m_todo = <<>> /\ m_doing = {} /\ Quiet(stack) /\ connected = {}
    BY <1>4 DEF Counted
  <2>2. stack # <<>> => /\ Head(stack).call \notin {"startMoreParts", "addNetAction"}
                        /\ Tail(stack) \in Seq(Frames) /\ Quiet(Tail(stack))
    BY <2>1, QuietTail, Popped DEF IInv, TypeOK, StackTyped
  <2>3. CASE StartPart
    <3>1. Pending # {} /\ Pending \subseteq connected
      BY <2>3 DEF StartPart, Pending, IInv, StartsCounted
    <3> QED
      BY <2>1, <3>1
  <2>4. CASE LeaveLoop \/ Lost("succeeded") \/ Lost("failed")
    <3>1. /\ UNCHANGED <<jobRunning, taskRunning, outcomes, posted, m_todo, m_doing>>
          /\ stack # <<>> /\ stack' = Tail(stack)
      BY <2>4 DEF LeaveLoop, Lost, Top, status, queues
    <3>2. Quiet(stack')
      BY <2>2, <3>1
    <3> QED
      BY <1>1, <1>2, <1>3, <1>4, <1>8, <2>1, <3>1, <3>2 DEF Counted
  <2>5. CASE Network
    <3>1. PICK i \in inFlight : Answer(i)
      BY <2>5 DEF Network, MirrorsFinished
    <3>2. \A f : f.call \notin {"startMoreParts", "addNetAction"} =>
            Quiet(<<f>>) /\ Quiet(<<f, f>>)
      BY DEF Quiet
    <3>3. Quiet(stack')
      BY <3>1, <3>2 DEF Answer, Call
    <3> QED
      BY <1>1, <1>2, <1>3, <1>8, <2>1, <3>1, <3>3 DEF Answer, Counted, status, queues
  <2>6. CASE UNCHANGED vars
    BY <2>6 DEF vars, status, queues, wires, Counted, Quiet
  <2>7. ~ ExecuteTask /\ ~ DeliverPosted /\ ~ Finish /\ ~ NothingToStart /\ ~ EnterLoop
        /\ ~ Dequeue /\ ~ PartSucceeded /\ ~ PartFailed
    BY <2>1, <2>2 DEF ExecuteTask, DeliverPosted, Finish, NothingToStart, EnterLoop, Dequeue,
       CanDequeue, PartSucceeded, PartFailed, Top
  <2> QED
    BY <1>1, <2>3, <2>4, <2>5, <2>6, <2>7 DEF Next, Handler
<1>5. CASE outcomes = <<>> /\ Finish
  <2>1. /\ jobRunning /\ jobRunning' = jobRunning /\ posted' = posted
        /\ m_todo' = <<>> /\ m_doing' = {} /\ stack # <<>> /\ stack' = Tail(stack)
    BY <1>5 DEF Finish, Top, AllAnswered, queues, IInv, Pristine
  <2>2. outcomes' # <<>>
    BY <1>5, <2>1 DEF Finish, EmitSucceeded, EmitFailed, Counted
  <2>3. ~ posted
    BY <1>5, <2>1 DEF Counted
  <2> QED
    BY <1>1, <1>2, <1>3, <1>8, <2>1, <2>2, <2>3 DEF Counted
<1>6. CASE outcomes = <<>> /\ ExecuteTask
  BY <1>1, <1>2, <1>3, <1>8, <1>6 DEF ExecuteTask, Counted
<1>7. CASE outcomes = <<>> /\ ~ Finish /\ ~ ExecuteTask
  <2>1. UNCHANGED status
    BY <1>1, <1>7 DEF Next, Handler, Network, DeliverPosted, NothingToStart, EnterLoop, Dequeue,
       LeaveLoop, Lost, PartSucceeded, PartFailed, StartPart, Answer, MirrorsFinished, vars
  <2> QED
    BY <1>1, <1>2, <1>3, <1>8, <1>7, <2>1 DEF Counted, status
<1> QED
  BY <1>4, <1>5, <1>6, <1>7

\* The verdicts that DownloadBatch sees.
verdicts == [i \in 0..(InitialParts - 1) |-> Verdict(i)]

LEMMA VerdictsAre ==
  ASSUME IInv, Counted
  PROVE  /\ Slots = 0..(InitialParts - 1)
         /\ \A i \in Slots : verdicts[i] = Verdict(i)
         /\ \A i \in Slots : i \in m_done => Verdict(i) = "done"
         /\ \A i \in Slots : i \in m_failed \ m_done => Verdict(i) = "failed"
         /\ \A i \in Slots : i \notin m_done \cup m_failed => Verdict(i) = "pending"
         /\ \A i \in connected : i \in Slots /\ Verdict(i) = "pending"
<1>1. Slots = 0..(InitialParts - 1)
  BY DEF Counted, Slots
<1>2. \A i \in Slots : verdicts[i] = Verdict(i)
  BY <1>1 DEF verdicts
<1>3. \A i \in connected : i \in Slots /\ i \notin m_done \cup m_failed
  <2>1. CASE jobRunning
    BY <2>1 DEF IInv, TypeOK, SlotsTyped, SlotsPartitioned
  <2>2. CASE ~ jobRunning
    BY <2>2 DEF IInv, Pristine
  <2> QED
    BY <2>1, <2>2
<1>4. /\ \A i \in Slots : i \in m_done => Verdict(i) = "done"
      /\ \A i \in Slots : i \in m_failed \ m_done => Verdict(i) = "failed"
      /\ \A i \in Slots : i \notin m_done \cup m_failed => Verdict(i) = "pending"
  BY DEF Verdict
<1> QED
  BY <1>1, <1>2, <1>3, <1>4

\* A slot that settles a part changes its verdict and no other.
LEMMA VerdictChanges ==
  ASSUME NEW i \in 0..(InitialParts - 1), verdicts[i] = "pending",
         NEW v, \/ v = "done" /\ m_done' = m_done \cup {i} /\ m_failed' = m_failed
                \/ v = "failed" /\ m_failed' = m_failed \cup {i} /\ m_done' = m_done
  PROVE  verdicts' = [verdicts EXCEPT ![i] = v]
<1>1. Verdict(i) = "pending"
  BY DEF verdicts
<1>2. i \notin m_done /\ i \notin m_failed
  BY <1>1 DEF Verdict
<1>3. \A j \in 0..(InitialParts - 1) :
        (IF j \in m_done' THEN "done" ELSE IF j \in m_failed' THEN "failed" ELSE "pending")
          = (IF j = i THEN v ELSE IF j \in m_done THEN "done"
                          ELSE IF j \in m_failed THEN "failed" ELSE "pending")
  BY <1>2
<1> QED
  BY <1>3 DEF verdicts, Verdict

\* start() of a part is a try of it.
LEMMA StartIsTry ==
  ASSUME IInv, Counted, StartPart
  PROVE  \E i \in 0..(InitialParts - 1) : Batch!Try(i)
<1>1. Part \in connected /\ Part \in Slots /\ Slots = 0..(InitialParts - 1)
  BY VerdictsAre DEF StartPart, IInv, StartsCounted, Pending
<1>2. verdicts[Part] = "pending"
  BY <1>1, VerdictsAre
<1>3. starts[Part] < MaxFailures + 1
  <2>1. starts[Part] = failures[Part]
    BY <1>1 DEF StartPart, IInv, StartsCounted, Pending, Ran
  <2>2. failures[Part] \in 0..MaxFailures
    BY <1>1 DEF IInv, TypeOK, SlotsTyped
  <2> QED
    BY <2>1, <2>2, NetJobAssumption
<1>4. starts' = [starts EXCEPT ![Part] = @ + 1] /\ outcomes' = outcomes
  BY DEF StartPart, status
<1>5. verdicts' = verdicts
  BY DEF StartPart, queues, verdicts, Verdict
<1> QED
  BY <1>1, <1>2, <1>3, <1>4, <1>5 DEF Batch!Try, verdicts

\* A slot that retires a part settles it.
LEMMA PartStarted ==
  ASSUME IInv, Counted, stack # <<>>, Head(stack).call \in {"succeeded", "failed"},
         Part \in connected
  PROVE  /\ Part \in Slots /\ Slots = 0..(InitialParts - 1)
         /\ verdicts[Part] = "pending"
         /\ starts[Part] = failures[Part] + 1 /\ failures[Part] \in 0..MaxFailures
<1>1. Part \in Slots /\ Slots = 0..(InitialParts - 1) /\ verdicts[Part] = "pending"
  BY VerdictsAre
<1>2. Part \in Ran
  BY DEF Ran, Pending, Top
<1> QED
  BY <1>1, <1>2 DEF IInv, StartsCounted, TypeOK, SlotsTyped

LEMMA SucceededIsSettle ==
  ASSUME IInv, Counted, PartSucceeded
  PROVE  \E i \in 0..(InitialParts - 1) : Batch!Settle(i, "done")
<1>1. stack # <<>> /\ Head(stack).call = "succeeded" /\ Part \in connected
  BY DEF PartSucceeded, Top
<1>2. /\ Part \in 0..(InitialParts - 1) /\ verdicts[Part] = "pending" /\ starts[Part] > 0
  <2>1. /\ Part \in 0..(InitialParts - 1) /\ verdicts[Part] = "pending"
        /\ starts[Part] = failures[Part] + 1 /\ failures[Part] \in 0..MaxFailures
    BY <1>1, PartStarted
  <2> QED
    BY <2>1, NetJobAssumption
<1>3. m_done' = m_done \cup {Part} /\ UNCHANGED <<m_failed, starts, outcomes>>
  BY <1>1, SucceededIs DEF status, IInv, TypeOK, SlotsTyped
<1>4. verdicts' = [verdicts EXCEPT ![Part] = "done"]
  BY <1>2, <1>3, VerdictChanges
<1> QED
  BY <1>2, <1>3, <1>4 DEF Batch!Settle, verdicts

LEMMA FailedIsSettle ==
  ASSUME IInv, Counted, PartFailed
  PROVE  \/ \E i \in 0..(InitialParts - 1) : Batch!Settle(i, "failed")
         \/ UNCHANGED <<starts, verdicts, outcomes>>
<1>1. stack # <<>> /\ Head(stack).call = "failed" /\ Part \in connected
  BY DEF PartFailed, Top
<1>2. /\ Part \in 0..(InitialParts - 1) /\ verdicts[Part] = "pending"
      /\ starts[Part] = failures[Part] + 1
  BY <1>1, PartStarted
<1>3. UNCHANGED <<m_done, starts, outcomes>>
  BY DEF PartFailed, status
<1>4. CASE OutOfRetries
  <2>1. m_failed' = m_failed \cup {Part} /\ starts[Part] = MaxFailures + 1
    BY <1>1, <1>2, <1>4, FailedIs DEF IInv, TypeOK, SlotsTyped
  <2>3. verdicts' = [verdicts EXCEPT ![Part] = "failed"]
    BY <1>2, <1>3, <2>1, VerdictChanges
  <2> QED
    BY <1>2, <1>3, <2>1, <2>3 DEF Batch!Settle, verdicts
<1>5. CASE ~ OutOfRetries
  <2>1. m_failed' = m_failed
    BY <1>5 DEF PartFailed
  <2> QED
    BY <1>3, <2>1 DEF verdicts, Verdict
<1> QED
  BY <1>4, <1>5

\* The only report is the first, when all parts are settled.
LEMMA FinishIsReport ==
  ASSUME IInv, Counted, Finish
  PROVE  Batch!Report
<1>1. /\ jobRunning /\ m_todo = <<>> /\ m_doing = {} /\ connected = {}
      /\ stack # <<>> /\ Head(stack).call = "startMoreParts"
  BY DEF Finish, Top, AllAnswered, IInv, Pristine, Counted
<1>2. outcomes = <<>>
  <2>1. stack \in Seq(Frames)
    BY DEF IInv, TypeOK, StackTyped
  <2>2. ~ Quiet(stack)
    BY <1>1, <2>1, QuietTail
  <2> QED
    BY <2>2 DEF Counted
<1>3. Slots = m_done \cup m_failed
  BY <1>1 DEF IInv, SlotsPartitioned, ToDo, Elements
<1>4. \A i \in 0..(InitialParts - 1) :
        verdicts[i] # "pending" /\ (verdicts[i] = "done" <=> i \notin m_failed)
  <2>1. m_done \cap m_failed = {}
    BY <1>1 DEF IInv, SlotsPartitioned
  <2> QED
    BY <1>3, <2>1, VerdictsAre
<1>5. m_failed = {} <=> \A i \in 0..(InitialParts - 1) : verdicts[i] = "done"
  <2>1. m_failed \subseteq 0..(InitialParts - 1)
    BY <1>3, VerdictsAre
  <2> QED
    BY <1>4, <2>1
<1>6. taskRunning
  BY <1>1, <1>2 DEF Counted
<1>7. outcomes' = << IF m_failed = {} THEN "succeeded" ELSE "failed" >>
  <2>1. outcomes' = Append(outcomes, IF m_failed = {} THEN "succeeded" ELSE "failed")
    BY <1>6 DEF Finish, EmitSucceeded, EmitFailed
  <2> QED
    BY <1>2, <2>1
<1>8. UNCHANGED <<starts, verdicts>>
  BY DEF Finish, queues, verdicts, Verdict
<1> QED
  BY <1>2, <1>4, <1>5, <1>7, <1>8 DEF Batch!Report, verdicts

LEMMA OtherIsStutter ==
  ASSUME Mirrors = {}, IInv, Counted, [Next]_vars,
         ~ StartPart, ~ PartSucceeded, ~ PartFailed, ~ Finish
  PROVE  UNCHANGED <<starts, verdicts, outcomes>>
<1>1. ~ AddNetAction /\ ~ AddAgain
  BY QuietStep, NeverAgain DEF IInv, TypeOK
<1>2. UNCHANGED <<starts, m_done, m_failed, outcomes>>
  BY <1>1 DEF Next, Handler, Network, ExecuteTask, DeliverPosted, NothingToStart, EnterLoop,
     Dequeue, LeaveLoop, Lost, Answer, MirrorsFinished, vars, queues, status
<1> QED
  BY <1>2 DEF verdicts, Verdict

\* A job to which no action is added while it runs does what DownloadBatch
\* promises: each part is tried at most MaxFailures + 1 times, and one result
\* is reported, after the last part has settled.
THEOREM BatchCorrect == Mirrors = {} => (Spec => ImplementsBatch)
<1> SUFFICES ASSUME Mirrors = {}, NoPartTwice PROVE Spec => ImplementsBatch
  BY DEF NoPartTwice
<1>1. Init => Batch!Init
  BY DEF Init, Batch!Init, Verdict
<1>2. IInv /\ Counted /\ [Next]_vars => [Batch!Next]_(Batch!vars)
  <2> SUFFICES ASSUME IInv, Counted, [Next]_vars
               PROVE  Batch!Next \/ UNCHANGED Batch!vars
    OBVIOUS
  <2>1. CASE StartPart
    BY <2>1, StartIsTry DEF Batch!Next
  <2>2. CASE PartSucceeded
    BY <2>2, SucceededIsSettle DEF Batch!Next
  <2>3. CASE PartFailed
    BY <2>3, FailedIsSettle DEF Batch!Next, Batch!vars, verdicts
  <2>4. CASE Finish
    BY <2>4, FinishIsReport DEF Batch!Next
  <2>5. CASE ~ StartPart /\ ~ PartSucceeded /\ ~ PartFailed /\ ~ Finish
    BY <2>5, OtherIsStutter DEF Batch!vars, verdicts
  <2> QED
    BY <2>1, <2>2, <2>3, <2>4, <2>5
<1>3. Init => Counted
  BY CountedInit
<1>4. IInv /\ Counted /\ [Next]_vars => Counted'
  BY CountedStep
<1> QED
  BY <1>1, <1>2, <1>3, <1>4, Inductive, PTL DEF Spec, ImplementsBatch, Batch!Spec
=============================================================================
