----------------------------- MODULE UpdateChecker -----------------------------
(***************************************************************************)
(* UpdateChecker and the parts of the user interface that call it: the     *)
(* main window asks for checks, the settings page loads the channel list,  *)
(* and a result opens a modal dialog, inside which the event loop runs on. *)
(*                                                                         *)
(* One step is one pass of the event loop: the first posted event it may   *)
(* deliver, or an act of the user.  A job that is replaced is only deleted *)
(* by an event of its own (QObjectPtr, deleteLater), and Qt delivers that  *)
(* event to no loop nested in the handler that posted it.  The channel's   *)
(* id stands for its URL; a reply is what the handlers make of it.         *)
(***************************************************************************)
EXTENDS Sublists, FiniteSets

CONSTANTS
  Channels,     \* the update channels
  Nobody,       \* no channel, a null job pointer
  Lists,        \* the channel lists the server may have, as sets of channels
  Faults,       \* how a download may go wrong, out of AllFaults
  MaxLoads,     \* bound: downloads of the channel list
  MaxChecks     \* bound: checks begun by the user

\* Data that does not parse or has another version; a job that failed.
AllFaults == {"broken", "failed"}

\* The channel list was good; the index has a newer build, or this one.
Outcomes(kind) == Faults \union IF kind = "list" THEN {"good"} ELSE {"newer", "same"}

ASSUME CheckerAssumption ==
  /\ Nobody \notin Channels \union Nat
  /\ Lists \subseteq SUBSET Channels /\ Faults \subseteq AllFaults
  /\ MaxLoads \in Nat /\ MaxChecks \in Nat

VARIABLES
  m_channelListUrl,         \* "set", or "" in a build without updates
  m_channels, m_chanListLoaded, m_chanListLoading,
  m_updateChecking, m_checkUpdateWaiting, m_deferredUpdateChannel, m_newRepoUrl,
  chanListJob, indexJob,    \* the jobs held, as positions in jobs, or Nobody
  jobs,      \* every NetJob made: see NewJob
  queue,     \* the events posted to the main thread
  dialogs,   \* the modal dialogs open, innermost last
  started,   \* the main window has been constructed
  crash,     \* the job whose callback found a null pointer, or Nobody
  owed,      \* history: a deferred request has not been answered
  nested     \* history: an event was delivered inside a modal dialog

list   == <<m_channelListUrl, m_channels, m_chanListLoaded>>
flags  == <<m_updateChecking, m_checkUpdateWaiting, m_deferredUpdateChannel, m_newRepoUrl>>
events == <<jobs, queue>>
vars   == <<list, m_chanListLoading, flags, chanListJob, indexJob, events,
            dialogs, started, crash, owed, nested>>

-----------------------------------------------------------------------------
(* The event loop *)

\* The loop that runs: the main one, or that of the innermost dialog.
Level == Len(dialogs) + 1

Delete(j) == IF j = Nobody THEN <<>> ELSE <<[do |-> "delete", job |-> j, level |-> Level]>>
Post(what, j) == [do |-> what, job |-> j, level |-> 0]

\* Mutant: a job starts its download in start().
StartEvents_AtOnce(j) == <<>>

\* NetJob::executeTask posts startMoreParts.
StartEvents(j) == <<Post("start", j)>>

\* from: the repository asked; why: for a request ("asked"), for the settings
\* page, or for a request that already had its check ("repeated").
NewJob(kind, notify, from, why) ==
  [kind |-> kind, notify |-> notify, from |-> from, why |-> why,
   state |-> IF StartEvents(1) = <<>> THEN "running" ELSE "queued",
   reply |-> "none", channels |-> {}]

JobsOf(kind)  == {j \in DOMAIN jobs : jobs[j].kind = kind}
Done(j)       == [jobs EXCEPT ![j].state = "done", ![j].reply = "none", ![j].channels = {}]
Results       == {"update", "noUpdate"}   \* dialogs that show a result
Alive         == started /\ crash = Nobody

\* An event is delivered, unless it deletes an object for an outer loop.
Deliverable(i) == queue[i].do = "delete" => queue[i].level >= Level
Due(i)  == Deliverable(i) /\ \A h \in 1..i - 1 : ~Deliverable(h)

\* Events passed over are posted again, at the end.
Rest(i) == SubSeq(queue, i + 1, Len(queue)) \o SubSeq(queue, 1, i - 1)

-----------------------------------------------------------------------------
(* updateChanList and checkForUpdate *)

UpdateChanList(notify, why) ==
  \/ /\ m_channelListUrl = ""
     /\ UNCHANGED <<m_chanListLoading, chanListJob, events>>
  \/ /\ m_channelListUrl # ""
     /\ Cardinality(JobsOf("list")) < MaxLoads
     /\ m_chanListLoading' = TRUE
     /\ LET j == Len(jobs) + 1
        IN /\ jobs' = Append(jobs, NewJob("list", notify, Nobody, why))
           /\ chanListJob' = j
           /\ queue' = queue \o Delete(chanListJob) \o StartEvents(j)

Defer(c, notify) ==
  /\ ~m_chanListLoaded
  /\ m_checkUpdateWaiting' = TRUE
  /\ m_deferredUpdateChannel' = c
  /\ owed' = TRUE
  /\ UpdateChanList(notify, "asked")
  /\ UNCHANGED <<list, m_updateChecking, m_newRepoUrl, indexJob, dialogs, crash>>

\* Mutants: a failed check clears the flag; nothing is ignored.
UpdateCheckFailed_Clears == m_updateChecking' = FALSE
Ignored_Never == FALSE

\* updateCheckFailed only writes to the log.
UpdateCheckFailed == m_updateChecking' = TRUE

Ignored == m_updateChecking

\* The rest of checkForUpdate, where the handler so far has left the jobs js,
\* the queue q and the channels known.
Check(js, q, known, c, notify, why) ==
  \/ /\ c \in known
     /\ m_updateChecking' = TRUE /\ m_newRepoUrl' = c
     /\ jobs' = Append(js, NewJob("index", notify, c, why))
     /\ indexJob' = Len(js) + 1
     /\ queue' = q \o Delete(indexJob) \o StartEvents(Len(js) + 1)
  \/ /\ c \notin known
     /\ m_newRepoUrl' = Nobody
     /\ UpdateCheckFailed
     /\ jobs' = js /\ queue' = q
     /\ UNCHANGED indexJob

CheckNow(c, notify) ==
  /\ m_chanListLoaded /\ ~Ignored
  /\ Cardinality(JobsOf("index")) < MaxChecks
  /\ Check(jobs, queue, m_channels, c, notify, "asked")
  /\ owed' = FALSE
  /\ UNCHANGED <<list, m_chanListLoading, m_checkUpdateWaiting, m_deferredUpdateChannel,
                 chanListJob, dialogs, crash>>

CheckForUpdate(c, notify) == Defer(c, notify) \/ CheckNow(c, notify)

-----------------------------------------------------------------------------
(* The user *)

\* MainWindow's constructor checks if the settings say so.
Startup ==
  /\ ~started /\ started' = TRUE
  /\ UNCHANGED nested
  /\ \/ \E c \in Channels : CheckForUpdate(c, FALSE)
     \/ UNCHANGED <<list, m_chanListLoading, flags, chanListJob, indexJob, events,
                    dialogs, crash, owed>>

AskForUpdate ==
  /\ Alive /\ dialogs = <<>>
  /\ \E c \in Channels : CheckForUpdate(c, TRUE)
  /\ UNCHANGED <<started, nested>>

\* The page is constructed, then the dialog's event loop runs, in one handler.
OpenSettings ==
  /\ Alive /\ dialogs = <<>>
  /\ \/ m_channels # {} /\ UNCHANGED <<m_chanListLoading, chanListJob, events>>
     \/ m_channels = {} /\ UpdateChanList(FALSE, "page")
  /\ dialogs' = Append(dialogs, [kind |-> "settings", repo |-> Nobody, from |-> Nobody])
  /\ UNCHANGED <<list, flags, indexJob, started, crash, owed, nested>>

\* Another modal dialog, which the user opens or, like that of a notification,
\* a handler; one at a time.
OpenOther ==
  /\ Alive /\ \A i \in DOMAIN dialogs : dialogs[i].kind # "other"
  /\ dialogs' = Append(dialogs, [kind |-> "other", repo |-> Nobody, from |-> Nobody])
  /\ UNCHANGED <<list, m_chanListLoading, flags, chanListJob, indexJob, events,
                 started, crash, owed, nested>>

\* The handler that opened the dialog returns: the rest of updateCheckFinished.
CloseDialog ==
  /\ Alive /\ dialogs # <<>>
  /\ m_updateChecking' = (m_updateChecking /\ dialogs[Len(dialogs)].kind \notin Results)
  /\ dialogs' = SubSeq(dialogs, 1, Len(dialogs) - 1)
  /\ UNCHANGED <<list, m_chanListLoading, m_checkUpdateWaiting, m_deferredUpdateChannel,
                 m_newRepoUrl, chanListJob, indexJob, events, started, crash, owed, nested>>

-----------------------------------------------------------------------------
(* The jobs *)

\* The download of a job ends; the main thread will learn of it.
NetworkAnswers ==
  /\ Alive
  /\ \E j \in DOMAIN jobs :
       /\ jobs[j].state = "running"
       /\ \E r \in Outcomes(jobs[j].kind), known \in Lists :
            jobs' = [jobs EXCEPT ![j].state = "answered", ![j].reply = r,
                                 ![j].channels = IF r = "good" THEN known ELSE {}]
       /\ queue' = Append(queue, Post("finish", j))
  /\ UNCHANGED <<list, m_chanListLoading, flags, chanListJob, indexJob, dialogs, started, crash, owed, nested>>

JobStarts(i) ==
  /\ queue[i].do = "start"
  /\ jobs' = [jobs EXCEPT ![queue[i].job].state = "running"]
  /\ queue' = Rest(i)
  /\ UNCHANGED <<list, m_chanListLoading, flags, chanListJob, indexJob, dialogs, crash, owed>>

\* Mutant: the events of the deleted job are still delivered.
JobDeleted_KeepsEvents(i) ==
  /\ queue[i].do = "delete"
  /\ jobs' = [jobs EXCEPT ![queue[i].job].state = "gone"]
  /\ queue' = Rest(i)
  /\ UNCHANGED <<list, m_chanListLoading, flags, chanListJob, indexJob, dialogs, crash, owed>>

\* With the job go its download, its reply and their posted events.
JobDeleted(i) ==
  /\ queue[i].do = "delete"
  /\ jobs' = [jobs EXCEPT ![queue[i].job].state = IF @ = "done" THEN @ ELSE "gone",
                       ![queue[i].job].reply = "none", ![queue[i].job].channels = {}]
  /\ queue' = Select(Rest(i), {k \in DOMAIN Rest(i) : Rest(i)[k].job # queue[i].job})
  /\ UNCHANGED <<list, m_chanListLoading, flags, chanListJob, indexJob, dialogs, crash, owed>>

Finishes(i, kind) == queue[i].do = "finish" /\ jobs[queue[i].job].kind = kind
Reply(i)          == jobs[queue[i].job].reply

ChanListDownloadFailed(i) ==
  /\ Finishes(i, "list") /\ Reply(i) = "failed"
  /\ m_chanListLoading' = FALSE
  /\ jobs' = Done(queue[i].job) /\ queue' = Rest(i)
  /\ UNCHANGED <<list, flags, chanListJob, indexJob, dialogs, crash, owed>>

\* The handlers read the data of the job now held, which has none unless it is
\* the job that finished.
Read(held, i) == IF held = queue[i].job THEN Reply(i) ELSE "broken"
ListRead(i)   == Read(chanListJob, i)
IndexRead(i)  == Read(indexJob, i)

\* first() of a null pointer.
NullJob(i) ==
  /\ crash' = queue[i].job
  /\ UNCHANGED <<list, m_chanListLoading, flags, chanListJob, indexJob, events, dialogs, owed>>

ChanListBroken(i) ==
  /\ chanListJob # Nobody /\ ListRead(i) = "broken"
  /\ jobs' = Done(queue[i].job) /\ queue' = Rest(i) \o Delete(chanListJob)
  /\ chanListJob' = Nobody
  /\ UNCHANGED <<list, m_chanListLoading, flags, indexJob, dialogs, crash, owed>>

ChanListLoaded(i) ==
  /\ chanListJob # Nobody /\ ListRead(i) = "good"
  /\ m_channels' = jobs[chanListJob].channels /\ m_chanListLoaded' = TRUE /\ m_chanListLoading' = FALSE
  /\ chanListJob' = Nobody
  /\ LET q == Rest(i) \o Delete(chanListJob)
         j == queue[i].job
     IN \/ /\ m_checkUpdateWaiting /\ ~Ignored
           /\ Check(Done(j), q, m_channels', m_deferredUpdateChannel, jobs[j].notify,
                    IF owed THEN "asked" ELSE "repeated")
           /\ owed' = FALSE
        \/ /\ ~m_checkUpdateWaiting \/ Ignored
           /\ jobs' = Done(j) /\ queue' = q
           /\ UNCHANGED <<m_updateChecking, m_newRepoUrl, indexJob, owed>>
  /\ UNCHANGED <<m_channelListUrl, m_checkUpdateWaiting, m_deferredUpdateChannel, dialogs, crash>>

ChanListDownloadFinished(i) ==
  /\ Finishes(i, "list") /\ Reply(i) # "failed"
  /\ \/ ChanListBroken(i) \/ ChanListLoaded(i)
     \/ chanListJob = Nobody /\ NullJob(i)

IndexDownloadFailed(i) ==
  /\ Finishes(i, "index") /\ Reply(i) = "failed"
  /\ UpdateCheckFailed
  /\ jobs' = Done(queue[i].job) /\ queue' = Rest(i)
  /\ UNCHANGED <<list, m_chanListLoading, m_checkUpdateWaiting, m_deferredUpdateChannel,
                 m_newRepoUrl, chanListJob, indexJob, dialogs, crash, owed>>

\* The dialogs a result opens before updateCheckFinished clears the flag.
Result(i) ==
  LET job == jobs[queue[i].job]
      Shows(kind) == <<[kind |-> kind, repo |-> m_newRepoUrl, from |-> job.from]>>
  IN IF IndexRead(i) = "newer" THEN Shows("update")
     ELSE IF IndexRead(i) = "same" /\ job.notify THEN Shows("noUpdate")
     ELSE <<>>

IndexProcessed(i) ==
  /\ indexJob # Nobody
  /\ dialogs' = dialogs \o Result(i)
  /\ m_updateChecking' = (IndexRead(i) = "broken" \/ Result(i) # <<>>)
  /\ jobs' = Done(queue[i].job) /\ queue' = Rest(i) \o Delete(indexJob)
  /\ indexJob' = Nobody
  /\ UNCHANGED <<list, m_chanListLoading, m_checkUpdateWaiting, m_deferredUpdateChannel,
                 m_newRepoUrl, chanListJob, crash, owed>>

UpdateCheckFinished(i) ==
  /\ Finishes(i, "index") /\ Reply(i) # "failed"
  /\ \/ IndexProcessed(i)
     \/ indexJob = Nobody /\ NullJob(i)

EventLoop ==
  /\ Alive
  /\ \E i \in DOMAIN queue :
       /\ Due(i)
       /\ \/ JobStarts(i) \/ JobDeleted(i)
          \/ ChanListDownloadFailed(i) \/ ChanListDownloadFinished(i)
          \/ IndexDownloadFailed(i) \/ UpdateCheckFinished(i)
  /\ nested' = (nested \/ dialogs # <<>>)
  /\ UNCHANGED started

-----------------------------------------------------------------------------
Init ==
  /\ m_channelListUrl \in {"", "set"}
  /\ m_channels = {} /\ m_chanListLoaded = FALSE /\ m_chanListLoading = FALSE
  /\ m_updateChecking = FALSE /\ m_checkUpdateWaiting = FALSE
  /\ m_deferredUpdateChannel = Nobody /\ m_newRepoUrl = Nobody
  /\ chanListJob = Nobody /\ indexJob = Nobody
  /\ jobs = <<>> /\ queue = <<>> /\ dialogs = <<>>
  /\ started = FALSE /\ crash = Nobody
  /\ owed = FALSE /\ nested = FALSE

Next ==
  \/ Startup \/ AskForUpdate \/ OpenSettings \/ OpenOther \/ CloseDialog
  \/ NetworkAnswers \/ EventLoop

Spec == Init /\ [][Next]_vars

\* Downloads end, the event loop runs, and the user closes the dialogs.
FairSpec == Spec /\ WF_vars(NetworkAnswers) /\ WF_vars(EventLoop) /\ WF_vars(CloseDialog)

-----------------------------------------------------------------------------
(* Properties *)

\* Types, and every event is for a job that still exists.
TypeOK ==
  /\ m_channels \subseteq Channels
  /\ {m_chanListLoaded, m_chanListLoading, m_updateChecking, m_checkUpdateWaiting, started, owed} \subseteq BOOLEAN
  /\ {m_deferredUpdateChannel, m_newRepoUrl} \subseteq Channels \union {Nobody}
  /\ {chanListJob, indexJob, crash} \subseteq DOMAIN jobs \union {Nobody}
  /\ \A i \in DOMAIN queue : queue[i].job \in DOMAIN jobs /\ jobs[queue[i].job].state # "gone"

\* updateCheckFinished takes the repository it offers from m_newRepoUrl, not
\* from the job: it is still the one whose index was read, for which only the
\* m_updateChecking guard is to thank.
OfferIsAsked ==
  \A i \in DOMAIN dialogs : dialogs[i].kind \in Results => dialogs[i].repo = dialogs[i].from

\* A callback finds its job pointer null only if events were delivered inside a
\* modal dialog, where a replaced list job lives on: for any clicks in the main
\* window the order of the posted events (delete the old job, start the new one)
\* rules it out, and the job of a check is never null.
NullOnlyByDialogs ==
  crash # Nobody => jobs[crash].kind = "list" /\ nested

\* m_checkUpdateWaiting is never reset, and every load of the list would run
\* the deferred check again: still no repository is asked without a request.
NoUnaskedCheck == \A j \in JobsOf("index") : jobs[j].why # "repeated"

\* What is asked of a server, and what is offered, is what the user asked for.
OnlyWhatWasAsked == OfferIsAsked /\ NoUnaskedCheck

\* The index of every check that was begun is awaited to the end: no later
\* request, list or dialog takes its job away.  (A crash ends the program.)
ChecksReport ==
  \A j \in 1..MaxLoads + MaxChecks :
    (j \in JobsOf("index"))
      ~> (crash # Nobody \/ (j \in JobsOf("index") /\ jobs[j].state = "done"))

\* What the comment of m_updateChecking says: true while the system is checking,
\* that is while an index is awaited or its result is shown.
CheckingMeansCheck ==
  m_updateChecking =>
    \/ \E j \in JobsOf("index") : jobs[j].state \notin {"done", "gone"}
    \/ \E i \in DOMAIN dialogs : dialogs[i].kind \in Results

=============================================================================
