------------------------------ MODULE MetaCache ------------------------------
(***************************************************************************)
(* logic/net/HttpMetaCache and logic/net/CacheDownload, for the entries    *)
(* and the downloads of one cached path.                                   *)
(*                                                                         *)
(* A CacheDownload writes its reply to a QSaveFile, which replaces the     *)
(* target in one step when it is committed, and puts its entry (etag, md5  *)
(* and modification time of the target) into the cache; the cache writes   *)
(* its index to disk 30 seconds later, so a crash loads an older index     *)
(* beside a newer file.  The network, the user, the timer and the end of   *)
(* the process come between any two events.                                *)
(*                                                                         *)
(* A file content, and what an md5 is computed of, is a sequence of        *)
(* chunks <<version, number>>; the etag of a resource is its version.  Of  *)
(* a local_changed_timestamp only matters whether it is the modification   *)
(* time of the file now: `unmodified'.  Changing the file makes that false *)
(* in every entry, in memory and on disk, and a time does not come back.   *)
(***************************************************************************)
EXTENDS Naturals, Sequences, FiniteSets

CONSTANTS
  Downloads,   \* CacheDownload objects for the path that may exist at once
  Objects,     \* MetaEntry objects
  Nobody,      \* no object
  MaxVersion,  \* bound: versions of the resource the server publishes
  MaxStarts    \* bound: calls of start() on one CacheDownload

\* There is an object for each download beside the listed one.
ASSUME MetaCacheAssumption ==
  /\ MaxVersion \in Nat \ {0} /\ MaxStarts \in Nat \ {0}
  /\ IsFiniteSet(Objects) /\ IsFiniteSet(Downloads) /\ Nobody \notin Objects
  /\ Cardinality(Objects) > Cardinality(Downloads)

VARIABLES
  server,      \* the version the server has now
  file,        \* the target: does it exist, and its content
  entries,     \* the MetaEntry objects
  listed,      \* the path's object in HttpMetaCache::m_entries
  saved,       \* the path's record in the index on disk: a set of at most one
  timer,       \* saveBatchingTimer is running
  saveFailed,  \* history: the last SaveNow could not write the index
  evicted,     \* history: evicted, and neither downloaded nor revived since
  dl           \* the CacheDownload objects

vars == <<server, file, entries, listed, saved, timer, saveFailed, evicted, dl>>

Versions  == 1..MaxVersion
NoTag     == 0
Full(v)   == <<<<v, 1>>, <<v, 2>>>>
Junk      == <<<<0, 1>>>>   \* the body of a redirect or of an error page
Edited    == <<<<0, 2>>>>   \* what the user puts into the file
NoSum     == <<<<0, 0>>>>   \* the empty md5sum of a new entry, equal to none

NoFile    == [exists |-> FALSE, data |-> <<>>]
Blank     == [etag |-> NoTag, md5 |-> NoSum, unmodified |-> FALSE, stale |-> TRUE]
NoReply   == [kind |-> "none", version |-> 0]
Unused    == [phase |-> "unused", entry |-> Nobody, starts |-> 0,
              reply |-> NoReply, got |-> 0, buffer |-> <<>>, digest |-> <<>>,
              wroteAnyData |-> FALSE]

\* The body of a reply, in chunks.
Body(reply) ==
  CASE reply.kind = "full" -> Full(reply.version)
    [] reply.kind \in {"redirect", "error"} -> Junk
    [] OTHER -> <<>>

Record(e)   == [etag |-> e.etag, md5 |-> e.md5, unmodified |-> e.unmodified]

\* Entries or records once the file was changed.
Outdated(es)     == [o \in Objects |-> [es[o] EXCEPT !.unmodified = FALSE]]
OutdatedDisk(rs) == {[r EXCEPT !.unmodified = FALSE] : r \in rs}

\* The download has reported for good: nothing holds it any more.
Released(d) ==
  \/ dl[d].phase \in {"unused", "succeeded"}
  \/ dl[d].phase = "failed" /\ dl[d].starts = MaxStarts
Idle        == \A d \in Downloads : Released(d)

InUse(o)    == o = listed \/ \E d \in Downloads : ~ Released(d) /\ dl[d].entry = o
NewObject   == CHOOSE o \in Objects : ~ InUse(o)

\* Objects nobody points to after a step are gone (they are shared_ptrs).
Pointed(es) == [o \in Objects |->
  IF o = listed' \/ \E d \in Downloads : dl'[d].entry = o THEN es[o] ELSE Blank]

\* The first start of the program: no file, no index.
Init ==
  /\ server = 1
  /\ file = NoFile
  /\ entries = [o \in Objects |-> Blank]
  /\ listed = Nobody /\ saved = {}
  /\ timer = FALSE /\ saveFailed = FALSE /\ evicted = FALSE
  /\ dl = [d \in Downloads |-> Unused]

-----------------------------------------------------------------------------
(* HttpMetaCache *)

\* The tests of resolveEntry: the file is there and is unmodified, or has the
\* md5 of the entry.
Intact(e) == file.exists /\ (e.unmodified \/ e.md5 = file.data)

\* resolveEntry returns object o; its caller may then set the stale flag.  dl'
\* is given by then.
ResolveEntry(o, makeStale) ==
  IF listed # Nobody /\ Intact(entries[listed])
  THEN /\ o = listed
       /\ UNCHANGED listed
       /\ entries' = Pointed([entries EXCEPT ![o].unmodified = TRUE,
                                             ![o].stale = @ \/ makeStale])
  ELSE \* unknown, or disowned now: a default stale entry
       /\ o = NewObject
       /\ listed' = Nobody
       /\ entries' = Pointed([entries EXCEPT ![o] = Blank])

\* resolveEntry saves the new time of a file whose md5 matched.
Readopts(o) == o = listed /\ ~ entries[o].unmodified

\* Code that wants the file resolves its entry, may force a check by setting
\* the entry's stale flag, and makes a CacheDownload of it.
Request(d) ==
  /\ Released(d)
  /\ \E o \in Objects, makeStale \in BOOLEAN :
        /\ dl' = [dl EXCEPT ![d] = [Unused EXCEPT !.phase = "made", !.entry = o]]
        /\ ResolveEntry(o, makeStale)
        /\ timer' = (timer \/ Readopts(o))
  /\ UNCHANGED <<server, file, saved, saveFailed, evicted>>

\* The reader of the file cannot use it: evictEntry(resolveEntry(...)).
EvictEntry ==
  /\ UNCHANGED dl
  /\ \E o \in Objects : ResolveEntry(o, TRUE)
  /\ timer' = TRUE
  /\ evicted' = TRUE
  /\ UNCHANGED <<server, file, saved, saveFailed>>

\* Mutant: stale entries are saved too.
Live_Stale == IF listed # Nobody THEN {Record(entries[listed])} ELSE {}

\* What SaveNow writes: stale entries "are dead".
Live == IF listed # Nobody /\ ~ entries[listed].stale
        THEN {Record(entries[listed])} ELSE {}

SaveNow ==
  \/ saved' = Live /\ saveFailed' = FALSE
  \/ UNCHANGED saved /\ saveFailed' = TRUE

SaveTimeout ==
  /\ timer /\ timer' = FALSE
  /\ SaveNow
  /\ UNCHANGED <<server, file, entries, listed, evicted, dl>>

\* Load in the next process: entries of the index are "presumed innocent".
Load(onDisk) ==
  /\ dl' = [d \in Downloads |-> Unused]
  /\ timer' = FALSE
  /\ IF onDisk = {}
     THEN listed' = Nobody /\ entries' = [o \in Objects |-> Blank]
     ELSE \E r \in onDisk :
            /\ listed' = CHOOSE o \in Objects : TRUE
            /\ entries' = [o \in Objects |->
                 IF o = listed'
                 THEN [etag |-> r.etag, md5 |-> r.md5,
                       unmodified |-> r.unmodified, stale |-> FALSE]
                 ELSE Blank]

\* The destructor saves, the program ends and is started again.
Restart ==
  /\ SaveNow
  /\ Load(saved')
  /\ evicted' = (evicted /\ ~ saveFailed')
  /\ UNCHANGED <<server, file>>

\* The program is killed and started again; a QSaveFile leaves nothing.
Crash ==
  /\ Load(saved)
  /\ evicted' = FALSE
  /\ UNCHANGED <<server, file, saved, saveFailed>>

-----------------------------------------------------------------------------
(* CacheDownload *)

Stale(d) == entries[dl[d].entry].stale

\* Mutant: the validators are sent even when there is no file.
SentTag_Always(d) == entries[dl[d].entry].etag

\* If-None-Match, sent only if there is a file that is not empty.
SentTag(d) == IF file.exists /\ file.data # <<>>
              THEN entries[dl[d].entry].etag ELSE NoTag

\* The answer of the server to a request.
Answers(d) ==
  {[kind |-> "error", version |-> 0]}
    \cup IF dl[d].starts + 1 < MaxStarts THEN {[kind |-> "redirect", version |-> 0]} ELSE {}
    \cup IF SentTag(d) = server THEN {[kind |-> "notModified", version |-> server]}
         ELSE {[kind |-> "full", version |-> server]}

\* Mutant: the save file of the attempt before is continued.
NewSaveFile_Kept(d) == dl[d].buffer

NewSaveFile(d) == <<>>

\* start(): nothing to do, or no save file, or a request.  The digest and
\* wroteAnyData keep what earlier attempts left in them.
Start(d) ==
  \/ /\ ~ Stale(d)
     /\ dl' = [dl EXCEPT ![d] = [Unused EXCEPT !.phase = "succeeded"]]
  \/ /\ Stale(d)
     /\ dl' = [dl EXCEPT ![d].phase = "failed", ![d].starts = @ + 1]
  \/ /\ Stale(d)
     /\ \E r \in Answers(d) :
          dl' = [dl EXCEPT ![d].phase = "waiting", ![d].starts = @ + 1,
                           ![d].reply = r, ![d].got = 0,
                           ![d].buffer = NewSaveFile(d)]

\* Mutant: one retry too many.
CanStart_OneMore(d) ==
  dl[d].phase = "made" \/ (dl[d].phase = "failed" /\ dl[d].starts <= MaxStarts)

\* NetJob starts the download, and again after a failure.
CanStart(d) ==
  dl[d].phase = "made" \/ (dl[d].phase = "failed" /\ dl[d].starts < MaxStarts)

StartDownload(d) ==
  /\ CanStart(d)
  /\ Start(d)
  /\ UNCHANGED <<server, file, entries, listed, saved, timer, saveFailed, evicted>>

Waiting(d, kinds) == dl[d].phase = "waiting" /\ dl[d].reply.kind \in kinds

Complete(d) == dl[d].got = Len(Body(dl[d].reply))

\* downloadReadyRead
ReadyRead(d) ==
  /\ dl[d].phase = "waiting" /\ ~ Complete(d)
  /\ LET chunk == Body(dl[d].reply)[dl[d].got + 1]
     IN dl' = [dl EXCEPT ![d].got = @ + 1, ![d].wroteAnyData = TRUE,
                         ![d].buffer = Append(@, chunk),
                         ![d].digest = Append(@, chunk)]
  /\ UNCHANGED <<server, file, entries, listed, saved, timer, saveFailed, evicted>>

\* downloadReadyRead when the disk is full: the reply is aborted, which ends
\* in the failure branch of downloadFinished.
WriteFails(d) ==
  /\ Waiting(d, {"full", "error"}) /\ ~ Complete(d)
  /\ dl' = [dl EXCEPT ![d].phase = "failed", ![d].wroteAnyData = TRUE,
                      ![d].digest = Append(@, Body(dl[d].reply)[dl[d].got + 1])]
  /\ UNCHANGED <<server, file, entries, listed, saved, timer, saveFailed, evicted>>

\* downloadFinished of a redirect, whole or interrupted: start() again.
FollowRedirect(d) ==
  /\ Waiting(d, {"redirect"})
  /\ Start(d)
  /\ UNCHANGED <<server, file, entries, listed, saved, timer, saveFailed, evicted>>

\* downloadError, then the failure branch of downloadFinished.
NetworkError(d) ==
  /\ Waiting(d, {"full", "notModified", "error"})
  /\ dl' = [dl EXCEPT ![d].phase = "failed"]
  /\ UNCHANGED <<server, file, entries, listed, saved, timer, saveFailed, evicted>>

CommitFails(d) ==
  /\ Waiting(d, {"full", "notModified"}) /\ Complete(d) /\ dl[d].wroteAnyData
  /\ dl' = [dl EXCEPT ![d].phase = "failed"]
  /\ UNCHANGED <<server, file, entries, listed, saved, timer, saveFailed, evicted>>

Finished(d) == Waiting(d, {"full", "notModified"}) /\ Complete(d)

\* Mutant: the entry keeps the etag it had.
NewEntry_OldEtag(d) ==
  [etag       |-> entries[dl[d].entry].etag,
   md5        |-> IF dl[d].wroteAnyData THEN dl[d].digest ELSE entries[dl[d].entry].md5,
   unmodified |-> TRUE,
   stale      |-> FALSE]

\* The entry after a download: the etag of the reply, the time of the target.
NewEntry(d) ==
  [etag       |-> dl[d].reply.version,
   md5        |-> IF dl[d].wroteAnyData THEN dl[d].digest ELSE entries[dl[d].entry].md5,
   unmodified |-> TRUE,
   stale      |-> FALSE]

UpdateEntry(d) ==
  /\ listed' = dl[d].entry
  /\ timer' = TRUE

\* The success branch of downloadFinished: commit if anything was written
\* (by any attempt), fill in the entry, updateEntry.
Finish(d) ==
  /\ Finished(d)
  /\ dl' = [dl EXCEPT ![d] = [Unused EXCEPT !.phase = "succeeded"]]
  /\ UpdateEntry(d)
  /\ IF dl[d].wroteAnyData
     THEN /\ file' = [exists |-> TRUE, data |-> dl[d].buffer]
          /\ entries' = Pointed([Outdated(entries) EXCEPT ![dl[d].entry] = NewEntry(d)])
          /\ saved' = OutdatedDisk(saved)
     ELSE /\ entries' = Pointed([entries EXCEPT ![dl[d].entry] = NewEntry(d)])
          /\ UNCHANGED <<file, saved>>
  /\ evicted' = FALSE
  /\ UNCHANGED <<server, saveFailed>>

-----------------------------------------------------------------------------
(* The world *)

Publish ==
  /\ server < MaxVersion
  /\ server' = server + 1
  /\ UNCHANGED <<file, entries, listed, saved, timer, saveFailed, evicted, dl>>

\* The user changes or deletes the file, while no download of it is going on.
Meddle ==
  /\ Idle /\ file.exists
  /\ file' \in {NoFile, [exists |-> TRUE, data |-> Edited]}
  /\ entries' = Outdated(entries) /\ saved' = OutdatedDisk(saved)
  /\ UNCHANGED <<server, listed, timer, saveFailed, evicted, dl>>

Next ==
  \/ \E d \in Downloads :
       \/ Request(d) \/ StartDownload(d) \/ ReadyRead(d) \/ WriteFails(d)
       \/ FollowRedirect(d) \/ NetworkError(d) \/ CommitFails(d) \/ Finish(d)
  \/ EvictEntry \/ SaveTimeout \/ Restart \/ Crash
  \/ Publish \/ Meddle

Spec == Init /\ [][Next]_vars

-----------------------------------------------------------------------------
(* Properties *)

Chunk     == Nat \X Nat
Contents  == {<<>>, Edited} \cup {Full(v) : v \in Versions}

FileTyped ==
  /\ file \in [exists : BOOLEAN, data : Seq(Chunk)]
  /\ server \in Versions

EntriesTyped ==
  /\ entries \in [Objects -> [etag : {NoTag} \cup Versions, md5 : Seq(Chunk),
                              unmodified : BOOLEAN, stale : BOOLEAN]]
  /\ listed \in Objects \cup {Nobody}
  /\ saved \subseteq [etag : {NoTag} \cup Versions, md5 : Seq(Chunk), unmodified : BOOLEAN]
  /\ timer \in BOOLEAN /\ saveFailed \in BOOLEAN /\ evicted \in BOOLEAN

DownloadsTyped ==
  dl \in [Downloads ->
    [phase : {"unused", "made", "waiting", "failed", "succeeded"},
     entry : Objects \cup {Nobody}, starts : 0..MaxStarts,
     reply : [kind : {"none", "full", "notModified", "redirect", "error"},
              version : {0} \cup Versions],
     got : 0..2, buffer : Seq(Chunk), digest : Seq(Chunk), wroteAnyData : BOOLEAN]]

\* Every object named by the cache or a download is one of its objects.
TypeOK == FileTyped /\ EntriesTyped /\ DownloadsTyped

\* Whatever fails, is retried, redirected or killed, the target never holds a
\* part of a reply, the data of two replies or the page of an error: only a
\* whole version, what the user wrote, or nothing (start, downloadFinished).
WholeFile == file.data \in Contents

\* If resolveEntry would hand out a fresh entry for a file with content, the
\* file is the version of the entry's etag: the next conditional request asks
\* about the right data (downloadFinished, resolveEntry).  One download.
FreshEntryFits ==
  listed # Nobody /\ ~ entries[listed].stale /\ Intact(entries[listed])
    /\ file.data # <<>>
  => file.data = Full(entries[listed].etag)

\* The same of the index on disk, at any moment: a crash between the commit of
\* a file and SaveNow never revives an entry for a file it does not describe.
SavedIndexFits ==
  \A r \in saved : Intact(r) /\ file.data # <<>> => file.data = Full(r.etag)

\* A fresh entry is on disk, or the timer that will save it runs, or the last
\* save failed: no path of the code forgets to call SaveEventually.
NothingForgotten ==
  listed # Nobody /\ ~ entries[listed].stale =>
    timer \/ saveFailed \/ saved = {Record(entries[listed])}

\* What HttpMetaCache knows of the path is true of the file, in memory, on disk
\* after any crash, and none of it is left unsaved.
IndexFits == FreshEntryFits /\ SavedIndexFits /\ NothingForgotten

\* An evicted entry never becomes fresh again without a download, whatever is
\* resolved or saved, and the program restarted, in between (evictEntry).
EvictionHolds ==
  evicted => listed = Nobody \/ entries[listed].stale

\* A download that asked the server and reports success leaves the version the
\* server answered with.  A file that was emptied (by a 304 after an attempt
\* that wrote something, the case left out here) is fetched whole when it is
\* checked again, and a 304 is never the answer for a file that is not there
\* (start, downloadFinished).
SuccessIsCurrent ==
  [][ \A d \in Downloads :
        /\ Waiting(d, {"full", "notModified"}) /\ dl'[d].phase = "succeeded"
        /\ dl[d].reply.kind = "full" \/ ~ dl[d].wroteAnyData
        => file' = [exists |-> TRUE, data |-> Full(dl[d].reply.version)] ]_vars

=============================================================================
