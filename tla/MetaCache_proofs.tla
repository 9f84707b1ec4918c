--------------------------- MODULE MetaCache_proofs ---------------------------
(***************************************************************************)
(* Proofs that the download cache never leaves a broken file and never     *)
(* forgets an eviction or an entry, for any number of downloads, versions  *)
(* and retries; and, for downloads of the path that do not overlap, that   *)
(* an entry describes the file and success means the version of the reply. *)
(***************************************************************************)
EXTENDS MetaCache, FiniteSetTheorems, TLAPS

-----------------------------------------------------------------------------
(* The inductive invariant *)

Replies == [kind : {"none", "full", "notModified", "redirect", "error"},
            version : {0} \cup Versions]

DownloadRecords ==
  [phase : {"unused", "made", "waiting", "failed", "succeeded"},
   entry : Objects \cup {Nobody}, starts : 0..MaxStarts,
   reply : Replies, got : 0..2, buffer : Seq(Chunk), digest : Seq(Chunk),
   wroteAnyData : BOOLEAN]

\* A download that may still report has an entry and an attempt left, and its save
\* file holds what was read of the reply, from its beginning.
DownloadSound(r) ==
  /\ r.phase \in {"made", "waiting", "failed"} => r.entry \in Objects
  /\ r.phase = "made" => r.starts = 0
  /\ r.phase = "waiting" =>
       /\ r.got <= Len(Body(r.reply))
       /\ Len(r.buffer) = r.got
       /\ \A i \in 1..r.got : r.buffer[i] = Body(r.reply)[i]
       /\ r.reply.kind \in {"full", "notModified"} => r.reply.version \in Versions
       /\ r.reply.kind = "redirect" => r.starts < MaxStarts

DownloadsSound == \A d \in Downloads : DownloadSound(dl[d])

IInv == TypeOK /\ WholeFile /\ EvictionHolds /\ DownloadsSound

-----------------------------------------------------------------------------
(* Lemmas about data *)

\* What the constants give: versions and a bound of starts that are not 0, and
\* an object at least.
LEMMA Constants ==
  /\ MaxVersion \in Nat /\ MaxStarts \in Nat /\ 0 < MaxVersion /\ 0 < MaxStarts
  /\ Nobody \notin Objects
  /\ Objects # {}
<1>1. Cardinality(Downloads) \in Nat /\ Cardinality(Objects) > Cardinality(Downloads)
  BY MetaCacheAssumption, FS_CardinalityType DEF MetaCacheAssumption
<1>2. Objects # {}
  BY <1>1, FS_EmptySet
<1> QED BY <1>2, MetaCacheAssumption DEF MetaCacheAssumption

\* A body has at most two chunks, and that of a version is the whole of it.
LEMMA BodyTyped ==
  ASSUME NEW r \in Replies
  PROVE  /\ Body(r) \in Seq(Chunk) /\ Len(Body(r)) \in 0..2
         /\ r.kind = "full" => Body(r) = Full(r.version)
         /\ r.kind \in {"none", "notModified"} => Body(r) = <<>>
<1>1. r.version \in Nat
  BY Constants DEF Replies, Versions
<1>2. Full(r.version) \in Seq(Chunk) /\ Len(Full(r.version)) = 2
  BY <1>1 DEF Full, Chunk
<1>3. Junk \in Seq(Chunk) /\ Len(Junk) = 1
  BY DEF Junk, Chunk
<1>4. <<>> \in Seq(Chunk) /\ Len(<<>>) = 0
  OBVIOUS
<1>5. CASE r.kind = "full"
  BY <1>2, <1>5 DEF Body
<1>6. CASE r.kind \in {"redirect", "error"}
  BY <1>3, <1>6 DEF Body
<1>7. CASE r.kind \in {"none", "notModified"}
  BY <1>4, <1>7 DEF Body
<1> QED BY <1>5, <1>6, <1>7 DEF Replies

\* Entries that have only been changed in their fields, or forgotten, are entries.
EntryRecords == [etag : {NoTag} \cup Versions, md5 : Seq(Chunk),
                 unmodified : BOOLEAN, stale : BOOLEAN]

SavedRecords == [etag : {NoTag} \cup Versions, md5 : Seq(Chunk), unmodified : BOOLEAN]

LEMMA BlankTyped == Blank \in EntryRecords
<1>1. NoSum \in Seq(Chunk)
  BY DEF NoSum, Chunk
<1> QED BY <1>1 DEF Blank, EntryRecords

LEMMA PointedTyped ==
  ASSUME NEW es \in [Objects -> EntryRecords]
  PROVE  Pointed(es) \in [Objects -> EntryRecords]
BY BlankTyped DEF Pointed

LEMMA OutdatedTyped ==
  /\ \A es \in [Objects -> EntryRecords] : Outdated(es) \in [Objects -> EntryRecords]
  /\ \A rs \in SUBSET SavedRecords : OutdatedDisk(rs) \subseteq SavedRecords
<1>1. ASSUME NEW es \in [Objects -> EntryRecords], NEW o \in Objects
      PROVE  [es[o] EXCEPT !.unmodified = FALSE] \in EntryRecords
  BY DEF EntryRecords
<1>2. ASSUME NEW r \in SavedRecords
      PROVE  [r EXCEPT !.unmodified = FALSE] \in SavedRecords
  BY DEF SavedRecords
<1> QED BY <1>1, <1>2 DEF Outdated, OutdatedDisk

\* The type invariant in terms of the sets above.
LEMMA Typing ==
  /\ EntriesTyped <=> /\ entries \in [Objects -> EntryRecords]
                      /\ listed \in Objects \cup {Nobody}
                      /\ saved \subseteq SavedRecords
                      /\ timer \in BOOLEAN /\ saveFailed \in BOOLEAN /\ evicted \in BOOLEAN
  /\ DownloadsTyped <=> dl \in [Downloads -> DownloadRecords]
BY DEF EntriesTyped, DownloadsTyped, EntryRecords, SavedRecords, DownloadRecords, Replies

LEMMA UnusedTyped == Unused \in DownloadRecords /\ DownloadSound(Unused)
<1>1. NoReply \in Replies /\ <<>> \in Seq(Chunk) /\ 0 \in 0..MaxStarts
  BY Constants DEF NoReply, Replies
<1> QED BY <1>1 DEF Unused, DownloadRecords, DownloadSound

\* One download changes.
LEMMA OneDownload ==
  ASSUME IInv, NEW d \in Downloads, NEW r \in DownloadRecords, DownloadSound(r),
         dl' = [dl EXCEPT ![d] = r]
  PROVE  dl' \in [Downloads -> DownloadRecords] /\ DownloadsSound'
<1>1. dl \in [Downloads -> DownloadRecords] /\ DownloadsSound
  BY Typing DEF IInv, TypeOK
<1>2. \A e \in Downloads : dl'[e] = IF e = d THEN r ELSE dl[e]
  BY <1>1
<1>3. ASSUME NEW e \in Downloads PROVE DownloadSound(dl'[e])
  BY <1>1, <1>2 DEF DownloadsSound
<1>4. DownloadsSound'
  BY <1>3 DEF DownloadsSound
<1> QED BY <1>1, <1>4

-----------------------------------------------------------------------------
(* Steps of a download alone *)

\* What a download does to itself touches neither the file nor the cache.
LEMMA DownloadOnly ==
  ASSUME IInv, dl' \in [Downloads -> DownloadRecords], DownloadsSound',
         UNCHANGED <<server, file, entries, listed, saved, timer, saveFailed, evicted>>
  PROVE  IInv'
<1>1. TypeOK'
  <2>1. FileTyped' BY DEF IInv, TypeOK, FileTyped
  <2>2. EntriesTyped' BY DEF IInv, TypeOK, EntriesTyped
  <2>3. DownloadsTyped' BY Typing DEF DownloadsTyped, DownloadRecords, Replies
  <2> QED BY <2>1, <2>2, <2>3 DEF TypeOK
<1>2. WholeFile' /\ EvictionHolds'
  BY DEF IInv, WholeFile, EvictionHolds
<1> QED BY <1>1, <1>2 DEF IInv

\* A download that waits has the fields of its kind.
LEMMA Fields ==
  ASSUME IInv, NEW d \in Downloads
  PROVE  dl[d] \in DownloadRecords /\ DownloadSound(dl[d])
BY Typing DEF IInv, TypeOK, DownloadsSound

\* The record that start() makes.
SentRecord(q, n, a, g, b) ==
  [q EXCEPT !.phase = "waiting", !.starts = n, !.reply = a, !.got = g, !.buffer = b]

LEMMA Sent ==
  ASSUME NEW q \in DownloadRecords, NEW n \in 0..MaxStarts, NEW a \in Replies,
         NEW g \in 0..2, NEW b \in Seq(Chunk)
  PROVE  /\ SentRecord(q, n, a, g, b) \in DownloadRecords
         /\ SentRecord(q, n, a, g, b).phase = "waiting"
         /\ SentRecord(q, n, a, g, b).entry = q.entry
         /\ SentRecord(q, n, a, g, b).digest = q.digest
         /\ SentRecord(q, n, a, g, b).starts = n
         /\ SentRecord(q, n, a, g, b).reply = a
         /\ SentRecord(q, n, a, g, b).got = g
         /\ SentRecord(q, n, a, g, b).buffer = b
<1> DEFINE r == SentRecord(q, n, a, g, b)
           u == [q EXCEPT !.phase = "waiting", !.starts = n, !.reply = a]
<1>1. u \in DownloadRecords /\ u.phase = "waiting" /\ u.entry = q.entry
      /\ u.starts = n /\ u.reply = a /\ u.digest = q.digest
  BY DEF DownloadRecords
<1>2. r = [u EXCEPT !.got = g, !.buffer = b]
  BY DEF SentRecord
<1> HIDE DEF u, r
<1>3. r \in DownloadRecords /\ r.got = g /\ r.buffer = b
  BY <1>1, <1>2 DEF DownloadRecords
<1>4. r.phase = u.phase /\ r.entry = u.entry /\ r.starts = u.starts /\ r.reply = u.reply
      /\ r.digest = u.digest
  BY <1>1, <1>2 DEF DownloadRecords
<1> QED BY <1>1, <1>3, <1>4 DEF r

\* There is a next chunk until the body is read.
LEMMA NextChunk ==
  ASSUME NEW got \in 0..2, NEW length \in 0..2, got <= length, got # length
  PROVE  got + 1 \in 1..length /\ got + 1 \in 0..2
OBVIOUS

\* start() leaves a download that is done, has failed, or waits with an empty save file.
LEMMA StartIsSound ==
  ASSUME IInv, NEW d \in Downloads, Start(d),
         dl[d].entry \in Objects, dl[d].starts < MaxStarts
  PROVE  dl' \in [Downloads -> DownloadRecords] /\ DownloadsSound'
<1>1. dl[d] \in DownloadRecords /\ dl \in [Downloads -> DownloadRecords]
  BY Fields, Typing DEF IInv, TypeOK
<1>2. dl[d].starts + 1 \in 0..MaxStarts
  BY <1>1, Constants DEF DownloadRecords
<1>3. CASE dl' = [dl EXCEPT ![d] = [Unused EXCEPT !.phase = "succeeded"]]
  <2> DEFINE r == [Unused EXCEPT !.phase = "succeeded"]
  <2>1. r \in DownloadRecords /\ r.phase = "succeeded"
    BY UnusedTyped DEF DownloadRecords
  <2>2. DownloadSound(r)
    BY <2>1 DEF DownloadSound
  <2> HIDE DEF r
  <2> QED BY <1>3, <2>1, <2>2, OneDownload DEF r
<1>4. CASE dl' = [dl EXCEPT ![d].phase = "failed", ![d].starts = @ + 1]
  <2> DEFINE r == [dl[d] EXCEPT !.phase = "failed", !.starts = dl[d].starts + 1]
  <2>1. r \in DownloadRecords /\ r.phase = "failed" /\ r.entry \in Objects
    BY <1>1, <1>2 DEF DownloadRecords
  <2>2. DownloadSound(r)
    BY <2>1 DEF DownloadSound
  <2>3. dl' = [dl EXCEPT ![d] = r]
    BY <1>1, <1>4
  <2> HIDE DEF r
  <2> QED BY <2>1, <2>2, <2>3, OneDownload
<1>5. ASSUME NEW a \in Answers(d),
             dl' = [dl EXCEPT ![d].phase = "waiting", ![d].starts = @ + 1,
                              ![d].reply = a, ![d].got = 0, ![d].buffer = NewSaveFile(d)]
      PROVE  dl' \in [Downloads -> DownloadRecords] /\ DownloadsSound'
  <2> DEFINE r == [dl[d] EXCEPT !.phase = "waiting", !.starts = dl[d].starts + 1,
                                !.reply = a, !.got = 0, !.buffer = NewSaveFile(d)]
  <2>1. server \in Versions
    BY DEF IInv, TypeOK, FileTyped
  <2>2. /\ a \in Replies
        /\ a.kind \in {"full", "notModified"} => a.version \in Versions
        /\ a.kind = "redirect" => dl[d].starts + 1 < MaxStarts
    BY <2>1 DEF Answers, Replies
  <2>3. NewSaveFile(d) \in Seq(Chunk) /\ Len(NewSaveFile(d)) = 0
    BY DEF NewSaveFile
  <2>4. r \in DownloadRecords /\ r.phase = "waiting" /\ r.entry = dl[d].entry
        /\ r.starts = dl[d].starts + 1 /\ r.reply = a /\ r.got = 0 /\ r.buffer = NewSaveFile(d)
    <3> DEFINE q == dl[d]
               n == dl[d].starts + 1
               g == 0
               b == NewSaveFile(d)
    <3>1. q \in DownloadRecords /\ n \in 0..MaxStarts /\ a \in Replies
          /\ g \in 0..2 /\ b \in Seq(Chunk)
      BY <1>1, <1>2, <2>2, <2>3
    <3>2. r = SentRecord(q, n, a, g, b)
      BY DEF SentRecord
    <3> HIDE DEF r, q, n, g, b
    <3>3. /\ r \in DownloadRecords /\ r.phase = "waiting" /\ r.entry = q.entry
          /\ r.starts = n /\ r.reply = a /\ r.got = g /\ r.buffer = b
      BY <3>1, <3>2, Sent
    <3> QED BY <3>3 DEF q, n, g, b
  <2>5. Len(Body(a)) \in 0..2
    BY <2>2, BodyTyped
  <2> HIDE DEF r
  <2>6. DownloadSound(r)
    BY <2>2, <2>3, <2>4, <2>5 DEF DownloadSound
  <2>7. dl' = [dl EXCEPT ![d] = r]
    BY <1>1, <1>5 DEF r
  <2> QED BY <2>4, <2>6, <2>7, OneDownload
<1> QED BY <1>3, <1>4, <1>5 DEF Start

\* StartDownload keeps the invariant.
LEMMA StartDownloadStep ==
  ASSUME IInv, NEW d \in Downloads, StartDownload(d)
  PROVE  IInv'
<1>1. dl[d].entry \in Objects /\ dl[d].starts < MaxStarts
  BY Fields, Constants DEF StartDownload, CanStart, DownloadSound
<1> QED BY <1>1, StartIsSound, DownloadOnly DEF StartDownload

\* FollowRedirect keeps the invariant.
LEMMA FollowRedirectStep ==
  ASSUME IInv, NEW d \in Downloads, FollowRedirect(d)
  PROVE  IInv'
<1>1. dl[d].entry \in Objects /\ dl[d].starts < MaxStarts
  BY Fields DEF FollowRedirect, Waiting, DownloadSound
<1> QED BY <1>1, StartIsSound, DownloadOnly DEF FollowRedirect

\* ReadyRead keeps the invariant: the next chunk of the reply is put behind those
\* that were read.
LEMMA ReadyReadStep ==
  ASSUME IInv, NEW d \in Downloads, ReadyRead(d)
  PROVE  IInv'
<1> DEFINE body == Body(dl[d].reply)
           chunk == body[dl[d].got + 1]
           r == [dl[d] EXCEPT !.got = dl[d].got + 1, !.wroteAnyData = TRUE,
                              !.buffer = Append(dl[d].buffer, chunk),
                              !.digest = Append(dl[d].digest, chunk)]
<1>1. dl[d] \in DownloadRecords /\ DownloadSound(dl[d]) /\ dl[d].phase = "waiting"
      /\ dl[d].got # Len(body) /\ dl \in [Downloads -> DownloadRecords]
  BY Fields, Typing DEF ReadyRead, Complete, IInv, TypeOK
<1>2. body \in Seq(Chunk) /\ Len(body) \in 0..2
  BY <1>1, BodyTyped DEF DownloadRecords
<1>3. /\ dl[d].got \in 0..2 /\ dl[d].buffer \in Seq(Chunk) /\ dl[d].digest \in Seq(Chunk)
      /\ dl[d].got <= Len(body) /\ Len(dl[d].buffer) = dl[d].got
      /\ \A i \in 1..dl[d].got : dl[d].buffer[i] = body[i]
  BY <1>1 DEF DownloadRecords, DownloadSound
<1>4. dl' = [dl EXCEPT ![d] = r]
  BY <1>1 DEF ReadyRead
<1> HIDE DEF body
<1>5. dl[d].got + 1 \in 1..Len(body) /\ dl[d].got + 1 \in 0..2
  <2>1. dl[d].got \in 0..2 /\ Len(body) \in 0..2 /\ dl[d].got <= Len(body) /\ dl[d].got # Len(body)
    BY <1>1, <1>2, <1>3
  <2> QED BY <2>1, NextChunk
<1>6. chunk \in Chunk
  BY <1>2, <1>5
<1> HIDE DEF chunk
<1>7. /\ Append(dl[d].buffer, chunk) \in Seq(Chunk) /\ Append(dl[d].digest, chunk) \in Seq(Chunk)
      /\ Len(Append(dl[d].buffer, chunk)) = dl[d].got + 1
      /\ \A i \in 1..dl[d].got : Append(dl[d].buffer, chunk)[i] = dl[d].buffer[i]
      /\ Append(dl[d].buffer, chunk)[dl[d].got + 1] = chunk
  BY <1>3, <1>6
<1>8. /\ r \in DownloadRecords
      /\ r.phase = "waiting" /\ r.entry = dl[d].entry /\ r.starts = dl[d].starts
      /\ r.reply = dl[d].reply /\ r.got = dl[d].got + 1
      /\ r.buffer = Append(dl[d].buffer, chunk)
  <2> DEFINE q == dl[d]
             g == dl[d].got + 1
             b == Append(dl[d].buffer, chunk)
             h == Append(dl[d].digest, chunk)
  <2> DEFINE u == [q EXCEPT !.got = g, !.wroteAnyData = TRUE]
  <2>1. q \in DownloadRecords /\ g \in 0..2 /\ b \in Seq(Chunk) /\ h \in Seq(Chunk)
    BY <1>1, <1>5, <1>7
  <2>2. r = [u EXCEPT !.buffer = b, !.digest = h]
    OBVIOUS
  <2> HIDE DEF r, q, g, b, h
  <2>3. u \in DownloadRecords /\ u.got = g
    BY <2>1 DEF DownloadRecords
  <2>4. u.phase = q.phase /\ u.entry = q.entry /\ u.starts = q.starts /\ u.reply = q.reply
    BY <2>1 DEF DownloadRecords
  <2> HIDE DEF u
  <2>5. r \in DownloadRecords /\ r.buffer = b
    BY <2>1, <2>2, <2>3 DEF DownloadRecords
  <2>6. r.phase = u.phase /\ r.entry = u.entry /\ r.starts = u.starts /\ r.reply = u.reply
        /\ r.got = u.got
    BY <2>2, <2>3 DEF DownloadRecords
  <2> QED BY <1>1, <2>3, <2>4, <2>5, <2>6 DEF q, g, b
<1> HIDE DEF r
<1>9. \A i \in 1..r.got : r.buffer[i] = body[i]
  BY <1>3, <1>7, <1>8 DEF chunk
<1>10. DownloadSound(r)
  BY <1>1, <1>2, <1>3, <1>5, <1>7, <1>8, <1>9 DEF DownloadSound, body
<1> QED BY <1>4, <1>8, <1>10, OneDownload, DownloadOnly DEF ReadyRead

\* The failures of a download keep the invariant.
LEMMA FailureStep ==
  ASSUME IInv, NEW d \in Downloads, WriteFails(d) \/ NetworkError(d) \/ CommitFails(d)
  PROVE  IInv'
<1>1. dl[d] \in DownloadRecords /\ DownloadSound(dl[d]) /\ dl[d].phase = "waiting"
      /\ dl \in [Downloads -> DownloadRecords]
  BY Fields, Typing DEF WriteFails, NetworkError, CommitFails, Waiting, IInv, TypeOK
<1>2. dl[d].entry \in Objects
  BY <1>1 DEF DownloadSound
<1>3. CASE WriteFails(d)
  <2> DEFINE body == Body(dl[d].reply)
             chunk == body[dl[d].got + 1]
             r == [dl[d] EXCEPT !.phase = "failed", !.wroteAnyData = TRUE,
                                !.digest = Append(dl[d].digest, chunk)]
  <2>1. body \in Seq(Chunk) /\ Len(body) \in 0..2
    BY <1>1, BodyTyped DEF DownloadRecords
  <2>2. dl[d].got + 1 \in 1..Len(body)
    BY <1>1, <1>3, <2>1 DEF WriteFails, Complete, DownloadRecords, DownloadSound
  <2>3. chunk \in Chunk
    BY <2>1, <2>2
  <2>4. dl' = [dl EXCEPT ![d] = r]
    BY <1>1, <1>3 DEF WriteFails
  <2> HIDE DEF chunk
  <2>5. Append(dl[d].digest, chunk) \in Seq(Chunk)
    BY <1>1, <2>3 DEF DownloadRecords
  <2>6. r \in DownloadRecords /\ r.phase = "failed" /\ r.entry \in Objects
    BY <1>1, <1>2, <2>5 DEF DownloadRecords
  <2> HIDE DEF r
  <2>7. DownloadSound(r)
    BY <2>6 DEF DownloadSound
  <2> QED BY <1>3, <2>4, <2>6, <2>7, OneDownload, DownloadOnly DEF WriteFails
<1>4. CASE NetworkError(d) \/ CommitFails(d)
  <2> DEFINE r == [dl[d] EXCEPT !.phase = "failed"]
  <2>1. dl' = [dl EXCEPT ![d] = r]
    BY <1>1, <1>4 DEF NetworkError, CommitFails
  <2>2. r \in DownloadRecords /\ r.phase = "failed" /\ r.entry \in Objects
    BY <1>1, <1>2 DEF DownloadRecords
  <2> HIDE DEF r
  <2>3. DownloadSound(r)
    BY <2>2 DEF DownloadSound
  <2> QED BY <1>4, <2>1, <2>2, <2>3, OneDownload, DownloadOnly DEF NetworkError, CommitFails
<1> QED BY <1>3, <1>4

\* Finish keeps the invariant: what is committed is the whole body of a version, or
\* nothing, since the save file holds the whole reply, which is no redirect or error.
LEMMA FinishStep ==
  ASSUME IInv, NEW d \in Downloads, Finish(d)
  PROVE  IInv'
<1>1. dl[d] \in DownloadRecords /\ DownloadSound(dl[d]) /\ dl \in [Downloads -> DownloadRecords]
      /\ dl[d].phase = "waiting" /\ dl[d].reply.kind \in {"full", "notModified"}
      /\ dl[d].got = Len(Body(dl[d].reply))
  BY Fields, Typing DEF Finish, Finished, Waiting, Complete, IInv, TypeOK
<1>2. dl[d].reply \in Replies /\ dl[d].reply.version \in Versions /\ dl[d].entry \in Objects
      /\ dl[d].buffer \in Seq(Chunk) /\ dl[d].digest \in Seq(Chunk)
  BY <1>1 DEF DownloadRecords, DownloadSound
<1>3. dl[d].buffer \in Contents
  <2> DEFINE b == dl[d].buffer
             body == Body(dl[d].reply)
  <2>1. b \in Seq(Chunk) /\ body \in Seq(Chunk) /\ Len(b) = Len(body)
        /\ \A i \in 1..Len(body) : b[i] = body[i]
    BY <1>1, <1>2, BodyTyped DEF DownloadSound
  <2>2. body = <<>> \/ body = Full(dl[d].reply.version)
    BY <1>1, <1>2, BodyTyped
  <2> HIDE DEF b, body
  <2>3. b = body
    BY <2>1
  <2> QED BY <1>2, <2>2, <2>3 DEF b, Contents
<1>4. dl' \in [Downloads -> DownloadRecords] /\ DownloadsSound'
  <2> DEFINE r == [Unused EXCEPT !.phase = "succeeded"]
  <2>1. r \in DownloadRecords /\ r.phase = "succeeded"
    BY UnusedTyped DEF DownloadRecords
  <2>2. DownloadSound(r)
    BY <2>1 DEF DownloadSound
  <2>3. dl' = [dl EXCEPT ![d] = r]
    BY DEF Finish
  <2> HIDE DEF r
  <2> QED BY <2>1, <2>2, <2>3, OneDownload
<1>5. entries \in [Objects -> EntryRecords] /\ saved \subseteq SavedRecords
      /\ saveFailed \in BOOLEAN /\ file \in [exists : BOOLEAN, data : Seq(Chunk)]
      /\ server \in Versions
  BY Typing DEF IInv, TypeOK, FileTyped
<1>6. NewEntry(d) \in EntryRecords
  <2>1. entries[dl[d].entry].md5 \in Seq(Chunk)
    BY <1>2, <1>5 DEF EntryRecords
  <2>2. (IF dl[d].wroteAnyData THEN dl[d].digest ELSE entries[dl[d].entry].md5) \in Seq(Chunk)
    BY <1>2, <2>1
  <2> QED BY <1>2, <2>2 DEF NewEntry, EntryRecords
<1>7. entries' \in [Objects -> EntryRecords]
  <2> DEFINE new == NewEntry(d)
             o == dl[d].entry
  <2>1. [Outdated(entries) EXCEPT ![o] = new] \in [Objects -> EntryRecords]
    BY <1>5, <1>6, OutdatedTyped
  <2>2. [entries EXCEPT ![o] = new] \in [Objects -> EntryRecords]
    BY <1>5, <1>6
  <2>3. \/ entries' = Pointed([Outdated(entries) EXCEPT ![o] = new])
        \/ entries' = Pointed([entries EXCEPT ![o] = new])
    BY DEF Finish
  <2> HIDE DEF new, o
  <2> QED BY <2>1, <2>2, <2>3, PointedTyped
<1>8. saved' \subseteq SavedRecords
  BY <1>5, OutdatedTyped DEF Finish
<1>9. file' \in [exists : BOOLEAN, data : Seq(Chunk)] /\ file'.data \in Contents
  <2>1. CASE dl[d].wroteAnyData
    <3>1. file' = [exists |-> TRUE, data |-> dl[d].buffer]
      BY <2>1 DEF Finish
    <3> QED BY <1>2, <1>3, <3>1
  <2>2. CASE ~ dl[d].wroteAnyData
    BY <1>5, <2>2 DEF Finish, IInv, WholeFile
  <2> QED BY <2>1, <2>2
<1>10. /\ listed' \in Objects /\ timer' \in BOOLEAN /\ evicted' = FALSE
       /\ server' = server /\ saveFailed' = saveFailed
  BY <1>2 DEF Finish, UpdateEntry
<1>11. TypeOK'
  <2>1. FileTyped'
    BY <1>5, <1>9, <1>10 DEF FileTyped
  <2>2. EntriesTyped'
    BY <1>5, <1>7, <1>8, <1>10 DEF EntriesTyped, EntryRecords, SavedRecords
  <2>3. DownloadsTyped'
    BY <1>4 DEF DownloadsTyped, DownloadRecords, Replies
  <2> QED BY <2>1, <2>2, <2>3 DEF TypeOK
<1> QED BY <1>4, <1>9, <1>10, <1>11 DEF IInv, WholeFile, EvictionHolds

-----------------------------------------------------------------------------
(* Steps of the cache, of the program and of the world *)

\* A step that leaves the file alone.
LEMMA CacheStep ==
  ASSUME IInv, UNCHANGED <<server, file>>,
         entries' \in [Objects -> EntryRecords], listed' \in Objects \cup {Nobody},
         saved' \subseteq SavedRecords,
         timer' \in BOOLEAN, saveFailed' \in BOOLEAN, evicted' \in BOOLEAN,
         dl' \in [Downloads -> DownloadRecords], DownloadsSound', EvictionHolds'
  PROVE  IInv'
<1>1. FileTyped' /\ WholeFile'
  BY DEF IInv, TypeOK, FileTyped, WholeFile
<1>2. EntriesTyped'
  BY DEF EntriesTyped, EntryRecords, SavedRecords
<1>3. DownloadsTyped'
  BY DEF DownloadsTyped, DownloadRecords, Replies
<1> QED BY <1>1, <1>2, <1>3 DEF IInv, TypeOK

\* The parts of the type invariant for the cache.
LEMMA Cache ==
  ASSUME IInv
  PROVE  /\ entries \in [Objects -> EntryRecords] /\ listed \in Objects \cup {Nobody}
         /\ saved \subseteq SavedRecords
         /\ timer \in BOOLEAN /\ saveFailed \in BOOLEAN /\ evicted \in BOOLEAN
         /\ dl \in [Downloads -> DownloadRecords] /\ DownloadsSound
BY Typing DEF IInv, TypeOK

\* resolveEntry never makes a stale entry fresh; it leaves one that is stale when
\* the entry was stale or is made so, or none.
LEMMA ResolveIsSound ==
  ASSUME IInv, NEW o \in Objects, NEW makeStale \in BOOLEAN, ResolveEntry(o, makeStale)
  PROVE  /\ entries' \in [Objects -> EntryRecords] /\ listed' \in Objects \cup {Nobody}
         /\ makeStale \/ evicted => listed' = Nobody \/ entries'[listed'].stale
<1>1. entries \in [Objects -> EntryRecords] /\ evicted \in BOOLEAN
  BY Cache
<1>2. CASE listed # Nobody /\ Intact(entries[listed])
  <2> DEFINE e == [entries[o] EXCEPT !.unmodified = TRUE, !.stale = @ \/ makeStale]
             es == [entries EXCEPT ![o] = e]
  <2>1. o = listed /\ listed' = listed
        /\ entries' = Pointed([entries EXCEPT ![o].unmodified = TRUE,
                                              ![o].stale = @ \/ makeStale])
    BY <1>2 DEF ResolveEntry
  <2>2. [entries EXCEPT ![o].unmodified = TRUE, ![o].stale = @ \/ makeStale] = es
    BY <1>1
  <2>3. entries[o] \in EntryRecords
    BY <1>1
  <2>4. e.stale = (entries[o].stale \/ makeStale) /\ e \in EntryRecords
    BY <2>3 DEF EntryRecords
  <2> HIDE DEF e
  <2>5. es \in [Objects -> EntryRecords] /\ es[o] = e
    BY <1>1, <2>4
  <2> HIDE DEF es
  <2>6. entries' \in [Objects -> EntryRecords]
    BY <2>1, <2>2, <2>5, PointedTyped
  <2>7. entries'[listed'] = e
    BY <2>1, <2>2, <2>5 DEF Pointed
  <2>8. evicted => entries[o].stale
    BY <1>2, <2>1 DEF IInv, EvictionHolds
  <2> QED BY <2>1, <2>4, <2>6, <2>7, <2>8
<1>3. CASE ~ (listed # Nobody /\ Intact(entries[listed]))
  <2>1. listed' = Nobody /\ entries' = Pointed([entries EXCEPT ![o] = Blank])
    BY <1>3 DEF ResolveEntry
  <2>2. [entries EXCEPT ![o] = Blank] \in [Objects -> EntryRecords]
    BY <1>1, BlankTyped
  <2> QED BY <2>1, <2>2, PointedTyped
<1> QED BY <1>2, <1>3

\* Request keeps the invariant.
LEMMA RequestStep ==
  ASSUME IInv, NEW d \in Downloads, Request(d)
  PROVE  IInv'
<1>1. PICK o \in Objects, makeStale \in BOOLEAN :
        /\ dl' = [dl EXCEPT ![d] = [Unused EXCEPT !.phase = "made", !.entry = o]]
        /\ ResolveEntry(o, makeStale)
        /\ timer' = (timer \/ Readopts(o))
  BY DEF Request
<1>2. UNCHANGED <<server, file, saved, saveFailed, evicted>>
  BY DEF Request
<1>3. dl' \in [Downloads -> DownloadRecords] /\ DownloadsSound'
  <2> DEFINE r == [Unused EXCEPT !.phase = "made", !.entry = o]
  <2>1. r \in DownloadRecords /\ r.phase = "made" /\ r.entry = o
    BY UnusedTyped DEF DownloadRecords
  <2>2. r.starts = 0
    BY DEF Unused
  <2> HIDE DEF r
  <2>3. DownloadSound(r)
    BY <2>1, <2>2 DEF DownloadSound
  <2> QED BY <1>1, <2>1, <2>3, OneDownload DEF r
<1>4. /\ entries' \in [Objects -> EntryRecords] /\ listed' \in Objects \cup {Nobody}
      /\ evicted => listed' = Nobody \/ entries'[listed'].stale
  BY <1>1, ResolveIsSound
<1>5. saved' \subseteq SavedRecords /\ saveFailed' \in BOOLEAN /\ evicted' \in BOOLEAN
      /\ evicted' = evicted /\ UNCHANGED <<server, file>>
  BY <1>2, Cache
<1>6. timer' \in BOOLEAN
  BY <1>1, Cache
<1>7. EvictionHolds'
  BY <1>4, <1>5 DEF EvictionHolds
<1> QED BY <1>3, <1>4, <1>5, <1>6, <1>7, CacheStep

\* EvictEntry keeps the invariant.
LEMMA EvictEntryStep ==
  ASSUME IInv, EvictEntry
  PROVE  IInv'
<1>1. PICK o \in Objects : ResolveEntry(o, TRUE)
  BY DEF EvictEntry
<1>2. /\ entries' \in [Objects -> EntryRecords] /\ listed' \in Objects \cup {Nobody}
      /\ listed' = Nobody \/ entries'[listed'].stale
  BY <1>1, ResolveIsSound
<1>3. UNCHANGED <<server, file, saved, saveFailed, dl>> /\ timer' = TRUE /\ evicted' = TRUE
  BY DEF EvictEntry
<1>4. DownloadsSound' /\ dl' \in [Downloads -> DownloadRecords]
  BY <1>3, Cache DEF DownloadsSound
<1>5. EvictionHolds'
  BY <1>2 DEF EvictionHolds
<1>6. saved' \subseteq SavedRecords /\ saveFailed' \in BOOLEAN
  BY <1>3, Cache
<1> QED BY <1>2, <1>3, <1>4, <1>5, <1>6, CacheStep

\* What SaveNow leaves in the index on disk.
LEMMA SavedIsTyped ==
  ASSUME IInv, SaveNow
  PROVE  saved' \subseteq SavedRecords /\ saveFailed' \in BOOLEAN
<1>1. listed # Nobody => Record(entries[listed]) \in SavedRecords
  <2>1. listed # Nobody => entries[listed] \in EntryRecords
    BY Cache
  <2> QED BY <2>1 DEF Record, EntryRecords, SavedRecords
<1>2. Live \subseteq SavedRecords
  BY <1>1 DEF Live
<1> QED BY <1>2, Cache DEF SaveNow

\* SaveTimeout keeps the invariant.
LEMMA SaveTimeoutStep ==
  ASSUME IInv, SaveTimeout
  PROVE  IInv'
<1>1. UNCHANGED <<server, file, entries, listed, evicted, dl>> /\ timer' = FALSE /\ SaveNow
  BY DEF SaveTimeout
<1>2. DownloadsSound' /\ EvictionHolds'
  BY <1>1, Cache DEF DownloadsSound, EvictionHolds, IInv
<1> QED BY <1>1, <1>2, Cache, SavedIsTyped, CacheStep

\* What the next process has loaded from an index.
LEMMA LoadIsSound ==
  ASSUME IInv, NEW onDisk \in SUBSET SavedRecords, Load(onDisk)
  PROVE  /\ entries' \in [Objects -> EntryRecords] /\ listed' \in Objects \cup {Nobody}
         /\ dl' \in [Downloads -> DownloadRecords] /\ DownloadsSound'
         /\ timer' = FALSE
         /\ onDisk = {} => listed' = Nobody
<1>1. dl' = [d \in Downloads |-> Unused] /\ timer' = FALSE
  BY DEF Load
<1>2. dl' \in [Downloads -> DownloadRecords] /\ DownloadsSound'
  BY <1>1, UnusedTyped DEF DownloadsSound
<1>3. CASE onDisk = {}
  <2>1. listed' = Nobody /\ entries' = [o \in Objects |-> Blank]
    BY <1>3 DEF Load
  <2> QED BY <1>1, <1>2, <1>3, <2>1, BlankTyped
<1>4. CASE onDisk # {}
  <2>1. PICK r \in onDisk :
          /\ listed' = CHOOSE o \in Objects : TRUE
          /\ entries' = [o \in Objects |->
               IF o = listed'
               THEN [etag |-> r.etag, md5 |-> r.md5,
                     unmodified |-> r.unmodified, stale |-> FALSE]
               ELSE Blank]
    BY <1>4 DEF Load
  <2>2. [etag |-> r.etag, md5 |-> r.md5, unmodified |-> r.unmodified, stale |-> FALSE]
          \in EntryRecords
    BY DEF SavedRecords, EntryRecords
  <2>3. listed' \in Objects
    BY <2>1, Constants
  <2> QED BY <1>1, <1>2, <1>4, <2>1, <2>2, <2>3, BlankTyped
<1> QED BY <1>3, <1>4

\* Restart keeps the invariant: an entry that was evicted is not in the index, unless
\* that could not be saved.
LEMMA RestartStep ==
  ASSUME IInv, Restart
  PROVE  IInv'
<1>1. SaveNow /\ Load(saved') /\ evicted' = (evicted /\ ~ saveFailed')
      /\ UNCHANGED <<server, file>>
  BY DEF Restart
<1>2. saved' \subseteq SavedRecords /\ saveFailed' \in BOOLEAN
  BY <1>1, SavedIsTyped
<1>3. /\ entries' \in [Objects -> EntryRecords] /\ listed' \in Objects \cup {Nobody}
      /\ dl' \in [Downloads -> DownloadRecords] /\ DownloadsSound'
      /\ timer' = FALSE /\ (saved' = {} => listed' = Nobody)
  BY <1>1, <1>2, LoadIsSound
<1>4. evicted' \in BOOLEAN
  BY <1>1, <1>2, Cache
<1>5. EvictionHolds'
  <2>1. ASSUME evicted' PROVE saved' = {}
    <3>1. evicted /\ saved' = Live
      BY <1>1, <2>1 DEF SaveNow
    <3>2. listed = Nobody \/ entries[listed].stale
      BY <3>1 DEF IInv, EvictionHolds
    <3> QED BY <3>1, <3>2 DEF Live
  <2> QED BY <1>3, <2>1 DEF EvictionHolds
<1> QED BY <1>1, <1>2, <1>3, <1>4, <1>5, CacheStep

\* Crash keeps the invariant.
LEMMA CrashStep ==
  ASSUME IInv, Crash
  PROVE  IInv'
<1>1. Load(saved) /\ evicted' = FALSE /\ UNCHANGED <<server, file, saved, saveFailed>>
  BY DEF Crash
<1>2. /\ entries' \in [Objects -> EntryRecords] /\ listed' \in Objects \cup {Nobody}
      /\ dl' \in [Downloads -> DownloadRecords] /\ DownloadsSound' /\ timer' = FALSE
  BY <1>1, Cache, LoadIsSound
<1>3. EvictionHolds'
  BY <1>1 DEF EvictionHolds
<1> QED BY <1>1, <1>2, <1>3, Cache, CacheStep

\* The server publishes, or the user changes or deletes the file.
LEMMA WorldStep ==
  ASSUME IInv, Publish \/ Meddle
  PROVE  IInv'
<1>1. FileTyped' /\ file'.data \in Contents
  <2>1. CASE Publish
    <3>1. server \in Versions /\ server < MaxVersion
      BY <2>1 DEF Publish, IInv, TypeOK, FileTyped
    <3>2. server + 1 \in Versions
      BY <3>1, Constants DEF Versions
    <3> QED BY <2>1, <3>2 DEF Publish, IInv, TypeOK, FileTyped, WholeFile
  <2>2. CASE Meddle
    <3>1. Edited \in Seq(Chunk) /\ <<>> \in Seq(Chunk)
      BY DEF Edited, Chunk
    <3>2. file' = NoFile \/ file' = [exists |-> TRUE, data |-> Edited]
      BY <2>2 DEF Meddle
    <3>3. file' \in [exists : BOOLEAN, data : Seq(Chunk)]
      <4>1. \A b \in BOOLEAN : \A c \in Seq(Chunk) :
              [exists |-> b, data |-> c] \in [exists : BOOLEAN, data : Seq(Chunk)]
        OBVIOUS
      <4>2. NoFile \in [exists : BOOLEAN, data : Seq(Chunk)]
        BY <3>1, <4>1, Zenon DEF NoFile
      <4>3. [exists |-> TRUE, data |-> Edited] \in [exists : BOOLEAN, data : Seq(Chunk)]
        BY <3>1, <4>1, Zenon
      <4> QED BY <3>2, <4>2, <4>3, Zenon
    <3>4. file'.data \in {<<>>, Edited}
      BY <3>2 DEF NoFile
    <3> QED BY <2>2, <3>3, <3>4 DEF Meddle, IInv, TypeOK, FileTyped, Contents
  <2> QED BY <2>1, <2>2
<1>2. UNCHANGED <<listed, timer, saveFailed, evicted, dl>>
  BY DEF Publish, Meddle
<1>3. entries' \in [Objects -> EntryRecords] /\ saved' \subseteq SavedRecords
  BY Cache, OutdatedTyped DEF Publish, Meddle
<1>4. EvictionHolds'
  <2>1. listed # Nobody => entries'[listed].stale = entries[listed].stale
    <3>1. CASE Publish
      BY <3>1 DEF Publish
    <3>2. CASE Meddle
      <4>1. \A o \in Objects : Outdated(entries)[o] = [entries[o] EXCEPT !.unmodified = FALSE]
        BY DEF Outdated
      <4>2. \A o \in Objects : Outdated(entries)[o].stale = entries[o].stale
        BY <4>1, Cache DEF EntryRecords
      <4> QED BY <3>2, <4>2, Cache DEF Meddle
    <3> QED BY <3>1, <3>2
  <2> QED BY <1>2, <2>1 DEF IInv, EvictionHolds
<1>5. EntriesTyped'
  BY <1>2, <1>3, Cache DEF EntriesTyped, EntryRecords, SavedRecords
<1>6. DownloadsTyped' /\ DownloadsSound'
  BY <1>2, Cache DEF DownloadsTyped, DownloadRecords, Replies, DownloadsSound
<1> QED BY <1>1, <1>4, <1>5, <1>6 DEF IInv, TypeOK, WholeFile

\* The program starts in the inductive invariant.
LEMMA Beginning ==
  ASSUME Init
  PROVE  IInv
<1>1. FileTyped /\ WholeFile
  <2>1. 1 \in Versions /\ <<>> \in Seq(Chunk)
    BY Constants DEF Versions
  <2> QED BY <2>1 DEF Init, FileTyped, NoFile, WholeFile, Contents
<1>2. entries \in [Objects -> EntryRecords] /\ dl \in [Downloads -> DownloadRecords]
      /\ DownloadsSound
  BY BlankTyped, UnusedTyped DEF Init, DownloadsSound
<1>3. EntriesTyped /\ DownloadsTyped
  BY <1>2, Typing DEF Init
<1> QED BY <1>1, <1>2, <1>3 DEF Init, IInv, TypeOK, EvictionHolds

\* Every step keeps it.
LEMMA EveryStep ==
  ASSUME IInv, [Next]_vars
  PROVE  IInv'
<1>1. CASE UNCHANGED vars
  <2>1. UNCHANGED <<server, file, entries, listed, saved, timer, saveFailed, evicted, dl>>
    BY <1>1 DEF vars
  <2>2. DownloadsSound' /\ dl' \in [Downloads -> DownloadRecords]
    BY <2>1, Cache DEF DownloadsSound
  <2> QED BY <2>1, <2>2, DownloadOnly
<1>2. ASSUME NEW d \in Downloads, Request(d) \/ StartDownload(d) \/ ReadyRead(d)
      PROVE  IInv'
  BY <1>2, RequestStep, StartDownloadStep, ReadyReadStep
<1>3. ASSUME NEW d \in Downloads, WriteFails(d) \/ NetworkError(d) \/ CommitFails(d)
      PROVE  IInv'
  BY <1>3, FailureStep
<1>4. ASSUME NEW d \in Downloads, FollowRedirect(d) \/ Finish(d)
      PROVE  IInv'
  BY <1>4, FollowRedirectStep, FinishStep
<1>5. CASE EvictEntry
  BY <1>5, EvictEntryStep
<1>6. CASE SaveTimeout
  BY <1>6, SaveTimeoutStep
<1>7. CASE Restart
  BY <1>7, RestartStep
<1>8. CASE Crash
  BY <1>8, CrashStep
<1>9. CASE Publish \/ Meddle
  BY <1>9, WorldStep
<1> QED BY <1>1, <1>2, <1>3, <1>4, <1>5, <1>6, <1>7, <1>8, <1>9 DEF Next

-----------------------------------------------------------------------------
(* The index: nothing is left unsaved *)

SavedOne == \A r, s \in saved : r = s

\* The index on disk has one record at most, and a fresh entry is there, or will be,
\* or could not be written.
Remembered == SavedOne /\ NothingForgotten

\* What a download does to itself, and a release of the server, touch no entry.
LEMMA RememberedUntouched ==
  ASSUME Remembered, UNCHANGED <<entries, listed, saved, timer, saveFailed>>
  PROVE  Remembered'
BY DEF Remembered, SavedOne, NothingForgotten

\* What resolveEntry makes of the entries: the listed one is set unmodified and kept,
\* or disowned.
LEMMA Resolved ==
  ASSUME IInv, NEW o \in Objects, NEW makeStale \in BOOLEAN, ResolveEntry(o, makeStale)
  PROVE  \/ /\ listed \in Objects /\ Intact(entries[listed])
            /\ o = listed /\ listed' = listed
            /\ \E e \in EntryRecords :
                 /\ e.etag = entries[o].etag /\ e.md5 = entries[o].md5 /\ e.unmodified = TRUE
                 /\ e.stale = (entries[o].stale \/ makeStale)
                 /\ entries' = Pointed([entries EXCEPT ![o] = e])
         \/ /\ listed = Nobody \/ ~ Intact(entries[listed])
            /\ listed' = Nobody
            /\ entries' = Pointed([entries EXCEPT ![o] = Blank])
<1>1. entries \in [Objects -> EntryRecords] /\ listed \in Objects \cup {Nobody}
  BY Cache
<1>2. CASE listed # Nobody /\ Intact(entries[listed])
  <2> DEFINE e == [entries[o] EXCEPT !.unmodified = TRUE, !.stale = @ \/ makeStale]
  <2>1. o = listed /\ listed' = listed
        /\ entries' = Pointed([entries EXCEPT ![o].unmodified = TRUE,
                                              ![o].stale = @ \/ makeStale])
    BY <1>2 DEF ResolveEntry
  <2>2. [entries EXCEPT ![o].unmodified = TRUE, ![o].stale = @ \/ makeStale]
          = [entries EXCEPT ![o] = e]
    BY <1>1
  <2>3. entries[o] \in EntryRecords
    BY <1>1
  <2>4. /\ e \in EntryRecords /\ e.stale = (entries[o].stale \/ makeStale)
    BY <2>3 DEF EntryRecords
  <2>5. e.etag = entries[o].etag /\ e.md5 = entries[o].md5 /\ e.unmodified = TRUE
    BY <2>3 DEF EntryRecords
  <2> HIDE DEF e
  <2>6. entries' = Pointed([entries EXCEPT ![o] = e])
    BY <2>1, <2>2
  <2> QED BY <1>1, <1>2, <2>1, <2>4, <2>5, <2>6
<1>3. CASE ~ (listed # Nobody /\ Intact(entries[listed]))
  BY <1>3 DEF ResolveEntry
<1> QED BY <1>2, <1>3

\* A request keeps the record of the entry, or starts the timer when it adopts the
\* file again.
LEMMA RequestRemembers ==
  ASSUME IInv, Remembered, NEW d \in Downloads, Request(d)
  PROVE  Remembered'
<1>1. PICK o \in Objects, makeStale \in BOOLEAN :
        ResolveEntry(o, makeStale) /\ timer' = (timer \/ Readopts(o))
  BY DEF Request
<1>2. saved' = saved /\ saveFailed' = saveFailed
  BY DEF Request
<1>3. SavedOne'
  BY <1>2 DEF Remembered, SavedOne
<1>4. CASE listed' = Nobody
  BY <1>3, <1>4 DEF Remembered, NothingForgotten
<1>5. ASSUME NEW e \in EntryRecords, listed \in Objects, o = listed, listed' = listed,
             e.etag = entries[o].etag, e.md5 = entries[o].md5, e.unmodified = TRUE,
             e.stale = (entries[o].stale \/ makeStale),
             entries' = Pointed([entries EXCEPT ![o] = e])
      PROVE  Remembered'
  <2>1. entries \in [Objects -> EntryRecords] /\ listed # Nobody
    BY <1>5, Cache, Constants
  <2>2. entries'[listed'] = e
    BY <1>5, <2>1 DEF Pointed
  <2>3. ASSUME ~ e.stale, ~ timer', ~ saveFailed'
        PROVE  saved' = {Record(e)}
    <3>1. entries[o].unmodified = TRUE /\ ~ entries[o].stale /\ ~ timer
      BY <1>1, <1>5, <2>1, <2>3 DEF Readopts, EntryRecords
    <3>2. saved = {Record(entries[listed])}
      BY <1>2, <1>5, <2>1, <2>3, <3>1 DEF Remembered, NothingForgotten
    <3> QED BY <1>2, <1>5, <3>1, <3>2 DEF Record
  <2> QED BY <1>3, <2>2, <2>3 DEF Remembered, NothingForgotten
<1> QED BY <1>1, <1>4, <1>5, Resolved

\* What is saved is what there is to save, or nothing is.
LEMMA SaveRemembers ==
  ASSUME Remembered, SaveNow
  PROVE  /\ SavedOne'
         /\ listed # Nobody /\ ~ entries[listed].stale =>
              saveFailed' \/ saved' = {Record(entries[listed])}
BY DEF Remembered, SavedOne, SaveNow, Live

LEMMA SaveTimeoutRemembers ==
  ASSUME Remembered, SaveTimeout
  PROVE  Remembered'
BY SaveRemembers DEF SaveTimeout, Remembered, SavedOne, NothingForgotten

\* The entry that a process begins with is the record it was loaded from.
LEMMA LoadRemembers ==
  ASSUME NEW onDisk \in SUBSET SavedRecords, Load(onDisk), \A r, s \in onDisk : r = s
  PROVE  listed' # Nobody => onDisk = {Record(entries'[listed'])}
<1>1. CASE onDisk = {}
  BY <1>1 DEF Load
<1>2. CASE onDisk # {}
  <2>1. PICK r \in onDisk :
          /\ listed' = CHOOSE o \in Objects : TRUE
          /\ entries' = [o \in Objects |->
               IF o = listed'
               THEN [etag |-> r.etag, md5 |-> r.md5,
                     unmodified |-> r.unmodified, stale |-> FALSE]
               ELSE Blank]
    BY <1>2 DEF Load
  <2>2. listed' \in Objects
    BY <2>1, Constants
  <2>3. Record(entries'[listed'])
          = [etag |-> r.etag, md5 |-> r.md5, unmodified |-> r.unmodified]
    BY <2>1, <2>2 DEF Record
  <2>4. r = [etag |-> r.etag, md5 |-> r.md5, unmodified |-> r.unmodified]
    BY DEF SavedRecords
  <2>5. onDisk = {r}
    BY <2>1
  <2> QED BY <2>3, <2>4, <2>5
<1> QED BY <1>1, <1>2

LEMMA BeginRemembers ==
  ASSUME IInv, Remembered, Restart \/ Crash
  PROVE  Remembered'
<1>1. Load(saved') /\ saved' \in SUBSET SavedRecords /\ SavedOne'
  <2>1. CASE Restart
    BY <2>1, SavedIsTyped, SaveRemembers DEF Restart
  <2>2. CASE Crash
    BY <2>2, Cache DEF Crash, Remembered, SavedOne
  <2> QED BY <2>1, <2>2
<1>2. listed' # Nobody => saved' = {Record(entries'[listed'])}
  BY <1>1, LoadRemembers DEF SavedOne
<1> QED BY <1>1, <1>2 DEF Remembered, NothingForgotten

\* A changed file changes the record and the entry alike.
LEMMA MeddleRemembers ==
  ASSUME IInv, Remembered, Meddle
  PROVE  Remembered'
<1>1. entries' = Outdated(entries) /\ saved' = OutdatedDisk(saved)
      /\ UNCHANGED <<listed, timer, saveFailed>>
  BY DEF Meddle
<1>2. SavedOne'
  BY <1>1 DEF Remembered, SavedOne, OutdatedDisk
<1>3. ASSUME listed # Nobody
      PROVE  /\ entries'[listed] = [entries[listed] EXCEPT !.unmodified = FALSE]
             /\ entries[listed] \in EntryRecords
  BY <1>1, <1>3, Cache DEF Outdated
<1>4. ASSUME NEW e \in EntryRecords
      PROVE  /\ [e EXCEPT !.unmodified = FALSE].stale = e.stale
             /\ Record([e EXCEPT !.unmodified = FALSE]) = [Record(e) EXCEPT !.unmodified = FALSE]
  <2> DEFINE u == [e EXCEPT !.unmodified = FALSE]
  <2>1. u.etag = e.etag /\ u.md5 = e.md5 /\ u.unmodified = FALSE /\ u.stale = e.stale
    BY DEF EntryRecords
  <2> HIDE DEF u
  <2>2. Record(u) = [etag |-> e.etag, md5 |-> e.md5, unmodified |-> FALSE]
    BY <2>1 DEF Record
  <2> DEFINE x == Record(e)
             w == [x EXCEPT !.unmodified = FALSE]
  <2>3. x \in SavedRecords /\ x.etag = e.etag /\ x.md5 = e.md5
    BY DEF Record, EntryRecords, SavedRecords
  <2> HIDE DEF x
  <2>4. w \in SavedRecords /\ w.etag = x.etag /\ w.md5 = x.md5 /\ w.unmodified = FALSE
    BY <2>3 DEF SavedRecords
  <2> HIDE DEF w
  <2>5. w = [etag |-> w.etag, md5 |-> w.md5, unmodified |-> w.unmodified]
    BY <2>4 DEF SavedRecords
  <2> QED BY <2>1, <2>2, <2>3, <2>4, <2>5 DEF u, w, x
<1>5. \A r : OutdatedDisk({r}) = {[r EXCEPT !.unmodified = FALSE]}
  BY DEF OutdatedDisk
<1> QED BY <1>1, <1>2, <1>3, <1>4, <1>5 DEF Remembered, NothingForgotten

\* A download that succeeds starts the timer.
LEMMA FinishRemembers ==
  ASSUME Remembered, NEW d \in Downloads, Finish(d)
  PROVE  Remembered'
<1>1. timer' = TRUE /\ (saved' = OutdatedDisk(saved) \/ saved' = saved)
  BY DEF Finish, UpdateEntry
<1>2. SavedOne'
  BY <1>1 DEF Remembered, SavedOne, OutdatedDisk
<1> QED BY <1>1, <1>2 DEF Remembered, NothingForgotten

\* Every step keeps what is remembered.
LEMMA RememberedStep ==
  ASSUME IInv, Remembered, [Next]_vars
  PROVE  Remembered'
<1>1. CASE UNCHANGED vars
  BY <1>1, RememberedUntouched DEF vars
<1>2. ASSUME NEW d \in Downloads,
             StartDownload(d) \/ ReadyRead(d) \/ WriteFails(d)
               \/ FollowRedirect(d) \/ NetworkError(d) \/ CommitFails(d)
      PROVE  Remembered'
  BY <1>2, RememberedUntouched
     DEF StartDownload, ReadyRead, WriteFails, FollowRedirect, NetworkError, CommitFails
<1>3. ASSUME NEW d \in Downloads, Request(d) \/ Finish(d)
      PROVE  Remembered'
  BY <1>3, RequestRemembers, FinishRemembers
<1>4. CASE EvictEntry
  BY <1>4 DEF EvictEntry, Remembered, SavedOne, NothingForgotten
<1>5. CASE SaveTimeout
  BY <1>5, SaveTimeoutRemembers
<1>6. CASE Restart \/ Crash
  BY <1>6, BeginRemembers
<1>7. CASE Publish \/ Meddle
  BY <1>7, RememberedUntouched, MeddleRemembers DEF Publish
<1> QED BY <1>1, <1>2, <1>3, <1>4, <1>5, <1>6, <1>7 DEF Next

-----------------------------------------------------------------------------
(* The index: an entry describes the file *)

\* The md5 of a version belongs to the etag of that version, and no entry has that
\* of the user's edit: a download never read it.
SumFits(e) == e.md5 # Edited /\ \A v \in Versions : e.md5 = Full(v) => e.etag = v

\* An entry that resolveEntry would accept for file f has the etag of its content.
Accepts(e, f) == f.exists /\ (e.unmodified \/ e.md5 = f.data)

Fits(e, f, v) ==
  /\ SumFits(e)
  /\ Accepts(e, f) /\ f.data # <<>> => f.data = Full(e.etag)
  /\ e.etag <= v

EntriesFit ==
  /\ \A o \in Objects : Fits(entries[o], file, server)
  /\ \A r \in saved : Fits(r, file, server)

\* Two contents that differ, differ in a chunk.
LEMMA Differ ==
  /\ \A v, w \in Versions : Full(v) = Full(w) => v = w
  /\ \A v \in Versions : Full(v) # Edited /\ Full(v) # Junk /\ Full(v) # NoSum /\ Full(v) # <<>>
  /\ Edited # NoSum /\ Edited # Junk /\ NoSum # <<>> /\ Edited # <<>>
<1>1. \A v \in Versions : v \in Nat /\ 0 < v
  BY Constants DEF Versions
<1>2. \A v \in Versions : Len(Full(v)) = 2 /\ Full(v)[1] = <<v, 1>>
  BY DEF Full
<1>3. Len(Edited) = 1 /\ Len(Junk) = 1 /\ Len(NoSum) = 1
  BY DEF Edited, Junk, NoSum
<1>4. Edited # NoSum /\ Edited # Junk
  BY DEF Edited, Junk, NoSum
<1>5. ASSUME NEW v \in Versions, NEW w \in Versions, Full(v) = Full(w) PROVE v = w
  <2>1. <<v, 1>> = <<w, 1>>
    BY <1>2, <1>5
  <2> QED BY <2>1
<1>6. Len(<<>>) = 0
  OBVIOUS
<1> QED BY <1>2, <1>3, <1>4, <1>5, <1>6

LEMMA BlankFits ==
  ASSUME NEW f, f.data \in Contents, NEW v \in Versions
  PROVE  Fits(Blank, f, v)
<1>1. Blank.md5 = NoSum /\ Blank.unmodified = FALSE /\ Blank.etag = 0
  BY DEF Blank, NoTag
<1>2. SumFits(Blank)
  BY <1>1, Differ DEF SumFits
<1>3. f.data # NoSum
  BY Differ DEF Contents
<1>4. 0 <= v
  BY Constants DEF Versions
<1> QED BY <1>1, <1>2, <1>3, <1>4 DEF Fits, Accepts

\* Whether an entry fits depends on three of its fields.
LEMMA FitsFields ==
  ASSUME NEW e, NEW u, NEW f, NEW v, Fits(e, f, v),
         u.etag = e.etag, u.md5 = e.md5, u.unmodified = e.unmodified
  PROVE  Fits(u, f, v)
BY DEF Fits, SumFits, Accepts

\* An entry that is accepted still fits when it is set unmodified.
LEMMA FitsAccepted ==
  ASSUME NEW e, NEW u, NEW f, NEW v, Fits(e, f, v), Accepts(e, f),
         u.etag = e.etag, u.md5 = e.md5
  PROVE  Fits(u, f, v)
BY DEF Fits, SumFits, Accepts

\* An entry that is outdated fits whatever the file becomes: by its md5 it can only
\* be accepted for a version, and then it has the etag of it.
LEMMA FitsOutdated ==
  ASSUME NEW e, NEW u, NEW f, NEW g, NEW v, Fits(e, f, v), g.data \in Contents,
         u.etag = e.etag, u.md5 = e.md5, u.unmodified = FALSE
  PROVE  Fits(u, g, v)
<1>1. SumFits(u) /\ u.etag <= v
  BY DEF Fits, SumFits
<1>2. ASSUME Accepts(u, g), g.data # <<>> PROVE g.data = Full(u.etag)
  <2>1. u.md5 = g.data
    BY <1>2 DEF Accepts
  <2>2. PICK w \in Versions : g.data = Full(w)
    BY <1>1, <1>2, <2>1 DEF SumFits, Contents
  <2> QED BY <1>1, <2>1, <2>2 DEF SumFits
<1> QED BY <1>1, <1>2 DEF Fits

LEMMA PointedFits ==
  ASSUME NEW es, NEW f, NEW v, Fits(Blank, f, v), \A o \in Objects : Fits(es[o], f, v)
  PROVE  \A o \in Objects : Fits(Pointed(es)[o], f, v)
<1>1. \A o \in Objects : Pointed(es)[o] \in {es[o], Blank}
  BY DEF Pointed
<1> QED BY <1>1

\* Outdated entries and records fit every content.
LEMMA OutdatedFit ==
  ASSUME IInv, EntriesFit, NEW g, g.data \in Contents
  PROVE  /\ \A o \in Objects : Fits(Outdated(entries)[o], g, server)
         /\ \A r \in OutdatedDisk(saved) : Fits(r, g, server)
<1>1. ASSUME NEW o \in Objects PROVE Fits(Outdated(entries)[o], g, server)
  <2> DEFINE e == entries[o]
             u == [e EXCEPT !.unmodified = FALSE]
  <2>1. e \in EntryRecords /\ Fits(e, file, server)
    BY Cache DEF EntriesFit
  <2>2. Outdated(entries)[o] = u
    BY DEF Outdated
  <2> HIDE DEF e
  <2>3. u.etag = e.etag /\ u.md5 = e.md5 /\ u.unmodified = FALSE
    BY <2>1 DEF EntryRecords
  <2> HIDE DEF u
  <2> QED BY <2>1, <2>2, <2>3, FitsOutdated
<1>2. ASSUME NEW r \in OutdatedDisk(saved) PROVE Fits(r, g, server)
  <2>1. PICK e \in saved : r = [e EXCEPT !.unmodified = FALSE]
    BY DEF OutdatedDisk
  <2>2. e \in SavedRecords /\ Fits(e, file, server)
    BY Cache DEF EntriesFit
  <2>3. r.etag = e.etag /\ r.md5 = e.md5 /\ r.unmodified = FALSE
    BY <2>1, <2>2 DEF SavedRecords
  <2> QED BY <2>2, <2>3, FitsOutdated
<1> QED BY <1>1, <1>2

\* resolveEntry keeps the entries fitting.
LEMMA ResolveFits ==
  ASSUME IInv, EntriesFit, UNCHANGED <<server, file, saved>>,
         NEW o \in Objects, NEW makeStale \in BOOLEAN, ResolveEntry(o, makeStale)
  PROVE  EntriesFit'
<1>1. Fits(Blank, file, server) /\ \A x \in Objects : Fits(entries[x], file, server)
  BY BlankFits DEF EntriesFit, IInv, WholeFile, TypeOK, FileTyped
<1>2. entries \in [Objects -> EntryRecords]
  BY Cache
<1>3. \A x \in Objects : Fits(entries'[x], file, server)
  <2>1. ASSUME NEW e \in EntryRecords, o = listed, Intact(entries[listed]),
               e.etag = entries[o].etag, e.md5 = entries[o].md5,
               entries' = Pointed([entries EXCEPT ![o] = e])
        PROVE  \A x \in Objects : Fits(entries'[x], file, server)
    <3> DEFINE es == [entries EXCEPT ![o] = e]
    <3>1. Fits(e, file, server)
      BY <1>1, <2>1, FitsAccepted DEF Intact, Accepts
    <3>2. \A x \in Objects : es[x] = IF x = o THEN e ELSE entries[x]
      BY <1>2
    <3>3. entries' = Pointed(es)
      BY <2>1
    <3> HIDE DEF es
    <3>4. \A x \in Objects : Fits(es[x], file, server)
      BY <1>1, <3>1, <3>2
    <3> QED BY <1>1, <3>3, <3>4, PointedFits
  <2>2. ASSUME entries' = Pointed([entries EXCEPT ![o] = Blank])
        PROVE  \A x \in Objects : Fits(entries'[x], file, server)
    <3> DEFINE es == [entries EXCEPT ![o] = Blank]
    <3>1. \A x \in Objects : es[x] = IF x = o THEN Blank ELSE entries[x]
      BY <1>2
    <3>2. entries' = Pointed(es)
      BY <2>2
    <3> HIDE DEF es
    <3>3. \A x \in Objects : Fits(es[x], file, server)
      BY <1>1, <3>1
    <3> QED BY <1>1, <3>2, <3>3, PointedFits
  <2> QED BY <2>1, <2>2, Resolved
<1> QED BY <1>3 DEF EntriesFit

\* What SaveNow writes fits, and so does what a process loads.
LEMMA SaveFits ==
  ASSUME IInv, EntriesFit, SaveNow
  PROVE  \A r \in saved' : Fits(r, file, server)
<1>1. ASSUME listed # Nobody PROVE Fits(Record(entries[listed]), file, server)
  <2>1. listed \in Objects
    BY <1>1, Cache
  <2>2. Fits(entries[listed], file, server)
    BY <2>1 DEF EntriesFit
  <2>3. /\ Record(entries[listed]).etag = entries[listed].etag
        /\ Record(entries[listed]).md5 = entries[listed].md5
        /\ Record(entries[listed]).unmodified = entries[listed].unmodified
    BY DEF Record
  <2> QED BY <2>2, <2>3, FitsFields
<1>2. \A r \in Live : Fits(r, file, server)
  BY <1>1 DEF Live
<1> QED BY <1>2 DEF SaveNow, EntriesFit

LEMMA LoadFits ==
  ASSUME IInv, NEW onDisk, Load(onDisk), \A r \in onDisk : Fits(r, file, server)
  PROVE  \A o \in Objects : Fits(entries'[o], file, server)
<1>1. Fits(Blank, file, server)
  BY BlankFits DEF IInv, WholeFile, TypeOK, FileTyped
<1>2. CASE onDisk = {}
  BY <1>1, <1>2 DEF Load
<1>3. CASE onDisk # {}
  <2>1. PICK r \in onDisk :
          entries' = [o \in Objects |->
            IF o = listed'
            THEN [etag |-> r.etag, md5 |-> r.md5,
                  unmodified |-> r.unmodified, stale |-> FALSE]
            ELSE Blank]
    BY <1>3 DEF Load
  <2> DEFINE e == [etag |-> r.etag, md5 |-> r.md5, unmodified |-> r.unmodified, stale |-> FALSE]
  <2>2. e.etag = r.etag /\ e.md5 = r.md5 /\ e.unmodified = r.unmodified
    OBVIOUS
  <2>3. \A o \in Objects : entries'[o] \in {e, Blank}
    BY <2>1
  <2> HIDE DEF e
  <2>4. Fits(e, file, server)
    BY <2>2, FitsFields
  <2> QED BY <1>1, <2>3, <2>4
<1> QED BY <1>2, <1>3

\* The steps that are not of a download.
LEMMA EntriesFitStep ==
  ASSUME IInv, EntriesFit, IInv',
         EvictEntry \/ SaveTimeout \/ Restart \/ Crash \/ Publish \/ Meddle
  PROVE  EntriesFit'
<1>1. CASE EvictEntry
  BY <1>1, ResolveFits DEF EvictEntry
<1>2. CASE SaveTimeout
  BY <1>2, SaveFits DEF SaveTimeout, EntriesFit
<1>3. CASE Restart
  <2>1. \A r \in saved' : Fits(r, file, server)
    BY <1>3, SaveFits DEF Restart
  <2>2. \A o \in Objects : Fits(entries'[o], file, server)
    BY <1>3, <2>1, LoadFits DEF Restart
  <2> QED BY <1>3, <2>1, <2>2 DEF Restart, EntriesFit
<1>4. CASE Crash
  <2>1. \A o \in Objects : Fits(entries'[o], file, server)
    BY <1>4, LoadFits DEF Crash, EntriesFit
  <2> QED BY <1>4, <2>1 DEF Crash, EntriesFit
<1>5. CASE Publish
  <2>1. server \in Nat
    BY Constants DEF IInv, TypeOK, FileTyped, Versions
  <2>2. \A e : e.etag \in Nat /\ Fits(e, file, server) => Fits(e, file, server + 1)
    BY <2>1 DEF Fits
  <2>3. \A o \in Objects : entries[o].etag \in Nat
    BY Cache, Constants DEF EntryRecords, NoTag, Versions
  <2>4. \A r \in saved : r.etag \in Nat
    BY Cache, Constants DEF SavedRecords, NoTag, Versions
  <2> QED BY <1>5, <2>2, <2>3, <2>4 DEF Publish, EntriesFit
<1>6. CASE Meddle
  BY <1>6, OutdatedFit DEF Meddle, EntriesFit, IInv, WholeFile
<1> QED BY <1>1, <1>2, <1>3, <1>4, <1>5, <1>6

-----------------------------------------------------------------------------
(* A download that is alone *)

OnlyJunk(s) == \A i \in 1..Len(s) : s[i] = <<0, 1>>

EndsWith(s, n, b) == n <= Len(s) /\ \A i \in 1..n : s[Len(s) - n + i] = b[i]

\* The digest never sees the user's edit; once it has seen a version, that is newer
\* than the tag this download would send, so that no 304 can follow; and it ends in
\* what was read of the reply.
AttemptSound(r, t, v) ==
  /\ \A i \in 1..Len(r.digest) : r.digest[i] # <<0, 2>>
  /\ OnlyJunk(r.digest) \/ t < v
  /\ r.phase = "waiting" =>
       /\ r.got > 0 => r.wroteAnyData
       /\ r.reply.kind = "full" =>
            /\ t < r.reply.version /\ r.reply.version <= v
            /\ EndsWith(r.digest, r.got, Body(r.reply))
       /\ r.reply.kind = "notModified" => t = r.reply.version /\ OnlyJunk(r.digest)

\* The entry that a download was made with is new, or that of the file, unmodified.
Held(o) ==
  \/ entries[o].etag = NoTag
  \/ entries[o].unmodified /\ file.exists /\ listed = o

DownloadFits(d) ==
  ~ Released(d) => Held(dl[d].entry) /\ AttemptSound(dl[d], SentTag(d), server)

\* With one download of the path at a time.
FInv(d) == IInv /\ Remembered /\ EntriesFit /\ DownloadFits(d)

\* A download that is not released has an entry, and the tag of that is a number.
LEMMA Unreleased ==
  ASSUME IInv, NEW d \in Downloads, ~ Released(d)
  PROVE  dl[d].entry \in Objects /\ SentTag(d) \in Nat
<1>1. dl[d] \in DownloadRecords /\ DownloadSound(dl[d])
  BY Fields
<1>2. dl[d].entry \in Objects
  BY <1>1 DEF Released, DownloadRecords, DownloadSound
<1>3. entries[dl[d].entry] \in EntryRecords
  BY <1>2, Cache
<1>4. NoTag \in Nat /\ entries[dl[d].entry].etag \in Nat
  BY <1>3, Constants DEF EntryRecords, NoTag, Versions
<1> QED BY <1>2, <1>4 DEF SentTag

\* A digest keeps what is sound of it when a chunk of a body is put behind it: a chunk
\* of a version, if that is newer than the tag.
LEMMA DigestGrows ==
  ASSUME NEW s \in Seq(Chunk), NEW a \in Replies, NEW n \in Nat, n + 1 \in 1..Len(Body(a)),
         a.kind = "full" => a.version \in Versions,
         \A i \in 1..Len(s) : s[i] # <<0, 2>>
  PROVE  /\ \A i \in 1..Len(Append(s, Body(a)[n + 1])) : Append(s, Body(a)[n + 1])[i] # <<0, 2>>
         /\ a.kind # "full" /\ OnlyJunk(s) => OnlyJunk(Append(s, Body(a)[n + 1]))
         /\ EndsWith(s, n, Body(a)) => EndsWith(Append(s, Body(a)[n + 1]), n + 1, Body(a))
<1> DEFINE b == Body(a)
           c == b[n + 1]
           h == Append(s, c)
<1>1. b \in Seq(Chunk) /\ Len(b) \in 0..2
  BY BodyTyped
<1>2. a.kind = "full" => c = <<a.version, n + 1>>
  <2>1. a.kind = "full" => b = Full(a.version)
    BY BodyTyped
  <2>2. n + 1 \in 1..2
    <3>1. n + 1 \in 1..Len(b) /\ Len(b) \in 0..2
      BY <1>1
    <3>2. \A m \in 0..2 : n + 1 \in 1..m => n + 1 \in 1..2
      OBVIOUS
    <3> HIDE DEF b
    <3> QED BY <3>1, <3>2
  <2>3. \A v : Full(v)[1] = <<v, 1>> /\ Full(v)[2] = <<v, 2>>
    BY DEF Full
  <2> HIDE DEF b
  <2> QED BY <2>1, <2>2, <2>3
<1>3. a.kind # "full" => c = <<0, 1>>
  <2>1. a.kind # "full" => b = <<>> \/ b = Junk
    BY DEF Body, Replies
  <2>2. Len(Junk) = 1 /\ Junk[1] = <<0, 1>> /\ Len(<<>>) = 0
    BY DEF Junk
  <2>3. n + 1 \in 1..Len(b)
    OBVIOUS
  <2> HIDE DEF b
  <2> QED BY <2>1, <2>2, <2>3
<1>4. a.kind = "full" => a.version # 0
  BY Constants DEF Versions
<1>5. <<0, 1>> # <<0, 2>> /\ \A v, i : <<v, i>> = <<0, 2>> => v = 0
  OBVIOUS
<1>6. c # <<0, 2>>
  BY <1>2, <1>3, <1>4, <1>5
<1>7. c \in Chunk
  BY <1>1
<1> HIDE DEF b, c
<1>8. /\ h \in Seq(Chunk) /\ Len(s) \in Nat /\ Len(h) = Len(s) + 1 /\ h[Len(s) + 1] = c
      /\ \A i \in 1..Len(s) : h[i] = s[i]
  BY <1>7
<1> HIDE DEF h
<1>9. \A i \in 1..Len(h) : i \in 1..Len(s) \/ i = Len(s) + 1
  BY <1>8
<1>10. \A i \in 1..Len(h) : h[i] # <<0, 2>>
  BY <1>6, <1>8, <1>9
<1>11. a.kind # "full" /\ OnlyJunk(s) => OnlyJunk(h)
  BY <1>3, <1>8, <1>9 DEF OnlyJunk
<1>12. ASSUME EndsWith(s, n, b) PROVE EndsWith(h, n + 1, b)
  <2>1. n <= Len(s) /\ \A i \in 1..n : s[Len(s) - n + i] = b[i]
    BY <1>12 DEF EndsWith
  <2>2. ASSUME NEW i \in 1..(n + 1) PROVE h[Len(h) - (n + 1) + i] = b[i]
    <3>1. CASE i = n + 1
      <4>1. Len(h) - (n + 1) + i = Len(s) + 1
        BY <1>8, <3>1
      <4> QED BY <1>8, <3>1, <4>1 DEF c
    <3>2. CASE i # n + 1
      <4>1. i \in 1..n /\ Len(h) - (n + 1) + i = Len(s) - n + i /\ Len(s) - n + i \in 1..Len(s)
        BY <1>8, <2>1, <3>2
      <4> QED BY <1>8, <2>1, <4>1
    <3> QED BY <3>1, <3>2
  <2> QED BY <1>8, <2>1, <2>2 DEF EndsWith
<1> QED BY <1>10, <1>11, <1>12 DEF h, c, b

\* The digest of a reply that was read whole is no version but that of the reply.
LEMMA DigestIs ==
  ASSUME NEW s \in Seq(Chunk), NEW v \in Versions, NEW w \in Versions,
         EndsWith(s, 2, Full(v)), s = Full(w)
  PROVE  w = v
<1>1. Len(s) = 2 /\ s[1] = <<w, 1>> /\ Full(v)[1] = <<v, 1>>
  BY DEF Full
<1>2. s[1] = Full(v)[1]
  BY <1>1 DEF EndsWith
<1> QED BY <1>1, <1>2

\* A step of the download itself.
LEMMA AttemptStep ==
  ASSUME NEW d \in Downloads, DownloadFits(d), ~ Released(d), NEW r, dl'[d] = r,
         r.entry = dl[d].entry, UNCHANGED <<server, file, entries, listed>>,
         AttemptSound(r, SentTag(d), server)
  PROVE  DownloadFits(d)'
<1>1. SentTag(d)' = SentTag(d)
  BY DEF SentTag
<1>2. Held(dl[d].entry)' /\ AttemptSound(dl'[d], SentTag(d)', server')
  BY <1>1 DEF DownloadFits, Held
<1> QED BY <1>1, <1>2 DEF DownloadFits, Held

\* start() asks for a newer version than it has, or gets a 304 only if no newer one
\* was read before.
LEMMA StartFits ==
  ASSUME IInv, EntriesFit, NEW d \in Downloads, DownloadFits(d), ~ Released(d), Start(d),
         dl[d].starts < MaxStarts, UNCHANGED <<server, file, entries, listed>>
  PROVE  DownloadFits(d)'
<1>1. dl[d] \in DownloadRecords /\ dl \in [Downloads -> DownloadRecords]
  BY Fields, Typing DEF IInv, TypeOK
<1>2. dl[d].starts + 1 \in 0..MaxStarts
  BY <1>1, Constants DEF DownloadRecords
<1>3. server \in Versions /\ server \in Nat /\ 0 < server
  BY Constants DEF IInv, TypeOK, FileTyped, Versions
<1>4. dl[d].entry \in Objects /\ SentTag(d) \in Nat /\ SentTag(d) <= server
  <2>1. dl[d].entry \in Objects /\ SentTag(d) \in Nat
    BY Unreleased
  <2>2. entries[dl[d].entry].etag <= server
    BY <2>1 DEF EntriesFit, Fits
  <2> QED BY <1>3, <2>1, <2>2 DEF SentTag, NoTag
<1>5. AttemptSound(dl[d], SentTag(d), server)
  BY DEF DownloadFits
<1>6. CASE dl' = [dl EXCEPT ![d] = [Unused EXCEPT !.phase = "succeeded"]]
  <2>1. dl'[d].phase = "succeeded"
    BY <1>1, <1>6 DEF Unused
  <2> QED BY <2>1 DEF DownloadFits, Released
<1>7. CASE dl' = [dl EXCEPT ![d].phase = "failed", ![d].starts = @ + 1]
  <2> DEFINE r == [dl[d] EXCEPT !.phase = "failed", !.starts = dl[d].starts + 1]
  <2>1. r.phase = "failed" /\ r.entry = dl[d].entry /\ r.digest = dl[d].digest
    BY <1>1 DEF DownloadRecords
  <2>2. dl'[d] = r
    BY <1>1, <1>7
  <2> HIDE DEF r
  <2>3. AttemptSound(r, SentTag(d), server)
    BY <1>5, <2>1 DEF AttemptSound
  <2> QED BY <2>1, <2>2, <2>3, AttemptStep
<1>8. ASSUME NEW a \in Answers(d),
             dl' = [dl EXCEPT ![d].phase = "waiting", ![d].starts = @ + 1,
                              ![d].reply = a, ![d].got = 0, ![d].buffer = NewSaveFile(d)]
      PROVE  DownloadFits(d)'
  <2> DEFINE q == dl[d]
             n == dl[d].starts + 1
             g == 0
             b == NewSaveFile(d)
             r == SentRecord(q, n, a, g, b)
  <2>1. /\ a \in Replies
        /\ a.kind = "full" => a.version = server /\ SentTag(d) # server
        /\ a.kind = "notModified" => a.version = server /\ SentTag(d) = server
    BY <1>3 DEF Answers, Replies
  <2>2. q \in DownloadRecords /\ n \in 0..MaxStarts /\ g \in 0..2 /\ b \in Seq(Chunk)
        /\ q.digest \in Seq(Chunk)
    BY <1>1, <1>2 DEF NewSaveFile, DownloadRecords
  <2>3. dl'[d] = r
    BY <1>1, <1>8 DEF SentRecord
  <2> HIDE DEF q, n, g, b, r
  <2>4. r.phase = "waiting" /\ r.entry = q.entry /\ r.reply = a /\ r.got = g
        /\ r.digest = q.digest
    BY <2>1, <2>2, Sent DEF r
  <2>5. EndsWith(q.digest, 0, Body(a))
    <3>1. Len(q.digest) \in Nat
      BY <2>2
    <3> QED BY <3>1 DEF EndsWith
  <2>6. AttemptSound(r, SentTag(d), server)
    <3>1. /\ \A i \in 1..Len(r.digest) : r.digest[i] # <<0, 2>>
          /\ OnlyJunk(r.digest) \/ SentTag(d) < server
      BY <1>5, <2>4 DEF AttemptSound, q
    <3>2. r.got = 0
      BY <2>4 DEF g
    <3>3. a.kind = "full" => SentTag(d) < a.version /\ a.version <= server
      BY <1>3, <1>4, <2>1
    <3>4. a.kind = "notModified" => SentTag(d) = a.version /\ OnlyJunk(r.digest)
      BY <1>3, <1>4, <2>1, <3>1
    <3>5. EndsWith(r.digest, r.got, Body(a))
      BY <2>4, <2>5, <3>2
    <3> QED BY <2>4, <3>1, <3>2, <3>3, <3>4, <3>5 DEF AttemptSound
  <2> QED BY <2>3, <2>4, <2>6, AttemptStep DEF q
<1> QED BY <1>6, <1>7, <1>8 DEF Start

\* What is read of a reply goes into the digest.
LEMMA ReadFits ==
  ASSUME IInv, NEW d \in Downloads, DownloadFits(d), ReadyRead(d) \/ WriteFails(d)
  PROVE  DownloadFits(d)'
<1> DEFINE body == Body(dl[d].reply)
           chunk == body[dl[d].got + 1]
           h == Append(dl[d].digest, chunk)
<1>1. dl[d] \in DownloadRecords /\ DownloadSound(dl[d]) /\ dl[d].phase = "waiting"
      /\ dl[d].got # Len(body) /\ dl \in [Downloads -> DownloadRecords]
  BY Fields, Typing DEF ReadyRead, WriteFails, Waiting, Complete, IInv, TypeOK
<1>2. /\ dl[d].reply \in Replies /\ dl[d].got \in 0..2 /\ dl[d].digest \in Seq(Chunk)
      /\ dl[d].got <= Len(body) /\ dl[d].buffer \in Seq(Chunk)
      /\ dl[d].reply.kind = "full" => dl[d].reply.version \in Versions
  BY <1>1 DEF DownloadRecords, DownloadSound
<1>3. Len(body) \in 0..2
  BY <1>2, BodyTyped
<1>4. dl[d].got \in Nat /\ dl[d].got + 1 \in 1..Len(body)
  <2> HIDE DEF body
  <2> QED BY <1>1, <1>2, <1>3, NextChunk
<1>5. ~ Released(d)
  BY <1>1 DEF Released
<1>6. AttemptSound(dl[d], SentTag(d), server) /\ SentTag(d) \in Nat
      /\ server \in Nat /\ dl[d].reply.version \in Nat
  BY <1>2, <1>5, Unreleased, Constants
     DEF DownloadFits, IInv, TypeOK, FileTyped, Versions, Replies
<1>7. /\ \A i \in 1..Len(h) : h[i] # <<0, 2>>
      /\ dl[d].reply.kind # "full" /\ OnlyJunk(dl[d].digest) => OnlyJunk(h)
      /\ EndsWith(dl[d].digest, dl[d].got, body) => EndsWith(h, dl[d].got + 1, body)
  <2>1. \A i \in 1..Len(dl[d].digest) : dl[d].digest[i] # <<0, 2>>
    BY <1>6 DEF AttemptSound
  <2> QED BY <1>2, <1>4, <2>1, DigestGrows
<1>8. OnlyJunk(h) \/ SentTag(d) < server
  <2>1. dl[d].reply.kind = "full" => SentTag(d) < server
    BY <1>1, <1>6 DEF AttemptSound
  <2> QED BY <1>6, <1>7, <2>1 DEF AttemptSound
<1>9. CASE ReadyRead(d)
  <2> DEFINE q == dl[d]
             g == dl[d].got + 1
             b == Append(dl[d].buffer, chunk)
             u == [q EXCEPT !.got = g, !.wroteAnyData = TRUE]
             r == [u EXCEPT !.buffer = b, !.digest = h]
  <2>1. dl'[d] = r
    BY <1>1, <1>9 DEF ReadyRead
  <2>2. q \in DownloadRecords
    BY <1>1
  <2> HIDE DEF h, q, g, b
  <2>3. u.phase = q.phase /\ u.entry = q.entry /\ u.reply = q.reply /\ u.got = g
        /\ u.wroteAnyData = TRUE
    BY <2>2 DEF DownloadRecords
  <2>4. DOMAIN u = DOMAIN q /\ "buffer" \in DOMAIN q /\ "digest" \in DOMAIN q
    BY <2>2 DEF DownloadRecords
  <2> HIDE DEF u
  <2>5. r.phase = u.phase /\ r.entry = u.entry /\ r.reply = u.reply /\ r.got = u.got
        /\ r.wroteAnyData = u.wroteAnyData /\ r.digest = h
    BY <2>4
  <2> HIDE DEF r
  <2>6. dl[d].reply.kind # "notModified"
    BY <1>1, <1>2, <1>3, <1>4, BodyTyped
  <2>7. AttemptSound(r, SentTag(d), server)
    <3>1. r.phase = "waiting" /\ r.reply = dl[d].reply /\ r.got = dl[d].got + 1
          /\ r.wroteAnyData = TRUE /\ r.digest = h
      BY <1>1, <2>3, <2>5 DEF q, g
    <3>2. dl[d].reply.kind = "full" =>
            /\ SentTag(d) < dl[d].reply.version /\ dl[d].reply.version <= server
            /\ EndsWith(h, dl[d].got + 1, Body(dl[d].reply))
      BY <1>1, <1>6, <1>7 DEF AttemptSound
    <3> HIDE DEF body
    <3> QED BY <1>7, <1>8, <2>6, <3>1, <3>2 DEF AttemptSound
  <2> QED BY <1>5, <1>9, <2>1, <2>3, <2>5, <2>7, AttemptStep DEF ReadyRead, q
<1>10. CASE WriteFails(d)
  <2> DEFINE r == [dl[d] EXCEPT !.phase = "failed", !.wroteAnyData = TRUE, !.digest = h]
  <2>1. dl'[d] = r
    BY <1>1, <1>10 DEF WriteFails
  <2> HIDE DEF h
  <2>2. r.phase = "failed" /\ r.entry = dl[d].entry /\ r.digest = h
    BY <1>1 DEF DownloadRecords
  <2> HIDE DEF r
  <2>3. AttemptSound(r, SentTag(d), server)
    BY <1>7, <1>8, <2>2 DEF AttemptSound
  <2> QED BY <1>5, <1>10, <2>1, <2>2, <2>3, AttemptStep DEF WriteFails
<1> QED BY <1>9, <1>10

\* The other steps of a download that does not succeed.
LEMMA DownloadFitsStep ==
  ASSUME IInv, EntriesFit, NEW d \in Downloads, DownloadFits(d),
         StartDownload(d) \/ ReadyRead(d) \/ WriteFails(d)
           \/ FollowRedirect(d) \/ NetworkError(d) \/ CommitFails(d)
  PROVE  DownloadFits(d)'
<1>1. dl[d] \in DownloadRecords /\ DownloadSound(dl[d]) /\ dl \in [Downloads -> DownloadRecords]
  BY Fields, Typing DEF IInv, TypeOK
<1>2. CASE StartDownload(d)
  <2>1. dl[d].starts < MaxStarts /\ ~ Released(d)
    BY <1>1, <1>2, Constants DEF StartDownload, CanStart, DownloadSound, Released
  <2> QED BY <1>2, <2>1, StartFits DEF StartDownload
<1>3. CASE FollowRedirect(d)
  <2>1. dl[d].starts < MaxStarts /\ ~ Released(d)
    BY <1>1, <1>3 DEF FollowRedirect, Waiting, DownloadSound, Released
  <2> QED BY <1>3, <2>1, StartFits DEF FollowRedirect
<1>4. CASE NetworkError(d) \/ CommitFails(d)
  <2> DEFINE r == [dl[d] EXCEPT !.phase = "failed"]
  <2>1. dl'[d] = r
    BY <1>1, <1>4 DEF NetworkError, CommitFails
  <2>2. r.phase = "failed" /\ r.entry = dl[d].entry /\ r.digest = dl[d].digest
    BY <1>1 DEF DownloadRecords
  <2> HIDE DEF r
  <2>3. ~ Released(d)
    BY <1>4 DEF NetworkError, CommitFails, Waiting, Released
  <2>4. AttemptSound(dl[d], SentTag(d), server)
    BY <2>3 DEF DownloadFits
  <2>5. AttemptSound(r, SentTag(d), server)
    BY <2>2, <2>4 DEF AttemptSound
  <2> QED BY <1>4, <2>1, <2>2, <2>3, <2>5, AttemptStep DEF NetworkError, CommitFails
<1> QED BY <1>2, <1>3, <1>4, ReadFits

\* What is committed, and the entry that is made with it.
LEMMA Finishing ==
  ASSUME IInv, EntriesFit, NEW d \in Downloads, DownloadFits(d), Finish(d)
  PROVE  /\ Fits(NewEntry(d), file', server)
         /\ dl[d].reply.kind = "full" \/ ~ dl[d].wroteAnyData
              => file' = [exists |-> TRUE, data |-> Full(dl[d].reply.version)]
<1> DEFINE q == dl[d]
           o == dl[d].entry
           w == dl[d].reply.version
           t == SentTag(d)
           new == NewEntry(d)
<1>1. q \in DownloadRecords /\ DownloadSound(q) /\ q.phase = "waiting"
      /\ q.reply.kind \in {"full", "notModified"} /\ q.got = Len(Body(q.reply))
  BY Fields DEF Finish, Finished, Waiting, Complete
<1>2. q.reply \in Replies /\ w \in Versions /\ o \in Objects
      /\ q.buffer \in Seq(Chunk) /\ q.digest \in Seq(Chunk)
  BY <1>1 DEF DownloadRecords, DownloadSound
<1>3. w \in Nat /\ 0 < w /\ server \in Nat
  BY <1>2, Constants DEF IInv, TypeOK, FileTyped, Versions
<1>4. ~ Released(d)
  BY <1>1 DEF Released
<1>5. Held(o) /\ AttemptSound(q, t, server)
  BY <1>4 DEF DownloadFits
<1>6. Fits(entries[o], file, server) /\ entries[o] \in EntryRecords
  BY <1>2, Cache DEF EntriesFit
<1>7. q.buffer = Body(q.reply)
  <2> DEFINE b == q.buffer
             body == Body(q.reply)
  <2>1. b \in Seq(Chunk) /\ body \in Seq(Chunk) /\ Len(b) = Len(body)
        /\ \A i \in 1..Len(body) : b[i] = body[i]
    BY <1>1, <1>2, BodyTyped DEF DownloadSound
  <2> HIDE DEF b, body
  <2>2. b = body
    BY <2>1
  <2> QED BY <2>2 DEF b, body
<1>8. /\ new.etag = w /\ new.unmodified = TRUE
      /\ q.wroteAnyData => new.md5 = q.digest
      /\ ~ q.wroteAnyData => new.md5 = entries[o].md5
  BY DEF NewEntry
<1>9. /\ q.wroteAnyData => file' = [exists |-> TRUE, data |-> Body(q.reply)]
      /\ ~ q.wroteAnyData => file' = file
  BY <1>7 DEF Finish
<1>10. q.wroteAnyData => new.md5 # Edited
  <2>1. Len(Edited) = 1 /\ Edited[1] = <<0, 2>>
    BY DEF Edited
  <2> QED BY <1>5, <1>8, <2>1 DEF AttemptSound
<1> HIDE DEF q, o, w, t, new
<1>11. CASE q.reply.kind = "full"
  <2>1. Body(q.reply) = Full(w) /\ Len(Full(w)) = 2
    BY <1>2, <1>11, BodyTyped DEF Full, w, q
  <2>2. q.got = 2 /\ q.wroteAnyData
    BY <1>1, <1>5, <2>1 DEF AttemptSound
  <2>3. w <= server /\ EndsWith(q.digest, 2, Full(w))
    BY <1>1, <1>5, <1>11, <2>1, <2>2 DEF AttemptSound, w, q
  <2>4. file' = [exists |-> TRUE, data |-> Full(w)]
    BY <1>9, <2>1, <2>2
  <2>5. ASSUME NEW v \in Versions, new.md5 = Full(v) PROVE new.etag = v
    BY <1>2, <1>8, <2>2, <2>3, <2>5, DigestIs
  <2>6. SumFits(new)
    BY <1>10, <2>2, <2>5 DEF SumFits
  <2>7. Fits(new, file', server)
    BY <1>8, <2>3, <2>4, <2>6 DEF Fits
  <2> QED BY <2>4, <2>7 DEF q, w, new
<1>12. CASE q.reply.kind = "notModified"
  <2>1. t = w /\ OnlyJunk(q.digest)
    BY <1>1, <1>5, <1>12 DEF AttemptSound, w, q
  <2>2. t # NoTag
    BY <1>3, <2>1 DEF NoTag
  <2>3. entries[o].etag = w /\ file.exists /\ file.data # <<>>
    BY <2>1, <2>2 DEF t, SentTag, o
  <2>4. w <= server
    BY <1>6, <2>3 DEF Fits
  <2>5. CASE q.wroteAnyData
    <3>1. file'.data = <<>>
      BY <1>2, <1>9, <1>12, <2>5, BodyTyped DEF q
    <3>2. ASSUME NEW v \in Versions, new.md5 = Full(v) PROVE FALSE
      <4>1. Len(q.digest) = 2 /\ q.digest[1] = <<v, 1>>
        BY <1>8, <2>5, <3>2 DEF Full
      <4>2. q.digest[1] = <<0, 1>>
        BY <2>1, <4>1 DEF OnlyJunk
      <4>3. v # 0
        BY Constants DEF Versions
      <4> QED BY <4>1, <4>2, <4>3
    <3>3. SumFits(new)
      BY <1>10, <2>5, <3>2 DEF SumFits
    <3>4. Fits(new, file', server)
      BY <1>8, <2>4, <3>1, <3>3 DEF Fits
    <3> QED BY <1>12, <2>5, <3>4 DEF q, new
  <2>6. CASE ~ q.wroteAnyData
    <3>1. entries[o].unmodified
      BY <2>1, <2>2, <2>3, <1>5 DEF Held
    <3>2. file.data = Full(w)
      BY <1>6, <2>3, <3>1 DEF Fits, Accepts
    <3>3. file \in [exists : BOOLEAN, data : Seq(Chunk)]
      BY DEF IInv, TypeOK, FileTyped
    <3>4. file = [exists |-> TRUE, data |-> Full(w)]
      BY <2>3, <3>2, <3>3
    <3>5. Accepts(entries[o], file)
      BY <2>3, <3>1 DEF Accepts
    <3>6. Fits(new, file, server)
      BY <1>6, <1>8, <2>3, <2>6, <3>5, FitsAccepted
    <3> QED BY <1>9, <2>6, <3>4, <3>6 DEF q, w, new
  <2> QED BY <2>5, <2>6
<1> QED BY <1>1, <1>11, <1>12

\* The success branch of downloadFinished keeps the entries fitting.
LEMMA FinishFits ==
  ASSUME IInv, EntriesFit, NEW d \in Downloads, DownloadFits(d), Finish(d), IInv'
  PROVE  EntriesFit' /\ DownloadFits(d)'
<1> DEFINE o == dl[d].entry
           new == NewEntry(d)
<1>1. file'.data \in Contents /\ server' = server /\ server \in Versions
  BY DEF IInv, WholeFile, TypeOK, FileTyped, Finish
<1>2. Fits(Blank, file', server) /\ Fits(new, file', server)
  BY <1>1, BlankFits, Finishing
<1>3. entries \in [Objects -> EntryRecords]
  BY Cache
<1>4. \A es \in [Objects -> EntryRecords] :
        (\A x \in Objects : Fits(es[x], file', server))
          => \A x \in Objects : Fits(Pointed([es EXCEPT ![o] = new])[x], file', server)
  <2> SUFFICES ASSUME NEW es \in [Objects -> EntryRecords],
                      \A x \in Objects : Fits(es[x], file', server)
               PROVE  \A x \in Objects :
                        Fits(Pointed([es EXCEPT ![o] = new])[x], file', server)
    OBVIOUS
  <2> DEFINE ns == [es EXCEPT ![o] = new]
  <2> HIDE DEF o, new
  <2>1. \A x \in Objects : ns[x] = IF x = o THEN new ELSE es[x]
    OBVIOUS
  <2> HIDE DEF ns
  <2>2. \A x \in Objects : Fits(ns[x], file', server)
    BY <1>2, <2>1
  <2>3. \A x \in Objects : Fits(Pointed(ns)[x], file', server)
    BY <1>2, <2>2, PointedFits
  <2> QED BY <2>3 DEF ns
<1>5. ASSUME dl[d].wroteAnyData PROVE EntriesFit'
  <2>1. entries' = Pointed([Outdated(entries) EXCEPT ![o] = new])
        /\ saved' = OutdatedDisk(saved)
    BY <1>5 DEF Finish
  <2>2. Outdated(entries) \in [Objects -> EntryRecords]
    BY <1>3, OutdatedTyped
  <2>3. /\ \A x \in Objects : Fits(Outdated(entries)[x], file', server)
        /\ \A r \in OutdatedDisk(saved) : Fits(r, file', server)
    BY <1>1, OutdatedFit
  <2> DEFINE ns == [Outdated(entries) EXCEPT ![o] = new]
  <2>4. \A x \in Objects : Fits(Pointed(ns)[x], file', server)
    BY <1>4, <2>2, <2>3
  <2>5. \A x \in Objects : Fits(entries'[x], file', server)
    BY <2>1, <2>4
  <2> QED BY <1>1, <2>1, <2>3, <2>5 DEF EntriesFit
<1>6. ASSUME ~ dl[d].wroteAnyData PROVE EntriesFit'
  <2>1. entries' = Pointed([entries EXCEPT ![o] = new])
        /\ saved' = saved /\ file' = file
    BY <1>6 DEF Finish
  <2> DEFINE ns == [entries EXCEPT ![o] = new]
  <2>2. \A x \in Objects : Fits(entries[x], file', server)
    BY <2>1 DEF EntriesFit
  <2>3. \A x \in Objects : Fits(Pointed(ns)[x], file', server)
    BY <1>3, <1>4, <2>2
  <2>4. \A x \in Objects : Fits(entries'[x], file', server)
    BY <2>1, <2>3
  <2>5. \A r \in saved : Fits(r, file', server)
    BY <2>1 DEF EntriesFit
  <2> QED BY <1>1, <2>1, <2>4, <2>5 DEF EntriesFit
<1>7. DownloadFits(d)'
  <2>1. dl'[d] = [Unused EXCEPT !.phase = "succeeded"]
    BY Cache DEF Finish
  <2>2. dl'[d].phase = "succeeded"
    BY <2>1 DEF Unused
  <2> QED BY <2>2 DEF DownloadFits, Released
<1> QED BY <1>5, <1>6, <1>7

\* A download is made with a new entry, or with that of an intact file.
LEMMA RequestFits ==
  ASSUME IInv, EntriesFit, NEW d \in Downloads, Request(d)
  PROVE  EntriesFit' /\ DownloadFits(d)'
<1>1. PICK o \in Objects, makeStale \in BOOLEAN :
        /\ dl' = [dl EXCEPT ![d] = [Unused EXCEPT !.phase = "made", !.entry = o]]
        /\ ResolveEntry(o, makeStale)
  BY DEF Request
<1>2. UNCHANGED <<server, file, saved>>
  BY DEF Request
<1>3. EntriesFit'
  BY <1>1, <1>2, ResolveFits
<1>4. dl'[d].entry = o /\ dl'[d].phase = "made" /\ dl'[d].digest = <<>>
  BY <1>1, Cache DEF Unused
<1>5. Held(o)'
  <2>1. entries \in [Objects -> EntryRecords]
    BY Cache
  <2>2. ASSUME NEW e \in EntryRecords, o = listed, Intact(entries[listed]), listed' = listed,
               e.unmodified = TRUE, entries' = Pointed([entries EXCEPT ![o] = e])
        PROVE  Held(o)'
    <3>1. entries'[o] = e
      BY <2>1, <2>2 DEF Pointed
    <3> QED BY <1>2, <2>2, <3>1 DEF Held, Intact
  <2>3. ASSUME entries' = Pointed([entries EXCEPT ![o] = Blank]) PROVE Held(o)'
    <3>1. entries'[o] = Blank
      BY <2>1, <2>3 DEF Pointed
    <3> QED BY <3>1 DEF Held, Blank
  <2> QED BY <1>1, <2>2, <2>3, Resolved
<1>6. AttemptSound(dl'[d], SentTag(d)', server')
  BY <1>4 DEF AttemptSound, OnlyJunk
<1> QED BY <1>3, <1>4, <1>5, <1>6 DEF DownloadFits

\* An eviction disowns an entry, or makes it stale, but leaves it as it was sent.
LEMMA EvictFits ==
  ASSUME IInv, NEW d \in Downloads, DownloadFits(d), EvictEntry
  PROVE  DownloadFits(d)'
<1>1. PICK o \in Objects : ResolveEntry(o, TRUE)
  BY DEF EvictEntry
<1>2. UNCHANGED <<server, file, dl>>
  BY DEF EvictEntry
<1> SUFFICES ASSUME ~ Released(d) PROVE DownloadFits(d)'
  BY <1>2 DEF DownloadFits, Released
<1>3. PICK x \in Objects :
        x = dl[d].entry /\ Held(x) /\ AttemptSound(dl[d], SentTag(d), server)
  BY Unreleased DEF DownloadFits
<1>4. entries \in [Objects -> EntryRecords]
  BY Cache
<1>5. \A es : Pointed(es)[x] = es[x]
  BY <1>2, <1>3 DEF Pointed
<1>6. Held(x)' /\ entries'[x].etag = entries[x].etag
  <2>1. ASSUME NEW e \in EntryRecords, listed \in Objects, Intact(entries[listed]),
               o = listed, listed' = listed, e.etag = entries[o].etag, e.unmodified = TRUE,
               entries' = Pointed([entries EXCEPT ![o] = e])
        PROVE  Held(x)' /\ entries'[x].etag = entries[x].etag
    <3>1. entries'[x] = IF x = o THEN e ELSE entries[x]
      BY <1>3, <1>4, <1>5, <2>1
    <3>2. file'.exists
      BY <1>2, <2>1 DEF Intact
    <3> QED BY <1>3, <2>1, <3>1, <3>2 DEF Held
  <2>2. ASSUME listed = Nobody \/ ~ Intact(entries[listed]),
               entries' = Pointed([entries EXCEPT ![o] = Blank])
        PROVE  Held(x)' /\ entries'[x].etag = entries[x].etag
    <3>1. entries'[x] = IF x = o THEN Blank ELSE entries[x]
      BY <1>3, <1>4, <1>5, <2>2
    <3>2. entries[x].etag = NoTag
      BY <1>3, <2>2, Constants DEF Held, Intact
    <3> QED BY <3>1, <3>2 DEF Held, Blank
  <2> QED BY <1>1, <2>1, <2>2, Resolved
<1>7. SentTag(d)' = SentTag(d)
  BY <1>2, <1>3, <1>6 DEF SentTag
<1> QED BY <1>2, <1>3, <1>6, <1>7 DEF DownloadFits

\* A release of the server leaves a download with a version that was current.
LEMMA PublishFits ==
  ASSUME IInv, NEW d \in Downloads, DownloadFits(d), Publish
  PROVE  DownloadFits(d)'
<1>1. server' = server + 1 /\ UNCHANGED <<file, entries, listed, dl>>
  BY DEF Publish
<1>2. SentTag(d)' = SentTag(d)
  BY <1>1 DEF SentTag
<1> SUFFICES ASSUME ~ Released(d) PROVE DownloadFits(d)'
  BY <1>1 DEF DownloadFits, Released
<1>3. Held(dl[d].entry) /\ AttemptSound(dl[d], SentTag(d), server) /\ SentTag(d) \in Nat
  BY Unreleased DEF DownloadFits
<1>4. server \in Nat /\ dl[d].reply.version \in Nat
  BY Fields, Constants DEF IInv, TypeOK, FileTyped, Versions, DownloadRecords, Replies
<1>5. AttemptSound(dl[d], SentTag(d), server + 1)
  BY <1>3, <1>4 DEF AttemptSound
<1>6. Held(dl[d].entry)'
  BY <1>1, <1>3 DEF Held
<1> QED BY <1>1, <1>2, <1>5, <1>6 DEF DownloadFits

\* Every step keeps the strengthened invariant when the download is alone.
LEMMA AloneStep ==
  ASSUME NEW d, Downloads = {d}, FInv(d), [Next]_vars
  PROVE  FInv(d)'
<1>1. d \in Downloads /\ IInv /\ Remembered /\ EntriesFit /\ DownloadFits(d)
  BY DEF FInv
<1>2. IInv' /\ Remembered'
  BY <1>1, EveryStep, RememberedStep
<1>3. EntriesFit' /\ DownloadFits(d)'
  <2>1. CASE UNCHANGED vars
    BY <1>1, <2>1 DEF vars, EntriesFit, DownloadFits, Released, Held, SentTag
  <2>2. CASE StartDownload(d) \/ ReadyRead(d) \/ WriteFails(d)
               \/ FollowRedirect(d) \/ NetworkError(d) \/ CommitFails(d)
    <3>1. DownloadFits(d)'
      BY <1>1, <2>2, DownloadFitsStep
    <3>2. UNCHANGED <<server, file, entries, saved>>
      BY <2>2
         DEF StartDownload, ReadyRead, WriteFails, FollowRedirect, NetworkError, CommitFails
    <3> QED BY <1>1, <3>1, <3>2 DEF EntriesFit
  <2>3. CASE Request(d)
    BY <1>1, <2>3, RequestFits
  <2>4. CASE Finish(d)
    BY <1>1, <1>2, <2>4, FinishFits
  <2>5. CASE EvictEntry \/ SaveTimeout \/ Restart \/ Crash \/ Publish \/ Meddle
    <3>1. EntriesFit'
      BY <1>1, <1>2, <2>5, EntriesFitStep
    <3>2. CASE EvictEntry
      BY <1>1, <3>1, <3>2, EvictFits
    <3>3. CASE SaveTimeout
      BY <1>1, <3>1, <3>3 DEF SaveTimeout, DownloadFits, Released, Held, SentTag
    <3>4. CASE Restart \/ Crash
      <4>1. dl' = [e \in Downloads |-> Unused]
        BY <3>4 DEF Restart, Crash, Load
      <4>2. dl'[d].phase = "unused"
        BY <1>1, <4>1 DEF Unused
      <4> QED BY <3>1, <4>2 DEF DownloadFits, Released
    <3>5. CASE Publish
      BY <1>1, <3>1, <3>5, PublishFits
    <3>6. CASE Meddle
      <4>1. Released(d) /\ dl' = dl
        BY <1>1, <3>6 DEF Meddle, Idle
      <4> QED BY <3>1, <4>1 DEF DownloadFits, Released
    <3> QED BY <2>5, <3>2, <3>3, <3>4, <3>5, <3>6
  <2> QED BY <1>1, <2>1, <2>2, <2>3, <2>4, <2>5 DEF Next
<1> QED BY <1>2, <1>3 DEF FInv

LEMMA AloneBeginning ==
  ASSUME NEW d, Downloads = {d}, Init
  PROVE  FInv(d)
<1>1. IInv
  BY Beginning
<1>2. Remembered
  BY DEF Init, Remembered, SavedOne, NothingForgotten
<1>3. EntriesFit
  <2>1. Fits(Blank, file, server)
    BY <1>1, BlankFits DEF IInv, WholeFile, TypeOK, FileTyped
  <2> QED BY <2>1 DEF Init, EntriesFit
<1>4. DownloadFits(d)
  <2>1. dl[d].phase = "unused"
    BY DEF Init, Unused
  <2> QED BY <2>1 DEF DownloadFits, Released
<1> QED BY <1>1, <1>2, <1>3, <1>4 DEF FInv

\* What the index says follows from the strengthened invariant.
LEMMA AloneFits ==
  ASSUME NEW d, FInv(d)
  PROVE  IndexFits
<1>1. IInv /\ EntriesFit /\ Remembered
  BY DEF FInv
<1>2. FreshEntryFits
  <2>1. listed # Nobody => listed \in Objects
    BY <1>1, Cache
  <2> QED BY <1>1, <2>1 DEF FreshEntryFits, EntriesFit, Fits, Accepts, Intact
<1>3. SavedIndexFits
  BY <1>1 DEF SavedIndexFits, EntriesFit, Fits, Accepts, Intact
<1> QED BY <1>1, <1>2, <1>3 DEF IndexFits, Remembered

\* Only downloadFinished makes a waiting download succeed.
LEMMA AloneSucceeds ==
  ASSUME NEW d, Downloads = {d}, FInv(d), [Next]_vars,
         Waiting(d, {"full", "notModified"}), dl'[d].phase = "succeeded",
         dl[d].reply.kind = "full" \/ ~ dl[d].wroteAnyData
  PROVE  file' = [exists |-> TRUE, data |-> Full(dl[d].reply.version)]
<1>1. d \in Downloads /\ IInv /\ EntriesFit /\ DownloadFits(d)
  BY DEF FInv
<1>2. dl[d].phase = "waiting" /\ dl[d].reply.kind # "redirect"
      /\ dl \in [Downloads -> DownloadRecords]
  BY <1>1, Cache DEF Waiting
<1>3. ~ Released(d) /\ ~ CanStart(d)
  BY <1>2 DEF Released, CanStart
<1>4. CASE Finish(d)
  BY <1>1, <1>4, Finishing
<1>5. CASE UNCHANGED dl
  BY <1>2, <1>5
<1>6. CASE Request(d) \/ StartDownload(d) \/ FollowRedirect(d)
  BY <1>2, <1>3, <1>6 DEF Request, StartDownload, FollowRedirect, Waiting
<1>7. CASE ReadyRead(d) \/ WriteFails(d) \/ NetworkError(d) \/ CommitFails(d)
  <2>1. dl'[d].phase = "waiting" \/ dl'[d].phase = "failed"
    <3>1. CASE ReadyRead(d)
      <4> DEFINE chunk == Body(dl[d].reply)[dl[d].got + 1]
                 r == [dl[d] EXCEPT !.got = @ + 1, !.wroteAnyData = TRUE,
                                    !.buffer = Append(@, chunk), !.digest = Append(@, chunk)]
      <4>1. dl' = [dl EXCEPT ![d] = r]
        BY <1>1, <1>2, <3>1 DEF ReadyRead
      <4>2. r.phase = dl[d].phase
        BY <1>1, <1>2 DEF DownloadRecords
      <4> HIDE DEF r
      <4> QED BY <1>1, <1>2, <4>1, <4>2
    <3>2. CASE WriteFails(d)
      <4> DEFINE h == Append(dl[d].digest, Body(dl[d].reply)[dl[d].got + 1])
                 r == [dl[d] EXCEPT !.phase = "failed", !.wroteAnyData = TRUE, !.digest = h]
      <4>1. dl' = [dl EXCEPT ![d] = r]
        BY <1>1, <1>2, <3>2 DEF WriteFails
      <4> HIDE DEF h
      <4>2. r.phase = "failed"
        BY <1>1, <1>2 DEF DownloadRecords
      <4> HIDE DEF r
      <4> QED BY <1>1, <1>2, <4>1, <4>2
    <3>3. CASE NetworkError(d) \/ CommitFails(d)
      <4>1. dl' = [dl EXCEPT ![d].phase = "failed"]
        BY <3>3 DEF NetworkError, CommitFails
      <4> QED BY <1>1, <1>2, <4>1 DEF DownloadRecords
    <3> QED BY <1>7, <3>1, <3>2, <3>3
  <2> QED BY <2>1
<1>8. CASE Restart \/ Crash
  <2>1. dl' = [e \in Downloads |-> Unused]
    BY <1>8 DEF Restart, Crash, Load
  <2> QED BY <1>1, <2>1 DEF Unused
<1>9. CASE EvictEntry \/ SaveTimeout \/ Publish \/ Meddle \/ UNCHANGED vars
  BY <1>5, <1>9 DEF EvictEntry, SaveTimeout, Publish, Meddle, vars
<1> QED BY <1>1, <1>4, <1>6, <1>7, <1>8, <1>9 DEF Next

-----------------------------------------------------------------------------
(* Theorems *)

\* The inductive invariant holds of every reachable state.
THEOREM Invariance == Spec => []IInv
<1>1. Init => IInv
  BY Beginning
<1>2. IInv /\ [Next]_vars => IInv'
  BY EveryStep
<1> QED BY <1>1, <1>2, PTL DEF Spec

\* The types hold, and every entry that is named is one of the cache's objects.
THEOREM TypeCorrect == Spec => []TypeOK
<1>1. IInv => TypeOK
  BY DEF IInv
<1> QED BY <1>1, Invariance, PTL

\* However downloads of the path overlap, fail, are retried, redirected or killed, the
\* target is a whole version, the user's, or empty (CacheDownload).
THEOREM WholeCorrect == Spec => []WholeFile
<1>1. IInv => WholeFile
  BY DEF IInv
<1> QED BY <1>1, Invariance, PTL

\* An evicted entry stays stale until the path is downloaded, through any number of
\* downloads of it, restarts and saves that succeed (evictEntry, SaveNow, Load).
THEOREM EvictionCorrect == Spec => []EvictionHolds
<1>1. IInv => EvictionHolds
  BY DEF IInv
<1> QED BY <1>1, Invariance, PTL

\* The index on disk and the timer never forget an entry, for any number of downloads.
THEOREM RememberedCorrect == Spec => []NothingForgotten
<1>1. Init => Remembered
  BY DEF Init, Remembered, SavedOne, NothingForgotten
<1>2. IInv /\ Remembered /\ [Next]_vars => Remembered'
  BY RememberedStep
<1>3. Remembered => NothingForgotten
  BY DEF Remembered
<1> QED BY <1>1, <1>2, <1>3, Invariance, PTL DEF Spec

\* With one download of the path at a time, what the cache believes of the file, in
\* memory and on disk, is true of it, whatever is interrupted, redirected, answered
\* with a 304, changed by the user, evicted or killed (downloadFinished, resolveEntry,
\* SaveNow, Load).
THEOREM FitsCorrect ==
  ASSUME NEW alone, Downloads = {alone}
  PROVE  Spec => []IndexFits
<1>1. Init => FInv(alone)
  BY AloneBeginning
<1>2. FInv(alone) /\ [Next]_vars => FInv(alone)'
  BY AloneStep
<1>3. FInv(alone) => IndexFits
  BY AloneFits
<1> QED BY <1>1, <1>2, <1>3, PTL DEF Spec

\* With one download of the path at a time, success leaves the version that the server
\* answered with (start, downloadFinished).
THEOREM CurrentCorrect ==
  ASSUME NEW alone, Downloads = {alone}
  PROVE  Spec => SuccessIsCurrent
<1> DEFINE Current == \A d \in Downloads :
                        /\ Waiting(d, {"full", "notModified"}) /\ dl'[d].phase = "succeeded"
                        /\ dl[d].reply.kind = "full" \/ ~ dl[d].wroteAnyData
                        => file' = [exists |-> TRUE, data |-> Full(dl[d].reply.version)]
<1>1. Init => FInv(alone)
  BY AloneBeginning
<1>2. FInv(alone) /\ [Next]_vars => FInv(alone)'
  BY AloneStep
<1>3. FInv(alone) /\ [Next]_vars => [Current]_vars
  BY AloneSucceeds
<1> QED BY <1>1, <1>2, <1>3, PTL DEF Spec, SuccessIsCurrent
=============================================================================
