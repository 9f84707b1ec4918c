------------------------- MODULE UpdateChecker_proofs -------------------------
(***************************************************************************)
(* Proofs that the update checker asks and offers only what was asked for, *)
(* and that no callback finds its job gone while no event is delivered     *)
(* inside a modal dialog: for any channels, lists, faults and number of    *)
(* requests.                                                               *)
(***************************************************************************)
EXTENDS UpdateChecker, FiniteSetTheorems, TLAPS

-----------------------------------------------------------------------------
(* The elements of a sequence at given places *)

\* Nth lists the numbers of a finite set, each once and in order.
LEMMA NthIs ==
  ASSUME NEW P \in SUBSET Nat, IsFiniteSet(P)
  PROVE  /\ Cardinality(P) \in Nat
         /\ \A h \in 1..Cardinality(P) : Nth(P, h) \in P
         /\ \A h, l \in 1..Cardinality(P) : h < l => Nth(P, h) < Nth(P, l)
         /\ \A i \in P : \E h \in 1..Cardinality(P) : Nth(P, h) = i
<1> DEFINE n == Cardinality(P)
           Upto(i) == {j \in P : j <= i}
           place == [i \in P |-> Cardinality(Upto(i))]
<1>1. n \in Nat /\ IsFiniteSet(1..n) /\ Cardinality(1..n) = n
  BY FS_CardinalityType, FS_Interval
<1>2. ASSUME NEW i \in P
      PROVE  IsFiniteSet(Upto(i)) /\ Cardinality(Upto(i)) \in 1..n
  <2>1. Upto(i) \in SUBSET P /\ i \in Upto(i)
    OBVIOUS
  <2> HIDE DEF Upto
  <2>2. IsFiniteSet(Upto(i)) /\ Cardinality(Upto(i)) <= n
    BY <2>1, FS_Subset
  <2>3. Cardinality(Upto(i)) \in Nat /\ Cardinality(Upto(i)) # 0
    BY <2>1, <2>2, FS_CardinalityType, FS_EmptySet
  <2> QED BY <1>1, <2>2, <2>3
<1>3. ASSUME NEW i \in P, NEW j \in P, i < j
      PROVE  Cardinality(Upto(i)) < Cardinality(Upto(j))
  <2>0. \A h \in P : h \in Nat
    OBVIOUS
  <2>1. Upto(i) \in SUBSET Upto(j) /\ j \in Upto(j) /\ j \notin Upto(i)
    <3>1. i \in Nat /\ j \in Nat /\ \A h \in P : h <= i => h <= j
      BY <1>3, <2>0
    <3>2. \A h \in P : h \in Upto(i) <=> h <= i
      OBVIOUS
    <3>3. \A h \in P : h \in Upto(j) <=> h <= j
      OBVIOUS
    <3>4. Upto(i) \subseteq P
      OBVIOUS
    <3>5. j <= j /\ ~(j <= i)
      BY <1>3, <3>1
    <3> HIDE DEF Upto
    <3> QED BY <3>1, <3>2, <3>3, <3>4, <3>5
  <2> HIDE DEF Upto
  <2>2. IsFiniteSet(Upto(j)) /\ Cardinality(Upto(j)) \in 1..n /\ Cardinality(Upto(i)) \in 1..n
    BY <1>2
  <2>3. Cardinality(Upto(i)) <= Cardinality(Upto(j)) /\ Cardinality(Upto(i)) # Cardinality(Upto(j))
    BY <2>1, <2>2, FS_Subset
  <2> QED BY <1>1, <2>2, <2>3
<1>4. \A h \in 1..n : Nth(P, h) = CHOOSE i \in P : Cardinality(Upto(i)) = h
  BY DEF Nth
<1> HIDE DEF Upto
<1>5. place \in [P -> 1..n] /\ \A i \in P : place[i] = Cardinality(Upto(i))
  BY <1>2
<1> HIDE DEF place
<1>6. \A i, j \in P : place[i] = place[j] => i = j
  BY <1>1, <1>3, <1>5
<1>7. place \in Surjection(P, 1..n)
  <2>1. place \in Injection(P, 1..n)
    BY <1>5, <1>6 DEF Injection, IsInjective
  <2> QED BY <1>1, <2>1, FS_Injection
<1> HIDE DEF n
<1>8. ASSUME NEW h \in 1..n
      PROVE  Nth(P, h) \in P /\ place[Nth(P, h)] = h
  <2>1. \E i \in P : Cardinality(Upto(i)) = h
    BY <1>5, <1>7 DEF Surjection
  <2>2. Nth(P, h) \in P /\ Cardinality(Upto(Nth(P, h))) = h
    BY <1>4, <2>1
  <2> QED BY <1>5, <2>2
<1>9. ASSUME NEW h \in 1..n, NEW l \in 1..n, h < l
      PROVE  Nth(P, h) < Nth(P, l)
  <2>1. Nth(P, h) \in P /\ Nth(P, l) \in P /\ place[Nth(P, h)] = h /\ place[Nth(P, l)] = l
    BY <1>8
  <2>2. Nth(P, l) < Nth(P, h) => l < h
    BY <1>3, <1>5, <2>1
  <2>3. \A i \in P : i \in Nat
    OBVIOUS
  <2>4. Nth(P, l) # Nth(P, h)
    BY <1>9, <2>1
  <2>5. Nth(P, h) \in Nat /\ Nth(P, l) \in Nat
    BY <2>1, <2>3
  <2>6. ~(l < h)
    BY <1>1, <1>9
  <2> QED BY <2>2, <2>4, <2>5, <2>6
<1>10. ASSUME NEW i \in P
       PROVE  place[i] \in 1..n /\ Nth(P, place[i]) = i
  <2>1. place[i] \in 1..n
    BY <1>5
  <2>2. Nth(P, place[i]) \in P /\ place[Nth(P, place[i])] = place[i]
    BY <1>8, <2>1
  <2> QED BY <1>6, <2>1, <2>2
<1> QED BY <1>1, <1>8, <1>9, <1>10 DEF n

\* e lists the positions of P in order, and t has the elements of s there.
Picks(e, t, s, P) ==
  /\ e \in [1..Len(t) -> P]
  /\ \A h, l \in 1..Len(t) : h < l => e[h] < e[l]
  /\ \A i \in P : \E h \in 1..Len(t) : e[h] = i
  /\ \A h \in 1..Len(t) : t[h] = s[e[h]]

\* What the selection is: a sequence of the selected elements, in their order.
LEMMA Selected ==
  ASSUME NEW X, NEW s \in Seq(X), NEW P \in SUBSET (1..Len(s))
  PROVE  /\ Select(s, P) \in Seq(X)
         /\ \E e : Picks(e, Select(s, P), s, P)
<1> DEFINE n == Cardinality(P)
           e == [h \in 1..n |-> Nth(P, h)]
<1>1. IsFiniteSet(P) /\ P \in SUBSET Nat
  <2>1. Len(s) \in Int /\ 1 \in Int
    OBVIOUS
  <2>2. IsFiniteSet(1..Len(s)) /\ P \in SUBSET Nat
    BY <2>1, FS_Interval
  <2> QED BY <2>2, FS_Subset
<1>2. /\ n \in Nat
      /\ \A h \in 1..n : Nth(P, h) \in P
      /\ \A h, l \in 1..n : h < l => Nth(P, h) < Nth(P, l)
      /\ \A i \in P : \E h \in 1..n : Nth(P, h) = i
  BY <1>1, NthIs
<1>3. Select(s, P) = [h \in 1..n |-> s[Nth(P, h)]]
  BY DEF Select
<1> HIDE DEF n
<1>4. \A h \in 1..n : Nth(P, h) \in P /\ s[Nth(P, h)] \in X
  <2>1. \A i \in P : s[i] \in X
    OBVIOUS
  <2> QED BY <1>2, <2>1
<1>5. Select(s, P) \in Seq(X) /\ Len(Select(s, P)) = n
  BY <1>2, <1>3, <1>4
<1>6. Picks(e, Select(s, P), s, P)
  BY <1>2, <1>3, <1>4, <1>5 DEF Picks
<1> QED BY <1>5, <1>6

-----------------------------------------------------------------------------
(* The inductive invariant *)

Choices == Channels \union {Nobody}

JobRecords ==
  [kind : {"list", "index"}, notify : BOOLEAN, from : Choices,
   why : {"asked", "page", "repeated"},
   state : {"queued", "running", "answered", "done", "gone"},
   reply : {"none", "good", "newer", "same"} \union AllFaults, channels : SUBSET Channels]

EventRecords == [do : {"start", "finish", "delete"}, job : Nat, level : Nat]

DialogRecords == [kind : {"settings", "other"} \union Results, repo : Choices, from : Choices]

\* The job may still report.
Pending(r) == r.state \in {"queued", "running", "answered"}

\* An event in a queue q, for the jobs js of which cl and ij are held.
EventSound(e, js, cl, ij) ==
  /\ e.job \in DOMAIN js /\ js[e.job].state # "gone"
  /\ e.do = "start" => js[e.job].state = "queued"
  /\ e.do = "finish" => js[e.job].state = "answered"
  /\ e.do = "delete" => e.job \notin {cl, ij}

QueueSound(q, js, cl, ij) ==
  /\ \A i \in DOMAIN q : EventSound(q[i], js, cl, ij)
  /\ \A i, k \in DOMAIN q : q[i].job = q[k].job /\ q[i].do = q[k].do => i = k

\* A job that is held exists.
HeldSound(js, j, kind) ==
  j = Nobody \/ (j \in DOMAIN js /\ js[j].kind = kind /\ js[j].state # "gone")

JobsSound(js, q, cl, ij) ==
  /\ js \in Seq(JobRecords) /\ q \in Seq(EventRecords)
  /\ QueueSound(q, js, cl, ij)
  /\ HeldSound(js, cl, "list") /\ HeldSound(js, ij, "index")

\* The indices awaited.
Awaited(js) == {j \in DOMAIN js : js[j].kind = "index" /\ Pending(js[j])}

Shown(ds) == {i \in DOMAIN ds : ds[i].kind \in Results}

\* At most one index is awaited or its result shown, m_updateChecking is set then,
\* and an awaited index is that of m_newRepoUrl.
ChecksSound(js, ij, checking, repo, ds) ==
  /\ \A j \in Awaited(js) : checking /\ ij = j /\ js[j].from = repo /\ Shown(ds) = {}
  /\ \A i, k \in Shown(ds) : checking /\ i = k

\* Why no deferred check is repeated: before the list is loaded no index was
\* asked for; afterwards no other list is loaded, or no check waits, or a check
\* was ended by a channel that is not on the list, and m_updateChecking stays.
RequestsSound ==
  /\ \A j \in DOMAIN jobs : jobs[j].kind = "index" => jobs[j].why # "repeated"
  /\ ~m_chanListLoaded =>
       /\ m_channels = {} /\ ~m_updateChecking /\ JobsOf("index") = {} /\ Shown(dialogs) = {}
       /\ m_checkUpdateWaiting => owed
  /\ m_chanListLoaded =>
       \/ m_channels # {} /\ chanListJob = Nobody
       \/ ~m_checkUpdateWaiting
       \/ m_updateChecking /\ Awaited(jobs) = {} /\ Shown(dialogs) = {}

\* Job j is deleted before its report is delivered.
Doomed(q, j) ==
  \E p \in DOMAIN q : /\ q[p].do = "delete" /\ q[p].job = j
                      /\ \A h \in 1..p : ~(q[h].do = "finish" /\ q[h].job = j)

\* The report of job j is delivered before job n starts.
ReportsFirst(q, j, n) ==
  \E p, r \in DOMAIN q : /\ p < r
                         /\ q[p].do = "finish" /\ q[p].job = j
                         /\ q[r].do = "start" /\ q[r].job = n

\* The list jobs that are not held any more and will report all the same.
Orphans(js, q, cl) ==
  {j \in DOMAIN js : /\ js[j].kind = "list" /\ Pending(js[j])
                     /\ j # cl /\ ~Doomed(q, j)}

\* As long as all events are delivered by the main loop, in order, at most one
\* job that was replaced will report, and it will do so while the one that
\* replaced it has not started.
Orderly(js, q, cl) ==
  /\ \A i \in DOMAIN q : q[i].do = "delete" => q[i].level = 1
  /\ \A j \in Orphans(js, q, cl) : cl # Nobody /\ ReportsFirst(q, j, cl)
  /\ \A j, k \in Orphans(js, q, cl) : j = k

Typed ==
  /\ m_channels \subseteq Channels
  /\ {m_chanListLoaded, m_chanListLoading, m_updateChecking, m_checkUpdateWaiting, started, owed} \subseteq BOOLEAN
  /\ nested \in BOOLEAN
  /\ m_deferredUpdateChannel \in Choices /\ m_newRepoUrl \in Choices
  /\ crash \in DOMAIN jobs \union {Nobody}
  /\ dialogs \in Seq(DialogRecords)

IInv ==
  /\ Typed
  /\ JobsSound(jobs, queue, chanListJob, indexJob)
  /\ ChecksSound(jobs, indexJob, m_updateChecking, m_newRepoUrl, dialogs)
  /\ OfferIsAsked
  /\ RequestsSound
  /\ ~nested => Orderly(jobs, queue, chanListJob)
  /\ NullOnlyByDialogs
  /\ ~started => dialogs = <<>> /\ crash = Nobody

-----------------------------------------------------------------------------
(* Lemmas about events *)

LEMMA AddedLast ==
  ASSUME NEW X, NEW s \in Seq(X), NEW e \in X
  PROVE  /\ s \o <<e>> \in Seq(X) /\ Len(s \o <<e>>) = Len(s) + 1
         /\ DOMAIN (s \o <<e>>) = 1..(Len(s) + 1) /\ DOMAIN s = 1..Len(s) /\ Len(s) \in Nat
         /\ (s \o <<e>>)[Len(s) + 1] = e
         /\ \A k \in DOMAIN s : (s \o <<e>>)[k] = s[k]
OBVIOUS

\* The events of r are some of those of q, at the places e.
Embeds(e, r, q) ==
  /\ e \in [DOMAIN r -> DOMAIN q]
  /\ \A k, l \in DOMAIN r : e[k] = e[l] => k = l
  /\ \A k \in DOMAIN r : r[k] = q[e[k]]

\* The queue without the event at i, whose predecessors are posted again.
Without(q, i) == SubSeq(q, i + 1, Len(q)) \o SubSeq(q, 1, i - 1)

LEMMA WithoutIs ==
  ASSUME NEW X, NEW q \in Seq(X), NEW i \in DOMAIN q
  PROVE  /\ Without(q, i) \in Seq(X) /\ Len(Without(q, i)) = Len(q) - 1
         /\ \A k \in 1..(Len(q) - 1) :
              Without(q, i)[k] = q[IF k <= Len(q) - i THEN k + i ELSE k - (Len(q) - i)]
<1> DEFINE a == SubSeq(q, i + 1, Len(q))
           b == SubSeq(q, 1, i - 1)
<1>1. i \in 1..Len(q) /\ Len(q) \in Nat
  OBVIOUS
<1>2. a \in Seq(X) /\ Len(a) = Len(q) - i /\ \A k \in 1..(Len(q) - i) : a[k] = q[k + i]
  BY <1>1
<1>3. b \in Seq(X) /\ Len(b) = i - 1 /\ \A k \in 1..(i - 1) : b[k] = q[k]
  BY <1>1
<1>4. Without(q, i) = a \o b
  BY DEF Without
<1> HIDE DEF a, b
<1>5. a \o b \in Seq(X) /\ Len(a \o b) = Len(a) + Len(b)
  <2>1. a \in Seq(X) /\ b \in Seq(X)
    BY <1>2, <1>3
  <2> QED BY <2>1
<1>6. \A k \in 1..(Len(a) + Len(b)) : (a \o b)[k] = IF k <= Len(a) THEN a[k] ELSE b[k - Len(a)]
  <2>1. a \in Seq(X) /\ b \in Seq(X)
    BY <1>2, <1>3
  <2> QED BY <2>1
<1>7. ASSUME NEW k \in 1..(Len(q) - 1)
      PROVE  (a \o b)[k] = q[IF k <= Len(q) - i THEN k + i ELSE k - (Len(q) - i)]
  <2>1. CASE k <= Len(q) - i
    BY <1>1, <1>2, <1>3, <1>6, <2>1
  <2>2. CASE ~(k <= Len(q) - i)
    <3>1. k - (Len(q) - i) \in 1..(i - 1)
      BY <1>1, <2>2
    <3>2. (a \o b)[k] = b[k - (Len(q) - i)]
      <4>1. Len(a) = Len(q) - i /\ Len(b) = i - 1
        BY <1>2, <1>3
      <4>2. k \in 1..(Len(a) + Len(b)) /\ ~(k <= Len(a))
        BY <1>1, <2>2, <4>1
      <4> QED BY <1>6, <4>1, <4>2
    <3> QED BY <1>3, <2>2, <3>1, <3>2
  <2> QED BY <2>1, <2>2
<1>8. Len(a) + Len(b) = Len(q) - 1
  BY <1>1, <1>2, <1>3
<1> QED BY <1>4, <1>5, <1>7, <1>8

\* It embeds in the queue, with no event at i.
LEMMA WithoutEmbeds ==
  ASSUME NEW X, NEW q \in Seq(X), NEW i \in DOMAIN q
  PROVE  \E e : Embeds(e, Without(q, i), q) /\ \A k \in DOMAIN Without(q, i) : e[k] # i
<1> DEFINE e == [k \in 1..(Len(q) - 1) |-> IF k <= Len(q) - i THEN k + i ELSE k - (Len(q) - i)]
<1>1. i \in 1..Len(q) /\ Len(q) \in Nat
  OBVIOUS
<1>2. DOMAIN Without(q, i) = 1..(Len(q) - 1)
  BY WithoutIs, <1>1
<1>3. e \in [1..(Len(q) - 1) -> 1..Len(q)]
  BY <1>1
<1>4. \A k, l \in 1..(Len(q) - 1) : e[k] = e[l] => k = l
  BY <1>1
<1>5. \A k \in 1..(Len(q) - 1) : e[k] # i
  BY <1>1
<1>6. \A k \in 1..(Len(q) - 1) : Without(q, i)[k] = q[e[k]]
  BY WithoutIs
<1> HIDE DEF e
<1> QED BY <1>2, <1>3, <1>4, <1>5, <1>6 DEF Embeds

\* The first event goes, the others move up.
LEMMA WithoutFirst ==
  ASSUME NEW X, NEW q \in Seq(X), q # <<>>
  PROVE  /\ Without(q, 1) \in Seq(X) /\ Len(Without(q, 1)) = Len(q) - 1
         /\ \A k \in 1..(Len(q) - 1) : Without(q, 1)[k] = q[k + 1]
<1>1. 1 \in DOMAIN q /\ Len(q) \in Nat
  OBVIOUS
<1> QED BY <1>1, WithoutIs

LEMMA EmbeddedSound ==
  ASSUME NEW q, NEW js, NEW cl, NEW ij, QueueSound(q, js, cl, ij),
         NEW r, NEW e, Embeds(e, r, q)
  PROVE  QueueSound(r, js, cl, ij)
BY DEF Embeds, QueueSound

\* Job j is in state s now; nothing else about the jobs has changed but data.
Marked(js, ks, j, s) ==
  /\ ks \in Seq(JobRecords) /\ Len(ks) = Len(js)
  /\ \A k \in DOMAIN js : k # j => ks[k] = js[k]
  /\ ks[j].state = s
  /\ ks[j].kind = js[j].kind /\ ks[j].from = js[j].from /\ ks[j].why = js[j].why

\* A job starts, or its report is delivered.
LEMMA EventTaken ==
  ASSUME NEW js, NEW q, NEW cl, NEW ij, JobsSound(js, q, cl, ij), NEW i \in DOMAIN q,
         NEW s, \/ q[i].do = "start" /\ s = "running"
                \/ q[i].do = "finish" /\ s = "done",
         NEW ks, Marked(js, ks, q[i].job, s)
  PROVE  JobsSound(ks, Without(q, i), cl, ij)
<1> DEFINE r == Without(q, i)
           j == q[i].job
<1>1. js \in Seq(JobRecords) /\ q \in Seq(EventRecords) /\ ks \in Seq(JobRecords)
      /\ DOMAIN ks = DOMAIN js /\ j \in DOMAIN js
  BY DEF JobsSound, Marked, QueueSound, EventSound
<1>2. r \in Seq(EventRecords)
  BY <1>1, WithoutIs
<1>3. PICK e : Embeds(e, r, q) /\ \A k \in DOMAIN r : e[k] # i
  BY <1>1, WithoutEmbeds
<1> HIDE DEF r
<1>4. QueueSound(r, js, cl, ij)
  BY <1>3, EmbeddedSound DEF JobsSound
<1>5. /\ q[i].do = "start" => js[j].state = "queued"
      /\ q[i].do = "finish" => js[j].state = "answered"
  BY DEF JobsSound, QueueSound, EventSound
<1>6. \A k \in DOMAIN r : r[k].job = j => r[k].do # "start" /\ r[k].do # "finish"
  <2> SUFFICES ASSUME NEW k \in DOMAIN r, r[k].job = j PROVE r[k].do # "start" /\ r[k].do # "finish"
    OBVIOUS
  <2>1. e[k] \in DOMAIN q /\ e[k] # i /\ r[k] = q[e[k]]
    BY <1>3 DEF Embeds
  <2>2. r[k].do # q[i].do
    BY <2>1 DEF JobsSound, QueueSound
  <2>3. EventSound(r[k], js, cl, ij)
    BY <1>4 DEF QueueSound
  <2> QED BY <1>5, <2>2, <2>3 DEF EventSound
<1>7. \A k \in DOMAIN r : EventSound(r[k], ks, cl, ij)
  BY <1>1, <1>4, <1>6 DEF QueueSound, EventSound, Marked
<1>8. HeldSound(ks, cl, "list") /\ HeldSound(ks, ij, "index")
  BY <1>1 DEF JobsSound, HeldSound, Marked
<1> QED BY <1>1, <1>2, <1>4, <1>7, <1>8 DEF JobsSound, QueueSound, r

\* A deleted job takes its events with it; it was held by nobody.
LEMMA EventDeletes ==
  ASSUME NEW js, NEW q, NEW cl, NEW ij, JobsSound(js, q, cl, ij), NEW i \in DOMAIN q,
         q[i].do = "delete", NEW s, NEW ks, Marked(js, ks, q[i].job, s)
  PROVE  /\ q[i].job \notin {cl, ij}
         /\ JobsSound(ks, Select(Without(q, i),
              {k \in DOMAIN Without(q, i) : Without(q, i)[k].job # q[i].job}), cl, ij)
<1> DEFINE r == Without(q, i)
           j == q[i].job
           P == {k \in DOMAIN r : r[k].job # j}
           t == Select(r, P)
<1>1. js \in Seq(JobRecords) /\ q \in Seq(EventRecords) /\ ks \in Seq(JobRecords)
      /\ DOMAIN ks = DOMAIN js /\ j \in DOMAIN js /\ j \notin {cl, ij}
  BY DEF JobsSound, Marked, QueueSound, EventSound
<1>2. r \in Seq(EventRecords)
  BY <1>1, WithoutIs
<1>3. PICK e : Embeds(e, r, q)
  BY <1>1, WithoutEmbeds
<1> HIDE DEF r
<1>4. QueueSound(r, js, cl, ij)
  BY <1>3, EmbeddedSound DEF JobsSound
<1>5. P \in SUBSET (1..Len(r)) /\ \A k \in P : r[k].job # j
  BY <1>2
<1> HIDE DEF P
<1>6. t \in Seq(EventRecords) /\ \E d : Picks(d, t, r, P)
  BY <1>2, <1>5, Selected
<1> HIDE DEF t
<1>7. PICK d \in [1..Len(t) -> P] : /\ \A k, l \in 1..Len(t) : k < l => d[k] < d[l]
                                    /\ \A k \in 1..Len(t) : t[k] = r[d[k]]
  BY <1>6 DEF Picks
<1>8. Embeds(d, t, r)
  <2>1. DOMAIN t = 1..Len(t) /\ Len(t) \in Nat /\ DOMAIN r = 1..Len(r)
    BY <1>2, <1>6
  <2>2. d \in [DOMAIN t -> DOMAIN r]
    BY <1>5, <2>1
  <2>3. \A k, l \in 1..Len(t) : k # l => k < l \/ l < k
    BY <2>1
  <2>4. \A k \in 1..Len(t) : ~(d[k] < d[k])
    <3>1. \A k \in 1..Len(t) : d[k] \in Nat
      BY <1>5, <2>1, <2>2
    <3> QED BY <3>1
  <2> QED BY <1>7, <2>1, <2>2, <2>3, <2>4 DEF Embeds
<1>9. QueueSound(t, js, cl, ij)
  BY <1>4, <1>8, EmbeddedSound
<1>10. \A k \in DOMAIN t : t[k].job # j
  BY <1>5, <1>7, <1>8 DEF Embeds
<1>11. \A k \in DOMAIN t : EventSound(t[k], ks, cl, ij)
  BY <1>1, <1>9, <1>10 DEF QueueSound, EventSound, Marked
<1>12. HeldSound(ks, cl, "list") /\ HeldSound(ks, ij, "index")
  BY <1>1 DEF JobsSound, HeldSound, Marked
<1> QED BY <1>1, <1>6, <1>9, <1>11, <1>12 DEF JobsSound, QueueSound, r, P, t

\* A running job is answered: no report of it is in the queue yet.
LEMMA EventPosted ==
  ASSUME NEW js, NEW q, NEW cl, NEW ij, JobsSound(js, q, cl, ij), NEW j \in DOMAIN js,
         js[j].state = "running", NEW ks, Marked(js, ks, j, "answered"),
         NEW e \in EventRecords, e.do = "finish", e.job = j
  PROVE  JobsSound(ks, Append(q, e), cl, ij)
<1> DEFINE r == Append(q, e)
<1>1. js \in Seq(JobRecords) /\ q \in Seq(EventRecords) /\ ks \in Seq(JobRecords)
      /\ DOMAIN ks = DOMAIN js
  BY DEF JobsSound, Marked
<1>2. /\ r \in Seq(EventRecords) /\ DOMAIN r = 1..(Len(q) + 1) /\ r[Len(q) + 1] = e
      /\ \A k \in DOMAIN q : r[k] = q[k]
  BY <1>1
<1>3. \A k \in DOMAIN r : k = Len(q) + 1 \/ k \in DOMAIN q
  BY <1>1, <1>2
<1>4. \A k \in DOMAIN q : EventSound(q[k], js, cl, ij)
  BY DEF JobsSound, QueueSound
<1>5. \A k \in DOMAIN q : q[k].job = j => q[k].do = "delete"
  <2>1. \A k \in DOMAIN q : q[k] \in EventRecords
    BY <1>1
  <2> QED BY <1>4, <2>1 DEF EventSound, EventRecords
<1> HIDE DEF r
<1>6. \A k \in DOMAIN q : EventSound(q[k], ks, cl, ij)
  BY <1>1, <1>4, <1>5 DEF EventSound, Marked
<1>7. EventSound(e, ks, cl, ij)
  BY <1>1 DEF EventSound, Marked
<1>8. \A k \in DOMAIN r : EventSound(r[k], ks, cl, ij)
  BY <1>2, <1>3, <1>6, <1>7
<1>9. \A k, l \in DOMAIN r : r[k].job = r[l].job /\ r[k].do = r[l].do => k = l
  <2>1. \A k, l \in DOMAIN q : q[k].job = q[l].job /\ q[k].do = q[l].do => k = l
    BY DEF JobsSound, QueueSound
  <2>2. \A k \in DOMAIN q : ~(r[k].job = e.job /\ r[k].do = e.do)
    BY <1>2, <1>5
  <2> QED BY <1>2, <1>3, <2>1, <2>2
<1>10. HeldSound(ks, cl, "list") /\ HeldSound(ks, ij, "index")
  BY <1>1 DEF JobsSound, HeldSound, Marked
<1> QED BY <1>1, <1>2, <1>8, <1>9, <1>10 DEF JobsSound, QueueSound, r

\* A held job is let go: an event will delete it.
LEMMA ListReleased ==
  ASSUME NEW js, NEW q, NEW cl, NEW ij, JobsSound(js, q, cl, ij), cl # Nobody,
         NEW e \in EventRecords, e.do = "delete", e.job = cl
  PROVE  JobsSound(js, q \o <<e>>, Nobody, ij)
<1> DEFINE r == q \o <<e>>
<1>1. js \in Seq(JobRecords) /\ q \in Seq(EventRecords)
      /\ cl \in DOMAIN js /\ js[cl].kind = "list" /\ js[cl].state # "gone"
  BY DEF JobsSound, HeldSound
<1>2. /\ r \in Seq(EventRecords) /\ DOMAIN r = 1..(Len(q) + 1) /\ r[Len(q) + 1] = e
      /\ \A k \in DOMAIN q : r[k] = q[k]
  BY <1>1
<1>3. \A k \in DOMAIN r : k = Len(q) + 1 \/ k \in DOMAIN q
  BY <1>1, <1>2
<1> HIDE DEF r
<1>4. \A k \in DOMAIN q : EventSound(q[k], js, Nobody, ij) /\ (q[k].job = cl => q[k].do # "delete")
  <2>1. \A k \in DOMAIN q : EventSound(q[k], js, cl, ij)
    BY DEF JobsSound, QueueSound
  <2> QED BY <1>1, <2>1, CheckerAssumption DEF EventSound
<1>5. ij # cl
  BY <1>1, CheckerAssumption DEF JobsSound, HeldSound
<1>6. EventSound(e, js, Nobody, ij)
  BY <1>1, <1>5, CheckerAssumption DEF EventSound
<1>7. \A k \in DOMAIN r : EventSound(r[k], js, Nobody, ij)
  BY <1>2, <1>3, <1>4, <1>6
<1>8. \A k, l \in DOMAIN r : r[k].job = r[l].job /\ r[k].do = r[l].do => k = l
  BY <1>2, <1>3, <1>4 DEF JobsSound, QueueSound
<1>9. HeldSound(js, Nobody, "list") /\ HeldSound(js, ij, "index")
  BY DEF JobsSound, HeldSound
<1> QED BY <1>1, <1>2, <1>7, <1>8, <1>9 DEF JobsSound, QueueSound, r

LEMMA IndexReleased ==
  ASSUME NEW js, NEW q, NEW cl, NEW ij, JobsSound(js, q, cl, ij), ij # Nobody,
         NEW e \in EventRecords, e.do = "delete", e.job = ij
  PROVE  JobsSound(js, q \o <<e>>, cl, Nobody)
<1> DEFINE r == q \o <<e>>
<1>1. js \in Seq(JobRecords) /\ q \in Seq(EventRecords)
      /\ ij \in DOMAIN js /\ js[ij].kind = "index" /\ js[ij].state # "gone"
  BY DEF JobsSound, HeldSound
<1>2. /\ r \in Seq(EventRecords) /\ DOMAIN r = 1..(Len(q) + 1) /\ r[Len(q) + 1] = e
      /\ \A k \in DOMAIN q : r[k] = q[k]
  BY <1>1
<1>3. \A k \in DOMAIN r : k = Len(q) + 1 \/ k \in DOMAIN q
  BY <1>1, <1>2
<1> HIDE DEF r
<1>4. \A k \in DOMAIN q : EventSound(q[k], js, cl, Nobody) /\ (q[k].job = ij => q[k].do # "delete")
  <2>1. \A k \in DOMAIN q : EventSound(q[k], js, cl, ij)
    BY DEF JobsSound, QueueSound
  <2> QED BY <1>1, <2>1, CheckerAssumption DEF EventSound
<1>5. cl # ij
  BY <1>1, CheckerAssumption DEF JobsSound, HeldSound
<1>6. EventSound(e, js, cl, Nobody)
  BY <1>1, <1>5, CheckerAssumption DEF EventSound
<1>7. \A k \in DOMAIN r : EventSound(r[k], js, cl, Nobody)
  BY <1>2, <1>3, <1>4, <1>6
<1>8. \A k, l \in DOMAIN r : r[k].job = r[l].job /\ r[k].do = r[l].do => k = l
  BY <1>2, <1>3, <1>4 DEF JobsSound, QueueSound
<1>9. HeldSound(js, cl, "list") /\ HeldSound(js, Nobody, "index")
  BY DEF JobsSound, HeldSound
<1> QED BY <1>1, <1>2, <1>7, <1>8, <1>9 DEF JobsSound, QueueSound, r

\* A new job is held in the place of the last, and will start.
LEMMA JobAdded ==
  ASSUME NEW js, NEW q, NEW cl, NEW ij, JobsSound(js, q, cl, ij),
         NEW new \in JobRecords, new.state = "queued",
         NEW e \in EventRecords, e.do = "start", e.job = Len(js) + 1
  PROVE  /\ new.kind = "list" => JobsSound(Append(js, new), q \o <<e>>, Len(js) + 1, ij)
         /\ new.kind = "index" => JobsSound(Append(js, new), q \o <<e>>, cl, Len(js) + 1)
<1> DEFINE r == q \o <<e>>
           ks == Append(js, new)
           n == Len(js) + 1
<1>1. js \in Seq(JobRecords) /\ q \in Seq(EventRecords)
  BY DEF JobsSound
<1>2. /\ r \in Seq(EventRecords) /\ DOMAIN r = 1..(Len(q) + 1) /\ r[Len(q) + 1] = e
      /\ \A k \in DOMAIN q : r[k] = q[k]
  BY <1>1
<1>3. \A k \in DOMAIN r : k = Len(q) + 1 \/ k \in DOMAIN q
  BY <1>1, <1>2
<1>4. /\ ks \in Seq(JobRecords) /\ DOMAIN js \subseteq DOMAIN ks
      /\ n \in DOMAIN ks /\ n \notin DOMAIN js /\ ks[n] = new
      /\ \A k \in DOMAIN js : ks[k] = js[k]
  BY <1>1
<1> HIDE DEF r, ks, n
<1>5. \A k \in DOMAIN q : EventSound(q[k], ks, cl, ij) /\ q[k].job \in DOMAIN js
  <2>1. \A k \in DOMAIN q : EventSound(q[k], js, cl, ij)
    BY DEF JobsSound, QueueSound
  <2> QED BY <1>4, <2>1 DEF EventSound
<1>6. e.job = n
  BY DEF n
<1>7. \A k, l \in DOMAIN r : r[k].job = r[l].job /\ r[k].do = r[l].do => k = l
  <2>1. \A k, l \in DOMAIN q : q[k].job = q[l].job /\ q[k].do = q[l].do => k = l
    BY DEF JobsSound, QueueSound
  <2>2. \A k \in DOMAIN q : r[k].job # n
    BY <1>2, <1>4, <1>5
  <2> QED BY <1>2, <1>3, <1>6, <2>1, <2>2
<1>8. HeldSound(ks, cl, "list") /\ HeldSound(ks, ij, "index") /\ HeldSound(ks, n, new.kind)
  BY <1>4 DEF JobsSound, HeldSound
<1>9. ASSUME NEW c \in {cl, n}, NEW i \in {ij, n}
      PROVE  QueueSound(r, ks, c, i)
  <2>1. \A k \in DOMAIN q : EventSound(q[k], ks, c, i)
    BY <1>4, <1>5 DEF EventSound
  <2>2. EventSound(e, ks, c, i)
    BY <1>4, <1>6 DEF EventSound
  <2> QED BY <1>2, <1>3, <1>7, <2>1, <2>2 DEF QueueSound
<1>10. new.kind = "list" => JobsSound(ks, r, n, ij)
  BY <1>2, <1>4, <1>8, <1>9 DEF JobsSound
<1>11. new.kind = "index" => JobsSound(ks, r, cl, n)
  BY <1>2, <1>4, <1>8, <1>9 DEF JobsSound
<1> QED BY <1>10, <1>11 DEF r, ks, n

-----------------------------------------------------------------------------
(* Lemmas about the order of events *)

\* The queue r is q without its first event, and without events of jobs that are not
\* held and do not pend, in the same order: e says where its events were.
Moves(e, r, q, ks, cl) ==
  /\ e \in [1..Len(r) -> 2..Len(q)]
  /\ \A k \in 1..Len(r) : r[k] = q[e[k]]
  /\ \A k, l \in 1..Len(r) : k < l => e[k] < e[l]
  /\ \A i \in 2..Len(q) :
       \/ \E k \in 1..Len(r) : e[k] = i
       \/ ~Pending(ks[q[i].job]) /\ q[i].job # cl

\* The first event is taken.
LEMMA Advanced ==
  ASSUME NEW js, NEW q, NEW cl, Orderly(js, q, cl), js \in Seq(JobRecords),
         q \in Seq(EventRecords), q # <<>>,
         NEW ks, DOMAIN ks = DOMAIN js,
         \A j \in DOMAIN js : ks[j].kind = js[j].kind /\ (Pending(ks[j]) => Pending(js[j])),
         q[1].do # "start" => ~Pending(ks[q[1].job]),
         NEW r \in Seq(EventRecords), NEW e, Moves(e, r, q, ks, cl)
  PROVE  Orphans(ks, r, cl) \subseteq Orphans(js, q, cl) /\ Orderly(ks, r, cl)
<1>5. /\ e \in [1..Len(r) -> 2..Len(q)]
      /\ \A k \in 1..Len(r) : r[k] = q[e[k]]
      /\ \A k, l \in 1..Len(r) : k < l => e[k] < e[l]
  BY DEF Moves
<1>6. \A i \in 2..Len(q) :
        \/ \E k \in 1..Len(r) : e[k] = i
        \/ ~Pending(ks[q[i].job]) /\ q[i].job # cl
  BY DEF Moves
<1>1. DOMAIN r = 1..Len(r) /\ DOMAIN q = 1..Len(q) /\ Len(r) \in Nat /\ Len(q) \in Nat
  OBVIOUS
<1>2. ASSUME NEW j \in Orphans(ks, r, cl)
      PROVE  j \in Orphans(js, q, cl)
  <2>1. j \in DOMAIN js /\ js[j].kind = "list" /\ Pending(ks[j]) /\ Pending(js[j]) /\ j # cl
    BY DEF Orphans
  <2>2. ASSUME Doomed(q, j) PROVE Doomed(r, j)
    <3>1. PICK p \in DOMAIN q : /\ q[p].do = "delete" /\ q[p].job = j
                               /\ \A h \in 1..p : ~(q[h].do = "finish" /\ q[h].job = j)
      BY <2>2 DEF Doomed
    <3>2. p # 1
      <4> SUFFICES ASSUME p = 1 PROVE FALSE
        OBVIOUS
      <4>1. q[1].do = "delete" /\ q[1].job = j
        BY <3>1
      <4>2. ~Pending(ks[q[1].job])
        BY <4>1
      <4> QED BY <2>1, <4>1, <4>2
    <3>3. PICK k \in 1..Len(r) : e[k] = p
      <4>1. p \in 2..Len(q)
        BY <1>1, <3>2
      <4>2. Pending(ks[q[p].job]) /\ q[p].job # cl
        BY <2>1, <3>1
      <4> QED BY <1>6, <4>1, <4>2
    <3>4. ASSUME NEW h \in 1..k PROVE ~(r[h].do = "finish" /\ r[h].job = j)
      <4>1. h \in 1..Len(r) /\ e[h] \in 2..Len(q) /\ r[h] = q[e[h]]
        <5>1. h \in 1..Len(r)
          BY <1>1, <3>3
        <5> QED BY <1>5, <5>1
      <4>2. h = k \/ e[h] < e[k]
        BY <1>1, <1>5, <3>3, <4>1
      <4>3. e[h] \in 1..p
        BY <1>1, <3>3, <4>1, <4>2
      <4> QED BY <3>1, <4>1, <4>3
    <3>5. k \in DOMAIN r /\ r[k].do = "delete" /\ r[k].job = j
      BY <1>1, <1>5, <3>1, <3>3
    <3> QED BY <3>4, <3>5 DEF Doomed
  <2> QED BY <2>1, <2>2 DEF Orphans
<1>3. ASSUME NEW j \in Orphans(ks, r, cl)
      PROVE  cl # Nobody /\ ReportsFirst(r, j, cl)
  <2>1. cl # Nobody /\ ReportsFirst(q, j, cl)
    BY <1>2 DEF Orderly
  <2>2. PICK p, t \in DOMAIN q : /\ p < t
                                /\ q[p].do = "finish" /\ q[p].job = j
                                /\ q[t].do = "start" /\ q[t].job = cl
    BY <2>1 DEF ReportsFirst
  <2>3. Pending(ks[j])
    BY DEF Orphans
  <2>4. p \in 2..Len(q) /\ t \in 2..Len(q)
    BY <1>1, <2>2, <2>3
  <2>5. PICK k \in 1..Len(r) : e[k] = p
    BY <1>6, <2>2, <2>3, <2>4
  <2>6. PICK l \in 1..Len(r) : e[l] = t
    BY <1>6, <2>2, <2>4
  <2>7. k < l
    <3>1. k = l \/ l < k \/ k < l
      BY <1>1
    <3> QED BY <1>1, <1>5, <2>2, <2>4, <2>5, <2>6, <3>1
  <2>8. r[k] = q[p] /\ r[l] = q[t]
    BY <1>5, <2>5, <2>6
  <2>9. /\ k \in DOMAIN r /\ l \in DOMAIN r /\ k < l
        /\ r[k].do = "finish" /\ r[k].job = j /\ r[l].do = "start" /\ r[l].job = cl
    BY <1>1, <2>2, <2>7, <2>8
  <2>10. ReportsFirst(r, j, cl)
    BY <2>9 DEF ReportsFirst
  <2> QED BY <2>1, <2>10
<1>4. \A i \in DOMAIN r : r[i].do = "delete" => r[i].level = 1
  <2>1. \A i \in DOMAIN r : e[i] \in DOMAIN q /\ r[i] = q[e[i]]
    BY <1>1, <1>5
  <2>2. \A i \in DOMAIN q : q[i].do = "delete" => q[i].level = 1
    BY DEF Orderly
  <2> TAKE i \in DOMAIN r
  <2>3. e[i] \in DOMAIN q /\ r[i] = q[e[i]]
    BY <2>1
  <2> QED BY <2>2, <2>3
<1> QED BY <1>2, <1>3, <1>4 DEF Orderly

\* Events are added at the end, and no list job begins to wait.
LEMMA Extended ==
  ASSUME NEW js, NEW q \in Seq(EventRecords), NEW cl,
         NEW ks,
         \A j \in DOMAIN ks :
           ks[j].kind = "list" /\ Pending(ks[j])
             => j \in DOMAIN js /\ js[j].kind = "list" /\ Pending(js[j]),
         NEW r \in Seq(EventRecords), Len(q) <= Len(r), \A k \in DOMAIN q : r[k] = q[k]
  PROVE  /\ Orphans(ks, r, cl) \subseteq Orphans(js, q, cl)
         /\ \A j : Doomed(q, j) => Doomed(r, j)
         /\ \A j, n : ReportsFirst(q, j, n) => ReportsFirst(r, j, n)
<1>1. DOMAIN q \subseteq DOMAIN r /\ DOMAIN q = 1..Len(q) /\ Len(q) \in Nat
  OBVIOUS
<1>2. ASSUME NEW j, Doomed(q, j) PROVE Doomed(r, j)
  <2>1. PICK p \in DOMAIN q : /\ q[p].do = "delete" /\ q[p].job = j
                             /\ \A h \in 1..p : ~(q[h].do = "finish" /\ q[h].job = j)
    BY <1>2 DEF Doomed
  <2>2. \A h \in 1..p : h \in DOMAIN q
    BY <1>1
  <2> QED BY <1>1, <2>1, <2>2 DEF Doomed
<1>3. ASSUME NEW j, NEW n, ReportsFirst(q, j, n) PROVE ReportsFirst(r, j, n)
  BY <1>1, <1>3 DEF ReportsFirst
<1>4. Orphans(ks, r, cl) \subseteq Orphans(js, q, cl)
  BY <1>2 DEF Orphans
<1> QED BY <1>2, <1>3, <1>4

\* Of a job that has answered or was answered no other event than its report and
\* its deletion is in the queue; of one that will start no report.
LEMMA QueuedIsNotAnswered ==
  ASSUME NEW js, NEW q, NEW cl, NEW ij, JobsSound(js, q, cl, ij), NEW j,
         NEW k \in DOMAIN q, NEW l \in DOMAIN q, q[k].job = j, q[l].job = j
  PROVE  ~(q[k].do = "start" /\ q[l].do = "finish")
<1>1. EventSound(q[k], js, cl, ij) /\ EventSound(q[l], js, cl, ij)
  BY DEF JobsSound, QueueSound
<1> QED BY <1>1 DEF EventSound

\* The held list job is let go; its report, if any, has been delivered or will not
\* come before it is deleted.
LEMMA LetGo ==
  ASSUME NEW js, NEW q \in Seq(EventRecords), NEW cl, Orderly(js, q, cl),
         Orphans(js, q, cl) = {},
         \A k \in DOMAIN q : ~(q[k].do = "finish" /\ q[k].job = cl),
         NEW e \in EventRecords, e.do = "delete", e.job = cl, e.level = 1
  PROVE  Orderly(js, q \o <<e>>, Nobody)
<1> DEFINE r == q \o <<e>>
<1>1. /\ r \in Seq(EventRecords) /\ DOMAIN r = 1..(Len(q) + 1) /\ r[Len(q) + 1] = e
      /\ DOMAIN q = 1..Len(q) /\ Len(q) \in Nat /\ Len(r) = Len(q) + 1
      /\ \A k \in DOMAIN q : r[k] = q[k]
  OBVIOUS
<1> HIDE DEF r
<1>2. Orphans(js, r, cl) = {}
  <2>1. Len(q) <= Len(r)
    BY <1>1
  <2>2. Orphans(js, r, cl) \subseteq Orphans(js, q, cl)
    <3>1. \A j \in DOMAIN js : js[j].kind = "list" /\ Pending(js[j])
                                   => j \in DOMAIN js /\ js[j].kind = "list" /\ Pending(js[j])
      OBVIOUS
    <3> QED BY <1>1, <2>1, <3>1, Extended
  <2> QED BY <2>2
<1>3. Doomed(r, cl)
  <2>1. \A h \in 1..(Len(q) + 1) : ~(r[h].do = "finish" /\ r[h].job = cl)
    <3>1. \A h \in 1..(Len(q) + 1) : h = Len(q) + 1 \/ h \in DOMAIN q
      BY <1>1
    <3> QED BY <1>1, <3>1
  <2>2. Len(q) + 1 \in DOMAIN r
    BY <1>1
  <2> QED BY <1>1, <2>1, <2>2 DEF Doomed
<1>4. Orphans(js, r, Nobody) = {}
  BY <1>2, <1>3 DEF Orphans
<1>5. \A i \in DOMAIN r : r[i].do = "delete" => r[i].level = 1
  <2>1. \A i \in DOMAIN r : i = Len(q) + 1 \/ i \in DOMAIN q
    BY <1>1
  <2>2. \A i \in DOMAIN q : q[i].do = "delete" => q[i].level = 1
    BY DEF Orderly
  <2> QED BY <1>1, <2>1, <2>2
<1> QED BY <1>4, <1>5 DEF Orderly, r

\* A new list job takes the place of the held one, dl being what is posted to
\* delete that.
LEMMA Replaced ==
  ASSUME NEW js, NEW q, NEW cl, NEW ij, JobsSound(js, q, cl, ij), Orderly(js, q, cl),
         NEW new \in JobRecords, new.kind = "list",
         NEW dl \in Seq(EventRecords),
         cl = Nobody => dl = <<>>,
         cl # Nobody => Len(dl) = 1 /\ dl[1].do = "delete" /\ dl[1].job = cl /\ dl[1].level = 1,
         NEW e \in EventRecords, e.do = "start", e.job = Len(js) + 1
  PROVE  Orderly(Append(js, new), q \o dl \o <<e>>, Len(js) + 1)
<1> DEFINE ks == Append(js, new)
           n == Len(js) + 1
           d == q \o dl
           r == d \o <<e>>
<1>1. js \in Seq(JobRecords) /\ q \in Seq(EventRecords)
  BY DEF JobsSound
<1>2. /\ d \in Seq(EventRecords) /\ Len(d) = Len(q) + Len(dl) /\ Len(dl) \in {0, 1}
      /\ Len(q) \in Nat /\ DOMAIN d = 1..Len(d) /\ DOMAIN q = 1..Len(q)
      /\ \A k \in DOMAIN q : d[k] = q[k]
      /\ cl = Nobody => Len(dl) = 0
      /\ cl # Nobody => Len(dl) = 1 /\ d[Len(q) + 1] = dl[1]
  BY <1>1
<1>3. /\ n \notin DOMAIN js /\ DOMAIN ks = DOMAIN js \union {n} /\ ks[n] = new
      /\ \A k \in DOMAIN js : ks[k] = js[k]
  BY <1>1
<1> HIDE DEF d
<1>4. /\ r \in Seq(EventRecords) /\ Len(r) = Len(d) + 1 /\ DOMAIN r = 1..(Len(d) + 1)
      /\ r[Len(d) + 1] = e /\ \A k \in DOMAIN d : r[k] = d[k]
  <2>1. d \in Seq(EventRecords)
    BY <1>2
  <2> QED BY <2>1, AddedLast
<1> HIDE DEF r, ks
<1>5. n # Nobody
  BY <1>1, CheckerAssumption DEF n
<1> HIDE DEF n
\* An orphan now is one of before, or the job replaced if its report is due.
<1>6. ASSUME NEW j \in Orphans(ks, r, n)
      PROVE  /\ \/ j \in Orphans(js, q, cl)
                \/ j = cl /\ cl # Nobody
             /\ \E p \in DOMAIN q : q[p].do = "finish" /\ q[p].job = j
  <2>1. j \in DOMAIN js /\ js[j].kind = "list" /\ Pending(js[j]) /\ ~Doomed(r, j)
    BY <1>3 DEF Orphans
  <2>2. Doomed(q, j) => Doomed(r, j)
    <3> SUFFICES ASSUME Doomed(q, j) PROVE Doomed(r, j)
      OBVIOUS
    <3>1. PICK p \in DOMAIN q : /\ q[p].do = "delete" /\ q[p].job = j
                               /\ \A h \in 1..p : ~(q[h].do = "finish" /\ q[h].job = j)
      BY DEF Doomed
    <3>2. \A h \in DOMAIN q : h \in DOMAIN d /\ h \in DOMAIN r /\ r[h] = q[h]
      <4>1. \A h \in DOMAIN q : h \in DOMAIN d /\ d[h] = q[h]
        BY <1>2
      <4>2. \A h \in DOMAIN d : h \in DOMAIN r /\ r[h] = d[h]
        BY <1>2, <1>4
      <4> QED BY <4>1, <4>2
    <3>3. p \in DOMAIN r /\ r[p] = q[p] /\ \A h \in 1..p : h \in DOMAIN q /\ r[h] = q[h]
      <4>1. \A h \in 1..p : h \in DOMAIN q
        BY <1>2
      <4> QED BY <3>2, <4>1
    <3> QED BY <3>1, <3>2, <3>3 DEF Doomed
  <2>3. CASE j # cl
    <3>1. j \in Orphans(js, q, cl)
      BY <2>1, <2>2, <2>3 DEF Orphans
    <3>2. ReportsFirst(q, j, cl)
      BY <3>1 DEF Orderly
    <3> QED BY <3>1, <3>2 DEF ReportsFirst
  <2>4. CASE j = cl
    <3>1. cl # Nobody
      BY <1>1, <2>1, <2>4, CheckerAssumption
    <3>2. ASSUME \A p \in DOMAIN q : ~(q[p].do = "finish" /\ q[p].job = j) PROVE Doomed(r, j)
      <4>5. Len(d) = Len(q) + 1 /\ Len(q) \in Nat /\ d[Len(q) + 1] = dl[1]
        BY <1>2, <3>1
      <4>1. Len(q) + 1 \in DOMAIN r /\ r[Len(q) + 1] = dl[1]
        BY <1>2, <1>4, <4>5
      <4>2. \A h \in 1..(Len(q) + 1) : h = Len(q) + 1 \/ (h \in DOMAIN q /\ r[h] = q[h])
        <5> TAKE h \in 1..(Len(q) + 1)
        <5>1. h # Len(q) + 1 => h \in DOMAIN q /\ h \in DOMAIN d
          BY <1>2, <4>5
        <5> QED BY <1>2, <1>4, <5>1
      <4>3. \A h \in 1..(Len(q) + 1) : ~(r[h].do = "finish" /\ r[h].job = j)
        BY <2>4, <3>1, <3>2, <4>1, <4>2
      <4> QED BY <2>4, <3>1, <4>1, <4>3 DEF Doomed
    <3> QED BY <2>1, <2>4, <3>1, <3>2
  <2> QED BY <2>3, <2>4
<1>7. \A j \in Orphans(ks, r, n) : n # Nobody /\ ReportsFirst(r, j, n)
  <2> SUFFICES ASSUME NEW j \in Orphans(ks, r, n) PROVE ReportsFirst(r, j, n)
    BY <1>5
  <2>1. PICK p \in DOMAIN q : q[p].do = "finish" /\ q[p].job = j
    BY <1>6
  <2>2. p \in DOMAIN r /\ r[p] = q[p] /\ p < Len(d) + 1 /\ Len(d) + 1 \in DOMAIN r
    BY <1>2, <1>4
  <2> QED BY <1>4, <2>1, <2>2 DEF ReportsFirst, n
<1>8. \A j, k \in Orphans(ks, r, n) : j = k
  <2>1. \A j, k \in Orphans(js, q, cl) : j = k
    BY DEF Orderly
  <2>2. ASSUME cl \in Orphans(ks, r, n), cl # Nobody PROVE Orphans(js, q, cl) = {}
    <3>1. \E p \in DOMAIN q : q[p].do = "finish" /\ q[p].job = cl
      BY <1>6, <2>2
    <3>2. ASSUME NEW j \in Orphans(js, q, cl) PROVE FALSE
      <4>1. ReportsFirst(q, j, cl)
        BY <3>2 DEF Orderly
      <4>2. \E t \in DOMAIN q : q[t].do = "start" /\ q[t].job = cl
        BY <4>1 DEF ReportsFirst
      <4> QED BY <3>1, <4>2, QueuedIsNotAnswered
    <3> QED BY <3>2
  <2> QED BY <1>6, <2>1, <2>2
<1>9. \A i \in DOMAIN r : r[i].do = "delete" => r[i].level = 1
  <2>1. \A i \in DOMAIN r :
          \/ i \in DOMAIN q /\ r[i] = q[i]
          \/ cl # Nobody /\ r[i] = dl[1]
          \/ r[i] = e
    <3> TAKE i \in DOMAIN r
    <3>1. CASE i \in DOMAIN q
      <4>1. Len(q) \in Nat /\ Len(dl) \in Nat /\ i \in 1..Len(q) /\ Len(d) = Len(q) + Len(dl)
        BY <1>2, <3>1
      <4>2. i \in DOMAIN d
        BY <1>2, <4>1
      <4>3. r[i] = d[i] /\ d[i] = q[i]
        BY <1>2, <1>4, <3>1, <4>2
      <4> QED BY <3>1, <4>3
    <3>2. CASE i = Len(d) + 1
      BY <1>4, <3>2
    <3>3. CASE i \notin DOMAIN q /\ i # Len(d) + 1
      <4>1. Len(dl) = 1 /\ i = Len(q) + 1
        <5>1. i \in 1..(Len(q) + Len(dl) + 1) /\ i \notin 1..Len(q) /\ i # Len(q) + Len(dl) + 1
          BY <1>2, <1>4, <3>3
        <5>2. Len(q) \in Nat
          BY <1>2
        <5>3. Len(dl) # 0
          BY <5>1, <5>2
        <5>4. Len(dl) = 1
          BY <1>2, <5>3
        <5> QED BY <5>1, <5>2, <5>4
      <4>2. i \in DOMAIN d /\ r[i] = d[i]
        BY <1>2, <1>4, <4>1
      <4> QED BY <1>2, <4>1, <4>2
    <3> QED BY <3>1, <3>2, <3>3
  <2>2. \A i \in DOMAIN q : q[i].do = "delete" => q[i].level = 1
    BY DEF Orderly
  <2> QED BY <2>1, <2>2
<1> QED BY <1>7, <1>8, <1>9 DEF Orderly, ks, r, d, n

-----------------------------------------------------------------------------
(* Lemmas about jobs *)

\* What Delete(j) posts at level l.
Removal(dl, j, l) ==
  /\ dl \in Seq(EventRecords)
  /\ j = Nobody => dl = <<>>
  /\ j # Nobody => Len(dl) = 1 /\ dl[1].do = "delete" /\ dl[1].job = j /\ dl[1].level = l

LEMMA DeleteIs ==
  ASSUME Typed, NEW j \in Nat \union {Nobody}
  PROVE  Removal(Delete(j), j, Level) /\ (dialogs = <<>> => Level = 1)
<1>1. Level \in Nat /\ (dialogs = <<>> => Level = 1)
  BY DEF Typed, Level
<1>2. CASE j = Nobody
  BY <1>1, <1>2 DEF Removal, Delete
<1>3. CASE j # Nobody
  <2> DEFINE e == [do |-> "delete", job |-> j, level |-> Level]
  <2>1. e \in EventRecords /\ e.do = "delete" /\ e.job = j /\ e.level = Level
    BY <1>1, <1>3 DEF EventRecords
  <2>2. Delete(j) = <<e>>
    BY <1>3 DEF Delete
  <2> HIDE DEF e
  <2>3. <<e>> \in Seq(EventRecords) /\ Len(<<e>>) = 1 /\ <<e>>[1] = e
    BY <2>1
  <2> QED BY <1>1, <1>3, <2>1, <2>2, <2>3 DEF Removal
<1> QED BY <1>2, <1>3

LEMMA StartEventsAre ==
  ASSUME NEW j \in Nat
  PROVE  /\ StartEvents(j) = <<Post("start", j)>> /\ Post("start", j) \in EventRecords
         /\ Post("start", j).do = "start" /\ Post("start", j).job = j
BY DEF StartEvents, Post, EventRecords

LEMMA NewJobIs ==
  ASSUME NEW kind \in {"list", "index"}, NEW notify \in BOOLEAN, NEW from \in Choices,
         NEW why \in {"asked", "page", "repeated"}
  PROVE  LET new == NewJob(kind, notify, from, why)
         IN /\ new \in JobRecords /\ new.kind = kind /\ new.from = from /\ new.why = why
            /\ new.state = "queued"
<1>1. StartEvents(1) # <<>>
  BY DEF StartEvents
<1> QED BY <1>1 DEF NewJob, JobRecords

LEMMA SingleRemoval ==
  ASSUME NEW j, NEW l, NEW dl, Removal(dl, j, l), j # Nobody
  PROVE  dl = <<dl[1]>> /\ dl[1] \in EventRecords /\ dl[1].do = "delete" /\ dl[1].job = j
         /\ dl[1].level = l
<1>1. dl \in Seq(EventRecords) /\ Len(dl) = 1
  BY DEF Removal
<1>2. dl = <<dl[1]>> /\ dl[1] \in EventRecords
  BY <1>1
<1> QED BY <1>2 DEF Removal

\* A list job is made: UpdateChanList.
LEMMA ListAdded ==
  ASSUME NEW js, NEW q, NEW cl, NEW ij, JobsSound(js, q, cl, ij),
         NEW new \in JobRecords, new.kind = "list", new.state = "queued",
         NEW l, NEW dl, Removal(dl, cl, l),
         NEW e \in EventRecords, e.do = "start", e.job = Len(js) + 1
  PROVE  /\ JobsSound(Append(js, new), q \o dl \o <<e>>, Len(js) + 1, ij)
         /\ l = 1 /\ Orderly(js, q, cl) =>
              Orderly(Append(js, new), q \o dl \o <<e>>, Len(js) + 1)
<1>1. q \in Seq(EventRecords)
  BY DEF JobsSound
<1>2. JobsSound(js, q \o dl, Nobody, ij)
  <2>1. CASE cl = Nobody
    <3>1. q \o dl = q
      BY <1>1, <2>1 DEF Removal
    <3> QED BY <2>1, <3>1
  <2>2. CASE cl # Nobody
    BY <2>2, SingleRemoval, ListReleased
  <2> QED BY <2>1, <2>2
<1>3. JobsSound(Append(js, new), q \o dl \o <<e>>, Len(js) + 1, ij)
  <2> DEFINE d == q \o dl
  <2>1. JobsSound(js, d, Nobody, ij)
    BY <1>2
  <2> HIDE DEF d
  <2>2. JobsSound(Append(js, new), d \o <<e>>, Len(js) + 1, ij)
    BY <2>1, JobAdded
  <2> QED BY <2>2 DEF d
<1>4. ASSUME l = 1, Orderly(js, q, cl)
      PROVE  Orderly(Append(js, new), q \o dl \o <<e>>, Len(js) + 1)
  BY <1>4, Replaced DEF Removal
<1> QED BY <1>3, <1>4

\* An index job is made: Check.
LEMMA IndexAdded ==
  ASSUME NEW js, NEW q, NEW cl, NEW ij, JobsSound(js, q, cl, ij),
         NEW new \in JobRecords, new.kind = "index", new.state = "queued",
         NEW l, NEW dl, Removal(dl, ij, l),
         NEW e \in EventRecords, e.do = "start", e.job = Len(js) + 1
  PROVE  /\ JobsSound(Append(js, new), q \o dl \o <<e>>, cl, Len(js) + 1)
         /\ l = 1 /\ Orderly(js, q, cl) => Orderly(Append(js, new), q \o dl \o <<e>>, cl)
<1>1. q \in Seq(EventRecords) /\ js \in Seq(JobRecords)
  BY DEF JobsSound
<1> DEFINE d == q \o dl
           r == d \o <<e>>
           ks == Append(js, new)
<1>2. JobsSound(js, d, cl, Nobody)
  <2>1. CASE ij = Nobody
    <3>1. q \o dl = q
      BY <1>1, <2>1 DEF Removal
    <3> QED BY <2>1, <3>1
  <2>2. CASE ij # Nobody
    BY <2>2, SingleRemoval, IndexReleased
  <2> QED BY <2>1, <2>2
<1>3. d \in Seq(EventRecords) /\ Len(q) <= Len(d) /\ \A k \in DOMAIN q : d[k] = q[k]
  BY <1>1 DEF Removal
<1>4. \A k \in DOMAIN d : k \in DOMAIN q \/ (d[k].do = "delete" => d[k].level = l)
  <2>1. CASE ij = Nobody
    <3>1. d = q
      BY <1>1, <2>1 DEF Removal
    <3> QED BY <3>1
  <2>2. CASE ij # Nobody
    <3>1. dl = <<dl[1]>> /\ dl[1] \in EventRecords /\ dl[1].level = l
      BY <2>2, SingleRemoval
    <3> DEFINE a == dl[1]
    <3>2. d = q \o <<a>> /\ a \in EventRecords /\ a.level = l
      BY <3>1
    <3> HIDE DEF a, d
    <3>3. DOMAIN d = 1..(Len(q) + 1) /\ d[Len(q) + 1] = a /\ DOMAIN q = 1..Len(q) /\ Len(q) \in Nat
      BY <1>1, <3>2, AddedLast
    <3>4. \A k \in DOMAIN d : k \in DOMAIN q \/ k = Len(q) + 1
      BY <3>3
    <3> QED BY <3>2, <3>3, <3>4
  <2> QED BY <2>1, <2>2
<1>5. ks \in Seq(JobRecords) /\ \A j \in DOMAIN ks :
        ks[j].kind = "list" /\ Pending(ks[j]) => j \in DOMAIN js /\ js[j].kind = "list" /\ Pending(js[j])
  <2>1. DOMAIN ks = 1..(Len(js) + 1) /\ ks[Len(js) + 1] = new /\ DOMAIN js = 1..Len(js)
        /\ Len(js) \in Nat /\ \A k \in DOMAIN js : ks[k] = js[k]
    BY <1>1
  <2>2. \A k \in DOMAIN ks : k \in DOMAIN js \/ k = Len(js) + 1
    BY <2>1
  <2> QED BY <1>1, <2>1, <2>2
<1> HIDE DEF d
<1>6. JobsSound(ks, r, cl, Len(js) + 1)
  BY <1>2, JobAdded
<1>7. /\ r \in Seq(EventRecords) /\ DOMAIN r = 1..(Len(d) + 1) /\ r[Len(d) + 1] = e
      /\ Len(r) = Len(d) + 1 /\ DOMAIN d = 1..Len(d) /\ Len(d) \in Nat
      /\ \A k \in DOMAIN d : r[k] = d[k]
  BY <1>3, AddedLast
<1> HIDE DEF r, ks
<1>8. ASSUME l = 1, Orderly(js, q, cl) PROVE Orderly(ks, r, cl)
  <2>1. Len(q) <= Len(r) /\ \A k \in DOMAIN q : r[k] = q[k]
    <3>1. DOMAIN q = 1..Len(q) /\ Len(q) \in Nat
      BY <1>1
    <3>2. Len(q) <= Len(r) /\ \A k \in DOMAIN q : k \in DOMAIN d
      BY <1>3, <1>7, <3>1
    <3> QED BY <1>3, <1>7, <3>2
  <2>2. Orphans(ks, r, cl) \subseteq Orphans(js, q, cl)
        /\ \A j, n : ReportsFirst(q, j, n) => ReportsFirst(r, j, n)
    BY <1>1, <1>5, <1>7, <2>1, Extended
  <2>3. \A k \in DOMAIN r : r[k].do = "delete" => r[k].level = 1
    <3>1. \A k \in DOMAIN r : k \in DOMAIN d \/ k = Len(d) + 1
      BY <1>7
    <3>2. \A k \in DOMAIN q : q[k].do = "delete" => q[k].level = 1
      BY <1>8 DEF Orderly
    <3> QED BY <1>3, <1>4, <1>7, <1>8, <3>1, <3>2
  <2> QED BY <1>8, <2>2, <2>3 DEF Orderly
<1> QED BY <1>6, <1>8 DEF r, ks, d

\* The check of a new index job is the only one.
LEMMA CheckBegun ==
  ASSUME NEW js \in Seq(JobRecords), Awaited(js) = {}, NEW ds, Shown(ds) = {},
         NEW new \in JobRecords, new.kind = "index"
  PROVE  ChecksSound(Append(js, new), Len(js) + 1, TRUE, new.from, ds)
<1> DEFINE ks == Append(js, new)
<1>1. DOMAIN ks = 1..(Len(js) + 1) /\ ks[Len(js) + 1] = new /\ DOMAIN js = 1..Len(js)
      /\ Len(js) \in Nat /\ \A k \in DOMAIN js : ks[k] = js[k]
  OBVIOUS
<1>2. \A k \in DOMAIN ks : k \in DOMAIN js \/ k = Len(js) + 1
  BY <1>1
<1> HIDE DEF ks
<1>3. \A k \in Awaited(ks) : k = Len(js) + 1
  BY <1>1, <1>2 DEF Awaited
<1> QED BY <1>1, <1>3 DEF ChecksSound, ks

\* Checks are not disturbed by what happens to list jobs.
LEMMA ChecksKept ==
  ASSUME NEW js, NEW ij, NEW c, NEW repo, NEW ds, ChecksSound(js, ij, c, repo, ds),
         NEW ks, Awaited(ks) \subseteq Awaited(js),
         \A j \in Awaited(ks) : ks[j].from = js[j].from
  PROVE  ChecksSound(ks, ij, c, repo, ds)
BY DEF ChecksSound

-----------------------------------------------------------------------------
(* The steps *)

\* What the jobs js have become in ks: new ones of one kind may have been made.
Grown(js, ks, kind) ==
  /\ DOMAIN js \subseteq DOMAIN ks
  /\ \A j \in DOMAIN js : ks[j] = js[j]
  /\ \A j \in DOMAIN ks : j \in DOMAIN js \/ ks[j].kind = kind

LEMMA AppendGrows ==
  ASSUME NEW js \in Seq(JobRecords), NEW new \in JobRecords
  PROVE  Grown(js, Append(js, new), new.kind)
<1> DEFINE ks == Append(js, new)
<1>1. DOMAIN ks = 1..(Len(js) + 1) /\ ks[Len(js) + 1] = new /\ DOMAIN js = 1..Len(js)
      /\ Len(js) \in Nat /\ \A k \in DOMAIN js : ks[k] = js[k]
  OBVIOUS
<1>2. \A k \in DOMAIN ks : k \in DOMAIN js \/ k = Len(js) + 1
  BY <1>1
<1> HIDE DEF ks
<1> QED BY <1>1, <1>2 DEF Grown, ks

\* updateChanList, called in the main window.
LEMMA ListAsked ==
  ASSUME IInv, dialogs = <<>>, NEW notify \in BOOLEAN, NEW why \in {"asked", "page"},
         UpdateChanList(notify, why)
  PROVE  /\ JobsSound(jobs', queue', chanListJob', indexJob)
         /\ ~nested => Orderly(jobs', queue', chanListJob')
         /\ Grown(jobs, jobs', "list")
         /\ m_chanListLoading' \in BOOLEAN
<1>1. CASE m_channelListUrl = ""
  <2>1. UNCHANGED <<m_chanListLoading, chanListJob, events>>
    BY <1>1 DEF UpdateChanList
  <2> QED BY <2>1 DEF IInv, Typed, Grown, events
<1>2. CASE m_channelListUrl # ""
  <2> DEFINE n == Len(jobs) + 1
             new == NewJob("list", notify, Nobody, why)
             e == Post("start", n)
             dl == Delete(chanListJob)
  <2>1. /\ m_chanListLoading' = TRUE
        /\ jobs' = Append(jobs, new) /\ chanListJob' = n
        /\ queue' = queue \o dl \o StartEvents(n)
    BY <1>2 DEF UpdateChanList
  <2>2. Typed /\ JobsSound(jobs, queue, chanListJob, indexJob) /\ jobs \in Seq(JobRecords)
    BY DEF IInv, JobsSound
  <2>3. n \in Nat
    BY <2>2
  <2>4. StartEvents(n) = <<e>> /\ e \in EventRecords /\ e.do = "start" /\ e.job = n
    BY <2>3, StartEventsAre
  <2>5. new \in JobRecords /\ new.kind = "list" /\ new.state = "queued"
    BY NewJobIs DEF Choices
  <2>6. Removal(dl, chanListJob, 1)
    <3>1. chanListJob \in Nat \union {Nobody}
      BY <2>2 DEF JobsSound, HeldSound
    <3> QED BY <2>2, <3>1, DeleteIs
  <2>7. ~nested => Orderly(jobs, queue, chanListJob)
    BY DEF IInv
  <2> HIDE DEF e, dl, new
  <2>8. /\ JobsSound(Append(jobs, new), queue \o dl \o <<e>>, n, indexJob)
        /\ Orderly(jobs, queue, chanListJob) => Orderly(Append(jobs, new), queue \o dl \o <<e>>, n)
    BY <2>2, <2>4, <2>5, <2>6, ListAdded
  <2>9. Grown(jobs, Append(jobs, new), "list")
    BY <2>2, <2>5, AppendGrows
  <2> QED BY <2>1, <2>4, <2>7, <2>8, <2>9
<1> QED BY <1>1, <1>2

\* More list jobs do not change which indices are awaited.
LEMMA AwaitedSame ==
  ASSUME NEW js, NEW ks, Grown(js, ks, "list")
  PROVE  Awaited(ks) = Awaited(js) /\ \A j \in Awaited(ks) : ks[j].from = js[j].from
BY DEF Grown, Awaited

LEMMA KeepsDefer ==
  ASSUME IInv, NEW c \in Channels, NEW notify \in BOOLEAN, Defer(c, notify),
         dialogs = <<>>, UNCHANGED nested, started' = TRUE
  PROVE  IInv'
<1>1. /\ JobsSound(jobs', queue', chanListJob', indexJob)
      /\ ~nested => Orderly(jobs', queue', chanListJob')
      /\ Grown(jobs, jobs', "list")
      /\ m_chanListLoading' \in BOOLEAN
  BY ListAsked DEF Defer
<1>2. /\ ~m_chanListLoaded /\ m_checkUpdateWaiting' = TRUE /\ m_deferredUpdateChannel' = c
      /\ owed' = TRUE
      /\ UNCHANGED <<m_channels, m_chanListLoaded, m_updateChecking, m_newRepoUrl, indexJob,
                     dialogs, crash>>
  BY DEF Defer, list
<1>3. Typed'
  BY <1>1, <1>2 DEF IInv, Typed, Grown, Choices
<1>4. ChecksSound(jobs', indexJob', m_updateChecking', m_newRepoUrl', dialogs')
  BY <1>1, <1>2, AwaitedSame, ChecksKept DEF IInv
<1>5. OfferIsAsked'
  BY <1>2 DEF IInv, OfferIsAsked
<1>6. RequestsSound'
  BY <1>1, <1>2 DEF IInv, RequestsSound, Grown, JobsOf
<1>7. NullOnlyByDialogs'
  BY <1>1, <1>2 DEF IInv, NullOnlyByDialogs, Typed, Grown
<1> QED BY <1>1, <1>2, <1>3, <1>4, <1>5, <1>6, <1>7 DEF IInv

\* Check: an index job is made, or the channel is not on the list.
LEMMA CheckMade ==
  ASSUME Typed, NEW STATE js, NEW STATE q, NEW STATE cl, JobsSound(js, q, cl, indexJob), Awaited(js) = {},
         NEW STATE ds, Shown(ds) = {},
         NEW ACTION known, known \subseteq Channels, NEW STATE c, NEW STATE notify, notify \in BOOLEAN,
         Check(js, q, known, c, notify, "asked")
  PROVE  /\ JobsSound(jobs', queue', cl, indexJob')
         /\ Orderly(js, q, cl) /\ dialogs = <<>> => Orderly(jobs', queue', cl)
         /\ ChecksSound(jobs', indexJob', TRUE, m_newRepoUrl', ds)
         /\ m_updateChecking' = TRUE /\ m_newRepoUrl' \in Choices
         /\ Grown(js, jobs', "index") /\ \A j \in DOMAIN jobs' : j \in DOMAIN js \/ jobs'[j].why = "asked"
         /\ known = {} => Awaited(jobs') = {}
<1>1. CASE c \in known
  <2> DEFINE n == Len(js) + 1
             new == NewJob("index", notify, c, "asked")
             e == Post("start", n)
             dl == Delete(indexJob)
  <2>1. /\ m_updateChecking' = TRUE /\ m_newRepoUrl' = c
        /\ jobs' = Append(js, new) /\ indexJob' = n
        /\ queue' = q \o dl \o StartEvents(n)
    BY <1>1 DEF Check
  <2>2. js \in Seq(JobRecords) /\ c \in Choices
    BY <1>1 DEF JobsSound, Choices
  <2>3. n \in Nat
    BY <2>2
  <2>4. StartEvents(n) = <<e>> /\ e \in EventRecords /\ e.do = "start" /\ e.job = n
    BY <2>3, StartEventsAre
  <2>5. new \in JobRecords /\ new.kind = "index" /\ new.state = "queued" /\ new.from = c
        /\ new.why = "asked"
    BY <2>2, NewJobIs
  <2>6. Removal(dl, indexJob, Level) /\ (dialogs = <<>> => Level = 1)
    <3>1. indexJob \in Nat \union {Nobody}
      BY <2>2 DEF JobsSound, HeldSound
    <3> QED BY <3>1, DeleteIs
  <2> HIDE DEF e, dl, new
  <2>8. /\ JobsSound(Append(js, new), q \o dl \o <<e>>, cl, n)
        /\ Level = 1 /\ Orderly(js, q, cl) => Orderly(Append(js, new), q \o dl \o <<e>>, cl)
    BY <2>4, <2>5, <2>6, IndexAdded
  <2>9. Grown(js, Append(js, new), "index")
    BY <2>2, <2>5, AppendGrows
  <2>10. ChecksSound(Append(js, new), n, TRUE, c, ds)
    BY <2>2, <2>5, CheckBegun
  <2>11. \A j \in DOMAIN Append(js, new) : j \in DOMAIN js \/ Append(js, new)[j].why = "asked"
    BY <2>2, <2>5
  <2>12. known # {}
    BY <1>1
  <2> QED BY <2>1, <2>2, <2>4, <2>6, <2>8, <2>9, <2>10, <2>11, <2>12
<1>2. CASE c \notin known
  <2>1. m_newRepoUrl' = Nobody /\ m_updateChecking' = TRUE /\ jobs' = js /\ queue' = q
        /\ indexJob' = indexJob
    BY <1>2 DEF Check, UpdateCheckFailed
  <2> QED BY <2>1 DEF ChecksSound, Grown, Choices
<1> QED BY <1>1, <1>2

LEMMA KeepsCheckNow ==
  ASSUME IInv, NEW c \in Channels, NEW notify \in BOOLEAN, CheckNow(c, notify),
         dialogs = <<>>, UNCHANGED nested, started' = TRUE
  PROVE  IInv'
<1>1. /\ m_chanListLoaded /\ ~m_updateChecking /\ Check(jobs, queue, m_channels, c, notify, "asked")
      /\ owed' = FALSE
      /\ UNCHANGED <<m_channels, m_chanListLoaded, m_chanListLoading, m_checkUpdateWaiting,
                     m_deferredUpdateChannel, chanListJob, dialogs, crash>>
  BY DEF CheckNow, Ignored, list
<1>2. Awaited(jobs) = {} /\ Shown(dialogs) = {}
  BY <1>1 DEF IInv, ChecksSound
<1>3. /\ JobsSound(jobs', queue', chanListJob, indexJob')
      /\ Orderly(jobs, queue, chanListJob) /\ dialogs = <<>> => Orderly(jobs', queue', chanListJob)
      /\ ChecksSound(jobs', indexJob', TRUE, m_newRepoUrl', dialogs)
      /\ m_updateChecking' = TRUE /\ m_newRepoUrl' \in Choices
      /\ Grown(jobs, jobs', "index") /\ \A j \in DOMAIN jobs' : j \in DOMAIN jobs \/ jobs'[j].why = "asked"
      /\ m_channels = {} => Awaited(jobs') = {}
  <2>1. Typed /\ JobsSound(jobs, queue, chanListJob, indexJob) /\ m_channels \subseteq Channels
    BY DEF IInv, Typed
  <2> QED BY <1>1, <1>2, <2>1, CheckMade
<1>4. Typed'
  BY <1>1, <1>3 DEF IInv, Typed, Grown
<1>5. OfferIsAsked'
  BY <1>1 DEF IInv, OfferIsAsked
<1>6. RequestsSound'
  <2>1. \A j \in DOMAIN jobs' : jobs'[j].kind = "index" => jobs'[j].why # "repeated"
    BY <1>3 DEF IInv, RequestsSound, Grown
  <2> QED BY <1>1, <1>2, <1>3, <2>1 DEF IInv, RequestsSound
<1>7. NullOnlyByDialogs'
  BY <1>1, <1>3 DEF IInv, NullOnlyByDialogs, Typed, Grown
<1> QED BY <1>1, <1>3, <1>4, <1>5, <1>6, <1>7 DEF IInv

\* Another dialog that shows no result.
LEMMA OtherOpened ==
  ASSUME NEW ds \in Seq(DialogRecords), NEW d \in DialogRecords, d.kind \notin Results
  PROVE  /\ Append(ds, d) \in Seq(DialogRecords) /\ Shown(Append(ds, d)) = Shown(ds)
         /\ \A i \in DOMAIN Append(ds, d) : i \in Shown(Append(ds, d)) => Append(ds, d)[i] = ds[i]
<1> DEFINE es == Append(ds, d)
<1>1. DOMAIN es = 1..(Len(ds) + 1) /\ es[Len(ds) + 1] = d /\ DOMAIN ds = 1..Len(ds)
      /\ Len(ds) \in Nat /\ \A k \in DOMAIN ds : es[k] = ds[k]
  OBVIOUS
<1>2. \A k \in DOMAIN es : k \in DOMAIN ds \/ k = Len(ds) + 1
  BY <1>1
<1>3. es \in Seq(DialogRecords)
  OBVIOUS
<1> HIDE DEF es
<1> QED BY <1>1, <1>2, <1>3 DEF Shown, es

LEMMA KeepsOpen ==
  ASSUME IInv, NEW kind \in {"settings", "other"},
         dialogs' = Append(dialogs, [kind |-> kind, repo |-> Nobody, from |-> Nobody]),
         JobsSound(jobs', queue', chanListJob', indexJob'),
         ~nested => Orderly(jobs', queue', chanListJob'),
         Grown(jobs, jobs', "list"), m_chanListLoading' \in BOOLEAN,
         m_channels # {} => chanListJob' = chanListJob,
         UNCHANGED <<list, flags, indexJob, crash, owed, nested>>,
         started' = started, started
  PROVE  IInv'
<1> DEFINE d == [kind |-> kind, repo |-> Nobody, from |-> Nobody]
<1>1. d \in DialogRecords /\ d.kind \notin Results
  BY DEF DialogRecords, Choices, Results
<1>2. dialogs' = Append(dialogs, d) /\ dialogs \in Seq(DialogRecords)
  BY DEF IInv, Typed
<1> HIDE DEF d
<1>3. /\ dialogs' \in Seq(DialogRecords) /\ Shown(dialogs') = Shown(dialogs)
      /\ \A i \in DOMAIN dialogs' : i \in Shown(dialogs') => dialogs'[i] = dialogs[i]
  BY <1>1, <1>2, OtherOpened
<1>4. Typed'
  BY <1>3 DEF IInv, Typed, Grown, list, flags
<1>5. ChecksSound(jobs', indexJob', m_updateChecking', m_newRepoUrl', dialogs')
  <2>1. ChecksSound(jobs', indexJob, m_updateChecking, m_newRepoUrl, dialogs)
    BY AwaitedSame, ChecksKept DEF IInv
  <2> QED BY <1>3, <2>1 DEF ChecksSound, flags
<1>6. OfferIsAsked'
  <2>1. \A i \in DOMAIN dialogs' : dialogs'[i].kind \in Results =>
          i \in Shown(dialogs) /\ dialogs'[i] = dialogs[i]
    BY <1>3 DEF Shown
  <2> QED BY <2>1 DEF IInv, OfferIsAsked, Shown
<1>7. RequestsSound'
  BY <1>3, AwaitedSame DEF IInv, RequestsSound, Grown, JobsOf, list, flags
<1>8. NullOnlyByDialogs'
  BY DEF IInv, NullOnlyByDialogs, Typed, Grown
<1> QED BY <1>4, <1>5, <1>6, <1>7, <1>8 DEF IInv

LEMMA KeepsOpenSettings == IInv /\ OpenSettings => IInv'
<1> SUFFICES ASSUME IInv, OpenSettings PROVE IInv'
  OBVIOUS
<1>1. /\ started /\ dialogs = <<>>
      /\ dialogs' = Append(dialogs, [kind |-> "settings", repo |-> Nobody, from |-> Nobody])
      /\ UNCHANGED <<list, flags, indexJob, started, crash, owed, nested>>
  BY DEF OpenSettings, Alive
<1>2. /\ JobsSound(jobs', queue', chanListJob', indexJob)
      /\ ~nested => Orderly(jobs', queue', chanListJob')
      /\ Grown(jobs, jobs', "list") /\ m_chanListLoading' \in BOOLEAN
      /\ m_channels # {} => chanListJob' = chanListJob
  <2>1. CASE m_channels # {}
    <3>1. UNCHANGED <<m_chanListLoading, chanListJob, jobs, queue>>
      BY <2>1 DEF OpenSettings, events
    <3> QED BY <3>1 DEF IInv, Typed, Grown
  <2>2. CASE m_channels = {}
    <3>1. UpdateChanList(FALSE, "page")
      BY <2>2 DEF OpenSettings
    <3> QED BY <1>1, <2>2, <3>1, ListAsked
  <2> QED BY <2>1, <2>2
<1> QED BY <1>1, <1>2, KeepsOpen

LEMMA KeepsOpenOther == IInv /\ OpenOther => IInv'
<1> SUFFICES ASSUME IInv, OpenOther PROVE IInv'
  OBVIOUS
<1>1. /\ started
      /\ dialogs' = Append(dialogs, [kind |-> "other", repo |-> Nobody, from |-> Nobody])
      /\ UNCHANGED <<list, m_chanListLoading, flags, chanListJob, indexJob, jobs, queue,
                     started, crash, owed, nested>>
  BY DEF OpenOther, Alive, events
<1>2. /\ JobsSound(jobs', queue', chanListJob', indexJob')
      /\ ~nested => Orderly(jobs', queue', chanListJob')
      /\ Grown(jobs, jobs', "list") /\ m_chanListLoading' \in BOOLEAN
  BY <1>1 DEF IInv, Typed, Grown
<1> QED BY <1>1, <1>2, KeepsOpen

LEMMA KeepsCloseDialog == IInv /\ CloseDialog => IInv'
<1> SUFFICES ASSUME IInv, CloseDialog PROVE IInv'
  OBVIOUS
<1> DEFINE n == Len(dialogs)
<1>1. /\ started /\ dialogs # <<>>
      /\ m_updateChecking' = (m_updateChecking /\ dialogs[n].kind \notin Results)
      /\ dialogs' = SubSeq(dialogs, 1, n - 1)
      /\ UNCHANGED <<m_channels, m_chanListLoaded, m_chanListLoading, m_checkUpdateWaiting,
                     m_deferredUpdateChannel, m_newRepoUrl, chanListJob, indexJob, jobs, queue,
                     started, crash, owed, nested>>
  BY DEF CloseDialog, Alive, list, events
<1>2. dialogs \in Seq(DialogRecords) /\ n \in Nat /\ n \in DOMAIN dialogs /\ DOMAIN dialogs = 1..n
  BY <1>1 DEF IInv, Typed
<1>3. /\ dialogs' \in Seq(DialogRecords) /\ DOMAIN dialogs' = 1..(n - 1)
      /\ \A i \in 1..(n - 1) : dialogs'[i] = dialogs[i]
  BY <1>1, <1>2
<1>4. \A i \in DOMAIN dialogs' : i \in DOMAIN dialogs /\ i # n /\ dialogs'[i] = dialogs[i]
  BY <1>2, <1>3
<1>5. Shown(dialogs') = Shown(dialogs) \ {n}
  <2>1. \A i \in DOMAIN dialogs : i # n => i \in DOMAIN dialogs'
    BY <1>2, <1>3
  <2> QED BY <1>4, <2>1 DEF Shown
<1> HIDE DEF n
<1>6. m_updateChecking' = IF n \in Shown(dialogs) THEN FALSE ELSE m_updateChecking
  BY <1>1, <1>2 DEF Shown, IInv, Typed
<1>7. Typed'
  <2>1. m_updateChecking' \in BOOLEAN
    BY <1>1
  <2> QED BY <1>1, <1>3, <2>1 DEF IInv, Typed
<1>8. ChecksSound(jobs', indexJob', m_updateChecking', m_newRepoUrl', dialogs')
  BY <1>1, <1>5, <1>6 DEF IInv, ChecksSound
<1>9. OfferIsAsked'
  BY <1>4 DEF IInv, OfferIsAsked
<1>10. RequestsSound'
  BY <1>1, <1>5, <1>6 DEF IInv, RequestsSound, JobsOf
<1>11. NullOnlyByDialogs'
  BY <1>1 DEF IInv, NullOnlyByDialogs
<1> QED BY <1>1, <1>7, <1>8, <1>9, <1>10, <1>11 DEF IInv

\* A job that is marked, with no word to the user.
LEMMA MarkedKeeps ==
  ASSUME NEW js \in Seq(JobRecords), NEW j \in DOMAIN js, NEW s, NEW ks, Marked(js, ks, j, s),
         Pending([state |-> s]) => Pending(js[j])
  PROVE  /\ DOMAIN ks = DOMAIN js
         /\ \A k \in DOMAIN js :
              /\ ks[k].kind = js[k].kind /\ ks[k].why = js[k].why /\ ks[k].from = js[k].from
              /\ Pending(ks[k]) => Pending(js[k])
         /\ Awaited(ks) \subseteq Awaited(js)
         /\ \A k \in Awaited(ks) : ks[k].from = js[k].from
<1>1. DOMAIN ks = DOMAIN js
  BY DEF Marked
<1>2. \A k \in DOMAIN js : k = j \/ ks[k] = js[k]
  BY DEF Marked
<1>3. Pending(ks[j]) => Pending(js[j])
  BY DEF Marked, Pending
<1>4. \A k \in DOMAIN js :
        /\ ks[k].kind = js[k].kind /\ ks[k].why = js[k].why /\ ks[k].from = js[k].from
        /\ Pending(ks[k]) => Pending(js[k])
  BY <1>2, <1>3 DEF Marked
<1> QED BY <1>1, <1>4 DEF Awaited

\* The records of the model's updates.
LEMMA UpdateMarks ==
  ASSUME NEW js \in Seq(JobRecords), NEW j \in DOMAIN js,
         NEW s \in {"queued", "running", "answered", "done", "gone"},
         NEW r \in {"none", "good", "newer", "same"} \union AllFaults, NEW c \in SUBSET Channels,
         NEW ks, \/ ks = [js EXCEPT ![j].state = s]
                 \/ ks = [js EXCEPT ![j].state = s, ![j].reply = r, ![j].channels = c]
  PROVE  Marked(js, ks, j, s)
<1> DEFINE a == [js EXCEPT ![j].state = s]
           b == [js EXCEPT ![j].state = s, ![j].reply = r, ![j].channels = c]
           x == [js[j] EXCEPT !.state = s]
           y == [js[j] EXCEPT !.state = s, !.reply = r, !.channels = c]
<1>1. js[j] \in JobRecords
  OBVIOUS
<1>2. x \in JobRecords /\ x.state = s /\ x.kind = js[j].kind /\ x.from = js[j].from /\ x.why = js[j].why
  BY <1>1 DEF JobRecords
<1>3. y \in JobRecords /\ y.state = s /\ y.kind = js[j].kind /\ y.from = js[j].from /\ y.why = js[j].why
  BY <1>1 DEF JobRecords
<1>4. a = [js EXCEPT ![j] = x]
  OBVIOUS
<1>5. b = [js EXCEPT ![j] = y]
  OBVIOUS
<1>7. ks = a \/ ks = b
  OBVIOUS
<1> HIDE DEF a, b, x, y
<1>6. ASSUME NEW z \in JobRecords, z.state = s, z.kind = js[j].kind, z.from = js[j].from, z.why = js[j].why
      PROVE  Marked(js, [js EXCEPT ![j] = z], j, s)
  <2> DEFINE ms == [js EXCEPT ![j] = z]
  <2>1. ms \in Seq(JobRecords) /\ Len(ms) = Len(js)
    OBVIOUS
  <2>2. ms[j] = z /\ \A k \in DOMAIN js : k # j => ms[k] = js[k]
    OBVIOUS
  <2> HIDE DEF ms
  <2>3. Marked(js, ms, j, s)
    BY <1>6, <2>1, <2>2 DEF Marked
  <2> QED BY <2>3 DEF ms
<1> QED BY <1>2, <1>3, <1>4, <1>5, <1>6, <1>7

\* What is left to show for a step that marks a job and tells nobody.
LEMMA KeepsMarking ==
  ASSUME IInv, NEW j \in DOMAIN jobs, NEW s, Marked(jobs, jobs', j, s),
         Pending([state |-> s]) => Pending(jobs[j]),
         JobsSound(jobs', queue', chanListJob', indexJob),
         nested \in BOOLEAN /\ nested' \in BOOLEAN /\ (nested => nested'),
         ~nested' => Orderly(jobs', queue', chanListJob'),
         chanListJob' \in {chanListJob, Nobody},
         m_chanListLoading' \in BOOLEAN,
         m_updateChecking' = m_updateChecking \/ (m_updateChecking' = TRUE /\ m_chanListLoaded),
         UNCHANGED <<list, m_checkUpdateWaiting, m_deferredUpdateChannel, m_newRepoUrl,
                     indexJob, dialogs, crash, owed, started>>
  PROVE  IInv'
<1>1. jobs \in Seq(JobRecords)
  BY DEF IInv, JobsSound
<1>2. /\ DOMAIN jobs' = DOMAIN jobs
      /\ \A k \in DOMAIN jobs :
           /\ jobs'[k].kind = jobs[k].kind /\ jobs'[k].why = jobs[k].why
           /\ jobs'[k].from = jobs[k].from
           /\ Pending(jobs'[k]) => Pending(jobs[k])
      /\ Awaited(jobs') \subseteq Awaited(jobs)
      /\ \A k \in Awaited(jobs') : jobs'[k].from = jobs[k].from
  BY <1>1, MarkedKeeps
<1>3. Typed'
  <2>1. m_updateChecking' \in BOOLEAN
    BY DEF IInv, Typed
  <2> QED BY <1>2, <2>1 DEF IInv, Typed, list
<1>4. ChecksSound(jobs', indexJob', m_updateChecking', m_newRepoUrl', dialogs')
  <2>1. ChecksSound(jobs', indexJob, m_updateChecking, m_newRepoUrl, dialogs)
    BY <1>2, ChecksKept DEF IInv
  <2> QED BY <2>1 DEF ChecksSound
<1>5. OfferIsAsked'
  BY DEF IInv, OfferIsAsked
<1>6. RequestsSound'
  <2>1. JobsOf("index")' = JobsOf("index")
    BY <1>2 DEF JobsOf
  <2>2. \A k \in DOMAIN jobs' : jobs'[k].kind = "index" => jobs'[k].why # "repeated"
    BY <1>2 DEF IInv, RequestsSound
  <2> QED BY <1>2, <2>1, <2>2 DEF IInv, RequestsSound, list
<1>7. NullOnlyByDialogs'
  BY <1>2 DEF IInv, NullOnlyByDialogs, Typed
<1> QED BY <1>3, <1>4, <1>5, <1>6, <1>7 DEF IInv

LEMMA KeepsNetworkAnswers == IInv /\ NetworkAnswers => IInv'
<1> SUFFICES ASSUME IInv, NetworkAnswers PROVE IInv'
  OBVIOUS
<1>1. PICK j \in DOMAIN jobs :
        /\ jobs[j].state = "running"
        /\ \E r \in Outcomes(jobs[j].kind), known \in Lists :
             jobs' = [jobs EXCEPT ![j].state = "answered", ![j].reply = r,
                                  ![j].channels = IF r = "good" THEN known ELSE {}]
        /\ queue' = Append(queue, Post("finish", j))
  BY DEF NetworkAnswers
<1>2. jobs \in Seq(JobRecords) /\ queue \in Seq(EventRecords)
      /\ JobsSound(jobs, queue, chanListJob, indexJob)
  BY DEF IInv, JobsSound
<1>3. Marked(jobs, jobs', j, "answered")
  <2>1. PICK r \in Outcomes(jobs[j].kind), known \in Lists :
             jobs' = [jobs EXCEPT ![j].state = "answered", ![j].reply = r,
                                  ![j].channels = IF r = "good" THEN known ELSE {}]
    BY <1>1
  <2>2. r \in {"none", "good", "newer", "same"} \union AllFaults
    BY CheckerAssumption DEF Outcomes
  <2> DEFINE c == IF r = "good" THEN known ELSE {}
  <2>3. c \in SUBSET Channels
    BY CheckerAssumption
  <2>4. jobs' = [jobs EXCEPT ![j].state = "answered", ![j].reply = r, ![j].channels = c]
    BY <2>1
  <2> HIDE DEF c
  <2> QED BY <1>2, <2>2, <2>3, <2>4, UpdateMarks
<1> DEFINE e == Post("finish", j)
<1>4. e \in EventRecords /\ e.do = "finish" /\ e.job = j
  BY <1>2 DEF Post, EventRecords
<1> HIDE DEF e
<1>5. JobsSound(jobs', Append(queue, e), chanListJob, indexJob)
  BY <1>1, <1>2, <1>3, <1>4, EventPosted
<1>6. queue' = Append(queue, e)
  BY <1>1 DEF e
<1>7. j \in DOMAIN jobs /\ (Pending([state |-> "answered"]) => Pending(jobs[j]))
  BY <1>1 DEF Pending
<1>8. ~nested => Orderly(jobs', queue', chanListJob)
  <2> SUFFICES ASSUME ~nested PROVE Orderly(jobs', queue', chanListJob)
    OBVIOUS
  <2>1. Orderly(jobs, queue, chanListJob)
    BY DEF IInv
  <2>2. /\ queue' \in Seq(EventRecords) /\ DOMAIN queue' = 1..(Len(queue) + 1)
        /\ queue'[Len(queue) + 1] = e /\ Len(queue) <= Len(queue')
        /\ DOMAIN queue = 1..Len(queue) /\ Len(queue) \in Nat
        /\ \A k \in DOMAIN queue : queue'[k] = queue[k]
    BY <1>2, <1>4, <1>6
  <2>3. \A k \in DOMAIN jobs' : jobs'[k].kind = "list" /\ Pending(jobs'[k])
              => k \in DOMAIN jobs /\ jobs[k].kind = "list" /\ Pending(jobs[k])
    BY <1>2, <1>3, <1>7, MarkedKeeps
  <2>4. Orphans(jobs', queue', chanListJob) \subseteq Orphans(jobs, queue, chanListJob)
        /\ \A k, n : ReportsFirst(queue, k, n) => ReportsFirst(queue', k, n)
    BY <1>2, <2>2, <2>3, Extended
  <2>5. \A k \in DOMAIN queue' : queue'[k].do = "delete" => queue'[k].level = 1
    <3>1. \A k \in DOMAIN queue' : k \in DOMAIN queue \/ k = Len(queue) + 1
      BY <2>2
    <3> QED BY <1>4, <2>1, <2>2, <3>1 DEF Orderly
  <2> QED BY <2>1, <2>4, <2>5 DEF Orderly
<1>9. UNCHANGED <<list, m_chanListLoading, flags, chanListJob, indexJob, dialogs, started, crash, owed, nested>>
  BY DEF NetworkAnswers
<1>10. m_chanListLoading' \in BOOLEAN /\ nested \in BOOLEAN /\ nested' \in BOOLEAN
       /\ (nested => nested')
  BY <1>9 DEF IInv, Typed
<1>11. JobsSound(jobs', queue', chanListJob, indexJob)
       /\ (~nested' => Orderly(jobs', queue', chanListJob))
  BY <1>5, <1>6, <1>8, <1>9
<1>12. /\ m_updateChecking' = m_updateChecking \/ (m_updateChecking' = TRUE /\ m_chanListLoaded)
       /\ UNCHANGED <<list, m_checkUpdateWaiting, m_deferredUpdateChannel, m_newRepoUrl,
                     chanListJob, indexJob, dialogs, crash, owed, started>>
  <2>1. m_updateChecking' = m_updateChecking
    BY <1>9 DEF flags
  <2>2. UNCHANGED <<list, m_checkUpdateWaiting, m_deferredUpdateChannel, m_newRepoUrl,
                    chanListJob, indexJob, dialogs, crash, owed, started>>
    BY <1>9 DEF flags
  <2> QED BY <2>1, <2>2
<1> QED BY <1>3, <1>7, <1>10, <1>11, <1>12, KeepsMarking

-----------------------------------------------------------------------------
(* The event loop *)

\* Outside dialogs the first event of the queue is delivered.
LEMMA MainLoopTakesFirst ==
  ASSUME IInv, ~nested, dialogs = <<>>, NEW i \in DOMAIN queue, Due(i)
  PROVE  i = 1
<1>1. queue \in Seq(EventRecords) /\ Orderly(jobs, queue, chanListJob)
  BY DEF IInv, JobsSound
<1>2. i \in 1..Len(queue) /\ 1 \in DOMAIN queue
  BY <1>1
<1>3. Deliverable(1)
  BY <1>1, <1>2 DEF Deliverable, Orderly, Level
<1>4. i # 1 => 1 \in 1..(i - 1)
  BY <1>2
<1> QED BY <1>3, <1>4 DEF Due

\* The order is kept when the first event is taken.
LEMMA FirstTaken ==
  ASSUME NEW js, NEW q, NEW cl, NEW ij, JobsSound(js, q, cl, ij), Orderly(js, q, cl), q # <<>>,
         NEW s, \/ q[1].do = "start" /\ s = "running"
                \/ q[1].do = "finish" /\ s = "done",
         NEW ks, Marked(js, ks, q[1].job, s)
  PROVE  Orphans(ks, Without(q, 1), cl) \subseteq Orphans(js, q, cl) /\ Orderly(ks, Without(q, 1), cl)
<1> DEFINE r == Without(q, 1)
           e == [k \in 1..Len(r) |-> k + 1]
<1>1. js \in Seq(JobRecords) /\ q \in Seq(EventRecords) /\ 1 \in DOMAIN q
  BY DEF JobsSound
<1>2. r \in Seq(EventRecords) /\ Len(r) = Len(q) - 1 /\ \A k \in 1..(Len(q) - 1) : r[k] = q[k + 1]
  BY <1>1, WithoutFirst
<1>3. q[1].job \in DOMAIN js /\ (q[1].do = "start" => js[q[1].job].state = "queued")
  BY <1>1 DEF JobsSound, QueueSound, EventSound
<1>4. Pending([state |-> s]) => Pending(js[q[1].job])
  BY <1>3 DEF Pending
<1>5. DOMAIN ks = DOMAIN js
      /\ \A j \in DOMAIN js : ks[j].kind = js[j].kind /\ (Pending(ks[j]) => Pending(js[j]))
  BY <1>1, <1>3, <1>4, MarkedKeeps
<1>6. q[1].do # "start" => ~Pending(ks[q[1].job])
  BY DEF Marked, Pending
<1> HIDE DEF r
<1>7. e \in [1..Len(r) -> 2..Len(q)] /\ \A k \in 1..Len(r) : e[k] = k + 1
  BY <1>1, <1>2
<1>8. \A i \in 2..Len(q) : \E k \in 1..Len(r) : e[k] = i
  <2> TAKE i \in 2..Len(q)
  <2>1. i - 1 \in 1..Len(r) /\ (i - 1) + 1 = i
    BY <1>1, <1>2
  <2> QED BY <1>7, <2>1
<1> HIDE DEF e
<1>9. (\A k \in 1..Len(r) : r[k] = q[e[k]]) /\ \A k, l \in 1..Len(r) : k < l => e[k] < e[l]
  BY <1>2, <1>7
<1>11. Moves(e, r, q, ks, cl)
  BY <1>7, <1>8, <1>9 DEF Moves
<1>10. Orphans(ks, r, cl) \subseteq Orphans(js, q, cl) /\ Orderly(ks, r, cl)
  BY <1>1, <1>2, <1>5, <1>6, <1>11, Advanced
<1> QED BY <1>10 DEF r

LEMMA FirstDeletes ==
  ASSUME NEW js, NEW q, NEW cl, NEW ij, JobsSound(js, q, cl, ij), Orderly(js, q, cl), q # <<>>,
         q[1].do = "delete", NEW s \in {"gone", "done"}, NEW ks, Marked(js, ks, q[1].job, s)
  PROVE  Orderly(ks, Select(Without(q, 1),
                   {k \in DOMAIN Without(q, 1) : Without(q, 1)[k].job # q[1].job}), cl)
<1> DEFINE r == Without(q, 1)
           P == {k \in DOMAIN r : r[k].job # q[1].job}
           t == Select(r, P)
<1>1. js \in Seq(JobRecords) /\ q \in Seq(EventRecords) /\ 1 \in DOMAIN q
  BY DEF JobsSound
<1>2. r \in Seq(EventRecords) /\ Len(r) = Len(q) - 1 /\ \A k \in 1..(Len(q) - 1) : r[k] = q[k + 1]
  BY <1>1, WithoutFirst
<1>3. q[1].job \in DOMAIN js /\ q[1].job # cl
  BY <1>1 DEF JobsSound, QueueSound, EventSound
<1>4. ~Pending([state |-> s]) /\ ~Pending(ks[q[1].job])
  BY DEF Pending, Marked
<1>5. DOMAIN ks = DOMAIN js
      /\ \A j \in DOMAIN js : ks[j].kind = js[j].kind /\ (Pending(ks[j]) => Pending(js[j]))
  BY <1>1, <1>3, <1>4, MarkedKeeps
<1> HIDE DEF r
<1>6. P \in SUBSET (1..Len(r))
  BY <1>2
<1>16. \A k \in 1..Len(r) : k \in P \/ r[k].job = q[1].job
  BY <1>2
<1> HIDE DEF P
<1>7. t \in Seq(EventRecords) /\ \E d : Picks(d, t, r, P)
  BY <1>2, <1>6, Selected
<1> HIDE DEF t
<1>8. PICK d \in [1..Len(t) -> P] :
           /\ \A k, l \in 1..Len(t) : k < l => d[k] < d[l]
           /\ \A i \in P : \E k \in 1..Len(t) : d[k] = i
           /\ \A k \in 1..Len(t) : t[k] = r[d[k]]
  BY <1>7 DEF Picks
<1> DEFINE e == [k \in 1..Len(t) |-> d[k] + 1]
<1>9. \A k \in 1..Len(t) : d[k] \in 1..Len(r) /\ d[k] \in Nat
  <2> TAKE k \in 1..Len(t)
  <2>1. d[k] \in P
    OBVIOUS
  <2>2. d[k] \in 1..Len(r)
    BY <1>6, <2>1
  <2> QED BY <1>2, <2>2
<1>10. e \in [1..Len(t) -> 2..Len(q)] /\ \A k \in 1..Len(t) : e[k] = d[k] + 1
  BY <1>1, <1>2, <1>9
<1> HIDE DEF e
<1>11. \A k \in 1..Len(t) : t[k] = q[e[k]]
  BY <1>2, <1>8, <1>9, <1>10
<1>12. \A k, l \in 1..Len(t) : k < l => e[k] < e[l]
  BY <1>8, <1>9, <1>10
<1>13. \A i \in 2..Len(q) :
         \/ \E k \in 1..Len(t) : e[k] = i
         \/ ~Pending(ks[q[i].job]) /\ q[i].job # cl
  <2> TAKE i \in 2..Len(q)
  <2>1. i - 1 \in 1..Len(r) /\ r[i - 1] = q[i] /\ (i - 1) + 1 = i
    BY <1>1, <1>2
  <2>2. CASE i - 1 \in P
    <3>1. PICK k \in 1..Len(t) : d[k] = i - 1
      BY <1>8, <2>2
    <3> QED BY <1>10, <2>1, <3>1
  <2>3. CASE i - 1 \notin P
    BY <1>3, <1>4, <1>16, <2>1, <2>3
  <2> QED BY <2>2, <2>3
<1>15. Moves(e, t, q, ks, cl)
  BY <1>10, <1>11, <1>12, <1>13 DEF Moves
<1>14. Orderly(ks, t, cl)
  BY <1>1, <1>4, <1>5, <1>7, <1>15, Advanced
<1> QED BY <1>14 DEF r, P, t

LEMMA KeepsJobStarts ==
  ASSUME IInv, NEW i \in DOMAIN queue, Due(i), JobStarts(i),
         nested' = (nested \/ dialogs # <<>>), UNCHANGED started
  PROVE  IInv'
<1> DEFINE j == queue[i].job
<1>1. /\ queue[i].do = "start" /\ jobs' = [jobs EXCEPT ![j].state = "running"]
      /\ queue' = Without(queue, i)
      /\ UNCHANGED <<list, m_chanListLoading, flags, chanListJob, indexJob, dialogs, crash, owed>>
  BY DEF JobStarts, Rest, Without
<1>2. jobs \in Seq(JobRecords) /\ queue \in Seq(EventRecords)
      /\ JobsSound(jobs, queue, chanListJob, indexJob)
  BY DEF IInv, JobsSound
<1>3. j \in DOMAIN jobs /\ jobs[j].state = "queued"
  BY <1>1, <1>2 DEF JobsSound, QueueSound, EventSound
<1> HIDE DEF j
<1>4. Marked(jobs, jobs', j, "running")
  BY <1>1, <1>2, <1>3, UpdateMarks
<1>5. Pending([state |-> "running"]) => Pending(jobs[j])
  BY <1>3 DEF Pending
<1>6. JobsSound(jobs', queue', chanListJob, indexJob)
  BY <1>1, <1>2, <1>4, EventTaken DEF j
<1>7. nested \in BOOLEAN /\ nested' \in BOOLEAN /\ (nested => nested')
  BY DEF IInv, Typed
<1>8. ~nested' => Orderly(jobs', queue', chanListJob)
  <2> SUFFICES ASSUME ~nested' PROVE Orderly(jobs', queue', chanListJob)
    OBVIOUS
  <2>1. ~nested /\ dialogs = <<>>
    OBVIOUS
  <2>2. i = 1
    BY <2>1, MainLoopTakesFirst
  <2>3. Orderly(jobs, queue, chanListJob) /\ queue # <<>>
    BY <1>2, <2>1 DEF IInv
  <2> QED BY <1>1, <1>2, <1>4, <2>2, <2>3, FirstTaken DEF j
<1>9. m_chanListLoading' \in BOOLEAN
  BY <1>1 DEF IInv, Typed
<1>10. /\ m_updateChecking' = m_updateChecking \/ (m_updateChecking' = TRUE /\ m_chanListLoaded)
       /\ UNCHANGED <<list, m_checkUpdateWaiting, m_deferredUpdateChannel, m_newRepoUrl,
                     chanListJob, indexJob, dialogs, crash, owed, started>>
  <2>1. m_updateChecking' = m_updateChecking
    BY <1>1 DEF flags
  <2>2. UNCHANGED <<list, m_checkUpdateWaiting, m_deferredUpdateChannel, m_newRepoUrl,
                    chanListJob, indexJob, dialogs, crash, owed, started>>
    BY <1>1 DEF flags
  <2> QED BY <2>1, <2>2
<1> QED BY <1>3, <1>4, <1>5, <1>6, <1>7, <1>8, <1>9, <1>10, KeepsMarking

LEMMA KeepsJobDeleted ==
  ASSUME IInv, NEW i \in DOMAIN queue, Due(i), JobDeleted(i),
         nested' = (nested \/ dialogs # <<>>), UNCHANGED started
  PROVE  IInv'
<1> DEFINE j == queue[i].job
           s == IF jobs[j].state = "done" THEN "done" ELSE "gone"
           t == Select(Without(queue, i), {k \in DOMAIN Without(queue, i) : Without(queue, i)[k].job # queue[i].job})
<1>1. /\ queue[i].do = "delete"
      /\ jobs' = [jobs EXCEPT ![j].state = s, ![j].reply = "none", ![j].channels = {}]
      /\ queue' = t
      /\ UNCHANGED <<list, m_chanListLoading, flags, chanListJob, indexJob, dialogs, crash, owed>>
  BY DEF JobDeleted, Rest, Without
<1>2. jobs \in Seq(JobRecords) /\ queue \in Seq(EventRecords)
      /\ JobsSound(jobs, queue, chanListJob, indexJob)
  BY DEF IInv, JobsSound
<1>3. j \in DOMAIN jobs
  BY <1>1, <1>2 DEF JobsSound, QueueSound, EventSound
<1>4. s \in {"gone", "done"} /\ (Pending([state |-> s]) => Pending(jobs[j]))
  BY DEF Pending
<1> HIDE DEF s, t
<1>5. Marked(jobs, jobs', j, s)
  <2> HIDE DEF j
  <2>1. s \in {"queued", "running", "answered", "done", "gone"} /\ {} \in SUBSET Channels
        /\ "none" \in {"none", "good", "newer", "same"} \union AllFaults
    BY <1>4
  <2> DEFINE r == "none"
             c == {}
  <2>2. jobs' = [jobs EXCEPT ![j].state = s, ![j].reply = r, ![j].channels = c]
    BY <1>1
  <2>3. r \in {"none", "good", "newer", "same"} \union AllFaults /\ c \in SUBSET Channels
    BY <2>1
  <2> HIDE DEF r, c
  <2>4. jobs \in Seq(JobRecords) /\ s \in {"queued", "running", "answered", "done", "gone"}
    BY <1>2, <2>1
  <2> QED BY <1>3, <2>2, <2>3, <2>4, UpdateMarks
<1>6. JobsSound(jobs', queue', chanListJob, indexJob)
  <2>1. JobsSound(jobs', t, chanListJob, indexJob)
    <3> HIDE DEF j
    <3>1. Marked(jobs, jobs', queue[i].job, s)
      BY <1>5 DEF j
    <3>2. JobsSound(jobs', Select(Without(queue, i),
            {k \in DOMAIN Without(queue, i) : Without(queue, i)[k].job # queue[i].job}), chanListJob, indexJob)
      BY <1>1, <1>2, <3>1, EventDeletes
    <3> QED BY <3>2 DEF t
  <2> QED BY <1>1, <2>1
<1>7. nested \in BOOLEAN /\ nested' \in BOOLEAN /\ (nested => nested')
  BY DEF IInv, Typed
<1>8. ~nested' => Orderly(jobs', queue', chanListJob)
  <2> SUFFICES ASSUME ~nested' PROVE Orderly(jobs', queue', chanListJob)
    OBVIOUS
  <2>1. ~nested /\ dialogs = <<>>
    OBVIOUS
  <2>2. i = 1
    BY <2>1, MainLoopTakesFirst
  <2>3. Orderly(jobs, queue, chanListJob) /\ queue # <<>>
    BY <1>2, <2>1 DEF IInv
  <2>4. queue[1].do = "delete" /\ Marked(jobs, jobs', queue[1].job, s)
    BY <1>1, <1>5, <2>2
  <2>5. Orderly(jobs', Select(Without(queue, 1),
          {k \in DOMAIN Without(queue, 1) : Without(queue, 1)[k].job # queue[1].job}), chanListJob)
    BY <1>2, <1>4, <2>3, <2>4, FirstDeletes
  <2>6. queue' = Select(Without(queue, 1),
          {k \in DOMAIN Without(queue, 1) : Without(queue, 1)[k].job # queue[1].job})
    BY <1>1, <2>2 DEF t
  <2> QED BY <2>5, <2>6
<1>9. m_chanListLoading' \in BOOLEAN
  BY <1>1 DEF IInv, Typed
<1>10. /\ m_updateChecking' = m_updateChecking \/ (m_updateChecking' = TRUE /\ m_chanListLoaded)
       /\ UNCHANGED <<list, m_checkUpdateWaiting, m_deferredUpdateChannel, m_newRepoUrl,
                     chanListJob, indexJob, dialogs, crash, owed, started>>
  <2>1. m_updateChecking' = m_updateChecking
    BY <1>1 DEF flags
  <2>2. UNCHANGED <<list, m_checkUpdateWaiting, m_deferredUpdateChannel, m_newRepoUrl,
                    chanListJob, indexJob, dialogs, crash, owed, started>>
    BY <1>1 DEF flags
  <2> QED BY <2>1, <2>2
<1> HIDE DEF j
<1> QED BY <1>3, <1>4, <1>5, <1>6, <1>7, <1>8, <1>9, <1>10, KeepsMarking

\* The report of a job is delivered: the job is done, its event is gone.
LEMMA ReportTaken ==
  ASSUME IInv, NEW i \in DOMAIN queue, Due(i), queue[i].do = "finish"
  PROVE  LET j  == queue[i].job
             js == Done(j)
             q  == Rest(i)
         IN /\ j \in DOMAIN jobs /\ jobs[j].state = "answered"
            /\ Marked(jobs, js, j, "done") /\ (Pending([state |-> "done"]) => Pending(jobs[j]))
            /\ JobsSound(js, q, chanListJob, indexJob)
            /\ ~nested /\ dialogs = <<>> =>
                 /\ i = 1
                 /\ Orphans(js, q, chanListJob) \subseteq Orphans(jobs, queue, chanListJob)
                 /\ Orderly(js, q, chanListJob)
<1> DEFINE j == queue[i].job
           js == Done(j)
           q == Without(queue, i)
<1>1. jobs \in Seq(JobRecords) /\ queue \in Seq(EventRecords)
      /\ JobsSound(jobs, queue, chanListJob, indexJob)
  BY DEF IInv, JobsSound
<1>2. j \in DOMAIN jobs /\ jobs[j].state = "answered"
  BY <1>1 DEF JobsSound, QueueSound, EventSound
<1>3. Marked(jobs, js, j, "done")
  <2> HIDE DEF j
  <2>1. {} \in SUBSET Channels
    OBVIOUS
  <2> QED BY <1>1, <1>2, <2>1, UpdateMarks DEF Done
<1> HIDE DEF js
<1>4. JobsSound(js, q, chanListJob, indexJob)
  BY <1>1, <1>3, EventTaken
<1>5. ASSUME ~nested, dialogs = <<>>
      PROVE  /\ i = 1
             /\ Orphans(js, q, chanListJob) \subseteq Orphans(jobs, queue, chanListJob)
             /\ Orderly(js, q, chanListJob)
  <2>2. i = 1
    BY <1>5, MainLoopTakesFirst
  <2>3. Orderly(jobs, queue, chanListJob) /\ queue # <<>>
    BY <1>1, <1>5 DEF IInv
  <2> QED BY <1>1, <1>3, <2>2, <2>3, FirstTaken
<1>6. Rest(i) = q
  BY DEF Rest, Without
<1>7. Pending([state |-> "done"]) => Pending(jobs[j])
  BY <1>2 DEF Pending
<1> QED BY <1>2, <1>3, <1>4, <1>5, <1>6, <1>7 DEF js

LEMMA KeepsChanListDownloadFailed ==
  ASSUME IInv, NEW i \in DOMAIN queue, Due(i), ChanListDownloadFailed(i),
         nested' = (nested \/ dialogs # <<>>), UNCHANGED started
  PROVE  IInv'
<1> DEFINE j == queue[i].job
<1>1. /\ queue[i].do = "finish" /\ m_chanListLoading' = FALSE
      /\ jobs' = Done(j) /\ queue' = Rest(i)
      /\ UNCHANGED <<list, flags, chanListJob, indexJob, dialogs, crash, owed>>
  BY DEF ChanListDownloadFailed, Finishes
<1>2. /\ j \in DOMAIN jobs /\ Marked(jobs, jobs', j, "done")
      /\ Pending([state |-> "done"]) => Pending(jobs[j])
  BY <1>1, ReportTaken
<1>3. /\ JobsSound(jobs', queue', chanListJob, indexJob)
      /\ ~nested /\ dialogs = <<>> => Orderly(jobs', queue', chanListJob)
  BY <1>1, ReportTaken
<1>7. nested \in BOOLEAN /\ nested' \in BOOLEAN /\ (nested => nested')
  BY DEF IInv, Typed
<1>8. ~nested' => Orderly(jobs', queue', chanListJob)
  BY <1>3
<1>9. m_chanListLoading' \in BOOLEAN
  BY <1>1
<1>10. /\ m_updateChecking' = m_updateChecking \/ (m_updateChecking' = TRUE /\ m_chanListLoaded)
       /\ UNCHANGED <<list, m_checkUpdateWaiting, m_deferredUpdateChannel, m_newRepoUrl,
                     chanListJob, indexJob, dialogs, crash, owed, started>>
  <2>1. m_updateChecking' = m_updateChecking
    BY <1>1 DEF flags
  <2>2. UNCHANGED <<list, m_checkUpdateWaiting, m_deferredUpdateChannel, m_newRepoUrl,
                    chanListJob, indexJob, dialogs, crash, owed, started>>
    BY <1>1 DEF flags
  <2> QED BY <2>1, <2>2
<1> HIDE DEF j
<1> QED BY <1>2, <1>3, <1>7, <1>8, <1>9, <1>10, KeepsMarking

LEMMA KeepsIndexDownloadFailed ==
  ASSUME IInv, NEW i \in DOMAIN queue, Due(i), IndexDownloadFailed(i),
         nested' = (nested \/ dialogs # <<>>), UNCHANGED started
  PROVE  IInv'
<1> DEFINE j == queue[i].job
<1>1. /\ queue[i].do = "finish" /\ jobs[j].kind = "index" /\ m_updateChecking' = TRUE
      /\ jobs' = Done(j) /\ queue' = Rest(i)
      /\ UNCHANGED <<list, m_chanListLoading, m_checkUpdateWaiting, m_deferredUpdateChannel,
                     m_newRepoUrl, chanListJob, indexJob, dialogs, crash, owed>>
  BY DEF IndexDownloadFailed, Finishes, UpdateCheckFailed
<1>2. /\ j \in DOMAIN jobs /\ Marked(jobs, jobs', j, "done")
      /\ Pending([state |-> "done"]) => Pending(jobs[j])
  BY <1>1, ReportTaken
<1>3. /\ JobsSound(jobs', queue', chanListJob, indexJob)
      /\ ~nested /\ dialogs = <<>> => Orderly(jobs', queue', chanListJob)
  BY <1>1, ReportTaken
<1>7. nested \in BOOLEAN /\ nested' \in BOOLEAN /\ (nested => nested')
  BY DEF IInv, Typed
<1>8. ~nested' => Orderly(jobs', queue', chanListJob)
  BY <1>3
<1>9. m_chanListLoading' \in BOOLEAN
  BY <1>1 DEF IInv, Typed
<1>10. /\ m_updateChecking' = m_updateChecking \/ (m_updateChecking' = TRUE /\ m_chanListLoaded)
       /\ UNCHANGED <<list, m_checkUpdateWaiting, m_deferredUpdateChannel, m_newRepoUrl,
                     chanListJob, indexJob, dialogs, crash, owed, started>>
  <2>1. j \in JobsOf("index")
    BY <1>1, <1>2 DEF JobsOf
  <2>2. m_chanListLoaded
    BY <2>1 DEF IInv, RequestsSound
  <2>3. UNCHANGED <<list, m_checkUpdateWaiting, m_deferredUpdateChannel, m_newRepoUrl,
                    chanListJob, indexJob, dialogs, crash, owed, started>>
    BY <1>1
  <2> QED BY <1>1, <2>2, <2>3
<1> HIDE DEF j
<1> QED BY <1>2, <1>3, <1>7, <1>8, <1>9, <1>10, KeepsMarking

\* The report of a job that is not held, in the order of events: an orphan.
LEMMA UnheldIsOrphan ==
  ASSUME IInv, NEW i \in DOMAIN queue, Due(i), ~nested, dialogs = <<>>,
         queue[i].do = "finish", jobs[queue[i].job].kind = "list", queue[i].job # chanListJob
  PROVE  queue[i].job \in Orphans(jobs, queue, chanListJob)
<1> DEFINE j == queue[i].job
<1>1. i = 1
  BY MainLoopTakesFirst
<1>2. j \in DOMAIN jobs /\ jobs[j].state = "answered"
  BY ReportTaken
<1>3. queue \in Seq(EventRecords)
  BY DEF IInv, JobsSound
<1>4. ~Doomed(queue, j)
  <2>1. \A p \in DOMAIN queue : 1 \in 1..p
    BY <1>3
  <2> QED BY <1>1, <2>1 DEF Doomed
<1> QED BY <1>2, <1>4 DEF Orphans, Pending

LEMMA KeepsChanListNull ==
  ASSUME IInv, NEW i \in DOMAIN queue, Due(i), Finishes(i, "list"), chanListJob = Nobody,
         NullJob(i), started, nested' = (nested \/ dialogs # <<>>), UNCHANGED started
  PROVE  IInv'
<1>1. queue[i].do = "finish" /\ jobs[queue[i].job].kind = "list"
  BY DEF Finishes
<1>2. /\ crash' = queue[i].job
      /\ UNCHANGED <<list, m_chanListLoading, flags, chanListJob, indexJob, jobs, queue, dialogs, owed>>
  BY DEF NullJob, events
<1>3. queue[i].job \in DOMAIN jobs /\ queue[i].job # Nobody
  <2>1. queue[i].job \in DOMAIN jobs /\ jobs \in Seq(JobRecords)
    BY <1>1, ReportTaken DEF IInv, JobsSound
  <2> QED BY <2>1, CheckerAssumption
<1>4. nested' = TRUE
  <2>1. nested \in BOOLEAN
    BY DEF IInv, Typed
  <2>2. ASSUME ~nested, dialogs = <<>> PROVE FALSE
    <3>1. queue[i].job \in Orphans(jobs, queue, chanListJob)
      BY <1>1, <1>3, <2>2, UnheldIsOrphan
    <3> QED BY <2>2, <3>1 DEF IInv, Orderly
  <2> QED BY <2>1, <2>2
<1>5. Typed'
  BY <1>2, <1>3, <1>4 DEF IInv, Typed, list, flags
<1>6. RequestsSound' /\ OfferIsAsked'
  BY <1>2 DEF IInv, RequestsSound, OfferIsAsked, JobsOf, list, flags
<1>7. NullOnlyByDialogs'
  BY <1>1, <1>2, <1>4 DEF NullOnlyByDialogs
<1>8. /\ JobsSound(jobs', queue', chanListJob', indexJob')
      /\ ChecksSound(jobs', indexJob', m_updateChecking', m_newRepoUrl', dialogs')
  BY <1>2 DEF IInv, flags
<1> QED BY <1>4, <1>5, <1>6, <1>7, <1>8 DEF IInv

\* A list job has reported, and the one that is held is let go.
LEMMA ListLetGo ==
  ASSUME IInv, NEW i \in DOMAIN queue, Due(i), Finishes(i, "list"), chanListJob # Nobody
  PROVE  LET js == Done(queue[i].job)
             q  == Rest(i) \o Delete(chanListJob)
         IN /\ JobsSound(js, q, Nobody, indexJob)
            /\ ~nested /\ dialogs = <<>> => Orderly(js, q, Nobody)
<1> DEFINE j == queue[i].job
           js == Done(j)
           q == Rest(i)
           dl == Delete(chanListJob)
           e == dl[1]
<1>1. queue[i].do = "finish" /\ jobs[j].kind = "list"
  BY DEF Finishes
<1>2. /\ j \in DOMAIN jobs /\ jobs[j].state = "answered"
      /\ Marked(jobs, js, j, "done")
      /\ JobsSound(js, q, chanListJob, indexJob)
      /\ ~nested /\ dialogs = <<>> =>
           /\ Orphans(js, q, chanListJob) \subseteq Orphans(jobs, queue, chanListJob)
           /\ Orderly(js, q, chanListJob)
  BY <1>1, ReportTaken
<1>3. Removal(dl, chanListJob, Level) /\ (dialogs = <<>> => Level = 1)
  <2>1. chanListJob \in Nat \union {Nobody}
    BY DEF IInv, JobsSound, HeldSound
  <2>2. Typed
    BY DEF IInv
  <2> QED BY <2>1, <2>2, DeleteIs
<1> HIDE DEF js, q, dl
<1>4. dl = <<e>> /\ e \in EventRecords /\ e.do = "delete" /\ e.job = chanListJob /\ e.level = Level
  BY <1>3, SingleRemoval
<1> HIDE DEF e
<1>5. JobsSound(js, q \o <<e>>, Nobody, indexJob)
  BY <1>2, <1>4, ListReleased
<1>6. ASSUME ~nested, dialogs = <<>> PROVE Orderly(js, q \o <<e>>, Nobody)
  <2>1. /\ Orphans(js, q, chanListJob) \subseteq Orphans(jobs, queue, chanListJob)
        /\ Orderly(js, q, chanListJob) /\ Orderly(jobs, queue, chanListJob)
    BY <1>2, <1>6 DEF IInv
  <2>2. \A k \in DOMAIN q : q[k].do = "finish" => js[q[k].job].state = "answered"
    BY <1>2 DEF JobsSound, QueueSound, EventSound
  <2>3. \A k \in DOMAIN queue : queue[k].do = "start" => jobs[queue[k].job].state = "queued"
    BY DEF IInv, JobsSound, QueueSound, EventSound
  <2>4. js[j].state = "done" /\ \A k \in DOMAIN jobs : k # j => js[k] = jobs[k]
    BY <1>2 DEF Marked
  <2>5. /\ Orphans(js, q, chanListJob) = {}
        /\ \A k \in DOMAIN q : ~(q[k].do = "finish" /\ q[k].job = chanListJob)
    <3>1. CASE chanListJob = j
      <4>1. ASSUME NEW k \in Orphans(jobs, queue, chanListJob) PROVE FALSE
        <5>1. ReportsFirst(queue, k, chanListJob)
          BY <2>1 DEF Orderly
        <5>2. jobs[chanListJob].state = "queued"
          BY <2>3, <5>1 DEF ReportsFirst
        <5> QED BY <1>2, <3>1, <5>2
      <4> QED BY <2>1, <2>2, <2>4, <3>1, <4>1
    <3>2. CASE chanListJob # j
      <4>1. j \in Orphans(jobs, queue, chanListJob)
        BY <1>1, <1>6, <3>2, UnheldIsOrphan
      <4>2. ReportsFirst(queue, j, chanListJob)
        BY <2>1, <4>1 DEF Orderly
      <4>3. jobs[chanListJob].state = "queued"
        BY <2>3, <4>2 DEF ReportsFirst
      <4>4. chanListJob \in DOMAIN jobs
        BY DEF IInv, JobsSound, HeldSound
      <4>5. \A k \in Orphans(js, q, chanListJob) : k = j
        BY <2>1, <4>1 DEF Orderly
      <4>6. j \notin Orphans(js, q, chanListJob)
        BY <2>4 DEF Orphans, Pending
      <4> QED BY <2>2, <2>4, <3>2, <4>3, <4>4, <4>5, <4>6
    <3> QED BY <3>1, <3>2
  <2>6. q \in Seq(EventRecords) /\ e.level = 1
    BY <1>2, <1>3, <1>4, <1>6 DEF JobsSound
  <2> QED BY <1>4, <2>1, <2>5, <2>6, LetGo
<1> QED BY <1>4, <1>5, <1>6 DEF js, q, dl

LEMMA KeepsChanListBroken ==
  ASSUME IInv, NEW i \in DOMAIN queue, Due(i), Finishes(i, "list"), ChanListBroken(i),
         nested' = (nested \/ dialogs # <<>>), UNCHANGED started
  PROVE  IInv'
<1> DEFINE j == queue[i].job
<1>1. /\ queue[i].do = "finish" /\ chanListJob # Nobody /\ chanListJob' = Nobody
      /\ jobs' = Done(j) /\ queue' = Rest(i) \o Delete(chanListJob)
      /\ UNCHANGED <<list, m_chanListLoading, flags, indexJob, dialogs, crash, owed>>
  BY DEF ChanListBroken, Finishes
<1>2. /\ j \in DOMAIN jobs /\ Marked(jobs, jobs', j, "done")
      /\ Pending([state |-> "done"]) => Pending(jobs[j])
  BY <1>1, ReportTaken
<1>3. /\ JobsSound(jobs', queue', chanListJob', indexJob)
      /\ ~nested /\ dialogs = <<>> => Orderly(jobs', queue', chanListJob')
  BY <1>1, ListLetGo
<1>7. nested \in BOOLEAN /\ nested' \in BOOLEAN /\ (nested => nested')
  BY DEF IInv, Typed
<1>8. ~nested' => Orderly(jobs', queue', chanListJob')
  BY <1>3
<1>9. m_chanListLoading' \in BOOLEAN
  BY <1>1 DEF IInv, Typed
<1>10. /\ m_updateChecking' = m_updateChecking \/ (m_updateChecking' = TRUE /\ m_chanListLoaded)
       /\ chanListJob' \in {chanListJob, Nobody}
       /\ UNCHANGED <<list, m_checkUpdateWaiting, m_deferredUpdateChannel, m_newRepoUrl,
                     indexJob, dialogs, crash, owed, started>>
  BY <1>1 DEF flags
<1> HIDE DEF j
<1> QED BY <1>2, <1>3, <1>7, <1>8, <1>9, <1>10, KeepsMarking

LEMMA KeepsChanListLoaded ==
  ASSUME IInv, NEW i \in DOMAIN queue, Due(i), Finishes(i, "list"), ChanListLoaded(i),
         nested' = (nested \/ dialogs # <<>>), UNCHANGED started
  PROVE  IInv'
<1> DEFINE j == queue[i].job
           js == Done(j)
           q == Rest(i) \o Delete(chanListJob)
<1>1. /\ queue[i].do = "finish" /\ chanListJob # Nobody /\ chanListJob' = Nobody
      /\ ListRead(i) = "good" /\ m_channels' = jobs[chanListJob].channels
      /\ m_chanListLoaded' = TRUE /\ m_chanListLoading' = FALSE
      /\ UNCHANGED <<m_checkUpdateWaiting, m_deferredUpdateChannel, dialogs, crash>>
  BY DEF ChanListLoaded, Finishes
<1>2. chanListJob = j
  BY <1>1 DEF ListRead, Read
<1>3. /\ j \in DOMAIN jobs /\ Marked(jobs, js, j, "done")
      /\ Pending([state |-> "done"]) => Pending(jobs[j])
  BY <1>1, ReportTaken
<1>4. /\ JobsSound(js, q, Nobody, indexJob)
      /\ ~nested /\ dialogs = <<>> => Orderly(js, q, Nobody)
  BY <1>1, ListLetGo
<1>5. \/ /\ m_checkUpdateWaiting /\ ~m_updateChecking
         /\ Check(js, q, m_channels', m_deferredUpdateChannel, jobs[j].notify,
                  IF owed THEN "asked" ELSE "repeated")
         /\ owed' = FALSE
      \/ /\ ~m_checkUpdateWaiting \/ m_updateChecking
         /\ jobs' = js /\ queue' = q
         /\ UNCHANGED <<m_updateChecking, m_newRepoUrl, indexJob, owed>>
  BY DEF ChanListLoaded, Ignored
<1> HIDE DEF j, js, q
<1>6. jobs \in Seq(JobRecords)
  BY DEF IInv, JobsSound
<1>7. /\ DOMAIN js = DOMAIN jobs
      /\ \A k \in DOMAIN jobs :
           /\ js[k].kind = jobs[k].kind /\ js[k].why = jobs[k].why /\ js[k].from = jobs[k].from
           /\ Pending(js[k]) => Pending(jobs[k])
      /\ Awaited(js) \subseteq Awaited(jobs)
      /\ \A k \in Awaited(js) : js[k].from = jobs[k].from
  BY <1>3, <1>6, MarkedKeeps
<1>8. jobs[j] \in JobRecords
  BY <1>3, <1>6
<1>9. m_channels' \subseteq Channels /\ jobs[j].notify \in BOOLEAN
  BY <1>1, <1>2, <1>8 DEF JobRecords
<1>10. nested \in BOOLEAN /\ nested' \in BOOLEAN /\ (~nested' => ~nested /\ dialogs = <<>>)
  BY DEF IInv, Typed
<1>11. CASE m_checkUpdateWaiting /\ ~m_updateChecking
  <2>1. owed /\ Awaited(jobs) = {} /\ Shown(dialogs) = {}
    BY <1>1, <1>11 DEF IInv, RequestsSound, ChecksSound
  <2>2. Check(js, q, m_channels', m_deferredUpdateChannel, jobs[j].notify, "asked") /\ owed' = FALSE
    BY <1>5, <1>11, <2>1
  <2>3. Awaited(js) = {} /\ Typed
    BY <1>7, <2>1 DEF IInv
  <2>4. /\ JobsSound(jobs', queue', Nobody, indexJob')
        /\ Orderly(js, q, Nobody) /\ dialogs = <<>> => Orderly(jobs', queue', Nobody)
        /\ ChecksSound(jobs', indexJob', TRUE, m_newRepoUrl', dialogs)
        /\ m_updateChecking' = TRUE /\ m_newRepoUrl' \in Choices
        /\ Grown(js, jobs', "index") /\ \A k \in DOMAIN jobs' : k \in DOMAIN js \/ jobs'[k].why = "asked"
        /\ m_channels' = {} => Awaited(jobs') = {}
    BY <1>4, <1>9, <2>1, <2>2, <2>3, CheckMade
  <2>5. Typed'
    BY <1>1, <1>7, <1>9, <1>10, <2>2, <2>4 DEF IInv, Typed, Grown
  <2>6. RequestsSound'
    <3>1. \A k \in DOMAIN jobs' : jobs'[k].kind = "index" => jobs'[k].why # "repeated"
      BY <1>7, <2>4 DEF IInv, RequestsSound, Grown
    <3> QED BY <1>1, <2>1, <2>4, <3>1 DEF RequestsSound
  <2>7. NullOnlyByDialogs' /\ OfferIsAsked'
    BY <1>1, <1>7, <1>10, <2>4 DEF IInv, NullOnlyByDialogs, OfferIsAsked, Typed, Grown
  <2> QED BY <1>1, <1>4, <1>10, <2>4, <2>5, <2>6, <2>7 DEF IInv
<1>12. CASE ~m_checkUpdateWaiting \/ m_updateChecking
  <2>1. jobs' = js /\ queue' = q /\ UNCHANGED <<m_updateChecking, m_newRepoUrl, indexJob, owed>>
    BY <1>5, <1>12
  <2>2. ChecksSound(jobs', indexJob', m_updateChecking', m_newRepoUrl', dialogs')
    BY <1>1, <1>7, <2>1, ChecksKept DEF IInv
  <2>3. Typed'
    BY <1>1, <1>7, <1>9, <1>10, <2>1 DEF IInv, Typed
  <2>4. RequestsSound'
    <3>1. \A k \in DOMAIN jobs' : jobs'[k].kind = "index" => jobs'[k].why # "repeated"
      BY <1>7, <2>1 DEF IInv, RequestsSound
    <3>2. \/ ~m_checkUpdateWaiting
          \/ m_updateChecking /\ Awaited(jobs) = {} /\ Shown(dialogs) = {}
      BY <1>1, <1>12 DEF IInv, RequestsSound
    <3> QED BY <1>1, <1>7, <2>1, <3>1, <3>2 DEF RequestsSound
  <2>5. NullOnlyByDialogs' /\ OfferIsAsked'
    BY <1>1, <1>7, <1>10, <2>1 DEF IInv, NullOnlyByDialogs, OfferIsAsked, Typed
  <2> QED BY <1>1, <1>4, <1>10, <2>1, <2>2, <2>3, <2>4, <2>5 DEF IInv
<1> QED BY <1>5, <1>11, <1>12

\* The index that reports is the one that is held, and no result is shown yet.
LEMMA ReportIsHeld ==
  ASSUME IInv, NEW i \in DOMAIN queue, Due(i), Finishes(i, "index")
  PROVE  /\ queue[i].job \in Awaited(jobs) /\ indexJob = queue[i].job /\ indexJob # Nobody
         /\ m_updateChecking /\ jobs[indexJob].from = m_newRepoUrl /\ Shown(dialogs) = {}
         /\ m_chanListLoaded
<1>1. queue[i].job \in DOMAIN jobs /\ jobs[queue[i].job].state = "answered"
      /\ jobs[queue[i].job].kind = "index" /\ jobs \in Seq(JobRecords)
  BY ReportTaken DEF Finishes, IInv, JobsSound
<1>2. queue[i].job \in Awaited(jobs)
  BY <1>1 DEF Awaited, Pending
<1>3. queue[i].job # Nobody
  BY <1>1, CheckerAssumption
<1>4. queue[i].job \in JobsOf("index")
  BY <1>1 DEF JobsOf
<1> QED BY <1>2, <1>3, <1>4 DEF IInv, ChecksSound, RequestsSound

\* The order is kept when an event is added that deletes an index job.
LEMMA IndexLetGo ==
  ASSUME NEW js, NEW q \in Seq(EventRecords), NEW cl, Orderly(js, q, cl),
         NEW e \in EventRecords, e.do = "delete", e.level = 1
  PROVE  Orderly(js, q \o <<e>>, cl)
<1> DEFINE r == q \o <<e>>
<1>1. /\ r \in Seq(EventRecords) /\ DOMAIN r = 1..(Len(q) + 1) /\ r[Len(q) + 1] = e
      /\ DOMAIN q = 1..Len(q) /\ Len(q) \in Nat /\ Len(r) = Len(q) + 1
      /\ \A k \in DOMAIN q : r[k] = q[k]
  OBVIOUS
<1> HIDE DEF r
<1>2. /\ Orphans(js, r, cl) \subseteq Orphans(js, q, cl)
      /\ \A j, n : ReportsFirst(q, j, n) => ReportsFirst(r, j, n)
  <2>1. \A j \in DOMAIN js : js[j].kind = "list" /\ Pending(js[j])
                                 => j \in DOMAIN js /\ js[j].kind = "list" /\ Pending(js[j])
    OBVIOUS
  <2>2. Len(q) <= Len(r)
    BY <1>1
  <2> QED BY <1>1, <2>1, <2>2, Extended
<1>3. \A i \in DOMAIN r : r[i].do = "delete" => r[i].level = 1
  <2>1. \A i \in DOMAIN r : i = Len(q) + 1 \/ i \in DOMAIN q
    BY <1>1
  <2> QED BY <1>1, <2>1 DEF Orderly
<1> QED BY <1>2, <1>3 DEF Orderly, r

\* A result is shown, the first one.
LEMMA ResultOpened ==
  ASSUME NEW ds \in Seq(DialogRecords), Shown(ds) = {}, NEW d \in DialogRecords, d.kind \in Results
  PROVE  /\ ds \o <<d>> \in Seq(DialogRecords)
         /\ \A i \in Shown(ds \o <<d>>) : i = Len(ds) + 1 /\ (ds \o <<d>>)[i] = d
<1> DEFINE es == ds \o <<d>>
<1>1. /\ es \in Seq(DialogRecords) /\ DOMAIN es = 1..(Len(ds) + 1) /\ es[Len(ds) + 1] = d
      /\ DOMAIN ds = 1..Len(ds) /\ Len(ds) \in Nat /\ \A k \in DOMAIN ds : es[k] = ds[k]
  OBVIOUS
<1>2. \A k \in DOMAIN es : k \in DOMAIN ds \/ k = Len(ds) + 1
  BY <1>1
<1> HIDE DEF es
<1> QED BY <1>1, <1>2 DEF Shown, es

\* The dialog of a result offers the repository of the index that was read.
LEMMA ResultIs ==
  ASSUME IInv, NEW i \in DOMAIN queue, Due(i), Finishes(i, "index"), Result(i) # <<>>
  PROVE  \E d \in DialogRecords :
           Result(i) = <<d>> /\ d.kind \in Results /\ d.repo = d.from
<1>1. jobs[queue[i].job].from = m_newRepoUrl /\ m_newRepoUrl \in Choices
  BY ReportIsHeld DEF IInv, Typed
<1> DEFINE Shows(kind) == [kind |-> kind, repo |-> m_newRepoUrl, from |-> jobs[queue[i].job].from]
<1>2. Result(i) = <<Shows("update")>> \/ Result(i) = <<Shows("noUpdate")>>
  BY DEF Result
<1>3. \A kind \in Results : Shows(kind) \in DialogRecords /\ Shows(kind).kind \in Results
                             /\ Shows(kind).repo = Shows(kind).from
  BY <1>1 DEF DialogRecords
<1>4. "update" \in Results /\ "noUpdate" \in Results
  BY DEF Results
<1> HIDE DEF Shows
<1> QED BY <1>2, <1>3, <1>4

LEMMA KeepsIndexProcessed ==
  ASSUME IInv, NEW i \in DOMAIN queue, Due(i), Finishes(i, "index"), IndexProcessed(i),
         started, nested' = (nested \/ dialogs # <<>>), UNCHANGED started
  PROVE  IInv'
<1> DEFINE j == queue[i].job
           js == Done(j)
           q == Rest(i)
           dl == Delete(indexJob)
           e == dl[1]
<1>1. /\ queue[i].do = "finish" /\ dialogs' = dialogs \o Result(i)
      /\ m_updateChecking' = (IndexRead(i) = "broken" \/ Result(i) # <<>>)
      /\ jobs' = js /\ queue' = q \o dl /\ indexJob' = Nobody
      /\ UNCHANGED <<list, m_chanListLoading, m_checkUpdateWaiting, m_deferredUpdateChannel,
                     m_newRepoUrl, chanListJob, crash, owed>>
  BY DEF IndexProcessed, Finishes
<1>2. /\ j \in Awaited(jobs) /\ indexJob = j /\ indexJob # Nobody
      /\ m_updateChecking /\ jobs[indexJob].from = m_newRepoUrl /\ Shown(dialogs) = {}
      /\ m_chanListLoaded
  BY ReportIsHeld
<1>3. /\ j \in DOMAIN jobs /\ Marked(jobs, js, j, "done")
      /\ Pending([state |-> "done"]) => Pending(jobs[j])
      /\ JobsSound(js, q, chanListJob, indexJob)
      /\ ~nested /\ dialogs = <<>> => Orderly(js, q, chanListJob)
  BY <1>1, ReportTaken
<1>4. Removal(dl, indexJob, Level) /\ (dialogs = <<>> => Level = 1)
  <2>1. indexJob \in Nat \union {Nobody}
    BY DEF IInv, JobsSound, HeldSound
  <2>2. Typed
    BY DEF IInv
  <2> QED BY <2>1, <2>2, DeleteIs
<1> HIDE DEF j, js, q, dl
<1>5. dl = <<e>> /\ e \in EventRecords /\ e.do = "delete" /\ e.job = indexJob /\ e.level = Level
  BY <1>2, <1>4, SingleRemoval
<1> HIDE DEF e
<1>6. JobsSound(jobs', queue', chanListJob', indexJob')
  <2>1. JobsSound(js, q \o <<e>>, chanListJob, Nobody)
    BY <1>2, <1>3, <1>5, IndexReleased
  <2> QED BY <1>1, <1>5, <2>1
<1>7. ~nested' => Orderly(jobs', queue', chanListJob')
  <2> SUFFICES ASSUME ~nested' PROVE Orderly(jobs', queue', chanListJob')
    OBVIOUS
  <2>1. ~nested /\ dialogs = <<>> /\ e.level = 1
    BY <1>4, <1>5
  <2>2. q \in Seq(EventRecords)
    BY <1>3 DEF JobsSound
  <2>3. Orderly(js, q \o <<e>>, chanListJob)
    BY <1>3, <1>5, <2>1, <2>2, IndexLetGo
  <2> QED BY <1>1, <1>5, <2>3
<1>8. jobs \in Seq(JobRecords)
  BY DEF IInv, JobsSound
<1>9. /\ DOMAIN js = DOMAIN jobs
      /\ \A k \in DOMAIN jobs :
           js[k].kind = jobs[k].kind /\ js[k].why = jobs[k].why /\ js[k].from = jobs[k].from
      /\ Awaited(js) \subseteq Awaited(jobs)
  BY <1>3, <1>8, MarkedKeeps
<1>10. Awaited(jobs') = {}
  <2>1. \A k \in Awaited(jobs) : k = j
    BY <1>2 DEF IInv, ChecksSound
  <2>2. j \notin Awaited(js)
    BY <1>3 DEF Marked, Awaited, Pending
  <2> QED BY <1>1, <1>9, <2>1, <2>2
<1>11. /\ dialogs' \in Seq(DialogRecords)
       /\ \A k, l \in Shown(dialogs') : m_updateChecking' /\ k = l
       /\ \A k \in Shown(dialogs') : dialogs'[k].repo = dialogs'[k].from
  <2>1. CASE Result(i) = <<>>
    <3>1. dialogs \in Seq(DialogRecords)
      BY DEF IInv, Typed
    <3>2. dialogs' = dialogs
      BY <1>1, <2>1, <3>1
    <3> QED BY <1>2, <3>1, <3>2
  <2>2. CASE Result(i) # <<>>
    <3>1. PICK d \in DialogRecords : Result(i) = <<d>> /\ d.kind \in Results /\ d.repo = d.from
      BY <2>2, ResultIs
    <3>2. dialogs \in Seq(DialogRecords) /\ dialogs' = dialogs \o <<d>>
      BY <1>1, <3>1 DEF IInv, Typed
    <3>3. dialogs' \in Seq(DialogRecords) /\ \A k \in Shown(dialogs') : k = Len(dialogs) + 1 /\ dialogs'[k] = d
      BY <1>2, <3>1, <3>2, ResultOpened
    <3>4. m_updateChecking'
      BY <1>1, <2>2
    <3> QED BY <3>1, <3>3, <3>4
  <2> QED BY <2>1, <2>2
<1>12. Typed'
  <2>1. m_updateChecking' \in BOOLEAN
    BY <1>1
  <2>2. nested' \in BOOLEAN
    BY DEF IInv, Typed
  <2> QED BY <1>1, <1>9, <1>11, <2>1, <2>2 DEF IInv, Typed, list
<1>13. ChecksSound(jobs', indexJob', m_updateChecking', m_newRepoUrl', dialogs')
  BY <1>10, <1>11 DEF ChecksSound
<1>14. OfferIsAsked'
  BY <1>11 DEF OfferIsAsked, Shown
<1>15. RequestsSound'
  <2>1. \A k \in DOMAIN jobs' : jobs'[k].kind = "index" => jobs'[k].why # "repeated"
    BY <1>1, <1>9 DEF IInv, RequestsSound
  <2>2. (m_channels # {} /\ chanListJob = Nobody) \/ ~m_checkUpdateWaiting
    BY <1>2 DEF IInv, RequestsSound
  <2> QED BY <1>1, <1>2, <2>1, <2>2 DEF RequestsSound, list
<1>16. NullOnlyByDialogs'
  <2>1. nested => nested'
    OBVIOUS
  <2> QED BY <1>1, <1>9, <2>1 DEF IInv, NullOnlyByDialogs, Typed
<1> QED BY <1>6, <1>7, <1>12, <1>13, <1>14, <1>15, <1>16 DEF IInv

LEMMA KeepsEventLoop == IInv /\ EventLoop => IInv'
<1> SUFFICES ASSUME IInv, EventLoop PROVE IInv'
  OBVIOUS
<1>1. /\ started /\ UNCHANGED started /\ nested' = (nested \/ dialogs # <<>>)
  BY DEF EventLoop, Alive
<1>2. PICK i \in DOMAIN queue :
        /\ Due(i)
        /\ \/ JobStarts(i) \/ JobDeleted(i)
           \/ ChanListDownloadFailed(i) \/ ChanListDownloadFinished(i)
           \/ IndexDownloadFailed(i) \/ UpdateCheckFinished(i)
  BY DEF EventLoop
<1>3. CASE JobStarts(i)
  BY <1>1, <1>2, <1>3, KeepsJobStarts
<1>4. CASE JobDeleted(i)
  BY <1>1, <1>2, <1>4, KeepsJobDeleted
<1>5. CASE ChanListDownloadFailed(i)
  BY <1>1, <1>2, <1>5, KeepsChanListDownloadFailed
<1>6. CASE ChanListDownloadFinished(i)
  <2>1. Finishes(i, "list")
    BY <1>6 DEF ChanListDownloadFinished
  <2>2. CASE ChanListBroken(i)
    BY <1>1, <1>2, <2>1, <2>2, KeepsChanListBroken
  <2>3. CASE ChanListLoaded(i)
    BY <1>1, <1>2, <2>1, <2>3, KeepsChanListLoaded
  <2>4. CASE chanListJob = Nobody /\ NullJob(i)
    BY <1>1, <1>2, <2>1, <2>4, KeepsChanListNull
  <2> QED BY <1>6, <2>2, <2>3, <2>4 DEF ChanListDownloadFinished
<1>7. CASE IndexDownloadFailed(i)
  BY <1>1, <1>2, <1>7, KeepsIndexDownloadFailed
<1>8. CASE UpdateCheckFinished(i)
  <2>1. Finishes(i, "index")
    BY <1>8 DEF UpdateCheckFinished
  <2>2. IndexProcessed(i)
    BY <1>2, <1>8, <2>1, ReportIsHeld DEF UpdateCheckFinished
  <2> QED BY <1>1, <1>2, <2>1, <2>2, KeepsIndexProcessed
<1> QED BY <1>2, <1>3, <1>4, <1>5, <1>6, <1>7, <1>8

-----------------------------------------------------------------------------
(* The invariant *)

LEMMA InitSound == Init => IInv
<1> SUFFICES ASSUME Init PROVE IInv
  OBVIOUS
<1>1. /\ jobs \in Seq(JobRecords) /\ queue \in Seq(EventRecords) /\ dialogs \in Seq(DialogRecords)
      /\ DOMAIN jobs = {} /\ DOMAIN queue = {} /\ DOMAIN dialogs = {} /\ dialogs = <<>>
  <2>1. jobs = <<>> /\ queue = <<>> /\ dialogs = <<>>
    BY DEF Init
  <2> QED BY <2>1
<1>2. /\ m_channels = {} /\ ~m_chanListLoaded /\ ~m_updateChecking /\ ~m_checkUpdateWaiting
      /\ m_deferredUpdateChannel = Nobody /\ m_newRepoUrl = Nobody
      /\ chanListJob = Nobody /\ indexJob = Nobody /\ crash = Nobody
  BY DEF Init
<1>3. /\ m_chanListLoaded \in BOOLEAN /\ m_chanListLoading \in BOOLEAN /\ m_updateChecking \in BOOLEAN
      /\ m_checkUpdateWaiting \in BOOLEAN /\ started \in BOOLEAN /\ owed \in BOOLEAN
      /\ nested \in BOOLEAN
  BY DEF Init
<1>4. Typed
  BY <1>1, <1>2, <1>3 DEF Typed, Choices
<1>5. JobsSound(jobs, queue, chanListJob, indexJob)
  BY <1>1, <1>2 DEF JobsSound, QueueSound, HeldSound
<1>6. ChecksSound(jobs, indexJob, m_updateChecking, m_newRepoUrl, dialogs)
  BY <1>1 DEF ChecksSound, Awaited, Shown
<1>7. OfferIsAsked /\ NullOnlyByDialogs
  BY <1>1, <1>2 DEF OfferIsAsked, NullOnlyByDialogs
<1>8. RequestsSound
  BY <1>1, <1>2 DEF RequestsSound, JobsOf, Shown
<1>9. Orderly(jobs, queue, chanListJob)
  BY <1>1 DEF Orderly, Orphans
<1> QED BY <1>1, <1>2, <1>4, <1>5, <1>6, <1>7, <1>8, <1>9 DEF IInv

LEMMA KeepsIdle ==
  ASSUME IInv, UNCHANGED <<list, m_chanListLoading, flags, chanListJob, indexJob, events,
                           dialogs, crash, owed, nested>>,
         started' = started \/ (~started /\ started' = TRUE)
  PROVE  IInv'
<1>1. Typed'
  BY DEF IInv, Typed, list, flags, events
<1>2. RequestsSound' /\ OfferIsAsked' /\ NullOnlyByDialogs'
  BY DEF IInv, RequestsSound, OfferIsAsked, NullOnlyByDialogs, JobsOf, list, flags, events
<1>3. /\ JobsSound(jobs', queue', chanListJob', indexJob')
      /\ ChecksSound(jobs', indexJob', m_updateChecking', m_newRepoUrl', dialogs')
      /\ ~nested' => Orderly(jobs', queue', chanListJob')
  BY DEF IInv, flags, events
<1> QED BY <1>1, <1>2, <1>3 DEF IInv

LEMMA KeepsCheckForUpdate ==
  ASSUME IInv, NEW c \in Channels, NEW notify \in BOOLEAN, CheckForUpdate(c, notify),
         dialogs = <<>>, UNCHANGED nested, started' = TRUE
  PROVE  IInv'
BY KeepsDefer, KeepsCheckNow DEF CheckForUpdate

LEMMA StepSound == IInv /\ [Next]_vars => IInv'
<1> SUFFICES ASSUME IInv, [Next]_vars PROVE IInv'
  OBVIOUS
<1>1. CASE Startup
  <2>1. ~started /\ started' = TRUE /\ UNCHANGED nested /\ dialogs = <<>>
    BY <1>1 DEF Startup, IInv
  <2>2. CASE \E c \in Channels : CheckForUpdate(c, FALSE)
    BY <2>1, <2>2, KeepsCheckForUpdate
  <2>3. CASE UNCHANGED <<list, m_chanListLoading, flags, chanListJob, indexJob, events,
                         dialogs, crash, owed>>
    BY <2>1, <2>3, KeepsIdle
  <2> QED BY <1>1, <2>2, <2>3 DEF Startup
<1>2. CASE AskForUpdate
  <2>1. started' = TRUE /\ UNCHANGED nested /\ dialogs = <<>>
    BY <1>2 DEF AskForUpdate, Alive, IInv, Typed
  <2>2. \E c \in Channels : CheckForUpdate(c, TRUE)
    BY <1>2 DEF AskForUpdate
  <2> QED BY <2>1, <2>2, KeepsCheckForUpdate
<1>3. CASE OpenSettings
  BY <1>3, KeepsOpenSettings
<1>4. CASE OpenOther
  BY <1>4, KeepsOpenOther
<1>5. CASE CloseDialog
  BY <1>5, KeepsCloseDialog
<1>6. CASE NetworkAnswers
  BY <1>6, KeepsNetworkAnswers
<1>7. CASE EventLoop
  BY <1>7, KeepsEventLoop
<1>8. CASE UNCHANGED vars
  BY <1>8, KeepsIdle DEF vars
<1> QED BY <1>1, <1>2, <1>3, <1>4, <1>5, <1>6, <1>7, <1>8 DEF Next

LEMMA AlwaysSound == Spec => []IInv
BY InitSound, StepSound, PTL DEF Spec

\* Every variable has its type, and every event in the queue is for a job that
\* still exists: a deleted NetJob takes its posted events with it, and nobody
\* posts one for a job that a callback could find deleted.
THEOREM TypeCorrect == Spec => []TypeOK
<1>1. IInv => TypeOK
  <2> SUFFICES ASSUME IInv PROVE TypeOK
    OBVIOUS
  <2>1. {chanListJob, indexJob, crash} \subseteq DOMAIN jobs \union {Nobody}
    BY DEF IInv, Typed, JobsSound, HeldSound
  <2>2. \A i \in DOMAIN queue : queue[i].job \in DOMAIN jobs /\ jobs[queue[i].job].state # "gone"
    BY DEF IInv, JobsSound, QueueSound, EventSound
  <2> QED BY <2>1, <2>2 DEF IInv, Typed, Choices, TypeOK
<1> QED BY <1>1, AlwaysSound, PTL

\* What a dialog offers is the repository whose index was read, although
\* updateCheckFinished takes it from m_newRepoUrl; and no server is asked for an
\* index without a request, although m_checkUpdateWaiting is never reset.
THEOREM AskedCorrect == Spec => []OnlyWhatWasAsked
<1>1. IInv => OnlyWhatWasAsked
  BY DEF IInv, RequestsSound, OnlyWhatWasAsked, NoUnaskedCheck, JobsOf
<1> QED BY <1>1, AlwaysSound, PTL

\* updateCheckFinished never finds its job pointer null, and
\* chanListDownloadFinished does only if an event was delivered inside a modal
\* dialog: in the main loop the order of the posted events rules it out.
THEOREM NullCorrect == Spec => []NullOnlyByDialogs
<1>1. IInv => NullOnlyByDialogs
  BY DEF IInv
<1> QED BY <1>1, AlwaysSound, PTL

=============================================================================
