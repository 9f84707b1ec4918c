--------------------------- MODULE SelfUpdate_proofs ---------------------------
(* What holds of an update for any lists, paths, failures and number of       *)
(* updates: no file that is replaced is lost while it can still be wanted, an *)
(* update that throws leaves the old installation but for added and deleted   *)
(* files, and what the observer is told is true: after a success the new      *)
(* version is there.                                                          *)
EXTENDS SelfUpdate, FiniteSetTheorems, NaturalsInduction, WellFoundedInduction, TLAPS

-----------------------------------------------------------------------------
(* The elements of a sequence at given places *)

\* Nth lists the numbers of a finite set, each once and in order.
LEMMA NthIs ==
  ASSUME NEW P \in SUBSET Nat, IsFiniteSet(P)
  PROVE  /\ Cardinality(P) \in Nat
         /\ \A h \in 1..Cardinality(P) : Nth(P, h) \in P
         /\ \A h, l \in 1..Cardinality(P) : h < l => Nth(P, h) < Nth(P, l)
         /\ \A i \in P : \E h \in 1..Cardinality(P) : Nth(P, h) = i
<1> DEFINE n == Cardinality(P)
           Upto(i) == {j \in P : j <= i}
           place == [i \in P |-> Cardinality(Upto(i))]
<1>1. n \in Nat /\ IsFiniteSet(1..n) /\ Cardinality(1..n) = n
  BY FS_CardinalityType, FS_Interval
<1>2. ASSUME NEW i \in P
      PROVE  IsFiniteSet(Upto(i)) /\ Cardinality(Upto(i)) \in 1..n
  <2>1. Upto(i) \in SUBSET P /\ i \in Upto(i)
    OBVIOUS
  <2> HIDE DEF Upto
  <2>2. IsFiniteSet(Upto(i)) /\ Cardinality(Upto(i)) <= n
    BY <2>1, FS_Subset
  <2>3. Cardinality(Upto(i)) \in Nat /\ Cardinality(Upto(i)) # 0
    BY <2>1, <2>2, FS_CardinalityType, FS_EmptySet
  <2> QED BY <1>1, <2>2, <2>3
<1>3. ASSUME NEW i \in P, NEW j \in P, i < j
      PROVE  Cardinality(Upto(i)) < Cardinality(Upto(j))
  <2>0. \A h \in P : h \in Nat
    OBVIOUS
  <2>1. Upto(i) \in SUBSET Upto(j) /\ j \in Upto(j) /\ j \notin Upto(i)
    <3>1. i \in Nat /\ j \in Nat /\ \A h \in P : h <= i => h <= j
      BY <1>3, <2>0
    <3>2. \A h \in P : h \in Upto(i) <=> h <= i
      OBVIOUS
    <3>3. \A h \in P : h \in Upto(j) <=> h <= j
      OBVIOUS
    <3>4. Upto(i) \subseteq P
      OBVIOUS
    <3>5. j <= j /\ ~(j <= i)
      BY <1>3, <3>1
    <3> HIDE DEF Upto
    <3> QED BY <3>1, <3>2, <3>3, <3>4, <3>5
  <2> HIDE DEF Upto
  <2>2. IsFiniteSet(Upto(j)) /\ Cardinality(Upto(j)) \in 1..n /\ Cardinality(Upto(i)) \in 1..n
    BY <1>2
  <2>3. Cardinality(Upto(i)) <= Cardinality(Upto(j)) /\ Cardinality(Upto(i)) # Cardinality(Upto(j))
    BY <2>1, <2>2, FS_Subset
  <2> QED BY <1>1, <2>2, <2>3
<1>4. \A h \in 1..n : Nth(P, h) = CHOOSE i \in P : Cardinality(Upto(i)) = h
  BY DEF Nth
<1> HIDE DEF Upto
<1>5. place \in [P -> 1..n] /\ \A i \in P : place[i] = Cardinality(Upto(i))
  BY <1>2
<1> HIDE DEF place
<1>6. \A i, j \in P : place[i] = place[j] => i = j
  BY <1>1, <1>3, <1>5
<1>7. place \in Surjection(P, 1..n)
  <2>1. place \in Injection(P, 1..n)
    BY <1>5, <1>6 DEF Injection, IsInjective
  <2> QED BY <1>1, <2>1, FS_Injection
<1> HIDE DEF n
<1>8. ASSUME NEW h \in 1..n
      PROVE  Nth(P, h) \in P /\ place[Nth(P, h)] = h
  <2>1. \E i \in P : Cardinality(Upto(i)) = h
    BY <1>5, <1>7 DEF Surjection
  <2>2. Nth(P, h) \in P /\ Cardinality(Upto(Nth(P, h))) = h
    BY <1>4, <2>1
  <2> QED BY <1>5, <2>2
<1>9. ASSUME NEW h \in 1..n, NEW l \in 1..n, h < l
      PROVE  Nth(P, h) < Nth(P, l)
  <2>1. Nth(P, h) \in P /\ Nth(P, l) \in P /\ place[Nth(P, h)] = h /\ place[Nth(P, l)] = l
    BY <1>8
  <2>2. Nth(P, l) < Nth(P, h) => l < h
    BY <1>3, <1>5, <2>1
  <2>3. \A i \in P : i \in Nat
    OBVIOUS
  <2>4. Nth(P, l) # Nth(P, h)
    BY <1>9, <2>1
  <2>5. Nth(P, h) \in Nat /\ Nth(P, l) \in Nat
    BY <2>1, <2>3
  <2>6. ~(l < h)
    BY <1>1, <1>9
  <2> QED BY <2>2, <2>4, <2>5, <2>6
<1>10. ASSUME NEW i \in P
       PROVE  place[i] \in 1..n /\ Nth(P, place[i]) = i
  <2>1. place[i] \in 1..n
    BY <1>5
  <2>2. Nth(P, place[i]) \in P /\ place[Nth(P, place[i])] = place[i]
    BY <1>8, <2>1
  <2> QED BY <1>6, <2>1, <2>2
<1> QED BY <1>1, <1>8, <1>9, <1>10 DEF n

\* e lists the positions of P in order, and t has the elements of s there.
Picks(e, t, s, P) ==
  /\ e \in [1..Len(t) -> P]
  /\ \A h, l \in 1..Len(t) : h < l => e[h] < e[l]
  /\ \A i \in P : \E h \in 1..Len(t) : e[h] = i
  /\ \A h \in 1..Len(t) : t[h] = s[e[h]]

\* What the selection is: a sequence of the selected elements, in their order.
LEMMA Selected ==
  ASSUME NEW X, NEW s \in Seq(X), NEW P \in SUBSET (1..Len(s))
  PROVE  /\ Select(s, P) \in Seq(X)
         /\ \E e : Picks(e, Select(s, P), s, P)
<1> DEFINE n == Cardinality(P)
           e == [h \in 1..n |-> Nth(P, h)]
<1>1. IsFiniteSet(P) /\ P \in SUBSET Nat
  <2>1. Len(s) \in Int /\ 1 \in Int
    OBVIOUS
  <2>2. IsFiniteSet(1..Len(s)) /\ P \in SUBSET Nat
    BY <2>1, FS_Interval
  <2> QED BY <2>2, FS_Subset
<1>2. /\ n \in Nat
      /\ \A h \in 1..n : Nth(P, h) \in P
      /\ \A h, l \in 1..n : h < l => Nth(P, h) < Nth(P, l)
      /\ \A i \in P : \E h \in 1..n : Nth(P, h) = i
  BY <1>1, NthIs
<1>3. Select(s, P) = [h \in 1..n |-> s[Nth(P, h)]]
  BY DEF Select
<1> HIDE DEF n
<1>4. \A h \in 1..n : Nth(P, h) \in P /\ s[Nth(P, h)] \in X
  <2>1. \A i \in P : s[i] \in X
    OBVIOUS
  <2> QED BY <1>2, <2>1
<1>5. Select(s, P) \in Seq(X) /\ Len(Select(s, P)) = n
  BY <1>2, <1>3, <1>4
<1>6. Picks(e, Select(s, P), s, P)
  BY <1>2, <1>3, <1>4, <1>5 DEF Picks
<1> QED BY <1>5, <1>6

-----------------------------------------------------------------------------
(* The least number of a set *)

\* A set of numbers has a least one: how a property of all numbers is shown
\* when the number is a length.
LEMMA HasLeast ==
  ASSUME NEW S \in SUBSET Nat, S # {}
  PROVE  \E j \in S : \A h \in S : j <= h
<1>1. IsWellFoundedOn(OpToRel(<, Nat), Nat)
  BY NatLessThanWellFounded
<1>2. PICK j \in S : \A h \in S : ~(<<h, j>> \in OpToRel(<, Nat))
  BY <1>1, WFMin
<1>3. \A h \in S : ~(h < j)
  BY <1>2 DEF OpToRel
<1> QED BY <1>3

-----------------------------------------------------------------------------
RestPlaces    == {"idle", "lists", "files", "wait", "access"}
TryPlaces     == {"next", "bakRemove", "bakMove", "copy", "copying", "chmod"}
CommitPlaces  == {"uninstall", "removeBackups"}
RevertPlaces  == {"revert", "revMove"}
EndPlaces     == {"report", "mainDone"}
Places == RestPlaces \cup TryPlaces \cup CommitPlaces \cup RevertPlaces \cup EndPlaces

(* The types that the arguments below need; they hold whatever the script is. *)
Typed ==
  /\ {disk, bak, before} \subseteq [Paths -> Content]
  /\ pc \in Places
  /\ k \in Nat /\ k >= 1
  /\ failedIn \in {"none", "install", "uninstall", "removeBackups"}

(* Between two runs of Main nothing is left of the last one.                  *)
RestSound ==
  pc \in RestPlaces =>
    /\ before = NoFiles /\ m_backups = {} /\ todo = {} /\ k = 1
    /\ failedIn = "none" /\ reports = <<>>

(* A path that installFiles has not come to; one whose original it has put    *)
(* aside; and one that it has handled.                                        *)
Untouched(p) == disk[p] = before[p] /\ p \notin m_backups
Backed(p)    == before[p] # None => bak[p] = before[p] /\ p \in m_backups
Whole(p)     == disk[p] \in {New, Partial}
Put(p)       == Backed(p) /\ Whole(p)

(* installFiles: what is done is what the place says.                         *)
Handled(i, p) ==
  /\ i < k => Put(p)
  /\ i > k => Untouched(p)
  /\ i = k /\ pc \in {"next", "bakRemove", "bakMove"} => Untouched(p)
  /\ i = k /\ pc \in {"copy", "copying"} => Backed(p)
  /\ i = k /\ pc = "chmod" => Put(p)

TrySound ==
  pc \in TryPlaces =>
    /\ failedIn = "none" /\ m_backups \subseteq Paths
    /\ pc # "next" => k \in DOMAIN script.install
    /\ \A i \in DOMAIN script.install : Handled(i, script.install[i])

(* uninstallFiles and removeBackups: all files are in place.                  *)
CommitSound ==
  pc \in CommitPlaces =>
    /\ failedIn = "none" /\ m_backups \subseteq Paths
    /\ pc = "removeBackups" => todo \subseteq Paths
    /\ \A p \in Installs : Whole(p) /\ (pc = "uninstall" => Backed(p))

(* revert(): what is not to be done is as it was, and what is can be.         *)
RevertSound ==
  pc \in RevertPlaces =>
    /\ todo \subseteq Paths
    /\ pc = "revMove" => todo # {}
    /\ failedIn \in {"install", "uninstall", "removeBackups"}
    /\ failedIn # "removeBackups" =>
         \A p \in Replaced : IF p \in todo THEN bak[p] = before[p] ELSE disk[p] = before[p]

EndSound ==
  pc \in EndPlaces =>
    /\ failedIn # "removeBackups" =>
         \/ AllInstalled
         \/ \A p \in Replaced : disk[p] = before[p] \/ bak[p] = before[p]
    /\ failedIn \in {"install", "uninstall"} /\ ~revertFailed /\ (pc = "report" \/ reports # <<>>) =>
         \A p \in Replaced : disk[p] = before[p]

ReportSound ==
  reports # <<>> => pc = "mainDone" /\ reports = Messages

MainSound == TrySound /\ CommitSound /\ RevertSound /\ EndSound

IInv == Typed /\ RestSound /\ ReportSound /\ (Sane => MainSound)

-----------------------------------------------------------------------------
(* Scripts and places.                                                        *)

LEMMA SaneIs ==
  ASSUME Sane
  PROVE  /\ script.install \in Seq(Paths) /\ script.uninstall \in Seq(Paths)
         /\ DOMAIN script.install = 1..Len(script.install) /\ Len(script.install) \in Nat
         /\ DOMAIN script.uninstall = 1..Len(script.uninstall)
         /\ Installs \subseteq Paths
         /\ \A i \in DOMAIN script.install :
              script.install[i] \in Installs /\ script.install[i] \in Paths
         /\ \A p \in Installs : \E i \in DOMAIN script.install : p = script.install[i]
         /\ \A i \in DOMAIN script.uninstall :
              script.uninstall[i] \in Paths /\ script.uninstall[i] \notin Installs
<1>1. script.install \in Seq(Paths) /\ script.uninstall \in Seq(Paths)
  BY DEF Sane, Scripts
<1>2. /\ DOMAIN script.install = 1..Len(script.install) /\ Len(script.install) \in Nat
      /\ DOMAIN script.uninstall = 1..Len(script.uninstall)
      /\ \A i \in DOMAIN script.install : script.install[i] \in Paths
      /\ \A i \in DOMAIN script.uninstall : script.uninstall[i] \in Paths
  BY <1>1
<1>3. Installs \cap Uninstalls = {}
  BY DEF Sane
<1> QED BY <1>1, <1>2, <1>3 DEF Installs, Uninstalls

LEMMA SaneKept ==
  ASSUME script' = script
  PROVE  /\ Sane' <=> Sane
         /\ Installs' = Installs
  BY DEF Sane, Installs, Uninstalls

(* The file that is being installed.                                          *)
LEMMA DestIs ==
  ASSUME Sane, k \in DOMAIN script.install
  PROVE  /\ Dest \in Paths /\ Dest = script.install[k]
         /\ \A i \in DOMAIN script.install : i # k => script.install[i] # Dest
  BY SaneIs DEF Sane, Dest

LEMMA Apart ==
  /\ \A x \in RestPlaces : x \notin TryPlaces \cup CommitPlaces \cup RevertPlaces \cup EndPlaces
  /\ \A x \in TryPlaces : x \notin RestPlaces \cup CommitPlaces \cup RevertPlaces \cup EndPlaces
  /\ \A x \in CommitPlaces : x \notin RestPlaces \cup TryPlaces \cup RevertPlaces \cup EndPlaces
  /\ \A x \in RevertPlaces : x \notin RestPlaces \cup TryPlaces \cup CommitPlaces \cup EndPlaces
  /\ \A x \in EndPlaces : x \notin RestPlaces \cup TryPlaces \cup CommitPlaces \cup RevertPlaces
  /\ "mainDone" \in EndPlaces
  BY DEF RestPlaces, TryPlaces, CommitPlaces, RevertPlaces, EndPlaces

(* What has to be shown of a step, by the kind of place that it goes to.      *)
LEMMA ToRest ==
  ASSUME Typed', pc' \in RestPlaces, before' = NoFiles, m_backups' = {}, todo' = {},
         k' = 1, failedIn' = "none", reports' = <<>>
  PROVE  IInv'
<1>1. RestSound' /\ ReportSound'
  BY DEF RestSound, ReportSound
<1>2. MainSound'
  BY Apart DEF MainSound, TrySound, CommitSound, RevertSound, EndSound
<1> QED BY <1>1, <1>2 DEF IInv

LEMMA NoReportYet ==
  ASSUME IInv, pc # "mainDone"
  PROVE  reports = <<>>
  BY DEF IInv, ReportSound

LEMMA ToMain ==
  ASSUME IInv, Typed', pc # "mainDone", reports' = reports, script' = script,
         pc' \notin RestPlaces, Sane => MainSound'
  PROVE  IInv'
<1>1. reports' = <<>>
  BY NoReportYet
<1>2. RestSound' /\ ReportSound'
  BY <1>1 DEF RestSound, ReportSound
<1>3. Sane' => MainSound'
  BY SaneKept
<1> QED BY <1>2, <1>3 DEF IInv

LEMMA ToTry ==
  ASSUME IInv, Typed', pc # "mainDone", reports' = reports, script' = script,
         pc' \in TryPlaces, Sane => TrySound'
  PROVE  IInv'
<1>1. Sane => MainSound'
  BY Apart DEF MainSound, CommitSound, RevertSound, EndSound
<1> QED BY <1>1, ToMain, Apart

LEMMA ToCommit ==
  ASSUME IInv, Typed', pc # "mainDone", reports' = reports, script' = script,
         pc' \in CommitPlaces, Sane => CommitSound'
  PROVE  IInv'
<1>1. Sane => MainSound'
  BY Apart DEF MainSound, TrySound, RevertSound, EndSound
<1> QED BY <1>1, ToMain, Apart

LEMMA ToRevert ==
  ASSUME IInv, Typed', pc # "mainDone", reports' = reports, script' = script,
         pc' \in RevertPlaces, Sane => RevertSound'
  PROVE  IInv'
<1>1. Sane => MainSound'
  BY Apart DEF MainSound, TrySound, CommitSound, EndSound
<1> QED BY <1>1, ToMain, Apart

LEMMA ToEnd ==
  ASSUME IInv, Typed', script' = script, pc' \in EndPlaces, ReportSound', Sane => EndSound'
  PROVE  IInv'
<1>1. Sane' => MainSound'
  BY SaneKept, Apart DEF MainSound, TrySound, CommitSound, RevertSound
<1>2. RestSound'
  BY Apart DEF RestSound
<1> QED BY <1>1, <1>2 DEF IInv

(* A file changes.                                                            *)
LEMMA OneFile ==
  ASSUME NEW f \in [Paths -> Content], NEW d, NEW v \in Content, NEW g,
         g = [f EXCEPT ![d] = v]
  PROVE  /\ g \in [Paths -> Content]
         /\ \A p \in Paths : p # d => g[p] = f[p]
         /\ d \in Paths => g[d] = v
  OBVIOUS

LEMMA ContentIs == {None, New, Partial} \subseteq Content
  BY DEF Content

LEMMA TypedIs ==
  ASSUME IInv
  PROVE  /\ disk \in [Paths -> Content] /\ bak \in [Paths -> Content]
         /\ before \in [Paths -> Content] /\ pc \in Places /\ k \in Nat /\ k >= 1
         /\ failedIn \in {"none", "install", "uninstall", "removeBackups"}
  BY DEF IInv, Typed

LEMMA NoFilesTyped == NoFiles \in [Paths -> Content] /\ \A p \in Paths : NoFiles[p] = None
  BY DEF NoFiles, Content

-----------------------------------------------------------------------------
(* Steps of MultiMC, and of the updater before and after Main.                *)

LEMMA Starts == Init => IInv
<1> SUFFICES ASSUME Init PROVE IInv
  OBVIOUS
<1>1. /\ disk \in [Paths -> {None, Old, New}] /\ bak = NoFiles /\ before = NoFiles
      /\ m_backups = {} /\ todo = {} /\ pc = "idle" /\ k = 1 /\ failedIn = "none"
      /\ reports = <<>>
  BY DEF Init, InstallerInit
<1>2. disk \in [Paths -> Content]
  BY <1>1 DEF Content
<1>3. pc \in RestPlaces /\ pc \in Places
  BY <1>1 DEF RestPlaces, Places
<1>4. Typed
  BY <1>1, <1>2, <1>3, NoFilesTyped DEF Typed
<1>5. RestSound /\ ReportSound
  BY <1>1 DEF RestSound, ReportSound
<1>6. MainSound
  BY <1>3, Apart DEF MainSound, TrySound, CommitSound, RevertSound, EndSound
<1> QED BY <1>4, <1>5, <1>6 DEF IInv

(* A step that does not touch what the invariant speaks of.                   *)
LEMMA Untouching ==
  ASSUME IInv, UNCHANGED <<script, disk, bak, m_backups, pc, k, todo, before, failedIn,
                           revertFailed, reports>>
  PROVE  IInv'
<1>1. Typed' /\ RestSound' /\ ReportSound'
  BY DEF IInv, Typed, RestSound, ReportSound, Messages
<1>2. ASSUME Sane PROVE MainSound'
  <2>1. MainSound
    BY <1>2 DEF IInv
  <2>2. TrySound'
    <3>1. TrySound
      BY <2>1 DEF MainSound
    <3> QED BY <3>1 DEF TrySound, Handled, Put, Backed, Whole, Untouched
  <2>4. CommitSound'
    <3>1. CommitSound
      BY <2>1 DEF MainSound
    <3> QED BY <3>1 DEF CommitSound, Backed, Whole, Installs
  <2>3. RevertSound' /\ EndSound'
    BY <2>1 DEF MainSound, RevertSound, EndSound, Replaced, Installs, AllInstalled
  <2> QED BY <2>2, <2>3, <2>4 DEF MainSound
<1> QED BY <1>1, <1>2, SaneKept DEF IInv

(* MultiMC's part: only files change, and the script.                         *)
LEMMA KeepsRest ==
  ASSUME IInv, pc \in RestPlaces, pc' \in RestPlaces, disk' \in [Paths -> Content],
         UNCHANGED <<bak, m_backups, k, todo, before, failedIn, reports>>
  PROVE  IInv'
<1>1. /\ before = NoFiles /\ m_backups = {} /\ todo = {} /\ k = 1
      /\ failedIn = "none" /\ reports = <<>>
  BY DEF IInv, RestSound
<1>2. pc' \in Places
  BY DEF Places
<1>3. Typed'
  BY <1>2, TypedIs DEF Typed
<1> QED BY <1>1, <1>3, ToRest

LEMMA KeepsTask == IInv /\ (StartUpdate \/ TaskStep) => IInv'
<1> SUFFICES ASSUME IInv, StartUpdate \/ TaskStep PROVE IInv'
  OBVIOUS
<1>1. pc \in RestPlaces /\ pc' \in RestPlaces
  BY DEF StartUpdate, TaskStep, ListsFail, ListsArrive, FilesFail, FilesArrive, At, GoTo,
         RestPlaces
<1>2. UNCHANGED <<bak, m_backups, k, todo, before, failedIn, reports>>
  BY DEF StartUpdate, TaskStep, ListsFail, ListsArrive, FilesFail, FilesArrive, files, history
<1>3. disk' = disk \/ \E got : disk' = Fetched(got)
  BY DEF StartUpdate, TaskStep, ListsFail, ListsArrive, FilesFail, FilesArrive, files
<1>4. disk' \in [Paths -> Content]
  BY <1>3, TypedIs, ContentIs DEF Fetched
<1> QED BY <1>1, <1>2, <1>4, KeepsRest

LEMMA KeepsApp == IInv /\ (StartApp \/ AppExits) => IInv'
<1> SUFFICES ASSUME IInv, StartApp \/ AppExits PROVE IInv'
  OBVIOUS
<1>1. UNCHANGED <<script, disk, bak, m_backups, pc, k, todo, before, failedIn,
                  revertFailed, reports>>
  BY DEF StartApp, AppExits, input, files, history
<1> QED BY <1>1, Untouching

LEMMA KeepsWaitForApp == IInv /\ WaitForApp => IInv'
<1> SUFFICES ASSUME IInv, WaitForApp PROVE IInv'
  OBVIOUS
<1>1. pc \in RestPlaces /\ pc' \in RestPlaces
  BY DEF WaitForApp, At, GoTo, RestPlaces
<1>2. UNCHANGED <<disk, bak, m_backups, k, todo, before, failedIn, reports>>
  BY DEF WaitForApp, files, history
<1> QED BY <1>1, <1>2, TypedIs, KeepsRest

LEMMA KeepsRestart == IInv /\ RestartMainApp => IInv'
<1> SUFFICES ASSUME IInv, RestartMainApp PROVE IInv'
  OBVIOUS
<1>1. /\ pc' = "idle" /\ before' = NoFiles /\ m_backups' = {} /\ todo' = {} /\ k' = 1
      /\ failedIn' = "none" /\ reports' = <<>> /\ UNCHANGED <<disk, bak>>
  BY DEF RestartMainApp, GoTo
<1>2. pc' \in RestPlaces /\ pc' \in Places
  BY <1>1 DEF RestPlaces, Places
<1>3. Typed'
  BY <1>1, <1>2, TypedIs, NoFilesTyped DEF Typed
<1> QED BY <1>1, <1>2, <1>3, ToRest

(* Main begins, or is not allowed to.                                         *)
LEMMA KeepsRunMain == IInv /\ RunMain => IInv'
<1> SUFFICES ASSUME IInv, RunMain PROVE IInv'
  OBVIOUS
<1>1. /\ pc = "access" /\ pc' \in {"next", "mainDone"} /\ before' = disk
      /\ UNCHANGED <<script, disk, bak, m_backups, k, todo, failedIn, revertFailed, reports>>
  BY DEF RunMain, At, GoTo, input, files
<1>2. /\ m_backups = {} /\ k = 1 /\ failedIn = "none" /\ reports = <<>>
  BY <1>1 DEF IInv, RestSound, RestPlaces
<1>3. Typed'
  <2>1. pc' \in Places
    BY <1>1 DEF Places, TryPlaces, EndPlaces
  <2> QED BY <1>1, <2>1, TypedIs DEF Typed
<1>4. CASE pc' = "next"
  <2>1. ASSUME Sane PROVE TrySound'
    <3>1. \A i \in DOMAIN script.install : ~(i < 1)
      BY <2>1, SaneIs
    <3> QED BY <1>1, <1>2, <1>4, <3>1 DEF TrySound, Handled, Untouched
  <2>2. pc' \in TryPlaces
    BY <1>4 DEF TryPlaces
  <2> QED BY <1>1, <1>3, <2>1, <2>2, ToTry
<1>5. CASE pc' = "mainDone"
  <2>1. EndSound'
    BY <1>1, <1>2, <1>5 DEF EndSound
  <2>2. ReportSound'
    BY <1>1, <1>2 DEF ReportSound
  <2> QED BY <1>1, <1>3, <1>5, <2>1, <2>2, Apart, ToEnd
<1> QED BY <1>1, <1>4, <1>5
-----------------------------------------------------------------------------
(* Main: installFiles.                                                        *)

(* A step that handles one file leaves what is known of the others.           *)
LEMMA TryStep ==
  ASSUME IInv, Sane, pc \in TryPlaces, pc' \in TryPlaces, k \in DOMAIN script.install,
         UNCHANGED <<script, k, before, failedIn>>,
         m_backups' \subseteq Paths,
         \A p \in Paths : p # Dest =>
           /\ disk'[p] = disk[p] /\ bak'[p] = bak[p]
           /\ p \in m_backups' <=> p \in m_backups,
         pc' \in {"next", "bakRemove", "bakMove"} => Untouched(Dest)',
         pc' \in {"copy", "copying"} => Backed(Dest)',
         pc' = "chmod" => Put(Dest)'
  PROVE  TrySound'
<1>1. /\ failedIn = "none"
      /\ \A i \in DOMAIN script.install : Handled(i, script.install[i])
  BY DEF IInv, MainSound, TrySound
<1>2. Dest' = Dest
  BY DEF Dest
<1>3. ASSUME NEW i \in DOMAIN script.install, i # k
      PROVE  Handled(i, script.install[i])'
  <2>1. script.install[i] \in Paths /\ script.install[i] # Dest
    BY <1>3, SaneIs, DestIs
  <2> DEFINE p == script.install[i]
  <2>2. /\ disk'[p] = disk[p] /\ bak'[p] = bak[p] /\ before'[p] = before[p]
        /\ p \in m_backups' <=> p \in m_backups
    BY <2>1
  <2>3. Handled(i, p)
    BY <1>1
  <2>4. script'.install[i] = p
    OBVIOUS
  <2> HIDE DEF p
  <2> QED BY <1>3, <2>2, <2>3, <2>4 DEF Handled, Put, Backed, Whole, Untouched
<1>4. Handled(k, script.install[k])'
  <2>1. script'.install[k'] = Dest
    BY DEF Dest
  <2>2. ~(k < k) /\ ~(k > k)
    BY TypedIs
  <2> QED BY <1>2, <2>1, <2>2 DEF Handled, Dest
<1> QED BY <1>1, <1>3, <1>4 DEF TrySound

(* Where Main is at a file, the file is one of the list.                      *)
LEMMA AtFile ==
  ASSUME IInv, Sane, pc \in TryPlaces, pc # "next" \/ MoreToInstall
  PROVE  k \in DOMAIN script.install /\ Dest \in Paths /\ Handled(k, Dest)
<1>1. k \in DOMAIN script.install
  <2>1. CASE pc # "next"
    BY <2>1 DEF IInv, MainSound, TrySound
  <2>2. CASE MoreToInstall
    BY <2>2, SaneIs, TypedIs DEF MoreToInstall
  <2> QED BY <2>1, <2>2
<1>2. Handled(k, script.install[k])
  BY <1>1 DEF IInv, MainSound, TrySound
<1> QED BY <1>1, <1>2, DestIs

LEMMA TryBackups ==
  ASSUME IInv, Sane, pc \in TryPlaces
  PROVE  m_backups \subseteq Paths /\ failedIn = "none"
  BY DEF IInv, MainSound, TrySound

LEMMA KeepsInstallFile == IInv /\ InstallFile => IInv'
<1> SUFFICES ASSUME IInv, InstallFile PROVE IInv'
  OBVIOUS
<1>1. /\ pc = "next" /\ MoreToInstall /\ pc' = (IF NeedsBackup THEN "bakRemove" ELSE "copy")
      /\ UNCHANGED <<script, disk, bak, m_backups, k, todo, before, failedIn, reports>>
  BY DEF InstallFile, At, GoTo, input, files, history
<1>2. pc \in TryPlaces /\ pc' \in TryPlaces /\ pc' \in Places
  BY <1>1 DEF TryPlaces, Places
<1>3. Typed'
  BY <1>1, <1>2, TypedIs DEF Typed
<1>4. ASSUME Sane PROVE TrySound'
  <2>1. k \in DOMAIN script.install /\ Dest \in Paths /\ Handled(k, Dest)
    BY <1>1, <1>2, <1>4, AtFile
  <2>2. Untouched(Dest)
    BY <1>1, <2>1, TypedIs DEF Handled
  <2>3. pc' \in {"next", "bakRemove", "bakMove"} => Untouched(Dest)'
    BY <1>1, <2>2 DEF Untouched, Dest
  <2>4. pc' \in {"copy", "copying"} => Backed(Dest)'
    <3>1. pc' \in {"copy", "copying"} => disk[Dest] = None
      BY <1>1 DEF NeedsBackup
    <3> QED BY <1>1, <2>2, <3>1 DEF Untouched, Backed, Dest
  <2>5. pc' # "chmod"
    BY <1>1
  <2> QED BY <1>1, <1>2, <1>4, <2>1, <2>3, <2>4, <2>5, TryStep, TryBackups
<1> QED BY <1>1, <1>2, <1>3, <1>4, ToTry

LEMMA KeepsRemoveOldBackup == IInv /\ RemoveOldBackup => IInv'
<1> SUFFICES ASSUME IInv, RemoveOldBackup PROVE IInv'
  OBVIOUS
<1>1. /\ pc = "bakRemove" /\ pc' = "bakMove" /\ bak' = [bak EXCEPT ![Dest] = None]
      /\ UNCHANGED <<script, disk, m_backups, k, todo, before, failedIn, reports>>
  BY DEF RemoveOldBackup, At, GoTo, input, history
<1>2. pc \in TryPlaces /\ pc' \in TryPlaces /\ pc' \in Places
  BY <1>1 DEF TryPlaces, Places
<1>3. /\ bak' \in [Paths -> Content]
      /\ \A p \in Paths : p # Dest => bak'[p] = bak[p]
  BY <1>1, TypedIs, ContentIs, OneFile
<1>4. Typed'
  BY <1>1, <1>2, <1>3, TypedIs DEF Typed
<1>5. ASSUME Sane PROVE TrySound'
  <2>1. k \in DOMAIN script.install /\ Dest \in Paths /\ Handled(k, Dest)
    BY <1>1, <1>2, <1>5, AtFile
  <2>2. Untouched(Dest)
    BY <1>1, <2>1, TypedIs DEF Handled
  <2>3. Untouched(Dest)'
    BY <1>1, <2>2 DEF Untouched, Dest
  <2> QED BY <1>1, <1>2, <1>3, <1>5, <2>1, <2>3, TryStep, TryBackups
<1> QED BY <1>1, <1>2, <1>4, <1>5, ToTry

LEMMA KeepsMoveToBackup == IInv /\ MoveToBackup => IInv'
<1> SUFFICES ASSUME IInv, MoveToBackup PROVE IInv'
  OBVIOUS
<1>1. /\ pc = "bakMove" /\ pc' = "copy" /\ bak' = [bak EXCEPT ![Dest] = disk[Dest]]
      /\ disk' = [disk EXCEPT ![Dest] = None] /\ m_backups' = m_backups \cup {Dest}
      /\ UNCHANGED <<script, k, todo, before, failedIn, reports>>
  BY DEF MoveToBackup, Registered, At, GoTo, input, history
<1>2. pc \in TryPlaces /\ pc' \in TryPlaces /\ pc' \in Places
  BY <1>1 DEF TryPlaces, Places
<1>3. /\ disk' \in [Paths -> Content]
      /\ \A p \in Paths : p # Dest => disk'[p] = disk[p]
  BY <1>1, TypedIs, ContentIs, OneFile
<1>4. /\ bak' \in [Paths -> Content]
      /\ \A p \in Paths : p # Dest => bak'[p] = bak[p]
      /\ Dest \in Paths => bak'[Dest] = disk[Dest]
  BY <1>1, TypedIs
<1>5. Typed'
  BY <1>1, <1>2, <1>3, <1>4, TypedIs DEF Typed
<1>6. ASSUME Sane PROVE TrySound'
  <2>1. k \in DOMAIN script.install /\ Dest \in Paths /\ Handled(k, Dest)
    BY <1>1, <1>2, <1>6, AtFile
  <2>2. Untouched(Dest)
    BY <1>1, <2>1, TypedIs DEF Handled
  <2>3. Backed(Dest)'
    BY <1>1, <1>4, <2>1, <2>2 DEF Untouched, Backed, Dest
  <2>4. m_backups' \subseteq Paths
    BY <1>1, <1>2, <1>6, <2>1, TryBackups
  <2> QED BY <1>1, <1>2, <1>3, <1>4, <1>6, <2>1, <2>3, <2>4, TryStep
<1> QED BY <1>1, <1>2, <1>5, <1>6, ToTry

LEMMA KeepsOpenTarget == IInv /\ OpenTarget => IInv'
<1> SUFFICES ASSUME IInv, OpenTarget PROVE IInv'
  OBVIOUS
<1>1. /\ pc = "copy" /\ pc' = "copying" /\ disk' = [disk EXCEPT ![Dest] = Partial]
      /\ UNCHANGED <<script, bak, m_backups, k, todo, before, failedIn, reports>>
  BY DEF OpenTarget, At, GoTo, input, history
<1>2. pc \in TryPlaces /\ pc' \in TryPlaces /\ pc' \in Places
  BY <1>1 DEF TryPlaces, Places
<1>3. /\ disk' \in [Paths -> Content]
      /\ \A p \in Paths : p # Dest => disk'[p] = disk[p]
  BY <1>1, TypedIs, ContentIs, OneFile
<1>4. Typed'
  BY <1>1, <1>2, <1>3, TypedIs DEF Typed
<1>5. ASSUME Sane PROVE TrySound'
  <2>1. k \in DOMAIN script.install /\ Dest \in Paths /\ Handled(k, Dest)
    BY <1>1, <1>2, <1>5, AtFile
  <2>2. Backed(Dest)
    BY <1>1, <2>1, TypedIs DEF Handled
  <2>3. Backed(Dest)'
    BY <1>1, <2>2 DEF Backed, Dest
  <2> QED BY <1>1, <1>2, <1>3, <1>5, <2>1, <2>3, TryStep, TryBackups
<1> QED BY <1>1, <1>2, <1>4, <1>5, ToTry

LEMMA KeepsCopyData == IInv /\ CopyData => IInv'
<1> SUFFICES ASSUME IInv, CopyData PROVE IInv'
  OBVIOUS
<1>1. /\ pc = "copying" /\ pc' = "chmod"
      /\ UNCHANGED <<script, bak, m_backups, k, todo, before, failedIn, reports>>
  BY DEF CopyData, At, GoTo, input, history
<1>2. PICK c \in {New, Partial} : disk' = [disk EXCEPT ![Dest] = c]
  BY DEF CopyData
<1>3. pc \in TryPlaces /\ pc' \in TryPlaces /\ pc' \in Places
  BY <1>1 DEF TryPlaces, Places
<1>4. /\ disk' \in [Paths -> Content]
      /\ \A p \in Paths : p # Dest => disk'[p] = disk[p]
      /\ Dest \in Paths => disk'[Dest] = c
  BY <1>2, TypedIs, ContentIs, OneFile
<1>5. Typed'
  BY <1>1, <1>3, <1>4, TypedIs DEF Typed
<1>6. ASSUME Sane PROVE TrySound'
  <2>1. k \in DOMAIN script.install /\ Dest \in Paths /\ Handled(k, Dest)
    BY <1>1, <1>3, <1>6, AtFile
  <2>2. Backed(Dest)
    BY <1>1, <2>1, TypedIs DEF Handled
  <2>3. Put(Dest)'
    BY <1>1, <1>4, <2>1, <2>2 DEF Put, Whole, Backed, Dest
  <2> QED BY <1>1, <1>3, <1>4, <1>6, <2>1, <2>3, TryStep, TryBackups
<1> QED BY <1>1, <1>3, <1>5, <1>6, ToTry

LEMMA KeepsSetPermissions == IInv /\ SetPermissions => IInv'
<1> SUFFICES ASSUME IInv, SetPermissions PROVE IInv'
  OBVIOUS
<1>1. /\ pc = "chmod" /\ pc' = "next" /\ k' = k + 1
      /\ UNCHANGED <<script, disk, bak, m_backups, todo, before, failedIn, reports>>
  BY DEF SetPermissions, At, GoTo, input, files, history
<1>2. pc \in TryPlaces /\ pc' \in TryPlaces /\ pc' \in Places
  BY <1>1 DEF TryPlaces, Places
<1>3. Typed'
  BY <1>1, <1>2, TypedIs DEF Typed
<1>4. ASSUME Sane PROVE TrySound'
  <2>1. /\ failedIn = "none" /\ m_backups \subseteq Paths
        /\ \A i \in DOMAIN script.install : Handled(i, script.install[i])
    BY <1>2, <1>4 DEF IInv, MainSound, TrySound
  <2>2. ASSUME NEW i \in DOMAIN script.install
        PROVE  Handled(i, script.install[i])'
    <3>1. i \in Nat /\ k \in Nat
      BY <1>4, SaneIs, TypedIs
    <3>2. Handled(i, script.install[i])
      BY <2>1
    <3> DEFINE p == script.install[i]
    <3>3. script'.install[i] = p
      BY <1>1
    <3>4. (Put(p)' <=> Put(p)) /\ (Untouched(p)' <=> Untouched(p))
      BY <1>1 DEF Put, Backed, Whole, Untouched
    <3>5. /\ i <= k => Put(p)
          /\ i > k => Untouched(p)
      BY <1>1, <3>1, <3>2 DEF Handled
    <3>6. /\ i < k' => Put(p)'
          /\ i > k' => Untouched(p)'
          /\ i = k' => Untouched(p)'
      BY <1>1, <3>1, <3>4, <3>5
    <3> QED BY <1>1, <3>6 DEF Handled
  <2> QED BY <1>1, <2>1, <2>2 DEF TrySound
<1> QED BY <1>1, <1>2, <1>3, <1>4, ToTry

LEMMA KeepsEndInstall == IInv /\ EndInstall => IInv'
<1> SUFFICES ASSUME IInv, EndInstall PROVE IInv'
  OBVIOUS
<1>1. /\ pc = "next" /\ ~MoreToInstall /\ pc' = "uninstall" /\ k' = 1
      /\ UNCHANGED <<script, disk, bak, m_backups, todo, before, failedIn, reports>>
  BY DEF EndInstall, At, GoTo, input, files, history
<1>2. pc \in TryPlaces /\ pc' \in CommitPlaces /\ pc' \in Places
  BY <1>1 DEF TryPlaces, CommitPlaces, Places
<1>3. Typed'
  BY <1>1, <1>2, TypedIs DEF Typed
<1>4. ASSUME Sane PROVE CommitSound'
  <2>1. /\ failedIn = "none" /\ m_backups \subseteq Paths
        /\ \A i \in DOMAIN script.install : Handled(i, script.install[i])
    BY <1>2, <1>4 DEF IInv, MainSound, TrySound
  <2>2. ASSUME NEW p \in Installs PROVE Put(p)
    <3>1. PICK i \in DOMAIN script.install : p = script.install[i]
      BY <1>4, SaneIs
    <3>2. i < k
      BY <1>1, <1>4, <3>1, SaneIs, TypedIs DEF MoreToInstall
    <3> QED BY <2>1, <3>1, <3>2 DEF Handled
  <2>3. Installs' = Installs
    BY <1>1, SaneKept
  <2>4. \A p \in Installs : Whole(p)' /\ Backed(p)'
    BY <1>1, <2>2 DEF Put, Whole, Backed
  <2> QED BY <1>1, <2>1, <2>3, <2>4 DEF CommitSound
<1> QED BY <1>1, <1>2, <1>3, <1>4, ToCommit
-----------------------------------------------------------------------------
(* Main: uninstallFiles, removeBackups.                                       *)

LEMMA KeepsUninstallFile == IInv /\ UninstallFile => IInv'
<1> SUFFICES ASSUME IInv, UninstallFile PROVE IInv'
  OBVIOUS
<1> DEFINE u == script.uninstall[k]
<1>1. /\ pc = "uninstall" /\ pc' = "uninstall" /\ k <= Len(script.uninstall)
      /\ disk' = [disk EXCEPT ![u] = None] /\ k' = k + 1
      /\ UNCHANGED <<script, bak, m_backups, todo, before, failedIn, reports>>
  BY DEF UninstallFile, At, input, history
<1>2. pc \in CommitPlaces /\ pc' \in CommitPlaces /\ pc' \in Places
  BY <1>1 DEF CommitPlaces, Places
<1>3. ASSUME Sane PROVE u \in Paths /\ u \notin Installs
  <2>1. k \in 1..Len(script.uninstall)
    BY <1>1, <1>3, TypedIs DEF Sane, Scripts
  <2> QED BY <1>3, <2>1, SaneIs
<1> HIDE DEF u
<1>4. /\ disk' \in [Paths -> Content]
      /\ \A p \in Paths : p # u => disk'[p] = disk[p]
  BY <1>1, TypedIs, ContentIs, OneFile
<1>5. Typed'
  BY <1>1, <1>2, <1>4, TypedIs DEF Typed
<1>6. ASSUME Sane PROVE CommitSound'
  <2>1. /\ failedIn = "none" /\ m_backups \subseteq Paths
        /\ \A p \in Installs : Whole(p) /\ Backed(p)
    BY <1>1, <1>2, <1>6 DEF IInv, MainSound, CommitSound
  <2>2. Installs' = Installs /\ Installs \subseteq Paths
    BY <1>1, <1>6, SaneKept, SaneIs
  <2>3. \A p \in Installs : Whole(p)' /\ Backed(p)'
    BY <1>1, <1>3, <1>4, <1>6, <2>1, <2>2 DEF Whole, Backed
  <2> QED BY <1>1, <2>1, <2>2, <2>3 DEF CommitSound
<1> QED BY <1>1, <1>2, <1>5, <1>6, ToCommit

LEMMA KeepsEndUninstall == IInv /\ EndUninstall => IInv'
<1> SUFFICES ASSUME IInv, EndUninstall PROVE IInv'
  OBVIOUS
<1>1. /\ pc = "uninstall" /\ pc' = "removeBackups" /\ todo' = m_backups
      /\ UNCHANGED <<script, disk, bak, m_backups, k, before, failedIn, reports>>
  BY DEF EndUninstall, At, GoTo, input, files, history
<1>2. pc \in CommitPlaces /\ pc' \in CommitPlaces /\ pc' \in Places
  BY <1>1 DEF CommitPlaces, Places
<1>3. Typed'
  BY <1>1, <1>2, TypedIs DEF Typed
<1>4. ASSUME Sane PROVE CommitSound'
  <2>1. /\ failedIn = "none" /\ m_backups \subseteq Paths
        /\ \A p \in Installs : Whole(p)
    BY <1>2, <1>4 DEF IInv, MainSound, CommitSound
  <2>2. Installs' = Installs
    BY <1>1, SaneKept
  <2> QED BY <1>1, <2>1, <2>2 DEF CommitSound, Whole
<1> QED BY <1>1, <1>2, <1>3, <1>4, ToCommit

LEMMA KeepsRemoveBackup == IInv /\ RemoveBackup => IInv'
<1> SUFFICES ASSUME IInv, RemoveBackup PROVE IInv'
  OBVIOUS
<1>1. /\ pc = "removeBackups" /\ pc' = "removeBackups"
      /\ bak' = [bak EXCEPT ![First(todo)] = None] /\ todo' = todo \ {First(todo)}
      /\ UNCHANGED <<script, disk, m_backups, k, before, failedIn, reports>>
  BY DEF RemoveBackup, At, input, history
<1>2. pc \in CommitPlaces /\ pc' \in CommitPlaces /\ pc' \in Places
  BY <1>1 DEF CommitPlaces, Places
<1>3. bak' \in [Paths -> Content]
  BY <1>1, TypedIs, ContentIs
<1>4. Typed'
  BY <1>1, <1>2, <1>3, TypedIs DEF Typed
<1>5. ASSUME Sane PROVE CommitSound'
  <2>1. /\ failedIn = "none" /\ m_backups \subseteq Paths /\ todo \subseteq Paths
        /\ \A p \in Installs : Whole(p)
    BY <1>1, <1>2, <1>5 DEF IInv, MainSound, CommitSound
  <2>2. Installs' = Installs
    BY <1>1, SaneKept
  <2>3. todo' \subseteq Paths
    BY <1>1, <2>1
  <2> QED BY <1>1, <2>1, <2>2, <2>3 DEF CommitSound, Whole
<1> QED BY <1>1, <1>2, <1>4, <1>5, ToCommit

(* No report has been given, so none is wrong.                                *)
LEMMA Silent ==
  ASSUME IInv, pc # "mainDone", reports' = reports
  PROVE  reports' = <<>> /\ ReportSound'
<1>1. reports' = <<>>
  BY NoReportYet
<1> QED BY <1>1 DEF ReportSound

LEMMA KeepsEndRemoveBackups == IInv /\ EndRemoveBackups => IInv'
<1> SUFFICES ASSUME IInv, EndRemoveBackups PROVE IInv'
  OBVIOUS
<1>1. /\ pc = "removeBackups" /\ pc' = "report"
      /\ UNCHANGED <<script, disk, bak, m_backups, k, todo, before, failedIn, reports>>
  BY DEF EndRemoveBackups, At, GoTo, input, files, history
<1>2. pc \in CommitPlaces /\ pc' \in EndPlaces /\ pc' \in Places
  BY <1>1 DEF CommitPlaces, EndPlaces, Places
<1>3. Typed'
  BY <1>1, <1>2, TypedIs DEF Typed
<1>4. ReportSound'
  BY <1>1, Silent
<1>5. ASSUME Sane PROVE EndSound'
  <2>1. failedIn = "none" /\ \A p \in Installs : Whole(p)
    BY <1>2, <1>5 DEF IInv, MainSound, CommitSound
  <2>2. Installs' = Installs
    BY <1>1, SaneKept
  <2>3. AllInstalled'
    BY <1>1, <2>1, <2>2 DEF AllInstalled, Whole
  <2> QED BY <1>1, <2>1, <2>3 DEF EndSound
<1> QED BY <1>1, <1>2, <1>3, <1>4, <1>5, ToEnd

-----------------------------------------------------------------------------
(* Main: failures.                                                            *)

LEMMA KeepsThrows == IInv /\ Throws => IInv'
<1> SUFFICES ASSUME IInv, Throws PROVE IInv'
  OBVIOUS
<1>1. /\ Installing \/ pc \in CommitPlaces
      /\ failedIn' = (IF Installing THEN "install" ELSE pc)
      /\ todo' = m_backups /\ pc' = "revert"
      /\ UNCHANGED <<script, disk, bak, m_backups, k, before, reports>>
  BY DEF Throws, At, GoTo, input, files, CommitPlaces
<1>2. Installing => pc \in TryPlaces
  BY DEF Installing, TryPlaces
<1>3. pc' \in RevertPlaces /\ pc' \in Places
  BY <1>1 DEF RevertPlaces, Places
<1>4. failedIn' \in {"install", "uninstall", "removeBackups"}
  BY <1>1 DEF CommitPlaces
<1>5. Typed'
  BY <1>1, <1>3, <1>4, TypedIs DEF Typed
<1>6. pc # "mainDone"
  BY <1>1, <1>2, Apart
<1>7. ASSUME Sane PROVE RevertSound'
  <2>1. m_backups \subseteq Paths
    BY <1>1, <1>2, <1>7 DEF IInv, MainSound, TrySound, CommitSound
  <2>2. ASSUME failedIn' # "removeBackups", NEW p \in Replaced
        PROVE  IF p \in m_backups THEN bak[p] = before[p] ELSE disk[p] = before[p]
    <3>1. p \in Installs /\ before[p] # None
      BY <2>2 DEF Replaced
    <3>2. Backed(p) \/ Untouched(p)
      <4>1. CASE Installing
        <5>1. PICK i \in DOMAIN script.install : p = script.install[i]
          BY <1>7, <3>1, SaneIs
        <5>2. Handled(i, p) /\ i \in Nat /\ k \in Nat
          BY <1>2, <1>7, <4>1, <5>1, SaneIs, TypedIs DEF IInv, MainSound, TrySound
        <5>3. i < k \/ i > k \/ i = k
          BY <5>2
        <5> QED BY <4>1, <5>2, <5>3 DEF Handled, Put, Installing
      <4>2. CASE ~Installing
        <5>1. pc = "uninstall"
          BY <1>1, <2>2, <4>2 DEF CommitPlaces
        <5> QED BY <1>1, <1>7, <3>1, <4>2, <5>1 DEF IInv, MainSound, CommitSound
      <4> QED BY <4>1, <4>2
    <3> QED BY <3>1, <3>2 DEF Backed, Untouched
  <2>3. Replaced' = Replaced
    BY <1>1, SaneKept DEF Replaced
  <2> QED BY <1>1, <1>4, <2>1, <2>2, <2>3 DEF RevertSound
<1> QED BY <1>1, <1>3, <1>5, <1>6, <1>7, ToRevert

(* A std::map has a first entry.                                              *)
LEMMA FirstIn ==
  ASSUME NEW S \in SUBSET Paths, S # {}
  PROVE  First(S) \in S
<1>1. S \subseteq Nat
  BY InstallerAssumption
<1>2. \E p \in S : \A q \in S : p <= q
  BY <1>1, HasLeast
<1> QED BY <1>2 DEF First

LEMMA RevertIs ==
  ASSUME IInv, Sane, pc \in RevertPlaces
  PROVE  /\ todo \subseteq Paths
         /\ pc = "revMove" => todo # {}
         /\ failedIn \in {"install", "uninstall", "removeBackups"}
         /\ failedIn # "removeBackups" =>
              \A p \in Replaced :
                IF p \in todo THEN bak[p] = before[p] ELSE disk[p] = before[p]
         /\ Replaced \subseteq Paths
<1>1. Replaced \subseteq Paths
  BY SaneIs DEF Replaced
<1> QED BY <1>1 DEF IInv, MainSound, RevertSound

LEMMA KeepsRevertRemove == IInv /\ RevertRemove => IInv'
<1> SUFFICES ASSUME IInv, RevertRemove PROVE IInv'
  OBVIOUS
<1> DEFINE f == First(todo)
<1>1. /\ pc = "revert" /\ pc' = "revMove" /\ todo # {}
      /\ disk' = [disk EXCEPT ![f] = None]
      /\ UNCHANGED <<script, bak, m_backups, k, todo, before, failedIn, reports>>
  BY DEF RevertRemove, At, GoTo, input, history
<1>2. todo \subseteq Paths => f \in todo
  BY <1>1, FirstIn
<1> HIDE DEF f
<1>3. pc \in RevertPlaces /\ pc' \in RevertPlaces /\ pc' \in Places
  BY <1>1 DEF RevertPlaces, Places
<1>4. /\ disk' \in [Paths -> Content]
      /\ \A p \in Paths : p # f => disk'[p] = disk[p]
  BY <1>1, TypedIs, ContentIs, OneFile
<1>5. Typed'
  BY <1>1, <1>3, <1>4, TypedIs DEF Typed
<1>6. ASSUME Sane PROVE RevertSound'
  <2>1. Replaced' = Replaced
    BY <1>1, SaneKept DEF Replaced
  <2>2. failedIn # "removeBackups" =>
          \A p \in Replaced : IF p \in todo THEN bak[p] = before[p] ELSE disk'[p] = before[p]
    BY <1>2, <1>3, <1>4, <1>6, RevertIs
  <2>3. todo \subseteq Paths /\ failedIn \in {"install", "uninstall", "removeBackups"}
    BY <1>3, <1>6, RevertIs
  <2> QED BY <1>1, <2>1, <2>2, <2>3 DEF RevertSound
<1> QED BY <1>1, <1>3, <1>5, <1>6, ToRevert

LEMMA KeepsRevertMove == IInv /\ RevertMove => IInv'
<1> SUFFICES ASSUME IInv, RevertMove PROVE IInv'
  OBVIOUS
<1> DEFINE f == First(todo)
<1>1. /\ pc = "revMove" /\ pc' = "revert" /\ todo' = todo \ {f}
      /\ disk' = [disk EXCEPT ![f] = bak[f]] /\ bak' = [bak EXCEPT ![f] = None]
      /\ UNCHANGED <<script, m_backups, k, before, failedIn, reports>>
  BY DEF RevertMove, At, GoTo, input, history
<1>2. todo # {} /\ todo \subseteq Paths => f \in todo
  BY FirstIn
<1> HIDE DEF f
<1>3. pc \in RevertPlaces /\ pc' \in RevertPlaces /\ pc' \in Places
  BY <1>1 DEF RevertPlaces, Places
<1>4. /\ disk' \in [Paths -> Content]
      /\ \A p \in Paths : p # f => disk'[p] = disk[p]
      /\ f \in Paths => disk'[f] = bak[f]
  BY <1>1, TypedIs
<1>5. /\ bak' \in [Paths -> Content]
      /\ \A p \in Paths : p # f => bak'[p] = bak[p]
  BY <1>1, TypedIs, ContentIs, OneFile
<1>6. Typed'
  BY <1>1, <1>3, <1>4, <1>5, TypedIs DEF Typed
<1>7. ASSUME Sane PROVE RevertSound'
  <2>1. Replaced' = Replaced
    BY <1>1, SaneKept DEF Replaced
  <2>2. /\ todo \subseteq Paths /\ f \in todo
        /\ failedIn \in {"install", "uninstall", "removeBackups"}
    BY <1>1, <1>2, <1>3, <1>7, RevertIs
  <2>3. ASSUME failedIn # "removeBackups", NEW p \in Replaced
        PROVE  IF p \in todo' THEN bak'[p] = before[p] ELSE disk'[p] = before[p]
    <3>1. p \in Paths /\ IF p \in todo THEN bak[p] = before[p] ELSE disk[p] = before[p]
      BY <1>3, <1>7, <2>3, RevertIs
    <3>2. CASE p = f
      BY <1>1, <1>4, <2>2, <3>1, <3>2
    <3>3. CASE p # f
      BY <1>1, <1>4, <1>5, <3>1, <3>3
    <3> QED BY <3>2, <3>3
  <2> QED BY <1>1, <2>1, <2>2, <2>3 DEF RevertSound
<1> QED BY <1>1, <1>3, <1>6, <1>7, ToRevert

LEMMA KeepsEndRevert == IInv /\ EndRevert => IInv'
<1> SUFFICES ASSUME IInv, EndRevert PROVE IInv'
  OBVIOUS
<1>1. /\ pc = "revert" /\ pc' = "report" /\ todo = {}
      /\ UNCHANGED <<script, disk, bak, m_backups, k, todo, before, failedIn, reports>>
  BY DEF EndRevert, At, GoTo, input, files, history
<1>2. pc \in RevertPlaces /\ pc' \in EndPlaces /\ pc' \in Places
  BY <1>1 DEF RevertPlaces, EndPlaces, Places
<1>3. Typed'
  BY <1>1, <1>2, TypedIs DEF Typed
<1>4. ReportSound'
  BY <1>1, Silent
<1>5. ASSUME Sane PROVE EndSound'
  <2>1. failedIn # "removeBackups" => \A p \in Replaced : disk[p] = before[p]
    BY <1>1, <1>2, <1>5, RevertIs
  <2>2. Replaced' = Replaced
    BY <1>1, SaneKept DEF Replaced
  <2> QED BY <1>1, <2>1, <2>2 DEF EndSound
<1> QED BY <1>1, <1>2, <1>3, <1>4, <1>5, ToEnd

LEMMA KeepsRevertThrows == IInv /\ RevertThrows => IInv'
<1> SUFFICES ASSUME IInv, RevertThrows PROVE IInv'
  OBVIOUS
<1>1. /\ pc \in {"revert", "revMove"} /\ pc' = "report" /\ revertFailed' = TRUE
      /\ UNCHANGED <<script, disk, bak, m_backups, k, todo, before, failedIn, reports>>
  BY DEF RevertThrows, At, GoTo, input, files
<1>2. pc \in RevertPlaces /\ pc' \in EndPlaces /\ pc' \in Places
  BY <1>1 DEF RevertPlaces, EndPlaces, Places
<1>3. Typed'
  BY <1>1, <1>2, TypedIs DEF Typed
<1>4. ReportSound'
  BY <1>1, Silent
<1>5. ASSUME Sane PROVE EndSound'
  <2>1. failedIn # "removeBackups" =>
          \A p \in Replaced : disk[p] = before[p] \/ bak[p] = before[p]
    BY <1>2, <1>5, RevertIs
  <2>2. Replaced' = Replaced
    BY <1>1, SaneKept DEF Replaced
  <2> QED BY <1>1, <2>1, <2>2 DEF EndSound
<1> QED BY <1>1, <1>2, <1>3, <1>4, <1>5, ToEnd

LEMMA KeepsReport == IInv /\ Report => IInv'
<1> SUFFICES ASSUME IInv, Report PROVE IInv'
  OBVIOUS
<1>1. /\ pc = "report" /\ pc' = "mainDone" /\ reports' = Messages
      /\ UNCHANGED <<script, disk, bak, m_backups, k, todo, before, failedIn, revertFailed>>
  BY DEF Report, At, GoTo, input, files
<1>2. pc \in EndPlaces /\ pc' \in EndPlaces /\ pc' \in Places
  BY <1>1 DEF EndPlaces, Places
<1>3. Typed'
  BY <1>1, <1>2, TypedIs DEF Typed
<1>4. ReportSound'
  BY <1>1 DEF ReportSound, Messages
<1>5. ASSUME Sane PROVE EndSound'
  <2>1. EndSound
    BY <1>5 DEF IInv, MainSound
  <2>2. Replaced' = Replaced /\ Installs' = Installs
    BY <1>1, SaneKept DEF Replaced
  <2>3. AllInstalled' <=> AllInstalled
    BY <1>1, <2>2 DEF AllInstalled
  <2> QED BY <1>1, <1>2, <2>1, <2>2, <2>3 DEF EndSound
<1> QED BY <1>1, <1>2, <1>3, <1>4, <1>5, ToEnd

(* Wherever Main is, all files are in place or the old ones can be found.     *)
LEMMA Recoverable ==
  ASSUME IInv, Sane, failedIn # "removeBackups"
  PROVE  AllInstalled \/ \A p \in Replaced : disk[p] = before[p] \/ bak[p] = before[p]
<1>1. CASE pc \in RestPlaces
  <2>1. Replaced = {}
    BY <1>1, NoFilesTyped, SaneIs DEF IInv, RestSound, Replaced
  <2> QED BY <2>1
<1>2. CASE pc \in TryPlaces
  <2>1. ASSUME NEW p \in Replaced PROVE disk[p] = before[p] \/ bak[p] = before[p]
    <3>1. PICK i \in DOMAIN script.install : p = script.install[i]
      BY SaneIs DEF Replaced
    <3>2. Handled(i, p) /\ i \in Nat /\ k \in Nat
      BY <1>2, <3>1, SaneIs, TypedIs DEF IInv, MainSound, TrySound
    <3>3. i < k \/ i > k \/ i = k
      BY <3>2
    <3>4. Backed(p) \/ Untouched(p)
      BY <1>2, <3>2, <3>3 DEF Handled, Put, TryPlaces
    <3>5. before[p] # None
      BY <2>1 DEF Replaced
    <3> QED BY <3>4, <3>5 DEF Backed, Untouched
  <2> QED BY <2>1
<1>3. CASE pc \in CommitPlaces
  BY <1>3 DEF IInv, MainSound, CommitSound, AllInstalled, Whole
<1>4. CASE pc \in RevertPlaces
  BY <1>4, RevertIs
<1>5. CASE pc \in EndPlaces
  BY <1>5 DEF IInv, MainSound, EndSound
<1> QED BY <1>1, <1>2, <1>3, <1>4, <1>5, TypedIs DEF Places

LEMMA KeepsKilled == IInv /\ Killed => IInv'
<1> SUFFICES ASSUME IInv, Killed PROVE IInv'
  OBVIOUS
<1>1. /\ pc \in MainSteps /\ pc' = "mainDone"
      /\ UNCHANGED <<script, disk, bak, m_backups, k, todo, before, failedIn, revertFailed,
                     reports>>
  BY DEF Killed, GoTo, input, files
<1>2. pc' \in EndPlaces /\ pc' \in Places /\ pc # "mainDone"
  BY <1>1 DEF EndPlaces, Places, MainSteps
<1>3. Typed'
  BY <1>1, <1>2, TypedIs DEF Typed
<1>4. ReportSound' /\ reports' = <<>>
  BY <1>1, <1>2, Silent
<1>5. ASSUME Sane PROVE EndSound'
  <2>1. Replaced' = Replaced /\ Installs' = Installs
    BY <1>1, SaneKept DEF Replaced
  <2>2. AllInstalled' <=> AllInstalled
    BY <1>1, <2>1 DEF AllInstalled
  <2>3. failedIn # "removeBackups" =>
          AllInstalled \/ \A p \in Replaced : disk[p] = before[p] \/ bak[p] = before[p]
    BY <1>5, Recoverable
  <2> QED BY <1>1, <1>4, <2>1, <2>2, <2>3 DEF EndSound
<1> QED BY <1>1, <1>2, <1>3, <1>4, <1>5, ToEnd

-----------------------------------------------------------------------------
(* The invariant, and what follows.                                           *)

LEMMA Keeps == IInv /\ [Next]_vars => IInv'
<1> SUFFICES ASSUME IInv, [Next]_vars PROVE IInv'
  OBVIOUS
<1>1. CASE StartUpdate \/ TaskStep
  BY <1>1, KeepsTask
<1>2. CASE StartApp \/ AppExits
  BY <1>2, KeepsApp
<1>3. CASE InstallStep
  BY <1>3, KeepsInstallFile, KeepsRemoveOldBackup, KeepsMoveToBackup, KeepsOpenTarget,
     KeepsCopyData, KeepsSetPermissions, KeepsEndInstall DEF InstallStep
<1>4. CASE CommitStep
  BY <1>4, KeepsUninstallFile, KeepsEndUninstall, KeepsRemoveBackup, KeepsEndRemoveBackups
     DEF CommitStep
<1>5. CASE RevertStep
  BY <1>5, KeepsRevertRemove, KeepsRevertMove, KeepsEndRevert, KeepsRevertThrows
     DEF RevertStep
<1>6. CASE WaitForApp \/ RunMain \/ Throws \/ Report \/ RestartMainApp \/ Killed
  BY <1>6, KeepsWaitForApp, KeepsRunMain, KeepsThrows, KeepsReport, KeepsRestart, KeepsKilled
<1>7. CASE UNCHANGED vars
  BY <1>7, Untouching DEF vars, installerVars, input, files, history
<1> QED BY <1>1, <1>2, <1>3, <1>4, <1>5, <1>6, <1>7 DEF Next, UpdaterStep

LEMMA Invariance == Spec => []IInv
  BY Starts, Keeps, PTL DEF Spec

(* However many updates there are and wherever one of them throws or is       *)
(* killed: if the script names no path twice, each file that it replaces is   *)
(* in its place or in its backup until all the new ones are in place          *)
(* (installFiles, backupFile, revert).                                        *)
THEOREM OriginalsCorrect == Spec => []OriginalsKept
<1>1. IInv => OriginalsKept
  BY Recoverable DEF OriginalsKept
<1> QED BY <1>1, Invariance, PTL

-----------------------------------------------------------------------------
(* What is not replaced: installing touches only what it installs, and        *)
(* revert() only what has a backup.                                           *)

(* Outside the install list each file is as it was, or deleted.               *)
Kept(D)   == \A p \in Paths \ Installs : disk[p] = before[p] \/ (disk[p] = None /\ p \in D)
Firsts    == {script.uninstall[i] : i \in 1..(k - 1)}

OthersSound ==
  /\ m_backups \subseteq Installs /\ todo \subseteq Installs
  /\ pc \in TryPlaces => Kept({})
  /\ pc = "uninstall" => Kept(Firsts)
  /\ failedIn = "install" => Kept({})
  /\ failedIn = "uninstall" => Kept(Firsts)

(* A step within a run changes files of the install list only.                *)
LEMMA OthersKept ==
  ASSUME OthersSound, UNCHANGED <<script, before, k, failedIn>>,
         \A p \in Paths \ Installs : disk'[p] = disk[p],
         m_backups' \subseteq Installs, todo' \subseteq Installs,
         pc' \in TryPlaces => pc \in TryPlaces, pc' # "uninstall"
  PROVE  OthersSound'
<1>1. Installs' = Installs
  BY SaneKept
<1>2. \A D : Kept(D) =>
        \A p \in Paths \ Installs' : disk'[p] = before'[p] \/ (disk'[p] = None /\ p \in D)
  BY <1>1 DEF Kept
<1>3. Firsts' = Firsts
  BY DEF Firsts
<1>4. (Kept({}) => Kept({})') /\ (Kept(Firsts) => Kept(Firsts)')
  BY <1>2, <1>3 DEF Kept
<1> QED BY <1>1, <1>3, <1>4 DEF OthersSound

(* Nothing has been done, or nothing more is known.                           *)
LEMMA NothingDone ==
  ASSUME IInv, pc \in RestPlaces
  PROVE  m_backups = {} /\ todo = {} /\ failedIn = "none"
  BY DEF IInv, RestSound

LEMMA OthersTry ==
  ASSUME IInv, Sane, OthersSound, InstallStep
  PROVE  OthersSound'
<1>1. CASE InstallFile
  <2>1. pc = "next" /\ pc' \in {"bakRemove", "copy"}
    BY <1>1 DEF InstallFile, At, GoTo
  <2> QED BY <1>1, <2>1, OthersKept
          DEF InstallFile, files, history, input, TryPlaces, OthersSound
<1>2. CASE RemoveOldBackup \/ MoveToBackup \/ OpenTarget \/ CopyData
  <2>1. pc \in TryPlaces /\ pc # "next" /\ pc' \in {"bakMove", "copy", "copying", "chmod"}
    BY <1>2 DEF RemoveOldBackup, MoveToBackup, OpenTarget, CopyData, At, GoTo, TryPlaces
  <2>2. Dest \in Installs
    <3>1. k \in DOMAIN script.install
      BY <2>1, AtFile
    <3> QED BY <3>1, SaneIs DEF Dest
  <2>3. UNCHANGED <<script, before, k, failedIn, todo>>
    BY <1>2 DEF RemoveOldBackup, MoveToBackup, OpenTarget, CopyData, history, input
  <2>4. disk' = disk \/ \E c : disk' = [disk EXCEPT ![Dest] = c]
    BY <1>2 DEF RemoveOldBackup, MoveToBackup, OpenTarget, CopyData
  <2>5. \A p \in Paths \ Installs : disk'[p] = disk[p]
    BY <2>2, <2>4, TypedIs
  <2>6. m_backups' \subseteq m_backups \cup {Dest}
    BY <1>2 DEF RemoveOldBackup, MoveToBackup, OpenTarget, CopyData, Registered
  <2> QED BY <2>1, <2>2, <2>3, <2>5, <2>6, OthersKept DEF OthersSound
<1>3. CASE SetPermissions
  <2>1. /\ pc = "chmod" /\ pc' = "next" /\ UNCHANGED <<script, before, disk, m_backups, todo, failedIn>>
    BY <1>3 DEF SetPermissions, At, GoTo, files, history, input
  <2>2. failedIn = "none" /\ Installs' = Installs /\ Kept({})
    BY <2>1, TryBackups, SaneKept DEF TryPlaces, OthersSound
  <2> QED BY <2>1, <2>2 DEF OthersSound, Kept
<1>4. CASE EndInstall
  <2>1. /\ pc = "next" /\ pc' = "uninstall" /\ k' = 1
        /\ UNCHANGED <<script, before, disk, m_backups, todo, failedIn>>
    BY <1>4 DEF EndInstall, At, GoTo, files, history, input
  <2>2. failedIn = "none" /\ Installs' = Installs /\ Kept({})
    BY <2>1, TryBackups, SaneKept DEF TryPlaces, OthersSound
  <2>3. Kept(Firsts)'
    BY <2>1, <2>2 DEF Kept
  <2>4. pc' \notin TryPlaces
    BY <2>1 DEF TryPlaces
  <2> QED BY <2>1, <2>2, <2>3, <2>4 DEF OthersSound
<1> QED BY <1>1, <1>2, <1>3, <1>4 DEF InstallStep

LEMMA OthersCommit ==
  ASSUME IInv, Sane, OthersSound, CommitStep
  PROVE  OthersSound'
<1>1. CASE UninstallFile
  <2> DEFINE u == script.uninstall[k]
  <2>1. /\ pc = "uninstall" /\ pc' = "uninstall" /\ disk' = [disk EXCEPT ![u] = None]
        /\ k' = k + 1 /\ UNCHANGED <<script, before, m_backups, todo, failedIn>>
    BY <1>1 DEF UninstallFile, At, history, input
  <2>2. failedIn = "none" /\ Installs' = Installs /\ Kept(Firsts) /\ k \in Nat /\ k >= 1
    BY <2>1, SaneKept, TypedIs DEF IInv, MainSound, CommitSound, CommitPlaces, OthersSound
  <2>3. Firsts \cup {u} \subseteq Firsts'
    <3>1. 1..(k - 1) \subseteq 1..(k' - 1) /\ k \in 1..(k' - 1)
      BY <2>1, <2>2
    <3> QED BY <2>1, <3>1 DEF Firsts
  <2>4. \A p \in Paths : disk'[p] = IF p = u THEN None ELSE disk[p]
    BY <2>1, TypedIs
  <2> HIDE DEF u
  <2>5. Kept(Firsts)'
    BY <2>1, <2>2, <2>3, <2>4 DEF Kept
  <2>6. pc' \notin TryPlaces
    BY <2>1 DEF TryPlaces
  <2> QED BY <2>1, <2>2, <2>5, <2>6 DEF OthersSound
<1>2. CASE EndUninstall \/ RemoveBackup \/ EndRemoveBackups
  <2>1. /\ UNCHANGED <<script, before, disk, m_backups, failedIn, k>>
        /\ todo' \subseteq todo \cup m_backups
        /\ pc' \in {"removeBackups", "report"}
    BY <1>2 DEF EndUninstall, RemoveBackup, EndRemoveBackups, At, GoTo, files, history, input
  <2> QED BY <2>1, OthersKept DEF OthersSound, TryPlaces
<1> QED BY <1>1, <1>2 DEF CommitStep

LEMMA OthersThrow ==
  ASSUME IInv, Sane, OthersSound, Throws
  PROVE  OthersSound'
<1>1. /\ UNCHANGED <<script, before, disk, m_backups, k>>
      /\ todo' = m_backups /\ pc' = "revert"
  BY DEF Throws, GoTo, files, input
<1>2. \/ pc \in TryPlaces /\ failedIn' = "install"
      \/ pc = "uninstall" /\ failedIn' = "uninstall"
      \/ failedIn' = "removeBackups"
  BY DEF Throws, At, Installing, TryPlaces
<1>3. Installs' = Installs /\ Firsts' = Firsts
  BY <1>1, SaneKept DEF Firsts
<1>4. (Kept({}) => Kept({})') /\ (Kept(Firsts) => Kept(Firsts)')
  BY <1>1, <1>3 DEF Kept
<1>5. pc' \notin TryPlaces /\ pc' # "uninstall"
  BY <1>1 DEF TryPlaces
<1> QED BY <1>1, <1>2, <1>3, <1>4, <1>5 DEF OthersSound

LEMMA OthersRevert ==
  ASSUME IInv, Sane, OthersSound, RevertStep
  PROVE  OthersSound'
<1> DEFINE f == First(todo)
<1>1. /\ UNCHANGED <<script, before, m_backups, failedIn, k>>
      /\ todo' \subseteq todo
      /\ pc' \in {"revert", "revMove", "report"} /\ pc \in RevertPlaces
  BY DEF RevertStep, RevertRemove, RevertMove, EndRevert, RevertThrows, At, GoTo, files,
         history, input, RevertPlaces
<1>2. \/ disk' = disk
      \/ /\ todo # {}
         /\ \E c : disk' = [disk EXCEPT ![f] = c]
  <2>1. CASE RevertRemove
    BY <2>1 DEF RevertRemove
  <2>2. CASE RevertMove
    <3>1. todo # {}
      BY <1>1, <2>2, RevertIs DEF RevertMove, At
    <3>2. disk' = [disk EXCEPT ![f] = bak[f]]
      BY <2>2 DEF RevertMove
    <3> QED BY <3>1, <3>2
  <2>3. CASE EndRevert \/ RevertThrows
    <3>1. disk' = disk
      BY <2>3 DEF EndRevert, RevertThrows, files
    <3> QED BY <3>1
  <2> QED BY <2>1, <2>2, <2>3 DEF RevertStep
<1>3. todo # {} => f \in Installs
  BY FirstIn, SaneIs DEF OthersSound
<1> HIDE DEF f
<1>4. \A p \in Paths \ Installs : disk'[p] = disk[p]
  BY <1>2, <1>3, TypedIs
<1>5. pc' \notin TryPlaces /\ pc' # "uninstall"
  BY <1>1 DEF TryPlaces
<1> QED BY <1>1, <1>4, <1>5, OthersKept DEF OthersSound

LEMMA KeepsOthers ==
  IInv /\ (Sane => OthersSound) /\ [Next]_vars => (Sane' => OthersSound')
<1> SUFFICES ASSUME IInv, Sane => OthersSound, [Next]_vars, Sane' PROVE OthersSound'
  OBVIOUS
<1>1. CASE StartUpdate \/ TaskStep \/ StartApp \/ WaitForApp
  <2>1. pc \in RestPlaces /\ pc' \in RestPlaces /\ UNCHANGED <<m_backups, todo, failedIn>>
    BY <1>1 DEF StartUpdate, TaskStep, ListsFail, ListsArrive, FilesFail, FilesArrive,
       StartApp, WaitForApp, At, GoTo, RestPlaces, files, history
  <2>2. m_backups' = {} /\ todo' = {} /\ failedIn' = "none"
    BY <2>1, NothingDone
  <2>3. pc' \notin TryPlaces /\ pc' # "uninstall"
    BY <2>1 DEF RestPlaces, TryPlaces
  <2> QED BY <2>2, <2>3 DEF OthersSound
<1>2. CASE RunMain
  <2>1. /\ pc = "access" /\ pc' \in {"next", "mainDone"} /\ before' = disk /\ disk' = disk
        /\ UNCHANGED <<script, m_backups, todo, failedIn>>
    BY <1>2 DEF RunMain, At, GoTo, input, files
  <2>2. m_backups' = {} /\ todo' = {} /\ failedIn' = "none"
    BY <2>1, NothingDone DEF RestPlaces
  <2>3. Kept({})'
    BY <2>1 DEF Kept
  <2> QED BY <2>1, <2>2, <2>3 DEF OthersSound
<1>3. CASE RestartMainApp
  BY <1>3 DEF RestartMainApp, GoTo, OthersSound, TryPlaces
<1>4. CASE InstallStep \/ CommitStep \/ RevertStep \/ Throws
  <2>1. script' = script
    BY <1>4 DEF InstallStep, CommitStep, RevertStep, Throws, InstallFile, RemoveOldBackup,
       MoveToBackup, OpenTarget, CopyData, SetPermissions, EndInstall, UninstallFile,
       EndUninstall, RemoveBackup, EndRemoveBackups, RevertRemove, RevertMove, EndRevert,
       RevertThrows, input
  <2>2. Sane /\ OthersSound
    BY <2>1, SaneKept
  <2> QED BY <1>4, <2>2, OthersTry, OthersCommit, OthersRevert, OthersThrow
<1>5. CASE Report \/ Killed
  <2>1. /\ UNCHANGED <<script, before, disk, m_backups, failedIn, k, todo>> /\ pc' = "mainDone"
    BY <1>5 DEF Report, Killed, GoTo, files, input
  <2>2. Sane /\ OthersSound
    BY <2>1, SaneKept
  <2> QED BY <2>1, <2>2, OthersKept DEF OthersSound, TryPlaces
<1>6. CASE AppExits \/ UNCHANGED vars
  <2>1. UNCHANGED <<script, before, disk, m_backups, failedIn, k, todo, pc>>
    BY <1>6 DEF AppExits, vars, installerVars, files, history, input
  <2>2. OthersSound /\ Installs' = Installs
    BY <2>1, SaneKept
  <2> QED BY <2>1, <2>2 DEF OthersSound, Kept, Firsts
<1> QED BY <1>1, <1>2, <1>3, <1>4, <1>5, <1>6 DEF Next, UpdaterStep

LEMMA OthersInvariance == Spec => [](Sane => OthersSound)
<1>1. Init => (Sane => OthersSound)
  BY DEF Init, InstallerInit, OthersSound, TryPlaces
<1> QED BY <1>1, KeepsOthers, Invariance, PTL DEF Spec

(* When installFiles or uninstallFiles throws and revert() does not, what the *)
(* observer is told of is the old installation, each replaced file in its     *)
(* place, but for files that the new version adds and those that              *)
(* uninstallFiles has deleted.                                                *)
THEOREM RevertCorrect == Spec => []RevertRestores
<1>1. IInv /\ (Sane => OthersSound) => RevertRestores
  <2> SUFFICES ASSUME IInv, Sane, OthersSound, failedIn \in {"install", "uninstall"},
                      ~revertFailed, reports # <<>>, NEW p \in Paths
               PROVE  \/ disk[p] = before[p]
                      \/ p \in Installs \ Replaced
                      \/ disk[p] = None /\ p \in Deleted
    BY DEF RevertRestores
  <2>1. pc \in EndPlaces
    BY Apart DEF IInv, ReportSound
  <2>2. CASE p \in Replaced
    BY <2>1, <2>2 DEF IInv, MainSound, EndSound
  <2>3. CASE p \in Installs \ Replaced
    BY <2>3
  <2>4. CASE p \notin Installs
    BY <2>4 DEF OthersSound, Kept, Deleted, Firsts
  <2> QED BY <2>2, <2>3, <2>4
<1> QED BY <1>1, OthersInvariance, Invariance, PTL

(* The observer is told of an error if and only if a step of Main threw, with *)
(* any script (run).                                                          *)
THEOREM ErrorCorrect == Spec => []ErrorReported
<1>1. IInv => ErrorReported
  BY DEF IInv, ReportSound, Messages, ErrorReported
<1> QED BY <1>1, Invariance, PTL
-----------------------------------------------------------------------------
(* The script: what FlattenSeq returns.                                       *)

NoRepeat(s) == \A i, j \in DOMAIN s : s[i] = s[j] => i = j

LEMMA Joined ==
  ASSUME NEW X, NEW a \in Seq(X), NEW b \in Seq(X)
  PROVE  /\ a \o b \in Seq(X)
         /\ Range(a \o b) = Range(a) \cup Range(b)
         /\ NoRepeat(a) /\ NoRepeat(b) /\ Range(a) \cap Range(b) = {} => NoRepeat(a \o b)
<1> DEFINE c == a \o b
           m == Len(a)
           n == Len(b)
<1>1. /\ c \in Seq(X) /\ m \in Nat /\ n \in Nat /\ Len(c) = m + n
      /\ DOMAIN a = 1..m /\ DOMAIN b = 1..n /\ DOMAIN c = 1..(m + n)
  OBVIOUS
<1>2. /\ \A i \in 1..m : c[i] = a[i]
      /\ \A i \in 1..(m + n) : ~(i <= m) => c[i] = b[i - m]
  BY <1>1
<1> HIDE DEF c, m, n
<1>3. \A i \in 1..n : i + m \in 1..(m + n) /\ ~(i + m <= m) /\ c[i + m] = b[i]
  <2> TAKE i \in 1..n
  <2>1. i + m \in 1..(m + n) /\ ~(i + m <= m) /\ (i + m) - m = i
    BY <1>1
  <2> QED BY <1>2, <2>1
<1>4. \A i \in 1..(m + n) : i \in 1..m \/ (~(i <= m) /\ i - m \in 1..n)
  BY <1>1
<1>5. \A i \in 1..m : i \in 1..(m + n)
  BY <1>1
<1>6. Range(c) = Range(a) \cup Range(b)
  <2>1. Range(a) \subseteq Range(c)
    BY <1>1, <1>2, <1>5 DEF Range
  <2>2. Range(b) \subseteq Range(c)
    BY <1>1, <1>3 DEF Range
  <2>3. Range(c) \subseteq Range(a) \cup Range(b)
    <3> SUFFICES ASSUME NEW i \in 1..(m + n) PROVE c[i] \in Range(a) \cup Range(b)
      BY <1>1 DEF Range
    <3>1. CASE i \in 1..m
      BY <1>1, <1>2, <3>1 DEF Range
    <3>2. CASE ~(i <= m) /\ i - m \in 1..n
      BY <1>1, <1>2, <3>2 DEF Range
    <3> QED BY <1>4, <3>1, <3>2
  <2> QED BY <2>1, <2>2, <2>3
<1>7. ASSUME NoRepeat(a), NoRepeat(b), Range(a) \cap Range(b) = {}
      PROVE  NoRepeat(c)
  <2>1. ASSUME NEW i \in 1..(m + n), NEW j \in 1..(m + n), c[i] = c[j]
        PROVE  i = j
    <3>1. CASE i \in 1..m /\ j \in 1..m
      BY <1>1, <1>2, <1>7, <2>1, <3>1 DEF NoRepeat
    <3>2. CASE i \in 1..m /\ j \notin 1..m
      BY <1>1, <1>2, <1>4, <1>7, <2>1, <3>2 DEF Range
    <3>3. CASE i \notin 1..m /\ j \in 1..m
      BY <1>1, <1>2, <1>4, <1>7, <2>1, <3>3 DEF Range
    <3>4. CASE i \notin 1..m /\ j \notin 1..m
      <4>1. i - m \in 1..n /\ j - m \in 1..n /\ b[i - m] = b[j - m]
        BY <1>2, <1>4, <2>1, <3>4
      <4>2. i - m = j - m
        BY <1>1, <1>7, <4>1 DEF NoRepeat
      <4> QED BY <1>1, <4>2
    <3> QED BY <3>1, <3>2, <3>3, <3>4
  <2> QED BY <1>1, <2>1 DEF NoRepeat
<1> QED BY <1>1, <1>6, <1>7 DEF c

\* The first n lists of ss, joined one after the other.
Flattenings(ss, X, n) ==
  {f \in [1..n -> Seq(X)] : \A m \in 1..n : f[m] = IF m = 1 THEN ss[m] ELSE f[m - 1] \o ss[m]}

LEMMA FlatteningsExist ==
  ASSUME NEW X, NEW ss \in Seq(Seq(X)), NEW n \in 1..Len(ss)
  PROVE  Flattenings(ss, X, n) # {}
<1> DEFINE S == {m \in 1..Len(ss) : Flattenings(ss, X, m) = {}}
<1>1. SUFFICES ASSUME S # {} PROVE FALSE
  OBVIOUS
<1>2. PICK m \in S : \A h \in S : m <= h
  <2>1. S \in SUBSET Nat
    OBVIOUS
  <2> HIDE DEF S
  <2> QED BY <1>1, <2>1, HasLeast
<1>3. m \in 1..Len(ss) /\ Len(ss) \in Nat /\ \A h \in 1..Len(ss) : ss[h] \in Seq(X)
  OBVIOUS
<1>4. m # 1
  <2>1. 1 \in 1..Len(ss) /\ ss[1] \in Seq(X)
    BY <1>3
  <2>2. [h \in 1..1 |-> ss[1]] \in Flattenings(ss, X, 1)
    BY <2>1 DEF Flattenings
  <2> QED BY <2>2
<1>5. m - 1 \in 1..Len(ss) /\ m - 1 \notin S
  <2>1. m - 1 \in 1..Len(ss) /\ ~(m <= m - 1)
    BY <1>3, <1>4
  <2> QED BY <1>2, <2>1
<1>6. PICK f : f \in Flattenings(ss, X, m - 1)
  BY <1>5
<1>7. f \in [1..(m - 1) -> Seq(X)]
  BY <1>6 DEF Flattenings
<1> DEFINE last == f[m - 1] \o ss[m]
           g == [h \in 1..m |-> IF h = m THEN last ELSE f[h]]
<1>8. last \in Seq(X)
  <2>1. f[m - 1] \in Seq(X) /\ ss[m] \in Seq(X)
    BY <1>3, <1>4, <1>7
  <2> QED BY <2>1
<1> HIDE DEF last
<1>9. g \in [1..m -> Seq(X)]
  BY <1>3, <1>7, <1>8
<1>10. ASSUME NEW h \in 1..m
       PROVE  g[h] = IF h = 1 THEN ss[h] ELSE g[h - 1] \o ss[h]
  <2>1. CASE h = m
    <3>1. g[h] = last /\ g[h - 1] = f[m - 1] /\ h # 1
      BY <1>3, <1>4, <2>1
    <3> QED BY <2>1, <3>1 DEF last
  <2>2. CASE h # m
    <3>1. h \in 1..(m - 1) /\ g[h] = f[h] /\ (h # 1 => g[h - 1] = f[h - 1])
      BY <1>3, <2>2
    <3>2. f[h] = IF h = 1 THEN ss[h] ELSE f[h - 1] \o ss[h]
      BY <1>6, <3>1 DEF Flattenings
    <3> HIDE DEF g
    <3> QED BY <3>1, <3>2
  <2> QED BY <2>1, <2>2
<1>11. g \in Flattenings(ss, X, m)
  BY <1>9, <1>10 DEF Flattenings
<1> QED BY <1>2, <1>11

\* What the first n lists have, together and apart.
Joins(r, ss, n) ==
  /\ Range(r) = UNION {Range(ss[i]) : i \in 1..n}
  /\ /\ \A i \in 1..n : NoRepeat(ss[i])
     /\ \A i, j \in 1..n : i # j => Range(ss[i]) \cap Range(ss[j]) = {}
     => NoRepeat(r)

LEMMA PrefixJoins ==
  ASSUME NEW X, NEW ss \in Seq(Seq(X)), NEW f \in Flattenings(ss, X, Len(ss)), NEW n \in 1..Len(ss)
  PROVE  Joins(f[n], ss, n)
<1> DEFINE S == {m \in 1..Len(ss) : ~Joins(f[m], ss, m)}
<1>1. SUFFICES ASSUME S # {} PROVE FALSE
  OBVIOUS
<1>2. PICK m \in S : \A h \in S : m <= h
  <2>1. S \in SUBSET Nat
    OBVIOUS
  <2> HIDE DEF S
  <2> QED BY <1>1, <2>1, HasLeast
<1>3. m \in 1..Len(ss) /\ Len(ss) \in Nat /\ ss[m] \in Seq(X)
  OBVIOUS
<1>4. f \in [1..Len(ss) -> Seq(X)] /\ \A h \in 1..Len(ss) : f[h] = IF h = 1 THEN ss[h] ELSE f[h - 1] \o ss[h]
  BY DEF Flattenings
<1>5. CASE m = 1
  <2>1. f[m] = ss[m]
    BY <1>3, <1>4, <1>5
  <2>2. 1..m = {1}
    BY <1>5
  <2>3. Joins(ss[m], ss, m)
    BY <1>5, <2>2 DEF Joins
  <2> QED BY <2>1, <2>3
<1>6. CASE m # 1
  <2> DEFINE r == f[m - 1]
             U == UNION {Range(ss[i]) : i \in 1..(m - 1)}
  <2>1. m - 1 \in 1..Len(ss) /\ m - 1 \notin S
    BY <1>2, <1>3, <1>6
  <2>2. Joins(r, ss, m - 1) /\ r \in Seq(X) /\ f[m] = r \o ss[m]
    BY <1>3, <1>4, <1>6, <2>1
  <2>3. 1..m = 1..(m - 1) \cup {m} /\ m \notin 1..(m - 1)
    BY <1>3
  <2> HIDE DEF r, S
  <2>4. Range(r) = U
    BY <2>2 DEF Joins
  <2>5. Range(f[m]) = UNION {Range(ss[i]) : i \in 1..m}
    <3>1. Range(f[m]) = U \cup Range(ss[m])
      BY <1>3, <2>2, <2>4, Joined
    <3> QED BY <2>3, <3>1
  <2>6. ASSUME \A i \in 1..m : NoRepeat(ss[i]),
               \A i, j \in 1..m : i # j => Range(ss[i]) \cap Range(ss[j]) = {}
        PROVE  NoRepeat(f[m])
    <3>1. NoRepeat(r) /\ NoRepeat(ss[m])
      BY <2>2, <2>3, <2>6 DEF Joins
    <3>2. \A i \in 1..(m - 1) : Range(ss[i]) \cap Range(ss[m]) = {}
      BY <2>3, <2>6
    <3>3. Range(r) \cap Range(ss[m]) = {}
      BY <2>4, <3>2
    <3> QED BY <1>3, <2>2, <3>1, <3>3, Joined
  <2>7. Joins(f[m], ss, m)
    BY <2>5, <2>6 DEF Joins
  <2> QED BY <2>7 DEF S
<1> QED BY <1>5, <1>6

LEMMA Flattened ==
  ASSUME NEW X, NEW ss \in Seq(Seq(X))
  PROVE  FlattenSeq(ss) \in Seq(X) /\ Joins(FlattenSeq(ss), ss, Len(ss))
<1> DEFINE n == Len(ss)
           Is(f) == f = [i \in 1..n |-> IF i = 1 THEN ss[i] ELSE f[i - 1] \o ss[i]]
           g == CHOOSE f : Is(f)
<1>1. n \in Nat
  OBVIOUS
<1>2. CASE n = 0
  <2>1. FlattenSeq(ss) = ss /\ ss = <<>>
    BY <1>2 DEF FlattenSeq
  <2>2. FlattenSeq(ss) \in Seq(X) /\ DOMAIN FlattenSeq(ss) = {} /\ 1..n = {}
    BY <1>2, <2>1
  <2> QED BY <2>2 DEF Joins, Range, NoRepeat
<1>3. CASE n # 0
  <2>1. n \in 1..n
    BY <1>1, <1>3
  <2>2. PICK f : f \in Flattenings(ss, X, n)
    BY <2>1, FlatteningsExist
  <2>3. Is(f)
    BY <2>2 DEF Flattenings
  <2>4. Is(g)
    BY <2>3
  <2>5. g = f
    <3> HIDE DEF g
    <3> DEFINE S == {m \in 1..n : g[m] # f[m]}
    <3>1. ASSUME S # {} PROVE FALSE
      <4>1. S \in SUBSET Nat
        OBVIOUS
      <4>2. PICK m \in S : \A h \in S : m <= h
        <5> HIDE DEF S
        <5> QED BY <3>1, <4>1, HasLeast
      <4>3. m \in 1..n /\ g[m] # f[m]
        OBVIOUS
      <4>4. m # 1 => m - 1 \in 1..n /\ g[m - 1] = f[m - 1]
        BY <1>1, <4>2, <4>3
      <4>5. /\ f[m] = IF m = 1 THEN ss[m] ELSE f[m - 1] \o ss[m]
            /\ g[m] = IF m = 1 THEN ss[m] ELSE g[m - 1] \o ss[m]
        BY <2>3, <2>4, <4>3
      <4> QED BY <4>3, <4>4, <4>5
    <3>2. \A m \in 1..n : g[m] = f[m]
      BY <3>1
    <3>3. DOMAIN g = 1..n /\ DOMAIN f = 1..n /\ g = [m \in 1..n |-> g[m]] /\ f = [m \in 1..n |-> f[m]]
      BY <2>3, <2>4
    <3> QED BY <3>2, <3>3
  <2>6. FlattenSeq(ss) = g[n]
    BY <1>3 DEF FlattenSeq
  <2>7. FlattenSeq(ss) = f[n]
    BY <2>5, <2>6
  <2>8. f[n] \in Seq(X)
    BY <2>1, <2>2 DEF Flattenings
  <2>9. Joins(f[n], ss, n)
    BY <2>1, <2>2, PrefixJoins
  <2> QED BY <2>7, <2>8, <2>9
<1> QED BY <1>2, <1>3

-----------------------------------------------------------------------------
(* The script that processFileLists makes, whatever the lists are.            *)

LEMMA EntriesAre ==
  ASSUME NEW new \in Seq(Entries(Paths))
  PROVE  /\ DOMAIN new = 1..Len(new) /\ Len(new) \in Nat
         /\ \A i \in 1..Len(new) : new[i].path \in Paths /\ new[i].sources \in Nat
         /\ PathsOf(new) \subseteq Paths
         /\ \A i \in 1..Len(new) : new[i].path \in PathsOf(new)
<1>1. /\ DOMAIN new = 1..Len(new) /\ Len(new) \in Nat
      /\ \A i \in 1..Len(new) : new[i] \in Entries(Paths)
  OBVIOUS
<1>2. \A i \in 1..Len(new) : new[i].path \in Paths /\ new[i].sources \in Nat
  BY <1>1 DEF Entries
<1> QED BY <1>1, <1>2 DEF PathsOf

(* Which files are copied, and that each is once if the list has it once.     *)
LEMMA CopiesAre ==
  ASSUME NEW new \in Seq(Entries(Paths)), NEW d, NEW ups
  PROVE  LET c == ToCopy(new, d, ups)
         IN  /\ c \in Seq(Paths)
             /\ \A p : p \in Range(c) <=>
                  /\ d[p] # New /\ p \notin ups
                  /\ \E i \in DOMAIN new : new[i].path = p /\ new[i].sources > 0
             /\ /\ \A i, j \in DOMAIN new : new[i].path = new[j].path => i = j
                /\ \A i \in DOMAIN new : new[i].sources = 1
                => NoRepeat(c)
<1> DEFINE Copies(e) == IF NeedsUpgrade(e.path, d) /\ e.path \notin ups
                          THEN [i \in 1..e.sources |-> e.path] ELSE <<>>
           ss == [i \in DOMAIN new |-> Copies(new[i])]
           n  == Len(new)
           c  == FlattenSeq(ss)
<1>1. /\ DOMAIN new = 1..n /\ n \in Nat
      /\ \A i \in 1..n : new[i].path \in Paths /\ new[i].sources \in Nat
  BY EntriesAre
<1>2. ASSUME NEW i \in 1..n
      PROVE  /\ Copies(new[i]) \in Seq(Paths)
             /\ \A p : p \in Range(Copies(new[i])) <=>
                  p = new[i].path /\ new[i].sources > 0 /\ d[p] # New /\ p \notin ups
             /\ new[i].sources = 1 => NoRepeat(Copies(new[i]))
  <2> DEFINE p == new[i].path
             m == new[i].sources
             a == [h \in 1..m |-> p]
  <2>1. p \in Paths /\ m \in Nat
    BY <1>1
  <2> HIDE DEF p, m
  <2>2. a \in Seq(Paths) /\ DOMAIN a = 1..m /\ \A h \in 1..m : a[h] = p
    BY <2>1
  <2>3. \A q : q \in Range(a) <=> q = p /\ m > 0
    <3>1. m > 0 => 1 \in 1..m
      BY <2>1
    <3>2. ~(m > 0) => 1..m = {}
      BY <2>1
    <3> HIDE DEF a
    <3> QED BY <2>2, <3>1, <3>2 DEF Range
  <2>4. m = 1 => NoRepeat(a)
    BY <2>2 DEF NoRepeat
  <2>5. <<>> \in Seq(Paths) /\ (\A q : q \notin Range(<<>>)) /\ NoRepeat(<<>>)
    BY DEF Range, NoRepeat
  <2>6. Copies(new[i]) = IF d[p] # New /\ p \notin ups THEN a ELSE <<>>
    BY DEF NeedsUpgrade, p, m
  <2> HIDE DEF a, Copies
  <2>7. CASE d[p] # New /\ p \notin ups
    BY <2>2, <2>3, <2>4, <2>6, <2>7 DEF p, m
  <2>8. CASE ~(d[p] # New /\ p \notin ups)
    BY <2>5, <2>6, <2>8 DEF p, m
  <2> QED BY <2>7, <2>8
<1> HIDE DEF Copies
<1>3. /\ ss \in Seq(Seq(Paths)) /\ Len(ss) = n
      /\ \A i \in 1..n : ss[i] = Copies(new[i])
  BY <1>1, <1>2
<1>4. ToCopy(new, d, ups) = c
  BY DEF ToCopy, Copies
<1> HIDE DEF ss
<1>5. c \in Seq(Paths) /\ Joins(c, ss, n)
  BY <1>3, Flattened
<1>6. ASSUME NEW p
      PROVE  p \in Range(c) <=>
               /\ d[p] # New /\ p \notin ups
               /\ \E i \in DOMAIN new : new[i].path = p /\ new[i].sources > 0
  <2>1. p \in Range(c) <=> \E i \in 1..n : p \in Range(Copies(new[i]))
    BY <1>3, <1>5 DEF Joins
  <2> QED BY <1>1, <1>2, <2>1
<1>7. ASSUME \A i, j \in DOMAIN new : new[i].path = new[j].path => i = j,
             \A i \in DOMAIN new : new[i].sources = 1
      PROVE  NoRepeat(c)
  <2>1. ASSUME NEW i \in 1..n PROVE NoRepeat(ss[i])
    <3>1. i \in DOMAIN new
      BY <1>1
    <3>2. new[i].sources = 1
      BY <1>7, <3>1
    <3>3. NoRepeat(Copies(new[i]))
      BY <1>2, <3>2
    <3> QED BY <1>3, <3>3
  <2>2. ASSUME NEW i \in 1..n, NEW j \in 1..n, i # j
        PROVE  Range(ss[i]) \cap Range(ss[j]) = {}
    <3>1. new[i].path # new[j].path
      BY <1>1, <1>7, <2>2
    <3> QED BY <1>2, <1>3, <3>1
  <2> QED BY <1>5, <2>1, <2>2 DEF Joins
<1> HIDE DEF c
<1> QED BY <1>4, <1>5, <1>6, <1>7

LEMMA DeletionsAre ==
  ASSUME NEW old \in Seq(Paths), NEW new, NEW d
  PROVE  LET u == ToDelete(old, new, d)
         IN  /\ u \in Seq(Paths)
             /\ Range(u) = {p \in Range(old) : d[p] # None /\ p \notin PathsOf(new)}
<1> DEFINE P == {i \in DOMAIN old : d[old[i]] # None /\ old[i] \notin PathsOf(new)}
           u == Select(old, P)
<1>1. DOMAIN old = 1..Len(old) /\ P \in SUBSET (1..Len(old))
  OBVIOUS
<1>2. /\ ToDelete(old, new, d) = u
      /\ \A i \in P : d[old[i]] # None /\ old[i] \notin PathsOf(new)
      /\ \A i \in DOMAIN old : d[old[i]] # None /\ old[i] \notin PathsOf(new) => i \in P
  BY DEF ToDelete
<1> HIDE DEF P
<1>3. u \in Seq(Paths) /\ \E e : Picks(e, u, old, P)
  BY <1>1, Selected
<1> HIDE DEF u
<1>4. PICK e : Picks(e, u, old, P)
  BY <1>3
<1>5. DOMAIN u = 1..Len(u)
  BY <1>3
<1>6. Range(u) \subseteq {p \in Range(old) : d[p] # None /\ p \notin PathsOf(new)}
  <2> SUFFICES ASSUME NEW i \in 1..Len(u)
               PROVE  u[i] \in Range(old) /\ d[u[i]] # None /\ u[i] \notin PathsOf(new)
    BY <1>5 DEF Range
  <2>1. e[i] \in P /\ u[i] = old[e[i]]
    BY <1>4 DEF Picks
  <2> QED BY <1>1, <1>2, <2>1 DEF Range
<1>7. {p \in Range(old) : d[p] # None /\ p \notin PathsOf(new)} \subseteq Range(u)
  <2> SUFFICES ASSUME NEW i \in DOMAIN old, d[old[i]] # None, old[i] \notin PathsOf(new)
               PROVE  old[i] \in Range(u)
    BY DEF Range
  <2>1. PICK h \in 1..Len(u) : e[h] = i
    BY <1>2, <1>4 DEF Picks
  <2>2. u[h] = old[i]
    BY <1>4, <2>1 DEF Picks
  <2> QED BY <1>5, <2>2 DEF Range
<1> QED BY <1>2, <1>3, <1>6, <1>7

-----------------------------------------------------------------------------
(* What an update does with that script.                                      *)

NewPaths == PathsOf(lists.new)
OldOnly  == Range(lists.old) \ NewPaths

(* The paths that have the new file in the end: an updater only if the job    *)
(* fetches it.                                                                *)
Due == NewPaths \ (Updaters \ fetching)

Delivered(p) == disk[p] = New \/ (disk[p] = Partial /\ (build = "unix" \/ p \in short))

Fixed ==
  /\ build \in Builds /\ lists \in Updates /\ fetching \subseteq Updaters
  /\ updates \in 0..MaxUpdates
  /\ {revertFailed, killed, oldKnown} \subseteq BOOLEAN
  /\ app \in {"running", "exited"}

ScriptTyped ==
  /\ script \in Scripts /\ short \subseteq Installs
  /\ pc \in {"idle", "lists"} => script = NoScript
  /\ pc \in {"idle", "lists", "files"} => short = {}

BackupsTyped ==
  /\ m_backups \subseteq Paths /\ todo \subseteq m_backups
  /\ pc \in TryPlaces \ {"next"} => k \in DOMAIN script.install

TInv == Fixed /\ ScriptTyped /\ BackupsTyped

(* The script is of the lists, from where it has been made until it is gone.  *)
ScriptSound ==
  pc \notin {"idle", "lists"} =>
    /\ Installs \subseteq NewPaths \ Updaters
    /\ Uninstalls \cap NewPaths = {}
    /\ fetching \subseteq NewPaths
    /\ SaneLists => Sane

(* What neither the script nor the job changes is as the new version has it.  *)
Planned ==
  /\ \A p \in Due : p \in Installs \/ p \in fetching \/ disk[p] = New
  /\ oldKnown => \A p \in OldOnly : p \in Uninstalls \/ disk[p] = None

Ready ==
  /\ \A p \in Due : p \in Installs \/ disk[p] = New
  /\ oldKnown => \A p \in OldOnly : p \in Uninstalls \/ disk[p] = None

PlanSound ==
  /\ pc = "files" => Planned
  /\ pc \in {"wait", "access"} \cup TryPlaces \cup CommitPlaces => Ready

InstalledSound ==
  pc \in TryPlaces =>
    \A i \in DOMAIN script.install :
      i < k \/ (i = k /\ pc = "chmod") => Delivered(script.install[i])

RemovedSound ==
  /\ pc \in CommitPlaces => \A p \in Installs : Delivered(p)
  /\ pc = "uninstall" =>
       \A i \in DOMAIN script.uninstall : i < k => disk[script.uninstall[i]] = None
  /\ pc = "removeBackups" =>
       /\ \A p \in Uninstalls : disk[p] = None
       /\ \A p \in Replaced : p \in todo \/ bak[p] = None

Success ==
  /\ \A p \in Due : Delivered(p)
  /\ oldKnown => \A p \in OldOnly : disk[p] = None
  /\ \A p \in Replaced : bak[p] = None

SuccessSound ==
  pc \in EndPlaces /\ failedIn = "none" /\ (pc = "report" \/ reports # <<>>) => Success

UpdateSound == PlanSound /\ InstalledSound /\ RemovedSound /\ SuccessSound

SInv == TInv /\ ScriptSound /\ (SaneLists => UpdateSound)

-----------------------------------------------------------------------------
(* The kinds of state.                                                        *)

LEMMA TypedScript ==
  ASSUME script \in Scripts
  PROVE  /\ script.install \in Seq(Paths) /\ script.uninstall \in Seq(Paths)
         /\ DOMAIN script.install = 1..Len(script.install) /\ Len(script.install) \in Nat
         /\ DOMAIN script.uninstall = 1..Len(script.uninstall) /\ Len(script.uninstall) \in Nat
         /\ Installs = Range(script.install) /\ Uninstalls = Range(script.uninstall)
         /\ Installs \subseteq Paths /\ Uninstalls \subseteq Paths
<1>1. script.install \in Seq(Paths) /\ script.uninstall \in Seq(Paths)
  BY DEF Scripts
<1>2. /\ DOMAIN script.install = 1..Len(script.install) /\ Len(script.install) \in Nat
      /\ DOMAIN script.uninstall = 1..Len(script.uninstall) /\ Len(script.uninstall) \in Nat
      /\ \A i \in DOMAIN script.install : script.install[i] \in Paths
      /\ \A i \in DOMAIN script.uninstall : script.uninstall[i] \in Paths
  BY <1>1
<1> QED BY <1>1, <1>2 DEF Installs, Uninstalls, Range

LEMMA ListsAre ==
  ASSUME lists \in Updates
  PROVE  /\ lists.old \in Seq(Paths) /\ lists.new \in Seq(Entries(Paths))
         /\ NewPaths \subseteq Paths /\ OldOnly \subseteq Paths
<1>1. lists.old \in Seq(Paths) /\ lists.new \in Seq(Entries(Paths))
  BY SelfUpdateAssumption
<1>2. \A i \in DOMAIN lists.old : lists.old[i] \in Paths
  BY <1>1
<1> QED BY <1>1, <1>2, EntriesAre DEF NewPaths, OldOnly, Range

LEMMA NoScriptIs ==
  ASSUME script = NoScript
  PROVE  script \in Scripts /\ Installs = {} /\ Uninstalls = {} /\ Sane
<1>1. script.install = <<>> /\ script.uninstall = <<>> /\ script \in Scripts
  BY DEF NoScript, Scripts
<1>2. Installs = {} /\ Uninstalls = {}
  <2>1. 1..Len(script.install) = {} /\ 1..Len(script.uninstall) = {}
    BY <1>1
  <2> QED BY <2>1 DEF Installs, Uninstalls
<1>3. DOMAIN script.install = {}
  BY <1>1
<1> QED BY <1>1, <1>2, <1>3 DEF Sane

(* The script that is made of the lists.                                      *)
LEMMA ScriptMade ==
  ASSUME lists \in Updates, NEW old \in Seq(Paths),
         script' = processFileLists(old, lists.new, disk, Updaters), lists' = lists
  PROVE  /\ script' \in Scripts
         /\ Installs' \subseteq NewPaths \ Updaters
         /\ \A p \in NewPaths \ Updaters : SaneLists => p \in Installs' \/ disk[p] = New
         /\ Uninstalls' = {p \in Range(old) : disk[p] # None /\ p \notin NewPaths}
         /\ SaneLists => Sane'
<1> DEFINE c == ToCopy(lists.new, disk, Updaters)
           u == ToDelete(old, lists.new, disk)
<1>1. lists.new \in Seq(Entries(Paths)) /\ DOMAIN lists.new = 1..Len(lists.new)
  BY ListsAre
<1>2. script' = [install |-> c, uninstall |-> u] /\ script'.install = c /\ script'.uninstall = u
  BY DEF processFileLists
<1>3. /\ c \in Seq(Paths)
      /\ \A p : p \in Range(c) <=>
           /\ disk[p] # New /\ p \notin Updaters
           /\ \E i \in DOMAIN lists.new : lists.new[i].path = p /\ lists.new[i].sources > 0
      /\ SaneLists => NoRepeat(c)
  BY <1>1, CopiesAre DEF SaneLists
<1>4. /\ u \in Seq(Paths)
      /\ Range(u) = {p \in Range(old) : disk[p] # None /\ p \notin NewPaths}
  BY DeletionsAre DEF NewPaths
<1> HIDE DEF c, u
<1>5. script' \in Scripts
  BY <1>2, <1>3, <1>4 DEF Scripts
<1>6. Installs' = Range(c) /\ Uninstalls' = Range(u)
  <2>1. DOMAIN c = 1..Len(c) /\ DOMAIN u = 1..Len(u)
    BY <1>3, <1>4
  <2> QED BY <1>2, <2>1 DEF Installs, Uninstalls, Range
<1>7. Range(c) \subseteq NewPaths \ Updaters
  BY <1>3 DEF NewPaths, PathsOf
<1>8. ASSUME SaneLists, NEW p \in NewPaths \ Updaters
      PROVE  p \in Range(c) \/ disk[p] = New
  <2>1. PICK i \in DOMAIN lists.new : lists.new[i].path = p
    BY DEF NewPaths, PathsOf
  <2>2. lists.new[i].sources = 1
    BY <1>8 DEF SaneLists
  <2>3. lists.new[i].sources > 0
    BY <2>2
  <2> QED BY <1>3, <2>1, <2>3
<1>9. SaneLists => Sane'
  <2>1. Range(c) \cap Range(u) = {}
    BY <1>4, <1>7
  <2>2. SaneLists => \A i, j \in DOMAIN script'.install :
                       script'.install[i] = script'.install[j] => i = j
    BY <1>2, <1>3 DEF NoRepeat
  <2> QED BY <1>5, <1>6, <2>1, <2>2 DEF Sane
<1> QED BY <1>4, <1>5, <1>6, <1>7, <1>8, <1>9

LEMMA FetchingIs ==
  ASSUME NEW d
  PROVE  LET F == UpdatersToFetch(lists.new, d, Updaters)
         IN  /\ F \subseteq Updaters /\ F \subseteq NewPaths
             /\ SaneLists => \A p \in NewPaths \cap Updaters : p \in F \/ d[p] = New
<1> DEFINE F == UpdatersToFetch(lists.new, d, Updaters)
<1>1. F \subseteq Updaters /\ F \subseteq NewPaths
  BY DEF UpdatersToFetch, NewPaths, PathsOf
<1>2. ASSUME SaneLists, NEW p \in NewPaths \cap Updaters, d[p] # New
      PROVE  p \in F
  <2>1. PICK i \in DOMAIN lists.new : lists.new[i].path = p
    BY DEF NewPaths, PathsOf
  <2>2. lists.new[i].sources > 0
    BY <1>2 DEF SaneLists
  <2> QED BY <1>2, <2>1, <2>2 DEF UpdatersToFetch, NeedsUpgrade
<1> QED BY <1>1, <1>2

-----------------------------------------------------------------------------
(* Types: what each step may set.                                             *)

LEMMA KeepsFixed == IInv /\ TInv /\ [Next]_vars => Fixed'
<1> SUFFICES ASSUME TInv, [Next]_vars PROVE Fixed'
  OBVIOUS
<1>1. Fixed
  BY DEF TInv
<1>2. build' = build /\ lists' = lists
  <2>1. CASE StartUpdate \/ TaskStep \/ StartApp
    BY <2>1 DEF StartUpdate, TaskStep, StartApp, ListsFail, ListsArrive, FilesFail, FilesArrive,
       input, taskVars
  <2>2. CASE UpdaterStep \/ AppExits \/ Killed
    <3>1. build' = build
      BY <2>2 DEF UpdaterStep, WaitForApp, RunMain, RestartMainApp, Throws, Report, AppExits, Killed,
         InstallStep, InstallFile, RemoveOldBackup, MoveToBackup, OpenTarget, CopyData,
         SetPermissions, EndInstall, CommitStep, UninstallFile, EndUninstall, RemoveBackup,
         EndRemoveBackups, RevertStep, RevertRemove, RevertMove, EndRevert, RevertThrows, input
    <3>2. UNCHANGED taskVars \/ (StartUpdate \/ TaskStep \/ StartApp) \/ UNCHANGED vars
      BY DEF Next
    <3>3. lists' = lists
      BY <2>1, <3>2 DEF taskVars, vars
    <3> QED BY <3>1, <3>3
  <2>3. CASE UNCHANGED vars
    BY <2>3 DEF vars, installerVars, input, taskVars
  <2> QED BY <2>1, <2>2, <2>3 DEF Next
<1>3. fetching' \subseteq Updaters /\ updates' \in 0..MaxUpdates /\ oldKnown' \in BOOLEAN
  <2>1. CASE StartUpdate
    <3>1. updates' = updates + 1 /\ updates < MaxUpdates /\ UNCHANGED <<fetching, oldKnown>>
      BY <2>1 DEF StartUpdate
    <3> QED BY <1>1, <3>1, SelfUpdateAssumption DEF Fixed
  <2>2. CASE TaskStep
    <3>1. CASE \E known, keep \in BOOLEAN : ListsArrive(known, keep)
      <4>1. PICK known \in BOOLEAN, keep \in BOOLEAN : ListsArrive(known, keep)
        BY <3>1
      <4>2. /\ oldKnown' = known /\ updates' = updates
            /\ fetching' = IF keep THEN {} ELSE UpdatersToFetch(lists.new, disk, Updaters)
        BY <4>1 DEF ListsArrive
      <4> QED BY <1>1, <4>2, FetchingIs DEF Fixed
    <3>2. CASE ListsFail \/ FilesFail \/ FilesArrive
      BY <1>1, <3>2 DEF ListsFail, FilesFail, FilesArrive, taskVars, Fixed
    <3> QED BY <2>2, <3>1, <3>2 DEF TaskStep
  <2>3. CASE UNCHANGED taskVars
    BY <1>1, <2>3 DEF taskVars, Fixed
  <2> QED BY <2>1, <2>2, <2>3 DEF Next, StartApp, vars
<1>4. {revertFailed', killed'} \subseteq BOOLEAN /\ app' \in {"running", "exited"}
  <2>1. CASE StartUpdate \/ TaskStep \/ StartApp
    BY <1>1, <2>1 DEF StartUpdate, TaskStep, StartApp, ListsFail, ListsArrive, FilesFail, FilesArrive,
       history, Fixed
  <2>2. CASE UpdaterStep \/ AppExits \/ Killed
    <3>1. {revertFailed', killed'} \subseteq BOOLEAN
      BY <1>1, <2>2 DEF UpdaterStep, WaitForApp, RunMain, RestartMainApp, Throws, Report, AppExits,
         Killed, InstallStep, InstallFile, RemoveOldBackup, MoveToBackup, OpenTarget, CopyData,
         SetPermissions, EndInstall, CommitStep, UninstallFile, EndUninstall, RemoveBackup,
         EndRemoveBackups, RevertStep, RevertRemove, RevertMove, EndRevert, RevertThrows,
         history, Fixed
    <3>2. app' \in {"running", "exited"}
      BY <1>1, <2>2 DEF UpdaterStep, WaitForApp, RunMain, RestartMainApp, Throws, Report, AppExits,
         Killed, InstallStep, InstallFile, RemoveOldBackup, MoveToBackup, OpenTarget, CopyData,
         SetPermissions, EndInstall, CommitStep, UninstallFile, EndUninstall, RemoveBackup,
         EndRemoveBackups, RevertStep, RevertRemove, RevertMove, EndRevert, RevertThrows, Fixed
    <3> QED BY <3>1, <3>2
  <2>3. CASE UNCHANGED vars
    BY <1>1, <2>3 DEF vars, installerVars, history, Fixed
  <2> QED BY <2>1, <2>2, <2>3 DEF Next
<1>5. lists' \in Updates /\ build' \in Builds
  BY <1>1, <1>2 DEF Fixed
<1>6. {revertFailed', killed', oldKnown'} \subseteq BOOLEAN
  BY <1>3, <1>4
<1> QED BY <1>3, <1>4, <1>5, <1>6 DEF Fixed

(* The steps of the updater before its end leave the update as it is.         *)
SameUpdate == UNCHANGED <<build, script, short, lists, oldKnown, fetching>>

LEMMA SameUpdateIs ==
  ASSUME SameUpdate
  PROVE  /\ Installs' = Installs /\ Uninstalls' = Uninstalls /\ (Sane' <=> Sane)
         /\ NewPaths' = NewPaths /\ OldOnly' = OldOnly /\ Due' = Due /\ (SaneLists' <=> SaneLists)
         /\ \A p : disk'[p] = disk[p] => (Delivered(p)' <=> Delivered(p))
<1>1. Installs' = Installs /\ Uninstalls' = Uninstalls /\ (Sane' <=> Sane)
  BY DEF SameUpdate, Installs, Uninstalls, Sane
<1>2. NewPaths' = NewPaths /\ OldOnly' = OldOnly /\ Due' = Due /\ (SaneLists' <=> SaneLists)
  BY DEF SameUpdate, NewPaths, OldOnly, Due, SaneLists
<1>3. \A p : disk'[p] = disk[p] => (Delivered(p)' <=> Delivered(p))
  BY DEF SameUpdate, Delivered
<1> QED BY <1>1, <1>2, <1>3

LEMMA UpdateKept ==
  ASSUME (UpdaterStep /\ ~RestartMainApp) \/ AppExits \/ Killed, UNCHANGED taskVars
  PROVE  /\ SameUpdate
         /\ pc \notin {"idle", "lists", "files"} /\ pc' \notin {"idle", "lists", "files"}
<1>1. UNCHANGED input
  BY DEF UpdaterStep, WaitForApp, RunMain, Throws, Report, AppExits,
     Killed, InstallStep, InstallFile, RemoveOldBackup, MoveToBackup, OpenTarget, CopyData,
     SetPermissions, EndInstall, CommitStep, UninstallFile, EndUninstall, RemoveBackup,
     EndRemoveBackups, RevertStep, RevertRemove, RevertMove, EndRevert, RevertThrows
<1>2. SameUpdate
  BY <1>1 DEF input, taskVars, SameUpdate
<1>3. pc \notin {"idle", "lists", "files"} /\ pc' \notin {"idle", "lists", "files"}
  BY DEF UpdaterStep, WaitForApp, RunMain, Throws, Report, AppExits, At, GoTo, Installing, MainSteps,
     Killed, InstallStep, InstallFile, RemoveOldBackup, MoveToBackup, OpenTarget, CopyData,
     SetPermissions, EndInstall, CommitStep, UninstallFile, EndUninstall, RemoveBackup,
     EndRemoveBackups, RevertStep, RevertRemove, RevertMove, EndRevert, RevertThrows
<1> QED BY <1>2, <1>3

LEMMA KeepsScriptTyped == IInv /\ TInv /\ [Next]_vars => ScriptTyped'
<1> SUFFICES ASSUME TInv, [Next]_vars PROVE ScriptTyped'
  OBVIOUS
<1>1. ScriptTyped /\ lists \in Updates
  BY DEF TInv, Fixed
<1>2. CASE StartUpdate \/ StartApp \/ ListsFail
  <2>1. UNCHANGED <<script, short>> /\ pc \in {"idle", "lists"} /\ pc' \in {"idle", "lists"}
    BY <1>2 DEF StartUpdate, StartApp, ListsFail, input, At, GoTo
  <2> QED BY <1>1, <2>1 DEF ScriptTyped, Installs
<1>3. CASE \E known, keep \in BOOLEAN : ListsArrive(known, keep)
  <2>1. PICK known \in BOOLEAN, keep \in BOOLEAN : ListsArrive(known, keep)
    BY <1>3
  <2> DEFINE old == IF known THEN lists.old ELSE <<>>
  <2>2. /\ script' = processFileLists(old, lists.new, disk, Updaters) /\ lists' = lists
        /\ short' = short /\ pc = "lists" /\ pc' = "files"
    BY <2>1 DEF ListsArrive, At, GoTo
  <2>3. old \in Seq(Paths)
    BY <1>1, ListsAre
  <2> HIDE DEF old
  <2>4. script' \in Scripts
    BY <1>1, <2>2, <2>3, ScriptMade
  <2>5. short' = {}
    BY <1>1, <2>2 DEF ScriptTyped
  <2> QED BY <2>2, <2>4, <2>5 DEF ScriptTyped
<1>4. CASE FilesFail
  <2>1. script' = NoScript /\ short' = short /\ pc = "files"
    BY <1>4 DEF FilesFail, At
  <2>2. short' = {}
    BY <1>1, <2>1 DEF ScriptTyped
  <2>3. script' \in Scripts
    BY <2>1 DEF NoScript, Scripts
  <2> QED BY <2>1, <2>2, <2>3 DEF ScriptTyped
<1>5. CASE FilesArrive
  <2>1. CASE pc' = "wait"
    <3>1. script' = script /\ short' \subseteq Range(script.install)
      BY <1>5, <2>1 DEF FilesArrive, GoTo
    <3>2. Installs' = Range(script.install)
      BY <1>1, <3>1, TypedScript DEF ScriptTyped, Installs
    <3> QED BY <1>1, <2>1, <3>1, <3>2 DEF ScriptTyped
  <2>2. CASE pc' # "wait"
    <3>1. script' = NoScript /\ short' = short /\ pc = "files"
      BY <1>5, <2>2 DEF FilesArrive, GoTo, At
    <3>2. short' = {}
      BY <1>1, <3>1 DEF ScriptTyped
    <3>3. script' \in Scripts
      BY <3>1 DEF NoScript, Scripts
    <3> QED BY <3>1, <3>2, <3>3 DEF ScriptTyped
  <2> QED BY <2>1, <2>2
<1>6. CASE RestartMainApp
  <2>1. script' = NoScript /\ short' = {}
    BY <1>6 DEF RestartMainApp
  <2>2. script' \in Scripts
    BY <2>1 DEF NoScript, Scripts
  <2> QED BY <2>1, <2>2 DEF ScriptTyped
<1>7. CASE ((UpdaterStep /\ ~RestartMainApp) \/ AppExits \/ Killed) /\ UNCHANGED taskVars
  <2>1. UNCHANGED <<script, short>> /\ Installs' = Installs
    BY <1>7, UpdateKept, SameUpdateIs DEF SameUpdate
  <2>2. pc' \notin {"idle", "lists", "files"}
    BY <1>7, UpdateKept
  <2> QED BY <1>1, <2>1, <2>2 DEF ScriptTyped
<1>8. CASE UNCHANGED vars
  BY <1>1, <1>8 DEF vars, installerVars, input, ScriptTyped, Installs
<1> QED BY <1>2, <1>3, <1>4, <1>5, <1>6, <1>7, <1>8 DEF Next, TaskStep

LEMMA KeepsBackupsTyped == IInv /\ TInv /\ [Next]_vars => BackupsTyped'
<1> SUFFICES ASSUME IInv, TInv, [Next]_vars PROVE BackupsTyped'
  OBVIOUS
<1>1. BackupsTyped /\ script \in Scripts /\ k \in Nat /\ k >= 1
  BY TypedIs DEF TInv, ScriptTyped
<1>2. CASE pc' \in RestPlaces /\ m_backups' = {} /\ todo' = {}
  BY <1>2, Apart DEF BackupsTyped
<1>3. CASE StartUpdate \/ TaskStep \/ WaitForApp \/ RestartMainApp
  <2>1. CASE RestartMainApp
    <3>1. pc' \in RestPlaces /\ m_backups' = {} /\ todo' = {}
      BY <2>1 DEF RestartMainApp, GoTo, RestPlaces
    <3> QED BY <1>2, <3>1
  <2>2. CASE StartUpdate \/ TaskStep \/ WaitForApp
    <3>1. pc \in RestPlaces /\ pc' \in RestPlaces /\ UNCHANGED <<m_backups, todo>>
      BY <2>2 DEF StartUpdate, TaskStep, WaitForApp, ListsFail, ListsArrive, FilesFail, FilesArrive,
         At, GoTo, RestPlaces, files
    <3> QED BY <1>2, <3>1 DEF IInv, RestSound
  <2> QED BY <1>3, <2>1, <2>2
<1>4. CASE StartApp \/ AppExits \/ UNCHANGED vars
  BY <1>1, <1>4 DEF StartApp, AppExits, vars, installerVars, input, files, BackupsTyped
<1>5. CASE InstallFile \/ RemoveOldBackup \/ OpenTarget \/ CopyData \/ SetPermissions
  <2>1. /\ UNCHANGED <<script, m_backups, todo>>
        /\ k' = k \/ pc' = "next"
        /\ pc \in TryPlaces /\ pc' \in TryPlaces
        /\ pc = "next" => MoreToInstall
    BY <1>5 DEF InstallFile, RemoveOldBackup, OpenTarget, CopyData, SetPermissions, input, files,
       At, GoTo, TryPlaces
  <2>2. pc' # "next" => k' \in DOMAIN script'.install
    BY <1>1, <2>1, TypedScript DEF BackupsTyped, MoreToInstall
  <2> QED BY <1>1, <2>1, <2>2 DEF BackupsTyped
<1>6. CASE MoveToBackup
  <2>1. /\ UNCHANGED <<script, todo, k>> /\ m_backups' = m_backups \cup {Dest} /\ pc = "bakMove"
    BY <1>6 DEF MoveToBackup, Registered, At, input
  <2>2. k \in DOMAIN script.install
    BY <1>1, <2>1 DEF BackupsTyped, TryPlaces
  <2>3. Dest \in Paths
    BY <1>1, <2>2, TypedScript DEF Dest
  <2> QED BY <1>1, <2>1, <2>2, <2>3 DEF BackupsTyped
<1>7. CASE EndInstall \/ CommitStep \/ RevertStep \/ Throws \/ Report \/ Killed
  <2>1. pc' \notin TryPlaces
    BY <1>7 DEF EndInstall, CommitStep, RevertStep, Throws, Report, Killed, UninstallFile,
       EndUninstall, RemoveBackup, EndRemoveBackups, RevertRemove, RevertMove, EndRevert,
       RevertThrows, At, GoTo, TryPlaces
  <2>2. m_backups' = m_backups /\ (todo' \subseteq todo \/ todo' = m_backups)
    BY <1>7 DEF EndInstall, CommitStep, RevertStep, Throws, Report, Killed, UninstallFile,
       EndUninstall, RemoveBackup, EndRemoveBackups, RevertRemove, RevertMove, EndRevert,
       RevertThrows, files
  <2> QED BY <1>1, <2>1, <2>2 DEF BackupsTyped
<1>8. CASE RunMain
  <2>1. pc' \in {"next", "mainDone"} /\ UNCHANGED <<m_backups, todo>>
    BY <1>8 DEF RunMain, GoTo, files
  <2> QED BY <1>1, <2>1 DEF BackupsTyped, TryPlaces
<1> QED BY <1>3, <1>4, <1>5, <1>6, <1>7, <1>8 DEF Next, UpdaterStep, InstallStep

LEMMA StartsTyped == Init => TInv
<1> SUFFICES ASSUME Init PROVE TInv
  OBVIOUS
<1>1. /\ lists \in Updates /\ oldKnown = FALSE /\ fetching = {} /\ updates = 0 /\ build \in Builds
      /\ script = NoScript /\ short = {} /\ m_backups = {} /\ todo = {} /\ pc = "idle"
      /\ revertFailed = FALSE /\ killed = FALSE /\ app = "running"
  BY DEF Init, InstallerInit
<1>2. Fixed
  <2>1. updates \in 0..MaxUpdates
    BY <1>1, SelfUpdateAssumption
  <2>2. {revertFailed, killed, oldKnown} \subseteq BOOLEAN
    BY <1>1
  <2> QED BY <1>1, <2>1, <2>2 DEF Fixed
<1>3. ScriptTyped
  BY <1>1, NoScriptIs DEF ScriptTyped
<1>4. BackupsTyped
  BY <1>1 DEF BackupsTyped, TryPlaces
<1> QED BY <1>2, <1>3, <1>4 DEF TInv

LEMMA KeepsTyped == IInv /\ TInv /\ [Next]_vars => TInv'
  BY KeepsFixed, KeepsScriptTyped, KeepsBackupsTyped DEF TInv

-----------------------------------------------------------------------------
(* The update: what each step keeps of it.                                    *)

LEMMA UpdateIs ==
  ASSUME SInv, SaneLists, pc \notin {"idle", "lists"}
  PROVE  /\ Sane /\ UpdateSound /\ lists \in Updates
         /\ Installs \subseteq NewPaths /\ Uninstalls \cap NewPaths = {}
         /\ Installs \subseteq Paths /\ NewPaths \subseteq Paths /\ OldOnly \subseteq Paths
         /\ Due \subseteq NewPaths /\ OldOnly \cap NewPaths = {}
<1>1. Sane /\ UpdateSound /\ Installs \subseteq NewPaths /\ Uninstalls \cap NewPaths = {}
  BY DEF SInv, ScriptSound
<1>2. lists \in Updates /\ script \in Scripts
  BY DEF SInv, TInv, Fixed, ScriptTyped
<1> QED BY <1>1, <1>2, ListsAre, TypedScript DEF Due, OldOnly

(* Nothing is claimed of an update that is not under way, or is undone.       *)
LEMMA NothingDue ==
  ASSUME pc' \in {"idle", "lists"} \cup RevertPlaces
  PROVE  UpdateSound'
<1>1. /\ pc' \notin {"files", "wait", "access"}
      /\ pc' \notin TryPlaces \cup CommitPlaces \cup EndPlaces
      /\ pc' \notin {"uninstall", "removeBackups"}
  BY DEF RevertPlaces, TryPlaces, CommitPlaces, EndPlaces
<1> QED BY <1>1 DEF UpdateSound, PlanSound, InstalledSound, RemovedSound, SuccessSound

LEMMA ReadyKept ==
  ASSUME SInv, SaneLists, pc \notin {"idle", "lists"}, Ready, SameUpdate, NEW d,
         d \in Installs \/ (d \in Uninstalls /\ disk'[d] = None),
         \A p \in Paths : p # d => disk'[p] = disk[p]
  PROVE  Ready'
<1>1. /\ Installs' = Installs /\ Uninstalls' = Uninstalls /\ Due' = Due /\ OldOnly' = OldOnly
      /\ oldKnown' = oldKnown
  BY SameUpdateIs DEF SameUpdate
<1>2. ASSUME NEW p \in Due PROVE p \in Installs \/ disk'[p] = New
  <2>1. p \in NewPaths /\ p \in Paths
    BY UpdateIs
  <2>2. p \in Installs \/ disk[p] = New
    BY DEF Ready
  <2>3. p = d => p \in Installs
    BY <2>1, UpdateIs
  <2> QED BY <2>1, <2>2, <2>3
<1>3. ASSUME oldKnown, NEW p \in OldOnly PROVE p \in Uninstalls \/ disk'[p] = None
  <2>1. p \notin NewPaths /\ p \in Paths
    BY UpdateIs
  <2>2. p \in Uninstalls \/ disk[p] = None
    BY <1>3 DEF Ready
  <2>3. p = d => p \in Uninstalls
    BY <2>1, UpdateIs
  <2> QED BY <2>1, <2>2, <2>3
<1> QED BY <1>1, <1>2, <1>3 DEF Ready

LEMMA ReadyIs ==
  ASSUME SInv, SaneLists, pc \in {"wait", "access"} \cup TryPlaces \cup CommitPlaces
  PROVE  Ready /\ pc \notin {"idle", "lists"}
<1>1. pc \notin {"idle", "lists"}
  BY DEF TryPlaces, CommitPlaces
<1> QED BY <1>1, UpdateIs DEF UpdateSound, PlanSound

LEMMA SameReady ==
  ASSUME Ready, SameUpdate, disk' = disk
  PROVE  Ready'
<1>1. /\ Installs' = Installs /\ Uninstalls' = Uninstalls /\ Due' = Due /\ OldOnly' = OldOnly
      /\ oldKnown' = oldKnown
  BY SameUpdateIs DEF SameUpdate
<1> QED BY <1>1 DEF Ready

(* What has to be shown of a step, by the kind of place that it goes to.      *)
LEMMA ToTryUpdate ==
  ASSUME pc' \in TryPlaces, Ready', InstalledSound'
  PROVE  UpdateSound'
<1>1. /\ pc' \notin CommitPlaces \cup EndPlaces /\ pc' # "files"
      /\ pc' \notin {"uninstall", "removeBackups"}
  BY DEF TryPlaces, CommitPlaces, EndPlaces
<1> QED BY <1>1 DEF UpdateSound, PlanSound, RemovedSound, SuccessSound

LEMMA ToCommitUpdate ==
  ASSUME pc' \in CommitPlaces, Ready', RemovedSound'
  PROVE  UpdateSound'
<1>1. pc' \notin TryPlaces \cup EndPlaces /\ pc' # "files"
  BY DEF TryPlaces, CommitPlaces, EndPlaces
<1> QED BY <1>1 DEF UpdateSound, PlanSound, InstalledSound, SuccessSound

LEMMA ToEndUpdate ==
  ASSUME pc' \in EndPlaces, SuccessSound'
  PROVE  UpdateSound'
<1>1. /\ pc' \notin {"files", "wait", "access"} \cup TryPlaces \cup CommitPlaces
      /\ pc' \notin {"uninstall", "removeBackups"}
  BY DEF TryPlaces, CommitPlaces, EndPlaces
<1> QED BY <1>1 DEF UpdateSound, PlanSound, InstalledSound, RemovedSound

(* installFiles: a step for the file at hand.                                 *)
LEMMA TryUpdate ==
  ASSUME IInv, SInv, SaneLists, pc \in TryPlaces, pc' \in TryPlaces, SameUpdate,
         k \in DOMAIN script.install, k' = k,
         \A p \in Paths : p # Dest => disk'[p] = disk[p],
         pc' = "chmod" => Delivered(Dest)'
  PROVE  UpdateSound'
<1>1. Sane /\ InstalledSound /\ Ready /\ pc \notin {"idle", "lists"}
  BY ReadyIs, UpdateIs DEF UpdateSound
<1>2. Dest \in Installs /\ Dest \in Paths /\ Dest' = Dest
  BY <1>1, SaneIs, DestIs DEF SameUpdate, Dest
<1>3. Ready'
  BY <1>1, <1>2, ReadyKept
<1>4. ASSUME NEW i \in DOMAIN script.install, i < k
      PROVE  Delivered(script.install[i])'
  <2> DEFINE p == script.install[i]
  <2>1. p \in Paths /\ p # Dest
    <3>1. i # k
      BY <1>1, <1>4, SaneIs
    <3> QED BY <1>1, <3>1, SaneIs, DestIs
  <2>2. Delivered(p)
    BY <1>1, <1>4 DEF InstalledSound
  <2>3. disk'[p] = disk[p]
    BY <2>1
  <2>4. p' = p
    BY DEF SameUpdate
  <2> HIDE DEF p
  <2>5. Delivered(p)'
    BY <2>2, <2>3, <2>4 DEF Delivered, SameUpdate
  <2> QED BY <2>5 DEF p
<1>5. InstalledSound'
  <2> SUFFICES ASSUME NEW i \in DOMAIN script'.install, i < k' \/ (i = k' /\ pc' = "chmod")
               PROVE  Delivered(script.install[i])'
    BY DEF InstalledSound
  <2>1. i \in DOMAIN script.install
    BY DEF SameUpdate
  <2>2. CASE i < k'
    BY <1>4, <2>1, <2>2
  <2>3. CASE i = k' /\ pc' = "chmod"
    BY <1>2, <2>3 DEF Dest, SameUpdate, Delivered
  <2> QED BY <2>2, <2>3
<1> QED BY <1>3, <1>5, ToTryUpdate

LEMMA InstallUpdate ==
  ASSUME IInv, SInv, SaneLists, SameUpdate,
         InstallFile \/ RemoveOldBackup \/ MoveToBackup \/ OpenTarget \/ CopyData
  PROVE  UpdateSound'
<1>1. pc \in TryPlaces /\ pc' \in TryPlaces /\ (pc' = "chmod" => CopyData) /\ k' = k
  BY DEF InstallFile, RemoveOldBackup, MoveToBackup, OpenTarget, CopyData, At, GoTo, TryPlaces
<1>2. pc # "next" \/ MoreToInstall
  BY DEF InstallFile, RemoveOldBackup, MoveToBackup, OpenTarget, CopyData, At
<1>3. Sane
  BY <1>1, ReadyIs, UpdateIs
<1>4. k \in DOMAIN script.install /\ Dest \in Paths /\ Dest' = Dest
  BY <1>1, <1>2, <1>3, AtFile DEF SameUpdate, Dest
<1>5. disk' = disk \/ \E c \in Content : disk' = [disk EXCEPT ![Dest] = c]
  BY ContentIs DEF InstallFile, RemoveOldBackup, MoveToBackup, OpenTarget, CopyData, files
<1>6. \A p \in Paths : p # Dest => disk'[p] = disk[p]
  BY <1>5, TypedIs
<1>7. ASSUME CopyData PROVE Delivered(Dest)'
  <2>1. PICK c : /\ c = New \/ (c = Partial /\ (build = "unix" \/ Dest \in short))
                 /\ disk' = [disk EXCEPT ![Dest] = c]
    BY <1>7 DEF CopyData
  <2>2. disk'[Dest] = c
    BY <1>4, <2>1, TypedIs
  <2> QED BY <1>4, <2>1, <2>2 DEF Delivered, SameUpdate
<1> QED BY <1>1, <1>4, <1>6, <1>7, TryUpdate

LEMMA NextUpdate ==
  ASSUME IInv, SInv, SaneLists, SameUpdate, SetPermissions \/ EndInstall
  PROVE  UpdateSound'
<1>1. pc \in TryPlaces /\ disk' = disk
  BY DEF SetPermissions, EndInstall, At, files, TryPlaces
<1>2. Ready /\ Sane /\ InstalledSound
  BY <1>1, ReadyIs, UpdateIs DEF UpdateSound
<1>3. Ready'
  BY <1>1, <1>2, SameReady
<1>4. k \in Nat /\ DOMAIN script.install = 1..Len(script.install)
      /\ Len(script.install) \in Nat
  BY <1>2, TypedIs, SaneIs
<1>5. CASE SetPermissions
  <2>1. pc = "chmod" /\ pc' = "next" /\ k' = k + 1
    BY <1>5 DEF SetPermissions, At, GoTo
  <2>2. ASSUME NEW i \in DOMAIN script.install, i < k'
        PROVE  Delivered(script.install[i])'
    <3>1. i < k \/ i = k
      BY <1>4, <2>1, <2>2
    <3>2. Delivered(script.install[i])
      BY <1>1, <1>2, <2>1, <3>1 DEF InstalledSound
    <3> QED BY <1>1, <3>2 DEF Delivered, SameUpdate
  <2>3. InstalledSound'
    BY <2>1, <2>2 DEF InstalledSound, SameUpdate
  <2>4. pc' \in TryPlaces
    BY <2>1 DEF TryPlaces
  <2> QED BY <1>3, <2>3, <2>4, ToTryUpdate
<1>6. CASE EndInstall
  <2>1. pc = "next" /\ ~(k <= Len(script.install)) /\ pc' = "uninstall" /\ k' = 1
    BY <1>6 DEF EndInstall, MoreToInstall, At, GoTo
  <2>2. ASSUME NEW p \in Installs PROVE Delivered(p)'
    <3>1. PICK i \in DOMAIN script.install : p = script.install[i]
      BY <1>2, SaneIs
    <3>2. i < k
      BY <1>4, <2>1
    <3>3. Delivered(p)
      BY <1>1, <1>2, <3>1, <3>2 DEF InstalledSound
    <3> QED BY <1>1, <3>3, SameUpdateIs
  <2>3. \A i \in DOMAIN script.uninstall : ~(i < 1)
    BY <1>2, SaneIs
  <2>4. Installs' = Installs /\ script' = script
    BY SameUpdateIs DEF SameUpdate
  <2>5. \A p \in Installs' : Delivered(p)'
    BY <2>2, <2>4
  <2>6. RemovedSound'
    BY <2>1, <2>3, <2>4, <2>5 DEF RemovedSound
  <2>7. pc' \in CommitPlaces
    BY <2>1 DEF CommitPlaces
  <2> QED BY <1>3, <2>6, <2>7, ToCommitUpdate
<1> QED BY <1>5, <1>6

LEMMA UninstallUpdate ==
  ASSUME IInv, SInv, SaneLists, SameUpdate, UninstallFile
  PROVE  UpdateSound'
<1> DEFINE u == script.uninstall[k]
<1>1. /\ pc = "uninstall" /\ pc' = "uninstall" /\ k <= Len(script.uninstall)
      /\ disk' = [disk EXCEPT ![u] = None] /\ k' = k + 1
  BY DEF UninstallFile, At
<1>2. pc \in CommitPlaces
  BY <1>1 DEF CommitPlaces
<1>3. Ready /\ Sane /\ RemovedSound /\ pc \notin {"idle", "lists"}
  BY <1>2, ReadyIs, UpdateIs DEF UpdateSound
<1>4. /\ k \in DOMAIN script.uninstall /\ k \in Nat
      /\ DOMAIN script.uninstall = 1..Len(script.uninstall)
  <2>1. Len(script.uninstall) \in Nat
    BY <1>3 DEF Sane, Scripts
  <2> QED BY <1>1, <1>3, <2>1, TypedIs, SaneIs
<1>5. u \in Paths /\ u \notin Installs /\ u \in Uninstalls
  BY <1>3, <1>4, SaneIs DEF Uninstalls
<1> HIDE DEF u
<1>6. disk'[u] = None /\ \A p \in Paths : p # u => disk'[p] = disk[p]
  BY <1>1, <1>5, TypedIs
<1>7. Ready'
  BY <1>3, <1>5, <1>6, ReadyKept
<1>8. ASSUME NEW p \in Installs PROVE Delivered(p)'
  <2>1. p \in Paths /\ p # u
    BY <1>3, <1>5, UpdateIs
  <2>2. Delivered(p)
    BY <1>2, <1>3 DEF RemovedSound
  <2> QED BY <1>6, <2>1, <2>2, SameUpdateIs
<1>9. ASSUME NEW i \in DOMAIN script.uninstall, i < k'
      PROVE  disk'[script.uninstall[i]] = None
  <2>1. i < k \/ i = k
    BY <1>1, <1>4, <1>9
  <2>2. script.uninstall[i] \in Paths
    BY <1>3, SaneIs
  <2>3. CASE i < k
    <3>1. disk[script.uninstall[i]] = None
      BY <1>1, <1>3, <2>3 DEF RemovedSound
    <3> QED BY <1>6, <2>2, <3>1
  <2>4. CASE i = k
    BY <1>6, <2>4 DEF u
  <2> QED BY <2>1, <2>3, <2>4
<1>10. RemovedSound'
  <2>1. Installs' = Installs /\ script' = script
    BY SameUpdateIs DEF SameUpdate
  <2>2. \A p \in Installs' : Delivered(p)'
    BY <1>8, <2>1
  <2> QED BY <1>1, <1>9, <2>1, <2>2 DEF RemovedSound
<1>11. pc' \in CommitPlaces
  BY <1>1 DEF CommitPlaces
<1> QED BY <1>7, <1>10, <1>11, ToCommitUpdate

LEMMA BackupsUpdate ==
  ASSUME IInv, SInv, SaneLists, SameUpdate, EndUninstall \/ RemoveBackup
  PROVE  UpdateSound'
<1>1. pc \in CommitPlaces /\ pc' = "removeBackups" /\ pc' \in CommitPlaces /\ disk' = disk
      /\ before' = before
  BY DEF EndUninstall, RemoveBackup, At, GoTo, CommitPlaces, files, history
<1>2. Ready /\ Sane /\ RemovedSound
  BY <1>1, ReadyIs, UpdateIs DEF UpdateSound
<1>3. Ready'
  BY <1>1, <1>2, SameReady
<1>4. /\ Installs' = Installs /\ Uninstalls' = Uninstalls /\ Replaced' = Replaced
      /\ \A p \in Installs : Delivered(p)'
  BY <1>1, <1>2, SameUpdateIs DEF Replaced, RemovedSound
<1>5. CASE EndUninstall
  <2>1. pc = "uninstall" /\ k > Len(script.uninstall) /\ todo' = m_backups
    BY <1>5 DEF EndUninstall, At
  <2>2. ASSUME NEW p \in Uninstalls PROVE disk[p] = None
    <3>1. PICK i \in 1..Len(script.uninstall) : p = script.uninstall[i]
      BY DEF Uninstalls
    <3>2. i \in DOMAIN script.uninstall /\ Len(script.uninstall) \in Nat
      BY <1>2 DEF Sane, Scripts
    <3>3. i < k
      BY <2>1, <3>2, TypedIs
    <3> QED BY <1>2, <2>1, <3>1, <3>2, <3>3 DEF RemovedSound
  <2>3. ASSUME NEW p \in Replaced PROVE p \in m_backups
    <3>1. CommitSound
      BY <1>2 DEF IInv, MainSound
    <3> QED BY <1>1, <2>1, <2>3, <3>1 DEF CommitSound, Replaced, Backed
  <2>4. RemovedSound'
    BY <1>1, <1>4, <2>1, <2>2, <2>3 DEF RemovedSound
  <2> QED BY <1>1, <1>3, <2>4, ToCommitUpdate
<1>6. CASE RemoveBackup
  <2> DEFINE f == First(todo)
  <2>1. /\ pc = "removeBackups" /\ bak' = [bak EXCEPT ![f] = None] /\ todo' = todo \ {f}
    BY <1>6 DEF RemoveBackup, At
  <2> HIDE DEF f
  <2>2. ASSUME NEW p \in Replaced PROVE p \in todo' \/ bak'[p] = None
    <3>1. p \in Paths
      BY <1>2, SaneIs DEF Replaced
    <3>2. p \in todo \/ bak[p] = None
      BY <1>2, <2>1 DEF RemovedSound
    <3>3. CASE p = f
      BY <2>1, <3>1, <3>3, TypedIs
    <3>4. CASE p # f
      BY <2>1, <3>1, <3>2, <3>4, TypedIs
    <3> QED BY <3>3, <3>4
  <2>3. \A p \in Uninstalls : disk'[p] = None
    BY <1>1, <1>2, <2>1 DEF RemovedSound
  <2>4. RemovedSound'
    BY <1>1, <1>4, <2>2, <2>3 DEF RemovedSound
  <2> QED BY <1>1, <1>3, <2>4, ToCommitUpdate
<1> QED BY <1>5, <1>6

(* Main ends without an exception: the new version is there.                  *)
LEMMA EndUpdate ==
  ASSUME IInv, SInv, SaneLists, SameUpdate, EndRemoveBackups
  PROVE  UpdateSound'
<1>1. /\ pc = "removeBackups" /\ pc' = "report" /\ todo = {}
      /\ UNCHANGED <<disk, bak, before>>
  BY DEF EndRemoveBackups, At, GoTo, files, history
<1>2. pc \in CommitPlaces /\ pc' \in EndPlaces
  BY <1>1 DEF CommitPlaces, EndPlaces
<1>3. Ready /\ Sane /\ RemovedSound
  BY <1>2, ReadyIs, UpdateIs DEF UpdateSound
<1>4. /\ \A p \in Installs : Delivered(p)
      /\ \A p \in Uninstalls : disk[p] = None
      /\ \A p \in Replaced : bak[p] = None
  BY <1>1, <1>2, <1>3 DEF RemovedSound
<1>5. Success
  BY <1>3, <1>4 DEF Success, Ready, Delivered
<1>6. Due' = Due /\ OldOnly' = OldOnly /\ Replaced' = Replaced /\ oldKnown' = oldKnown
      /\ \A p \in Due : Delivered(p)'
  BY <1>1, <1>5, SameUpdateIs DEF Replaced, SameUpdate, Success
<1>7. Success'
  BY <1>1, <1>5, <1>6 DEF Success
<1> QED BY <1>2, <1>7, ToEndUpdate DEF SuccessSound

LEMMA BeginUpdate ==
  ASSUME IInv, SInv, SaneLists, SameUpdate, WaitForApp \/ RunMain
  PROVE  UpdateSound'
<1>1. pc \in {"wait", "access"} /\ disk' = disk
  BY DEF WaitForApp, RunMain, At, files
<1>2. Ready
  BY <1>1, ReadyIs
<1>3. Ready'
  BY <1>1, <1>2, SameReady
<1>4. CASE pc' = "access"
  <2>1. /\ pc' \notin TryPlaces \cup CommitPlaces \cup EndPlaces /\ pc' # "files"
        /\ pc' \notin {"uninstall", "removeBackups"}
    BY <1>4 DEF TryPlaces, CommitPlaces, EndPlaces
  <2> QED BY <1>3, <2>1 DEF UpdateSound, PlanSound, InstalledSound, RemovedSound, SuccessSound
<1>5. CASE RunMain
  <2>1. /\ pc = "access" /\ pc' \in {"next", "mainDone"} /\ UNCHANGED <<k, script, reports>>
    BY <1>5 DEF RunMain, At, GoTo, input
  <2>2. k = 1 /\ reports = <<>>
    BY <2>1 DEF IInv, RestSound, RestPlaces
  <2>3. CASE pc' = "next"
    <3>1. Sane
      BY <1>1, UpdateIs
    <3>2. \A i \in DOMAIN script.install : ~(i < 1)
      BY <3>1, SaneIs
    <3>3. InstalledSound' /\ pc' \in TryPlaces
      BY <2>1, <2>2, <2>3, <3>2 DEF InstalledSound, TryPlaces
    <3> QED BY <1>3, <3>3, ToTryUpdate
  <2>4. CASE pc' = "mainDone"
    <3>1. SuccessSound' /\ pc' \in EndPlaces
      BY <2>1, <2>2, <2>4 DEF SuccessSound, EndPlaces
    <3> QED BY <3>1, ToEndUpdate
  <2> QED BY <2>1, <2>3, <2>4
<1> QED BY <1>4, <1>5 DEF WaitForApp, GoTo

LEMMA FailureUpdate ==
  ASSUME IInv, SInv, SaneLists, SameUpdate, Throws \/ RevertStep \/ Killed
  PROVE  UpdateSound'
<1>1. CASE Throws \/ RevertRemove \/ RevertMove
  <2>1. pc' \in RevertPlaces
    BY <1>1 DEF Throws, RevertRemove, RevertMove, GoTo, RevertPlaces
  <2> QED BY <2>1, NothingDue
<1>2. CASE EndRevert \/ RevertThrows
  <2>1. pc \in RevertPlaces /\ pc' \in EndPlaces /\ failedIn' = failedIn
    BY <1>2 DEF EndRevert, RevertThrows, At, GoTo, RevertPlaces, EndPlaces, history
  <2>2. pc \notin {"idle", "lists"}
    BY <2>1 DEF RevertPlaces
  <2>3. failedIn # "none"
    BY <2>1, <2>2, UpdateIs, RevertIs
  <2> QED BY <2>1, <2>3, ToEndUpdate DEF SuccessSound
<1>3. CASE Killed
  <2>1. pc # "mainDone" /\ pc' = "mainDone" /\ reports' = reports
    BY <1>3 DEF Killed, GoTo, MainSteps
  <2>2. reports' = <<>> /\ pc' \in EndPlaces /\ pc' # "report"
    BY <2>1, NoReportYet DEF EndPlaces
  <2> QED BY <2>2, ToEndUpdate DEF SuccessSound
<1> QED BY <1>1, <1>2, <1>3 DEF RevertStep

LEMMA ReportUpdate ==
  ASSUME IInv, SInv, SaneLists, SameUpdate, Report
  PROVE  UpdateSound'
<1>1. /\ pc = "report" /\ pc' = "mainDone"
      /\ UNCHANGED <<disk, bak, before, failedIn>>
  BY DEF Report, At, GoTo, files
<1>2. pc \in EndPlaces /\ pc' \in EndPlaces
  BY <1>1 DEF EndPlaces
<1>3. ASSUME failedIn = "none" PROVE Success'
  <2>1. Success
    BY <1>1, <1>2, <1>3, UpdateIs DEF UpdateSound, SuccessSound
  <2>2. Due' = Due /\ OldOnly' = OldOnly /\ Replaced' = Replaced /\ oldKnown' = oldKnown
        /\ \A p \in Due : Delivered(p)'
    BY <1>1, <2>1, SameUpdateIs DEF Replaced, SameUpdate, Success
  <2> QED BY <1>1, <2>1, <2>2 DEF Success
<1> QED BY <1>1, <1>2, <1>3, ToEndUpdate DEF SuccessSound

(* A step that does not touch what the invariant speaks of.                   *)
LEMMA UntouchedUpdate ==
  ASSUME SaneLists => UpdateSound, SaneLists', SameUpdate,
         UNCHANGED <<disk, bak, before, pc, k, todo, failedIn, reports>>
  PROVE  UpdateSound'
<1>1. /\ Installs' = Installs /\ Uninstalls' = Uninstalls /\ Due' = Due /\ OldOnly' = OldOnly
      /\ oldKnown' = oldKnown /\ fetching' = fetching /\ script' = script /\ Replaced' = Replaced
      /\ \A p : Delivered(p)' <=> Delivered(p)
  BY SameUpdateIs DEF SameUpdate, Replaced
<1>2. UpdateSound
  BY SameUpdateIs
<1>3. PlanSound'
  BY <1>1, <1>2 DEF UpdateSound, PlanSound, Planned, Ready
<1>4. InstalledSound'
  <2>1. InstalledSound
    BY <1>2 DEF UpdateSound
  <2> QED BY <2>1, <1>1 DEF InstalledSound, Delivered, SameUpdate
<1>5. RemovedSound'
  <2>1. RemovedSound
    BY <1>2 DEF UpdateSound
  <2> QED BY <2>1, <1>1 DEF RemovedSound, Delivered, SameUpdate
<1>6. SuccessSound'
  <2>1. SuccessSound
    BY <1>2 DEF UpdateSound
  <2>2. Success' <=> Success
    BY <1>1 DEF Success, Delivered, SameUpdate
  <2> QED BY <2>1, <2>2 DEF SuccessSound
<1> QED BY <1>3, <1>4, <1>5, <1>6 DEF UpdateSound

-----------------------------------------------------------------------------
(* The update: MultiMC's part.                                                *)

LEMMA ListsUpdate ==
  ASSUME SInv, NEW known \in BOOLEAN, NEW keep \in BOOLEAN, ListsArrive(known, keep)
  PROVE  ScriptSound' /\ (SaneLists => UpdateSound')
<1> DEFINE old == IF known THEN lists.old ELSE <<>>
<1>1. /\ pc' = "files" /\ oldKnown' = known /\ lists' = lists /\ disk' = disk
      /\ fetching' = (IF keep THEN {} ELSE UpdatersToFetch(lists.new, disk, Updaters))
      /\ script' = processFileLists(old, lists.new, disk, Updaters)
  BY DEF ListsArrive, GoTo, files
<1>2. lists \in Updates
  BY DEF SInv, TInv, Fixed
<1>3. old \in Seq(Paths) /\ (known => old = lists.old)
  BY <1>2, ListsAre
<1> HIDE DEF old
<1>4. /\ Installs' \subseteq NewPaths \ Updaters
      /\ \A p \in NewPaths \ Updaters : SaneLists => p \in Installs' \/ disk[p] = New
      /\ Uninstalls' = {p \in Range(old) : disk[p] # None /\ p \notin NewPaths}
      /\ SaneLists => Sane'
  BY <1>1, <1>2, <1>3, ScriptMade
<1>5. NewPaths' = NewPaths /\ OldOnly' = OldOnly /\ (SaneLists' <=> SaneLists)
  BY <1>1 DEF NewPaths, OldOnly, SaneLists
<1>6. fetching' \subseteq NewPaths
  BY <1>1, FetchingIs
<1>7. ScriptSound'
  BY <1>4, <1>5, <1>6 DEF ScriptSound
<1>8. ASSUME SaneLists, NEW p \in Due'
      PROVE  p \in Installs' \/ p \in fetching' \/ disk'[p] = New
  <2>1. p \in NewPaths /\ (p \in Updaters => p \in fetching')
    BY <1>5 DEF Due
  <2> QED BY <1>1, <1>4, <1>8, <2>1
<1>9. ASSUME oldKnown', NEW p \in OldOnly'
      PROVE  p \in Uninstalls' \/ disk'[p] = None
  <2>1. p \in Range(old) /\ p \notin NewPaths
    BY <1>1, <1>3, <1>5, <1>9 DEF OldOnly
  <2> QED BY <1>1, <1>4, <2>1
<1>10. SaneLists => Planned'
  BY <1>8, <1>9 DEF Planned
<1>11. /\ pc' \notin {"wait", "access"} \cup TryPlaces \cup CommitPlaces \cup EndPlaces
       /\ pc' \notin {"uninstall", "removeBackups"}
  BY <1>1 DEF TryPlaces, CommitPlaces, EndPlaces
<1>12. SaneLists => UpdateSound'
  BY <1>10, <1>11 DEF UpdateSound, PlanSound, InstalledSound, RemovedSound, SuccessSound
<1> QED BY <1>7, <1>12

LEMMA FilesUpdate ==
  ASSUME SInv, FilesArrive, pc' = "wait"
  PROVE  ScriptSound' /\ (SaneLists => UpdateSound')
<1>1. /\ pc = "files" /\ disk' = Fetched(fetching)
      /\ UNCHANGED <<script, lists, oldKnown, fetching>>
  BY DEF FilesArrive, GoTo, At, taskVars
<1>2. /\ Installs' = Installs /\ Uninstalls' = Uninstalls /\ (Sane' <=> Sane)
      /\ NewPaths' = NewPaths /\ OldOnly' = OldOnly /\ Due' = Due /\ (SaneLists' <=> SaneLists)
  BY <1>1 DEF Installs, Uninstalls, Sane, NewPaths, OldOnly, Due, SaneLists
<1>3. ScriptSound
  BY DEF SInv
<1>4. ScriptSound'
  BY <1>1, <1>2, <1>3 DEF ScriptSound
<1>5. ASSUME SaneLists PROVE UpdateSound'
  <2>1. Planned
    BY <1>1, <1>5, UpdateIs DEF UpdateSound, PlanSound
  <2>2. \A p \in Paths : disk'[p] = IF p \in fetching THEN New ELSE disk[p]
    BY <1>1 DEF Fetched
  <2>3. fetching \subseteq NewPaths
    BY <1>1, <1>3 DEF ScriptSound
  <2>4. ASSUME NEW p \in Due PROVE p \in Installs \/ disk'[p] = New
    <3>1. p \in Paths /\ (p \in Installs \/ p \in fetching \/ disk[p] = New)
      BY <1>1, <1>5, <2>1, UpdateIs DEF Planned
    <3> QED BY <2>2, <3>1
  <2>5. ASSUME oldKnown, NEW p \in OldOnly PROVE p \in Uninstalls \/ disk'[p] = None
    <3>1. p \in Paths /\ p \notin fetching /\ (p \in Uninstalls \/ disk[p] = None)
      BY <1>1, <1>5, <2>1, <2>3, <2>5, UpdateIs DEF Planned
    <3> QED BY <2>2, <3>1
  <2>6. Ready'
    BY <1>1, <1>2, <2>4, <2>5 DEF Ready
  <2>7. /\ pc' \notin TryPlaces \cup CommitPlaces \cup EndPlaces
        /\ pc' \notin {"files", "uninstall", "removeBackups"}
    BY DEF TryPlaces, CommitPlaces, EndPlaces
  <2> QED BY <2>6, <2>7 DEF UpdateSound, PlanSound, InstalledSound, RemovedSound, SuccessSound
<1> QED BY <1>4, <1>5

LEMMA TaskUpdate ==
  ASSUME SInv, StartUpdate \/ TaskStep \/ RestartMainApp
  PROVE  ScriptSound' /\ (SaneLists => UpdateSound')
<1>1. CASE pc' \in {"idle", "lists"}
  BY <1>1, NothingDue DEF ScriptSound
<1>2. CASE \E known, keep \in BOOLEAN : ListsArrive(known, keep)
  BY <1>2, ListsUpdate
<1>3. CASE FilesArrive
  <2>1. pc' \in {"wait", "idle"}
    BY <1>3 DEF FilesArrive, GoTo
  <2> QED BY <1>1, <1>3, <2>1, FilesUpdate
<1>4. StartUpdate \/ ListsFail \/ FilesFail \/ RestartMainApp => pc' \in {"idle", "lists"}
  BY DEF StartUpdate, ListsFail, FilesFail, RestartMainApp, GoTo
<1> QED BY <1>1, <1>2, <1>3, <1>4 DEF TaskStep

-----------------------------------------------------------------------------
(* The invariant of an update, and what follows.                              *)

LEMMA ScriptKept ==
  ASSUME ScriptSound, SameUpdate, pc' \notin {"idle", "lists"} => pc \notin {"idle", "lists"}
  PROVE  ScriptSound'
<1>1. fetching' = fetching
  BY DEF SameUpdate
<1> QED BY <1>1, SameUpdateIs DEF ScriptSound

LEMMA KeepsUpdate == IInv /\ SInv /\ [Next]_vars => ScriptSound' /\ (SaneLists' => UpdateSound')
<1> SUFFICES ASSUME IInv, SInv, [Next]_vars
             PROVE  ScriptSound' /\ (SaneLists' => UpdateSound')
  OBVIOUS
<1>1. CASE StartUpdate \/ TaskStep \/ (RestartMainApp /\ UNCHANGED taskVars)
  <2>1. lists' = lists
    BY <1>1 DEF StartUpdate, TaskStep, ListsFail, ListsArrive, FilesFail, FilesArrive, taskVars
  <2>2. SaneLists' <=> SaneLists
    BY <2>1 DEF SaneLists
  <2> QED BY <1>1, <2>2, TaskUpdate
<1>2. CASE ((UpdaterStep /\ ~RestartMainApp) \/ Killed) /\ UNCHANGED taskVars
  <2>1. SameUpdate /\ pc \notin {"idle", "lists"}
    BY <1>2, UpdateKept
  <2>2. ScriptSound'
    BY <2>1, ScriptKept DEF SInv
  <2>3. ASSUME SaneLists PROVE UpdateSound'
    BY <1>2, <2>1, <2>3, BeginUpdate, InstallUpdate, NextUpdate, UninstallUpdate, BackupsUpdate,
       EndUpdate, FailureUpdate, ReportUpdate DEF UpdaterStep, InstallStep, CommitStep
  <2> QED BY <2>1, <2>2, <2>3, SameUpdateIs
<1>3. CASE StartApp \/ (AppExits /\ UNCHANGED taskVars) \/ UNCHANGED vars
  <2>1. SameUpdate /\ UNCHANGED <<disk, bak, before, pc, k, todo, failedIn, reports>>
    BY <1>3 DEF StartApp, AppExits, vars, installerVars, input, files, history, taskVars, SameUpdate
  <2> QED BY <2>1, ScriptKept, UntouchedUpdate DEF SInv
<1> QED BY <1>1, <1>2, <1>3 DEF Next

LEMMA SStarts == Init => SInv
<1> SUFFICES ASSUME Init PROVE SInv
  OBVIOUS
<1>1. pc = "idle"
  BY DEF Init, InstallerInit
<1>2. ScriptSound
  BY <1>1 DEF ScriptSound
<1>3. UpdateSound
  BY <1>1 DEF UpdateSound, PlanSound, InstalledSound, RemovedSound, SuccessSound, TryPlaces,
     CommitPlaces, EndPlaces
<1> QED BY <1>2, <1>3, StartsTyped DEF SInv

LEMMA SInvariance == Spec => [](IInv /\ SInv)
<1>1. Init => IInv /\ SInv
  BY Starts, SStarts
<1>2. IInv /\ SInv /\ [Next]_vars => (IInv /\ SInv)'
  <2>1. IInv /\ SInv /\ [Next]_vars => SInv'
    BY KeepsTyped, KeepsUpdate DEF SInv
  <2> QED BY <2>1, Keeps
<1> QED BY <1>1, <1>2, PTL DEF Spec

(* Contents, places, lists and reports are of their kinds, and what revert()  *)
(* or removeBackups() has to handle are backups (all steps).                  *)
THEOREM TypeCorrect == Spec => []TypeOK
<1>1. IInv /\ SInv => TypeOK
  <2> SUFFICES ASSUME IInv, SInv PROVE TypeOK
    OBVIOUS
  <2>1. Fixed /\ ScriptTyped /\ BackupsTyped /\ Typed
    BY DEF SInv, TInv, IInv
  <2>2. pc \in MainSteps \cup {"idle", "lists", "files", "wait", "access", "mainDone"}
    BY <2>1 DEF Typed, Places, RestPlaces, TryPlaces, CommitPlaces, RevertPlaces, EndPlaces,
       MainSteps
  <2>3. reports \in {<<>>, <<"finished">>, <<"error", "finished">>}
    BY DEF IInv, ReportSound, Messages
  <2>4. k \in Nat \ {0}
    BY <2>1 DEF Typed
  <2> QED BY <2>1, <2>2, <2>3, <2>4 DEF TypeOK, Fixed, ScriptTyped, BackupsTyped, Typed
<1> QED BY <1>1, SInvariance, PTL

(* Whatever lists the server gives and earlier updates have left: the script  *)
(* of sane lists is sane, one that throws and is reverted leaves the old      *)
(* installation but for files that it added or had deleted, one that is said  *)
(* to have succeeded has put every file of the new version in its place and   *)
(* removed the others, and the report says which (processFileLists, run).     *)
THEOREM ReportCorrect == Spec => []EndsAsReported
<1>1. IInv /\ SInv => ScriptIsSane
  <2> SUFFICES ASSUME SInv, SaneLists PROVE Sane
    BY DEF ScriptIsSane
  <2>1. CASE pc \in {"idle", "lists"}
    BY <2>1, NoScriptIs DEF SInv, TInv, ScriptTyped
  <2>2. CASE pc \notin {"idle", "lists"}
    BY <2>2, UpdateIs
  <2> QED BY <2>1, <2>2
<1>2. IInv /\ SInv => SuccessInstalls
  <2> SUFFICES ASSUME IInv, SInv, SaneLists, reports = <<"finished">> PROVE Success
    BY DEF SuccessInstalls, Success, Due, Delivered, NewPaths, OldOnly
  <2>1. pc = "mainDone" /\ reports = Messages /\ reports # <<>>
    BY DEF IInv, ReportSound
  <2>2. failedIn = "none"
    BY <2>1 DEF Messages
  <2>3. SuccessSound
    BY <2>1, UpdateIs DEF UpdateSound
  <2> QED BY <2>1, <2>2, <2>3 DEF SuccessSound, EndPlaces
<1>3. Spec => []ScriptIsSane /\ []SuccessInstalls
  BY <1>1, <1>2, SInvariance, PTL
<1>4. ScriptIsSane /\ RevertRestores /\ SuccessInstalls /\ ErrorReported => EndsAsReported
  BY DEF EndsAsReported
<1> QED BY <1>3, <1>4, RevertCorrect, ErrorCorrect, PTL
=============================================================================
