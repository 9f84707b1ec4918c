------------------------------ MODULE SelfUpdate ------------------------------
(***************************************************************************)
(* An update of MultiMC from end to end, and the next one after it: the    *)
(* DownloadTask that gets the file lists, has GoUpdate make a script of    *)
(* them and fills the package directory, then mmc_updater, then MultiMC    *)
(* again.  A second update to the same version finds what the first left:  *)
(* files, half-copied files and backups.                                   *)
(***************************************************************************)
EXTENDS UpdateInstaller

CONSTANTS
  Updates,    \* the file lists: [old : paths, new : entries of GoUpdate]
  Updaters,   \* the paths of the updater itself
  MaxUpdates, \* bounds the updates
  MaxShort    \* bounds the downloads of an update that a write error cuts short

ASSUME SelfUpdateAssumption ==
  /\ Updates \subseteq [old : Seq(Paths), new : Seq(Entries(Paths))]
  /\ Updaters \subseteq Paths
  /\ {MaxUpdates, MaxShort} \subseteq Nat

VARIABLES
  lists,      \* what the server says of the two versions
  oldKnown,   \* history: the list of the old version was there
  fetching,   \* the updaters that the job downloads
  updates     \* the updates so far

taskVars == <<lists, oldKnown, fetching, updates>>
vars == <<installerVars, taskVars>>

Mentioned(l) == Range(l.old) \cup PathsOf(l.new)

\* Any of the files may be there, some of them already of the new version.
Init ==
  /\ lists \in Updates
  /\ disk \in [Paths -> {None, Old, New}]
  /\ \A p \in Paths \ Mentioned(lists) : disk[p] = None
  /\ oldKnown = FALSE /\ fetching = {} /\ updates = 0
  /\ InstallerInit

-----------------------------------------------------------------------------
(* DownloadTask *)

\* The user takes the offer: loadVersionInfo.
StartUpdate ==
  /\ At("idle") /\ app = "running" /\ updates < MaxUpdates
  /\ GoTo("lists")
  /\ updates' = updates + 1
  /\ UNCHANGED <<input, files, k, todo, history, app, lists, oldKnown, fetching>>

\* vinfoDownloadFailed, and the failures of processDownloadedVersionInfo: the new
\* list is missing or broken, a file cannot be read, the script not written.
ListsFail ==
  /\ At("lists")
  /\ GoTo("idle")
  /\ UNCHANGED <<input, files, k, todo, history, app, taskVars>>

\* processDownloadedVersionInfo: "we really need the second download", but an
\* update is made without the old list too.  m_keepLocalUpdater is passed on, which
\* nothing ever sets: it has any value.
ListsArrive(known, m_keepLocalUpdater) ==
  /\ At("lists")
  /\ oldKnown' = known
  /\ fetching' = IF m_keepLocalUpdater THEN {}
                 ELSE UpdatersToFetch(lists.new, disk, Updaters)
  /\ script' = processFileLists(IF known THEN lists.old ELSE <<>>, lists.new,
                                disk, Updaters)
  /\ GoTo("files")
  /\ UNCHANGED <<build, short, files, k, todo, history, app, lists, updates>>

\* CacheDownload of the updater, into its place.
Fetched(got) == [p \in Paths |-> IF p \in got THEN New ELSE disk[p]]

\* fileDownloadFailed: the updater may have been replaced.
FilesFail ==
  /\ At("files")
  /\ \E got \in SUBSET fetching : disk' = Fetched(got)
  /\ script' = NoScript
  /\ GoTo("idle")
  /\ UNCHANGED <<build, short, bak, m_backups, k, todo, history, app, taskVars>>

\* fileDownloadFinished, and at once or when the user quits installUpdates, which
\* may fail to start the updater.  Nobody compares m_expected_md5: a download
\* whose write failed counts as any other.
FilesArrive ==
  /\ At("files")
  /\ disk' = Fetched(fetching)
  /\ \/ /\ \E s \in SUBSET Range(script.install) : Cardinality(s) <= MaxShort /\ short' = s
        /\ GoTo("wait")
        /\ UNCHANGED script
     \/ GoTo("idle") /\ script' = NoScript /\ UNCHANGED short
  /\ UNCHANGED <<build, bak, m_backups, k, todo, history, app, taskVars>>

\* The user starts MultiMC when the updater has not.
StartApp ==
  /\ At("idle") /\ app = "exited"
  /\ app' = "running"
  /\ UNCHANGED <<input, files, pc, k, todo, history, taskVars>>

TaskStep == ListsFail \/ (\E known, keep \in BOOLEAN : ListsArrive(known, keep)) \/ FilesFail \/ FilesArrive

Next ==
  \/ StartUpdate \/ TaskStep \/ StartApp
  \/ (UpdaterStep \/ AppExits \/ Killed) /\ UNCHANGED taskVars

Spec == Init /\ [][Next]_vars

\* The jobs of the task report, MultiMC quits and the processes of the updater run.
FairSpec ==
  /\ Spec
  /\ WF_vars(TaskStep)
  /\ WF_vars(AppExits /\ UNCHANGED taskVars)
  /\ WF_vars(UpdaterStep /\ UNCHANGED taskVars)

-----------------------------------------------------------------------------
(* Properties *)

Scripts == [install : Seq(Paths), uninstall : Seq(Paths)]

\* Contents, places and reports are of their kinds, and what revert() or
\* removeBackups() has to handle are backups.
TypeOK ==
  /\ build \in Builds /\ lists \in Updates /\ fetching \subseteq Updaters
  /\ script \in Scripts
  /\ short \subseteq Installs
  /\ m_backups \subseteq Paths /\ todo \subseteq m_backups
  /\ {disk, bak, before} \subseteq [Paths -> Content]
  /\ pc \in MainSteps \cup {"idle", "lists", "files", "wait", "access", "mainDone"}
  /\ k \in Nat \ {0}
  /\ failedIn \in {"none", "install", "uninstall", "removeBackups"}
  /\ {revertFailed, killed, oldKnown} \subseteq BOOLEAN
  /\ reports \in {<<>>, <<"finished">>, <<"error", "finished">>}
  /\ app \in {"running", "exited"}
  /\ updates \in 0..MaxUpdates

\* The lists that MultiMC's server gives: no path twice, one http source for each.
SaneLists ==
  /\ \A i, j \in DOMAIN lists.new : lists.new[i].path = lists.new[j].path => i = j
  /\ \A i \in DOMAIN lists.new : lists.new[i].sources = 1

\* The script that such lists make: nothing is installed twice, or installed and
\* deleted.
Sane ==
  /\ script \in Scripts
  /\ \A i, j \in DOMAIN script.install : script.install[i] = script.install[j] => i = j
  /\ Installs \cap Uninstalls = {}

AllInstalled == \A p \in Installs : disk[p] \in {New, Partial}

\* The files that this update replaces.
Replaced == {p \in Installs : before[p] # None}

\* Wherever Main is killed or throws, before removeBackups has begun to throw:
\* a replaced file still exists, in its place or as backup, or the update has
\* replaced all files (backupFile, installFile, removeBackups, revert).
OriginalsKept ==
  Sane /\ failedIn # "removeBackups" =>
    \A p \in Replaced : disk[p] = before[p] \/ bak[p] = before[p] \/ AllInstalled

\* What uninstallFiles had deleted when it threw: it keeps no backups.
Deleted == IF failedIn = "uninstall" THEN {script.uninstall[i] : i \in 1..(k - 1)} ELSE {}

\* When installing or uninstalling throws and revert() does not, the installation
\* is the old one but for two things that revert() knows nothing of: files that
\* the new version adds may be there, and deleted ones are gone.  In particular
\* each replaced file is back in its place (revert, uninstallFiles).
RevertRestores ==
  Sane /\ failedIn \in {"install", "uninstall"} /\ ~ revertFailed /\ reports # <<>> =>
    \A p \in Paths :
      \/ disk[p] = before[p]
      \/ p \in Installs \ Replaced
      \/ disk[p] = None /\ p \in Deleted

\* When the observer sees the end without an error, the installation is the new
\* version, whatever earlier updates have left: every file of its list is there,
\* also those that were not installed because they were, none that only the old
\* list has (if that list was there), and no backup of a replaced file.  A copy
\* may be cut short on Unix, and a download anywhere, and the updater may have been
\* left as it was (processFileLists, run).
SuccessInstalls ==
  SaneLists /\ reports = <<"finished">> =>
    /\ \A p \in PathsOf(lists.new) \ (Updaters \ fetching) :
         disk[p] = New \/ (disk[p] = Partial /\ (build = "unix" \/ p \in short))
    /\ oldKnown => \A p \in Range(lists.old) \ PathsOf(lists.new) : disk[p] = None
    /\ \A p \in Replaced : bak[p] = None

\* An update that went wrong is shown as such, and one that did not is not.
ErrorReported ==
  reports # <<>> => (Head(reports) = "error" <=> failedIn # "none")

\* The script of such lists is as OriginalsKept and RevertRestores need it
\* (processFileLists).
ScriptIsSane == SaneLists => Sane

\* What the user is told is what happened: without an error the installation is
\* the new one, with one it is what revert() makes of it.  That is not the "previous
\* state" of mmc_updater/README.md when a file was added or deleted (RevertRestores).
EndsAsReported == ScriptIsSane /\ RevertRestores /\ SuccessInstalls /\ ErrorReported

\* However an update ends, the updater ends (with restartMainApp).
UpdaterEnds == (pc # "idle") ~> (pc = "idle")

\* "In the event of a failure during the update, the installation is rolled
\* back to its previous state" (mmc_updater/README.md), read only for lost files:
\* a failed update never leaves a path that had a file, and is not uninstalled,
\* without any file, its backup included.
NoFileLost ==
  Sane /\ Len(reports) = 2 =>
    \A p \in Paths \ Uninstalls :
      before[p] # None => disk[p] # None \/ bak[p] = before[p]

===============================================================================
