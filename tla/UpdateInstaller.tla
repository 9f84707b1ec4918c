--------------------------- MODULE UpdateInstaller ---------------------------
(***************************************************************************)
(* mmc_updater: the updater that MultiMC starts before it quits.  A first  *)
(* process (mode Setup) waits for MultiMC, runs a second one (mode Main)   *)
(* to its end and starts MultiMC again.  Main replaces the files of the    *)
(* install list, keeping each old one as <path>.bak, deletes those of the  *)
(* uninstall list and then the backups; an exception on the way leads to   *)
(* revert().                                                               *)
(*                                                                         *)
(* One step is one operation on the file system; any of them may throw,    *)
(* and Main may be killed between any two.  A file is the content it has.  *)
(* Module SelfUpdate composes this with what makes the script.             *)
(***************************************************************************)
EXTENDS GoUpdate

CONSTANTS
  Paths,      \* the paths below the install directory (a std::map orders them)
  Builds      \* the platforms: "unix", "windows"

ASSUME InstallerAssumption ==
  Paths \subseteq Nat /\ Builds \subseteq {"unix", "windows"}

VARIABLES
  build,         \* PLATFORM_UNIX or PLATFORM_WINDOWS
  script,        \* file_list.xml of the package, UpdateInstaller::m_script
  short,         \* the files of the package that are not whole
  disk,          \* the file at each path
  bak,           \* the file at <path>.bak
  m_backups,     \* the paths whose backup this run made
  pc,            \* where the updater is
  k,             \* position in the list being worked on
  todo,          \* backups that removeBackups or revert has yet to handle
  before,        \* history: the files when Main started
  failedIn,      \* history: the step that threw, or "none"
  revertFailed,  \* history: revert() itself threw
  killed,        \* history: Main was killed
  reports,       \* what the observer was told: "error", "finished"
  app            \* MultiMC: "running", "exited"

files   == <<disk, bak, m_backups>>
history == <<before, failedIn, revertFailed, killed, reports>>
input   == <<build, script, short>>
installerVars == <<input, files, pc, k, todo, history, app>>

Dest        == script.install[k]
Installs    == {script.install[i] : i \in 1..Len(script.install)}
Uninstalls  == {script.uninstall[i] : i \in 1..Len(script.uninstall)}
First(S)    == CHOOSE p \in S : \A q \in S : p <= q

At(l)       == pc = l
GoTo(l)     == pc' = l

\* Places of Main between two operations on the file system.
MainSteps == {"next", "bakRemove", "bakMove", "copy", "copying", "chmod",
              "uninstall", "removeBackups", "revert", "revMove", "report"}

NoFiles == [p \in Paths |-> None]

NoScript == [install |-> <<>>, uninstall |-> <<>>]

\* MultiMC runs, and no updater has been started.
InstallerInit ==
  /\ build \in Builds /\ script = NoScript /\ short = {}
  /\ bak = NoFiles /\ m_backups = {} /\ todo = {}
  /\ pc = "idle" /\ k = 1
  /\ before = NoFiles /\ failedIn = "none" /\ revertFailed = FALSE /\ killed = FALSE
  /\ reports = <<>>
  /\ app = "running"

-----------------------------------------------------------------------------
(* Setup *)

\* MultiMC::installUpdates ends with quit().
AppExits ==
  /\ pc \in MainSteps \cup {"wait", "access", "mainDone"}
  /\ app = "running" /\ app' = "exited"
  /\ UNCHANGED <<input, files, pc, k, todo, history>>

\* Mutant: the updater waits for what it starts itself.
MayProceed_WrongProcess == app = "running"

\* waitForProcess: waitpid of a process that is not a child returns at once.
MayProceed == build = "unix" \/ app = "exited"

WaitForApp ==
  /\ At("wait") /\ MayProceed
  /\ GoTo("access")
  /\ UNCHANGED <<input, files, k, todo, history, app>>

\* checkAccess, then Main runs as it is or elevated, which may be refused.
RunMain ==
  /\ At("access")
  /\ GoTo("next") \/ GoTo("mainDone")
  /\ before' = disk
  /\ UNCHANGED <<input, files, k, todo, failedIn, revertFailed, killed, reports, app>>

\* The main application is started again whatever the status of Main is, if that
\* was asked for; this may fail.  Then the package directory is removed.
RestartMainApp ==
  /\ At("mainDone")
  /\ GoTo("idle")
  /\ app' \in {app, "running"}
  /\ script' = NoScript /\ short' = {} /\ m_backups' = {} /\ todo' = {} /\ k' = 1
  /\ before' = NoFiles /\ failedIn' = "none" /\ revertFailed' = FALSE /\ killed' = FALSE
  /\ reports' = <<>>
  /\ UNCHANGED <<build, disk, bak>>

-----------------------------------------------------------------------------
(* Main: installFiles *)

\* Mutant: an existing file is overwritten in place.
NeedsBackup_Never == FALSE

NeedsBackup == disk[Dest] # None

MoreToInstall == k <= Len(script.install)

InstallFile ==
  /\ At("next") /\ MoreToInstall
  /\ GoTo(IF NeedsBackup THEN "bakRemove" ELSE "copy")
  /\ UNCHANGED <<input, files, k, todo, history, app>>

RemoveOldBackup ==
  /\ At("bakRemove")
  /\ bak' = [bak EXCEPT ![Dest] = None]
  /\ GoTo("bakMove")
  /\ UNCHANGED <<input, disk, m_backups, k, todo, history, app>>

\* Mutant: m_backups is not told.
Registered_Forgotten(p) == m_backups

Registered(p) == m_backups \cup {p}

MoveToBackup ==
  /\ At("bakMove")
  /\ bak' = [bak EXCEPT ![Dest] = disk[Dest]]
  /\ disk' = [disk EXCEPT ![Dest] = None]
  /\ m_backups' = Registered(Dest)
  /\ GoTo("copy")
  /\ UNCHANGED <<input, k, todo, history, app>>

\* The directory and the target are created.
OpenTarget ==
  /\ At("copy")
  /\ disk' = [disk EXCEPT ![Dest] = Partial]
  /\ GoTo("copying")
  /\ UNCHANGED <<input, bak, m_backups, k, todo, history, app>>

\* On Unix copyFile tests bad(), but a stream copy that stops early (a full
\* disk) sets failbit only, and the destructor ignores what flush reports: the
\* copy may stay partial without an exception.
CopyData ==
  /\ At("copying")
  /\ \E c \in (IF Dest \in short THEN {} ELSE {New})
               \cup (IF build = "unix" \/ Dest \in short THEN {Partial} ELSE {}) :
        disk' = [disk EXCEPT ![Dest] = c]
  /\ GoTo("chmod")
  /\ UNCHANGED <<input, bak, m_backups, k, todo, history, app>>

SetPermissions ==
  /\ At("chmod")
  /\ k' = k + 1
  /\ GoTo("next")
  /\ UNCHANGED <<input, files, todo, history, app>>

EndInstall ==
  /\ At("next") /\ ~ MoreToInstall
  /\ k' = 1
  /\ GoTo("uninstall")
  /\ UNCHANGED <<input, files, todo, history, app>>

-----------------------------------------------------------------------------
(* Main: uninstallFiles, removeBackups *)

UninstallFile ==
  /\ At("uninstall") /\ k <= Len(script.uninstall)
  /\ disk' = [disk EXCEPT ![script.uninstall[k]] = None]
  /\ k' = k + 1
  /\ UNCHANGED <<input, bak, m_backups, pc, todo, history, app>>

EndUninstall ==
  /\ At("uninstall") /\ k > Len(script.uninstall)
  /\ todo' = m_backups
  /\ GoTo("removeBackups")
  /\ UNCHANGED <<input, files, k, history, app>>

RemoveBackup ==
  /\ At("removeBackups") /\ todo # {}
  /\ bak' = [bak EXCEPT ![First(todo)] = None]
  /\ todo' = todo \ {First(todo)}
  /\ UNCHANGED <<input, disk, m_backups, pc, k, history, app>>

EndRemoveBackups ==
  /\ At("removeBackups") /\ todo = {}
  /\ GoTo("report")
  /\ UNCHANGED <<input, files, k, todo, history, app>>

-----------------------------------------------------------------------------
(* Failures *)

Installing == pc \in {"bakRemove", "bakMove", "copy", "copying", "chmod"}

\* Some operation of installFiles, uninstallFiles or removeBackups throws.
Throws ==
  /\ \/ Installing
     \/ At("uninstall") /\ k <= Len(script.uninstall) /\ disk[script.uninstall[k]] # None
     \/ At("removeBackups") /\ todo # {}
  /\ failedIn' = IF Installing THEN "install" ELSE pc
  /\ todo' = m_backups
  /\ GoTo("revert")
  /\ UNCHANGED <<input, files, k, before, revertFailed, killed, reports, app>>

\* revert() removes what was installed for the next backup ...
RevertRemove ==
  /\ At("revert") /\ todo # {}
  /\ disk' = [disk EXCEPT ![First(todo)] = None]
  /\ GoTo("revMove")
  /\ UNCHANGED <<input, bak, m_backups, k, todo, history, app>>

\* ... and moves the backup into its place.
RevertMove ==
  /\ At("revMove") /\ bak[First(todo)] # None
  /\ disk' = [disk EXCEPT ![First(todo)] = bak[First(todo)]]
  /\ bak' = [bak EXCEPT ![First(todo)] = None]
  /\ todo' = todo \ {First(todo)}
  /\ GoTo("revert")
  /\ UNCHANGED <<input, m_backups, k, history, app>>

EndRevert ==
  /\ At("revert") /\ todo = {}
  /\ GoTo("report")
  /\ UNCHANGED <<input, files, k, todo, history, app>>

\* An operation of revert() throws: it is given up.
RevertThrows ==
  /\ (At("revert") /\ todo # {}) \/ At("revMove")
  /\ revertFailed' = TRUE
  /\ GoTo("report")
  /\ UNCHANGED <<input, files, k, todo, before, failedIn, killed, reports, app>>

\* Mutant: the end is not shown after an error.
Messages_NoEnd   == IF failedIn = "none" THEN <<"finished">> ELSE <<"error">>

Messages == IF failedIn = "none" THEN <<"finished">> ELSE <<"error", "finished">>

\* updateError and updateFinished of the observer; Main ends.
Report ==
  /\ At("report")
  /\ reports' = Messages
  /\ GoTo("mainDone")
  /\ UNCHANGED <<input, files, k, todo, before, failedIn, revertFailed, killed, app>>

\* Main dies (power, a kill); runSync returns -1.
Killed ==
  /\ pc \in MainSteps
  /\ killed' = TRUE
  /\ GoTo("mainDone")
  /\ UNCHANGED <<input, files, k, todo, before, failedIn, revertFailed, reports, app>>

-----------------------------------------------------------------------------
InstallStep == InstallFile \/ RemoveOldBackup \/ MoveToBackup \/ OpenTarget
                 \/ CopyData \/ SetPermissions \/ EndInstall
CommitStep  == UninstallFile \/ EndUninstall \/ RemoveBackup \/ EndRemoveBackups
RevertStep  == RevertRemove \/ RevertMove \/ EndRevert \/ RevertThrows
UpdaterStep == WaitForApp \/ RunMain \/ InstallStep \/ CommitStep \/ RevertStep
                 \/ Throws \/ Report \/ RestartMainApp
=============================================================================
