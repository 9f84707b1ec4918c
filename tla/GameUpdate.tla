------------------------------ MODULE GameUpdate ------------------------------
(* Getting an instance ready to be played: OneSixUpdate, the chain of jobs    *)
(* that the main window runs before it launches a game, with the task that    *)
(* fetches a version file and the downloads of the asset objects.             *)
(*                                                                            *)
(* The jobs for the version file, the libraries, the FML libraries and the    *)
(* asset index are taken by what NetJob and CacheDownload promise: one        *)
(* report, and after a success every file is there, but for the libraries     *)
(* that ForgeMirrors injected.  The job of the assets is modelled part by     *)
(* part, since an MD5EtagDownload promises less.                              *)
EXTENDS Naturals, FiniteSets, Sequences

CONSTANTS
  Libs,          \* the version's jar and the libraries of the profile
  ForgeLibs,     \* those of them that come from a Forge mirror
  FmlLibs,       \* files that an old Forge wants inside the instance
  JarMods,       \* the possible lists of jar mods of the instance
  NoMods,        \* the empty one
  Names,         \* the assets named in the index
  Objects,       \* the files they are kept in, called by their hash
  ObjectOf,      \* a name's hash; several names may have one
  MaxParallel,   \* NetJob's limit of parts that run at a time
  MaxFailures,   \* NetJob's limit of retries
  MaxUpdates,    \* bounds the updates of a behaviour
  MaxCuts        \* bounds the writes that the disk refuses

ASSUME GameUpdateAssumption ==
  /\ ForgeLibs \subseteq Libs
  /\ NoMods \in JarMods
  /\ ObjectOf \in [Names -> Objects]
  /\ MaxParallel \in Nat \ {0}
  /\ {MaxFailures, MaxUpdates, MaxCuts} \subseteq Nat

VARIABLES
  task,            \* OneSixUpdate: the job it waits for, m_running, its reports
  game,            \* is the game running, after a successful update?
  versionCurrent,  \* ~needsUpdate() of the version
  libs,            \* the libraries that are there, with a fresh entry
  late,            \* injected downloads that outlived the success of their job
  mods,            \* the jar mods of the profile
  jar,             \* what the instance's minecraft.jar is built of
  fml,             \* the FML libraries inside the instance
  index,           \* the asset index: its file, and is its entry fresh?
  object,          \* the files of the assets
  part,            \* the parts of the running job of assets
  cut,             \* history: objects an unnoticed write error hit in this update
  updates, cuts    \* updates started, and write errors so far

assetVars == <<object, part, cut, cuts>>
fileVars == <<versionCurrent, libs, late, jar, fml, index, object, cut>>
userVars == <<mods, updates>>
vars == <<task, game, versionCurrent, libs, late, mods, jar, fml, index,
          object, part, cut, updates, cuts>>

(* "part" is a file cut off by the end of the program, "short" one whose size *)
(* is not the index's (an empty one included).                                *)
JarStates == JarMods \cup {"none", "part"}
ObjectStates == {"none", "short", "whole"}

NoPart == [state |-> "none", tries |-> 0, failed |-> FALSE, etag |-> "none"]
Parts == [state : {"none", "todo", "doing", "done", "failed"},
          tries : 0..MaxFailures + 1, failed : BOOLEAN, etag : ObjectStates]

(* A new update, with its version file as the first thing it waits for.       *)
NewTask == [phase |-> "version", running |-> TRUE, reports |-> <<>>]
NoTask == [phase |-> "idle", running |-> FALSE, reports |-> <<>>]

Init ==
  /\ task = NoTask
  /\ game = FALSE
  /\ versionCurrent \in BOOLEAN
  /\ libs = {} /\ late = {} /\ fml = {}
  /\ mods = NoMods
  /\ jar = "none"
  /\ index = [file |-> "none", fresh |-> FALSE]
  /\ object = [o \in Objects |-> "none"]
  /\ part = [n \in Names |-> NoPart]
  /\ cut = {}
  /\ updates = 0 /\ cuts = 0

-----------------------------------------------------------------------------
(* Task's reports, and what the main window does with them.                   *)

emitFailed(t) ==
  [t EXCEPT !.running = FALSE, !.reports = Append(@, "failed")]

(* The code's comment: "Don't succeed twice."                                 *)
emitSucceeded(t) ==
  IF t.running
  THEN [t EXCEPT !.running = FALSE, !.reports = Append(@, "succeeded")]
  ELSE t

Reported(t, result) == \E i \in DOMAIN t.reports : t.reports[i] = result

(* The dialog is closed by the report and the task dropped.  succeeded() has  *)
(* run launchInstance, which starts the game unless the profile does not load.*)
Ends(t) ==
  /\ task' = [t EXCEPT !.phase = "idle"]
  /\ IF Reported(t, "succeeded") THEN game' \in BOOLEAN ELSE UNCHANGED game

Fails(t) == Ends(emitFailed(t))

WaitsFor(t, phase) ==
  /\ task' = [t EXCEPT !.phase = phase]
  /\ UNCHANGED game

-----------------------------------------------------------------------------
(* The steps of the chain.  Each is entered from the end of the one before.   *)

assetIndexStart(t) == WaitsFor(t, "index")

fmllibsStart(t) ==
  IF FmlLibs \subseteq fml THEN assetIndexStart(t) ELSE WaitsFor(t, "fml")

(* The profile does not load, or a local library is missing; else a job for   *)
(* the jar and every library without a fresh entry.                           *)
jarlibStart(t) == Fails(t) \/ WaitsFor(t, "jarlib")

(* MainWindow::updateInstance, ProgressDialog::exec, executeTask.             *)
executeTask ==
  /\ task.phase = "idle" /\ ~game
  /\ updates < MaxUpdates
  /\ updates' = updates + 1
  /\ cut' = {}
  /\ part' = [n \in Names |-> NoPart]
  /\ \/ Fails(NewTask)                    \* no folder, or no such version
     \/ ~versionCurrent /\ WaitsFor(NewTask, "version")
     \/ versionCurrent /\ jarlibStart(NewTask)
  /\ UNCHANGED <<versionCurrent, libs, late, mods, jar, fml, index, object, cuts>>

(* MCVListVersionUpdateTask::json_downloaded: a file that is not valid or     *)
(* cannot be written is a failure; else the profile that is read next may     *)
(* name libraries that are not there.                                         *)
json_downloaded ==
  /\ task.phase = "version"
  /\ \/ Fails(task) /\ UNCHANGED <<versionCurrent, libs>>
     \/ /\ versionCurrent' = TRUE
        /\ libs' \in SUBSET libs
        /\ jarlibStart(task)
  /\ UNCHANGED <<late, mods, jar, fml, index, assetVars, updates>>

(* versionUpdateFailed, jarlibFailed, fmllibsFailed, assetIndexFailed: a job  *)
(* has failed.  Files that came before the failure stay; an index that is     *)
(* fresh is not asked for, so its job does not fail.                          *)
JobFails ==
  /\ \/ task.phase \in {"version", "fml"} /\ UNCHANGED <<libs, late>>
     \/ task.phase = "index" /\ ~index.fresh /\ UNCHANGED <<libs, late>>
     \/ /\ task.phase = "jarlib"
        /\ \E got \in SUBSET Libs : libs' = libs \cup got
        /\ late' \in SUBSET (ForgeLibs \ libs')
  /\ Fails(task)
  /\ UNCHANGED <<versionCurrent, jar, fml, index, assetVars, userVars>>

(* The old jar is removed in any case, and a new one built if there are mods. *)
(* A failure of createModdedJar removes what it has made.                     *)
jarlibFinished ==
  /\ task.phase = "jarlib"
  /\ \E slow \in SUBSET (ForgeLibs \ libs) :
       /\ libs' = Libs \ slow
       /\ late' = slow
  /\ \/ jar # "none" /\ Fails(task) /\ UNCHANGED jar     \* not removed
     \/ mods # NoMods /\ jar' = "none" /\ Fails(task)    \* not built
     \/ /\ jar' = IF mods = NoMods THEN "none" ELSE mods
        /\ fmllibsStart(task)
  /\ UNCHANGED <<versionCurrent, fml, index, assetVars, userVars>>

(* The copies stop at the first that fails.                                   *)
fmllibsFinished ==
  /\ task.phase = "fml"
  /\ \E copied \in SUBSET (FmlLibs \ fml) :
       /\ fml' = fml \cup copied
       /\ IF fml' = FmlLibs THEN assetIndexStart(task) ELSE Fails(task)
  /\ UNCHANGED <<versionCurrent, libs, late, jar, index, assetVars, userVars>>

(* The objects that have to be fetched for an index.                          *)
NeededMissing == {n \in Names : object[ObjectOf[n]] = "none"}         \* mutant
Needed == {n \in Names : object[ObjectOf[n]] # "whole"}

(* The entry is fresh, or the job has fetched the file and made it so.  An    *)
(* index that cannot be read is evicted and reported, but the function goes   *)
(* on with an index without objects, up to assetsFinished.                    *)
assetIndexFinished ==
  /\ task.phase = "index"
  /\ \E file \in IF index.fresh THEN {index.file} ELSE {"good", "broken"} :
       \/ /\ file = "broken"
          /\ index' = [file |-> file, fresh |-> FALSE]
          /\ Ends(emitSucceeded(emitFailed(task)))
          /\ UNCHANGED part
       \/ /\ file = "good"
          /\ index' = [file |-> file, fresh |-> TRUE]
          /\ part' = [n \in Names |->
                        [NoPart EXCEPT !.state = IF n \in Needed THEN "todo" ELSE @]]
          /\ IF Needed = {} THEN Ends(emitSucceeded(task)) ELSE WaitsFor(task, "assets")
  /\ UNCHANGED <<versionCurrent, libs, late, jar, fml, object, cut, cuts, userVars>>

-----------------------------------------------------------------------------
(* The job of the assets: MD5EtagDownload in a NetJob.                        *)

InState(s) == {n \in Names : part[n].state = s}

(* NetJob::partFailed: again, unless it was the last attempt.                 *)
partFailedOnceMore(p) ==                                              \* mutant
  [p EXCEPT !.tries = @ + 1,
            !.state = IF p.tries > MaxFailures THEN "failed" ELSE "todo"]
partFailedForever(p) == [p EXCEPT !.state = "todo"]                   \* mutant
partFailed(p) ==
  [p EXCEPT !.tries = @ + 1,
            !.state = IF p.tries = MaxFailures THEN "failed" ELSE "todo"]

(* start(): the md5 of what is there is sent as the etag, and the file is     *)
(* truncated before the request is; or the file cannot be opened.             *)
StartAsset(n) ==
  /\ task.phase = "assets"
  /\ part[n].state = "todo"
  /\ Cardinality(InState("doing")) < MaxParallel
  /\ \/ /\ part' = [part EXCEPT ![n] = partFailed(@)]
        /\ UNCHANGED object
     \/ /\ part' = [part EXCEPT ![n].state = "doing", ![n].etag = object[ObjectOf[n]]]
        /\ object' = [object EXCEPT ![ObjectOf[n]] = "short"]
  /\ UNCHANGED <<task, game, versionCurrent, libs, late, jar, fml, index, cut, cuts, userVars>>

(* downloadFinished of a reply without an error.  m_status is never reset: a  *)
(* part that has once failed fails, and removes the file.                     *)
Finished(n, content) ==
  IF part[n].failed
  THEN /\ part' = [part EXCEPT ![n] = partFailed(@)]
       /\ object' = [object EXCEPT ![ObjectOf[n]] = "none"]
  ELSE /\ part' = [part EXCEPT ![n].state = "done"]
       /\ object' = [object EXCEPT ![ObjectOf[n]] = content]

(* The server has the object (200), or answers that the etag is its own (304),*)
(* and there is nothing to write.  The result of write() is not looked at.    *)
AssetArrives(n) ==
  /\ task.phase = "assets"
  /\ part[n].state = "doing"
  /\ \/ /\ part[n].etag = "whole"
        /\ Finished(n, object[ObjectOf[n]])
        /\ UNCHANGED <<cut, cuts>>
     \/ /\ part[n].etag # "whole"
        /\ Finished(n, "whole")
        /\ UNCHANGED <<cut, cuts>>
     \/ /\ part[n].etag # "whole"
        /\ cuts < MaxCuts
        /\ cuts' = cuts + 1
        /\ cut' = cut \cup {ObjectOf[n]}
        /\ Finished(n, "short")
  /\ UNCHANGED <<task, game, versionCurrent, libs, late, jar, fml, index, userVars>>

(* downloadError and downloadFinished: the file is removed.                   *)
AssetError(n) ==
  /\ task.phase = "assets"
  /\ part[n].state = "doing"
  /\ part' = [part EXCEPT ![n] = partFailed([@ EXCEPT !.failed = TRUE])]
  /\ object' = [object EXCEPT ![ObjectOf[n]] = "none"]
  /\ UNCHANGED <<task, game, versionCurrent, libs, late, jar, fml, index, cut, cuts, userVars>>

(* The job reports: assetsFinished or assetsFailed.                           *)
AssetsJobEnds ==
  /\ task.phase = "assets"
  /\ InState("todo") \cup InState("doing") = {}
  /\ IF InState("failed") = {} THEN Ends(emitSucceeded(task)) ELSE Fails(task)
  /\ UNCHANGED <<versionCurrent, libs, late, jar, fml, index, assetVars, userVars>>

-----------------------------------------------------------------------------
(* What else happens.                                                         *)

(* An injected library arrives after its job has reported.                    *)
LateLibrary ==
  /\ \E l \in late :
       /\ late' = late \ {l}
       /\ libs' = libs \cup {l}
  /\ UNCHANGED <<task, game, versionCurrent, jar, fml, index, assetVars, userVars>>

(* Between updates the user changes the jar mods, the game ends, and the list *)
(* of versions learns of a newer version file.                                *)
ChangeJarMods ==
  /\ task.phase = "idle" /\ ~game
  /\ mods' \in JarMods \ {mods}
  /\ UNCHANGED <<task, game, versionCurrent, libs, late, jar, fml, index, assetVars, updates>>

GameEnds ==
  /\ game
  /\ game' = FALSE
  /\ UNCHANGED <<task, versionCurrent, libs, late, jar, fml, index, assetVars, userVars>>

NewVersionFile ==
  /\ task.phase = "idle" /\ ~game
  /\ versionCurrent
  /\ versionCurrent' = FALSE
  /\ UNCHANGED <<task, game, libs, late, jar, fml, index, assetVars, userVars>>

(* The program dies in the middle of an update and is started again.  The     *)
(* index on disk of the cache may not know yet that an entry was evicted; a   *)
(* jar that was being built is left as it is.                                 *)
Crash ==
  /\ task.phase # "idle"
  /\ task' = NoTask
  /\ late' = {}
  /\ part' = [n \in Names |-> NoPart]
  /\ \/ UNCHANGED index
     \/ index.file # "none" /\ index' = [index EXCEPT !.fresh = TRUE]
  /\ \/ UNCHANGED jar
     \/ task.phase = "jarlib" /\ mods # NoMods /\ jar' = "part"
  /\ UNCHANGED <<game, versionCurrent, libs, fml, object, cut, cuts, userVars>>

Next ==
  \/ executeTask \/ json_downloaded \/ JobFails \/ jarlibFinished
  \/ fmllibsFinished \/ assetIndexFinished
  \/ \E n \in Names : StartAsset(n) \/ AssetArrives(n) \/ AssetError(n)
  \/ AssetsJobEnds
  \/ LateLibrary \/ ChangeJarMods \/ GameEnds \/ NewVersionFile \/ Crash

Spec == Init /\ [][Next]_vars

(* Jobs report (NetJob!JobFinishes) and replies end.                          *)
TaskStep ==
  \/ json_downloaded \/ JobFails \/ jarlibFinished
  \/ fmllibsFinished \/ assetIndexFinished
  \/ \E n \in Names : StartAsset(n) \/ AssetArrives(n) \/ AssetError(n)
  \/ AssetsJobEnds
FairSpec == Spec /\ WF_vars(TaskStep)

-----------------------------------------------------------------------------
(* Every value is of its kind, no asset is tried more often than NetJob       *)
(* allows, and a part waits or runs only during the job of the assets.        *)
TypeOK ==
  /\ task \in [phase : {"idle", "version", "jarlib", "fml", "index", "assets"},
               running : BOOLEAN, reports : Seq({"failed", "succeeded"})]
  /\ {game, versionCurrent} \subseteq BOOLEAN
  /\ libs \subseteq Libs /\ late \subseteq ForgeLibs
  /\ mods \in JarMods /\ jar \in JarStates
  /\ fml \subseteq FmlLibs
  /\ index \in [file : {"none", "good", "broken"}, fresh : BOOLEAN]
  /\ object \in [Objects -> ObjectStates]
  /\ part \in [Names -> Parts]
  /\ cut \subseteq Objects
  /\ updates \in 0..MaxUpdates /\ cuts \in 0..MaxCuts
  /\ task.phase # "assets" => InState("todo") \cup InState("doing") = {}

Shared(o) == \E m, n \in Names : m # n /\ ObjectOf[m] = o /\ ObjectOf[n] = o

(* A game that runs after an update has all its files, whatever earlier       *)
(* updates have left behind: every library that was queued, a jar made of the *)
(* present jar mods, the FML libraries, and each asset with the size that the *)
(* index says, unless a write of this very update was cut short or the index  *)
(* names the object twice.  Injected libraries are not promised.              *)
GameIsReady ==
  game =>
    /\ Libs \ ForgeLibs \subseteq libs
    /\ jar = IF mods = NoMods THEN "none" ELSE mods
    /\ fml = FmlLibs
    /\ index = [file |-> "good", fresh |-> TRUE]
    /\ \A o \in {ObjectOf[n] : n \in Names} :
         object[o] = "whole" \/ o \in cut \/ Shared(o)

(* An update reports once, although assetIndexFinished goes on after it has   *)
(* reported that the index cannot be read.                                    *)
OneVerdict == Len(task.reports) <= 1

(* Every update ends, whatever fails in it.                                   *)
UpdateEnds == (task.phase # "idle") ~> (task.phase = "idle")

(* What MD5EtagDownload.cpp says of a reply without an error ("nothing went   *)
(* wrong..."): when every part has succeeded, every object is there.  The code*)
(* breaks this when two names have one object: the second download finds the  *)
(* file complete, truncates it, and is told that it has not changed.          *)
AssetsAreThere ==
  game => \A n \in Names : object[ObjectOf[n]] = "whole" \/ ObjectOf[n] \in cut
=============================================================================
