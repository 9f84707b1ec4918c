--------------------------- MODULE GameUpdate_proofs ---------------------------
(* Proofs that an update of a game reports once and that the game it starts   *)
(* has its files, for any libraries, assets and bounds.                       *)
EXTENDS GameUpdate, TLAPS

-----------------------------------------------------------------------------
(* The parts of the type invariant, and the inductive invariant.              *)

Tasks == [phase : {"idle", "version", "jarlib", "fml", "index", "assets"},
          running : BOOLEAN, reports : Seq({"failed", "succeeded"})]

FilesTyped ==
  /\ versionCurrent \in BOOLEAN
  /\ libs \subseteq Libs /\ late \subseteq ForgeLibs
  /\ mods \in JarMods /\ jar \in JarStates
  /\ fml \subseteq FmlLibs
  /\ index \in [file : {"none", "good", "broken"}, fresh : BOOLEAN]

AssetsTyped ==
  /\ object \in [Objects -> ObjectStates]
  /\ part \in [Names -> Parts]
  /\ cut \subseteq Objects

BoundsTyped == updates \in 0..MaxUpdates /\ cuts \in 0..MaxCuts

(* No part waits or runs outside the job of the assets, and one that does has *)
(* an attempt left.                                                           *)
PartsRest ==
  \A n \in Names : part[n].state \in {"todo", "doing"} =>
                     task.phase = "assets" /\ part[n].tries <= MaxFailures

(* While an update waits for a job it has not reported, and no game runs.     *)
TaskSound ==
  /\ task \in Tasks /\ game \in BOOLEAN
  /\ Len(task.reports) <= 1
  /\ task.phase # "idle" => task.running /\ task.reports = <<>> /\ ~game

LibsReady == Libs \ ForgeLibs \subseteq libs /\ jar = IF mods = NoMods THEN "none" ELSE mods
FmlReady == fml = FmlLibs
IndexReady == index = [file |-> "good", fresh |-> TRUE]

(* What the chain has made before the step it is in.                          *)
ChainSound ==
  /\ task.phase \in {"fml", "index", "assets"} \/ game => LibsReady
  /\ task.phase \in {"index", "assets"} \/ game => FmlReady
  /\ task.phase = "assets" \/ game => IndexReady

(* An object of its own is whole, or a write error has hit it, or its part is *)
(* not through; and a part never asks with the etag of a whole object.        *)
AssetSound(n) ==
  \/ Shared(ObjectOf[n])
  \/ /\ \/ object[ObjectOf[n]] = "whole" \/ ObjectOf[n] \in cut
        \/ part[n].state \in {"todo", "doing", "failed"}
     /\ part[n].state = "todo" => object[ObjectOf[n]] # "whole"
     /\ part[n].state = "doing" => part[n].etag # "whole"

AssetsSound == task.phase = "assets" => \A n \in Names : AssetSound(n)

ObjectsReady ==
  \A n \in Names :
    object[ObjectOf[n]] = "whole" \/ ObjectOf[n] \in cut \/ Shared(ObjectOf[n])

IInv ==
  /\ TaskSound /\ FilesTyped /\ AssetsTyped /\ BoundsTyped /\ PartsRest
  /\ ChainSound /\ AssetsSound
  /\ game => ObjectsReady

-----------------------------------------------------------------------------
(* The ends and the steps of the chain.                                       *)

(* A report of a task that has none is its only one.                          *)
LEMMA OneReport ==
  ASSUME NEW t \in Tasks, t.reports = <<>>, NEW s \in {"failed", "succeeded"}
  PROVE  LET u == [t EXCEPT !.running = FALSE, !.reports = Append(@, s)]
         IN  /\ u \in Tasks /\ u.reports = <<s>>
             /\ [u EXCEPT !.phase = "idle"] \in Tasks
             /\ [u EXCEPT !.phase = "idle"].reports = <<s>>
             /\ [u EXCEPT !.phase = "idle"].phase = "idle"
<1> DEFINE u == [t EXCEPT !.running = FALSE, !.reports = Append(@, s)]
           v == [u EXCEPT !.phase = "idle"]
<1>1. <<s>> \in Seq({"failed", "succeeded"}) /\ Append(<<>>, s) = <<s>>
  OBVIOUS
<1>2. u = [t EXCEPT !.running = FALSE, !.reports = <<s>>]
  BY <1>1
<1>3. u \in Tasks /\ u.reports = <<s>>
  <2> HIDE DEF u
  <2> QED BY <1>1, <1>2 DEF Tasks
<1>4. v \in Tasks /\ v.reports = <<s>> /\ v.phase = "idle"
  <2> HIDE DEF u
  <2> QED BY <1>3 DEF Tasks
<1> QED BY <1>3, <1>4

(* emitFailed and then the end of the task: one report, and no game.          *)
LEMMA FailureIsSound ==
  ASSUME NEW t \in Tasks, t.reports = <<>>, game \in BOOLEAN, ~game, Fails(t)
  PROVE  TaskSound' /\ task'.phase = "idle" /\ ~game'
<1> DEFINE u == emitFailed(t)
<1>1. /\ u.reports = <<"failed">>
      /\ [u EXCEPT !.phase = "idle"] \in Tasks
      /\ [u EXCEPT !.phase = "idle"].reports = <<"failed">>
      /\ [u EXCEPT !.phase = "idle"].phase = "idle"
  BY OneReport DEF emitFailed
<1>2. ~ Reported(u, "succeeded")
  BY <1>1 DEF Reported
<1>3. task' = [u EXCEPT !.phase = "idle"] /\ game' = game
  BY <1>2 DEF Fails, Ends
<1>4. task' \in Tasks /\ task'.phase = "idle" /\ task'.reports = <<"failed">>
  <2> HIDE DEF u
  <2> QED BY <1>1, <1>3
<1>5. game' \in BOOLEAN /\ ~game' /\ Len(<<"failed">>) <= 1
  BY <1>3
<1> QED BY <1>4, <1>5 DEF TaskSound

(* emitSucceeded and then the end of the task: one report, and maybe a game.  *)
LEMMA SuccessIsSound ==
  ASSUME NEW t \in Tasks, t.running, t.reports = <<>>, game \in BOOLEAN,
         Ends(emitSucceeded(t))
  PROVE  TaskSound' /\ task'.phase = "idle"
<1> DEFINE u == emitSucceeded(t)
<1>1. u = [t EXCEPT !.running = FALSE, !.reports = Append(@, "succeeded")]
  BY DEF emitSucceeded
<1>2. /\ [u EXCEPT !.phase = "idle"] \in Tasks
      /\ [u EXCEPT !.phase = "idle"].reports = <<"succeeded">>
      /\ [u EXCEPT !.phase = "idle"].phase = "idle"
  BY <1>1, OneReport
<1>3. task' = [u EXCEPT !.phase = "idle"]
  BY DEF Ends
<1>4. game' \in BOOLEAN
  BY DEF Ends
<1>5. task' \in Tasks /\ task'.phase = "idle" /\ task'.reports = <<"succeeded">>
  <2> HIDE DEF u
  <2> QED BY <1>2, <1>3
<1>6. Len(<<"succeeded">>) <= 1
  OBVIOUS
<1> QED BY <1>4, <1>5, <1>6 DEF TaskSound

(* A success after a failure is no report: "Don't succeed twice."             *)
LEMMA NoSecondVerdict ==
  ASSUME NEW t \in Tasks, Ends(emitSucceeded(emitFailed(t)))
  PROVE  Fails(t)
<1>1. emitFailed(t).running = FALSE
  BY DEF emitFailed, Tasks
<1>2. emitSucceeded(emitFailed(t)) = emitFailed(t)
  BY <1>1 DEF emitSucceeded
<1> QED BY <1>2 DEF Fails

(* A step that waits for the next job has not reported.                       *)
LEMMA WaitIsSound ==
  ASSUME NEW t \in Tasks, t.running, t.reports = <<>>, game \in BOOLEAN, ~game,
         NEW phase \in {"version", "jarlib", "fml", "index", "assets"}, WaitsFor(t, phase)
  PROVE  TaskSound' /\ task'.phase = phase /\ ~game'
<1>1. task' = [t EXCEPT !.phase = phase] /\ game' = game
  BY DEF WaitsFor
<1>2. task' \in Tasks /\ task'.phase = phase /\ task'.running /\ task'.reports = <<>>
  BY <1>1 DEF Tasks
<1> QED BY <1>1, <1>2 DEF TaskSound

(* jarlibStart fails or waits for its job.                                    *)
LEMMA JarlibStartIsSound ==
  ASSUME NEW t \in Tasks, t.running, t.reports = <<>>, game \in BOOLEAN, ~game, jarlibStart(t)
  PROVE  TaskSound' /\ task'.phase \in {"idle", "jarlib"} /\ ~game'
BY FailureIsSound, WaitIsSound DEF jarlibStart

(* The new task of executeTask.                                               *)
LEMMA NewTaskTyped == NewTask \in Tasks /\ NewTask.running /\ NewTask.reports = <<>>
<1>1. <<>> \in Seq({"failed", "succeeded"})
  OBVIOUS
<1> QED BY <1>1 DEF NewTask, Tasks

(* A part that is tried again has an attempt left.                            *)
LEMMA PartFailedTyped ==
  ASSUME GameUpdateAssumption, NEW p \in Parts, p.tries <= MaxFailures
  PROVE  /\ partFailed(p) \in Parts
         /\ partFailed(p).state \in {"todo", "failed"}
         /\ partFailed(p).state = "todo" => partFailed(p).tries <= MaxFailures
<1>1. MaxFailures \in Nat /\ p.tries \in 0..MaxFailures
  BY DEF GameUpdateAssumption, Parts
<1>2. p.tries + 1 \in 0..MaxFailures + 1
  BY <1>1
<1>3. CASE p.tries = MaxFailures
  <2>1. partFailed(p) = [p EXCEPT !.tries = p.tries + 1, !.state = "failed"]
    BY <1>3 DEF partFailed
  <2> QED BY <1>2, <2>1 DEF Parts
<1>4. CASE p.tries # MaxFailures
  <2>1. partFailed(p) = [p EXCEPT !.tries = p.tries + 1, !.state = "todo"]
    BY <1>4 DEF partFailed
  <2>2. p.tries + 1 <= MaxFailures
    BY <1>1, <1>4
  <2> QED BY <1>2, <2>1, <2>2 DEF Parts
<1> QED BY <1>3, <1>4

-----------------------------------------------------------------------------
(* The steps that leave the assets alone, and those of one asset.             *)

(* Outside the job of the assets nothing is claimed of its parts; and what    *)
(* leaves files and phase as they are leaves the claims as they are.          *)
LEMMA AssetsKept ==
  ASSUME IInv, UNCHANGED assetVars,
         \/ task'.phase = task.phase
         \/ task.phase # "assets" /\ task'.phase # "assets"
  PROVE  AssetsTyped' /\ PartsRest' /\ AssetsSound' /\ (ObjectsReady => ObjectsReady')
<1> USE DEF assetVars
<1>1. AssetsTyped'
  BY DEF IInv, AssetsTyped
<1>2. PartsRest'
  BY DEF IInv, PartsRest
<1>3. AssetsSound'
  BY DEF IInv, AssetsSound, AssetSound, Shared
<1>4. ObjectsReady => ObjectsReady'
  BY DEF ObjectsReady, Shared
<1> QED BY <1>1, <1>2, <1>3, <1>4

(* One part and its object change.                                            *)
LEMMA OneAsset ==
  ASSUME GameUpdateAssumption, IInv, task.phase = "assets",
         NEW n \in Names, NEW p \in Parts, NEW content \in ObjectStates,
         part' = [part EXCEPT ![n] = p],
         object' = [object EXCEPT ![ObjectOf[n]] = content],
         p.state \in {"todo", "doing"} => p.tries <= MaxFailures,
         UNCHANGED <<task, game, versionCurrent, libs, late, jar, fml, index, userVars>>,
         cut \subseteq cut', cut' \subseteq Objects, cuts' \in 0..MaxCuts,
         \/ Shared(ObjectOf[n])
         \/ /\ content = "whole" \/ ObjectOf[n] \in cut' \/ p.state \in {"todo", "doing", "failed"}
            /\ p.state = "todo" => content # "whole"
            /\ p.state = "doing" => p.etag # "whole"
  PROVE  IInv'
<1>1. TaskSound' /\ FilesTyped' /\ BoundsTyped' /\ ChainSound'
  <2>1. TaskSound' BY DEF IInv, TaskSound
  <2>2. FilesTyped' BY DEF IInv, FilesTyped, userVars
  <2>3. BoundsTyped' BY DEF IInv, BoundsTyped, userVars
  <2>4. ChainSound' BY DEF IInv, ChainSound, LibsReady, FmlReady, IndexReady, userVars
  <2> QED BY <2>1, <2>2, <2>3, <2>4
<1>2. ObjectOf \in [Names -> Objects]
  BY DEF GameUpdateAssumption
<1>3. AssetsTyped'
  BY <1>2 DEF IInv, AssetsTyped
<1>4. part'[n] = p /\ object'[ObjectOf[n]] = content
  BY <1>2 DEF IInv, AssetsTyped
<1>5. \A m \in Names \ {n} : part'[m] = part[m]
  BY DEF IInv, AssetsTyped
<1>6. PartsRest'
  BY <1>4, <1>5 DEF IInv, PartsRest
<1>7. ASSUME NEW m \in Names PROVE AssetSound(m)'
  <2>1. CASE m = n
    BY <2>1, <1>4 DEF AssetSound, Shared
  <2>2. CASE m # n /\ ObjectOf[m] = ObjectOf[n]
    BY <2>2 DEF AssetSound, Shared
  <2>3. CASE m # n /\ ObjectOf[m] # ObjectOf[n]
    <3>1. object'[ObjectOf[m]] = object[ObjectOf[m]] /\ part'[m] = part[m]
      BY <2>3, <1>2, <1>5 DEF IInv, AssetsTyped
    <3>2. AssetSound(m)
      BY DEF IInv, AssetsSound
    <3> QED BY <3>1, <3>2 DEF AssetSound, Shared
  <2> QED BY <2>1, <2>2, <2>3
<1>8. AssetsSound'
  BY <1>7 DEF AssetsSound
<1>9. ~game'
  BY DEF IInv, TaskSound
<1> QED BY <1>1, <1>3, <1>6, <1>8, <1>9 DEF IInv

(* StartAsset keeps the invariant.                                            *)
LEMMA StartAssetStep ==
  ASSUME GameUpdateAssumption, IInv, NEW n \in Names, StartAsset(n)
  PROVE  IInv'
<1> DEFINE o == ObjectOf[n]
<1>1. task.phase = "assets" /\ part[n].state = "todo" /\ part[n] \in Parts
      /\ part[n].tries <= MaxFailures
  BY DEF StartAsset, IInv, AssetsTyped, PartsRest
<1>2. o \in Objects /\ object[o] \in ObjectStates
  BY DEF GameUpdateAssumption, IInv, AssetsTyped
<1>3. AssetSound(n)
  BY <1>1 DEF IInv, AssetsSound
<1>4. cut \subseteq Objects /\ cuts \in 0..MaxCuts
  BY DEF IInv, AssetsTyped, BoundsTyped
<1>5. CASE part' = [part EXCEPT ![n] = partFailed(@)] /\ UNCHANGED object
  <2>1. object' = [object EXCEPT ![o] = object[o]]
    BY <1>5, <1>2 DEF IInv, AssetsTyped
  <2>2. part' = [part EXCEPT ![n] = partFailed(part[n])]
    BY <1>5 DEF IInv, AssetsTyped
  <2>3. \/ Shared(o)
        \/ object[o] # "whole"
    BY <1>1, <1>3 DEF AssetSound
  <2>4. /\ partFailed(part[n]) \in Parts
        /\ partFailed(part[n]).state \in {"todo", "failed"}
        /\ partFailed(part[n]).state = "todo" => partFailed(part[n]).tries <= MaxFailures
    BY <1>1, PartFailedTyped
  <2> HIDE DEF o
  <2>5. UNCHANGED <<task, game, versionCurrent, libs, late, jar, fml, index, cut, cuts, userVars>>
    BY DEF StartAsset
  <2> QED BY <1>1, <1>2, <1>4, <2>1, <2>2, <2>3, <2>4, <2>5, OneAsset DEF o
<1>6. CASE /\ part' = [part EXCEPT ![n].state = "doing", ![n].etag = object[ObjectOf[n]]]
           /\ object' = [object EXCEPT ![ObjectOf[n]] = "short"]
  <2> DEFINE p == [part[n] EXCEPT !.state = "doing", !.etag = object[o]]
  <2>1. part' = [part EXCEPT ![n] = p]
    BY <1>6 DEF IInv, AssetsTyped
  <2>2. p \in Parts /\ p.state = "doing" /\ p.etag = object[o] /\ p.tries = part[n].tries
    BY <1>1, <1>2 DEF Parts
  <2>3. Shared(o) \/ p.etag # "whole"
    BY <1>1, <1>3, <2>2 DEF AssetSound
  <2>4. "short" \in ObjectStates
    BY DEF ObjectStates
  <2>5. UNCHANGED <<task, game, versionCurrent, libs, late, jar, fml, index, cut, cuts, userVars>>
    BY DEF StartAsset
  <2> HIDE DEF p
  <2> QED BY <1>1, <1>4, <1>6, <2>1, <2>2, <2>3, <2>4, <2>5, OneAsset
<1> QED BY <1>5, <1>6 DEF StartAsset

(* downloadFinished, with whatever is in the file after the reply.            *)
LEMMA FinishedStep ==
  ASSUME GameUpdateAssumption, IInv, NEW n \in Names, NEW content \in ObjectStates,
         task.phase = "assets", part[n].state = "doing", Finished(n, content),
         UNCHANGED <<task, game, versionCurrent, libs, late, jar, fml, index, userVars>>,
         cut \subseteq cut', cut' \subseteq Objects, cuts' \in 0..MaxCuts,
         content = "whole" \/ ObjectOf[n] \in cut' \/ Shared(ObjectOf[n])
  PROVE  IInv'
<1>1. part[n] \in Parts /\ part[n].tries <= MaxFailures
  BY DEF IInv, AssetsTyped, PartsRest
<1>2. CASE part[n].failed
  <2>1. /\ part' = [part EXCEPT ![n] = partFailed(part[n])]
        /\ object' = [object EXCEPT ![ObjectOf[n]] = "none"]
    BY <1>2 DEF Finished, IInv, AssetsTyped
  <2>2. /\ partFailed(part[n]) \in Parts
        /\ partFailed(part[n]).state \in {"todo", "failed"}
        /\ partFailed(part[n]).state = "todo" => partFailed(part[n]).tries <= MaxFailures
    BY <1>1, PartFailedTyped
  <2>3. "none" \in ObjectStates
    BY DEF ObjectStates
  <2> QED BY <2>1, <2>2, <2>3, OneAsset
<1>3. CASE ~ part[n].failed
  <2> DEFINE p == [part[n] EXCEPT !.state = "done"]
  <2>1. part' = [part EXCEPT ![n] = p] /\ object' = [object EXCEPT ![ObjectOf[n]] = content]
    BY <1>3 DEF Finished, IInv, AssetsTyped
  <2>2. p \in Parts /\ p.state = "done"
    BY <1>1 DEF Parts
  <2> HIDE DEF p
  <2> QED BY <2>1, <2>2, OneAsset
<1> QED BY <1>2, <1>3

(* AssetArrives keeps the invariant: a part whose object is its own was not   *)
(* asked for with the etag of a whole one.                                    *)
LEMMA AssetArrivesStep ==
  ASSUME GameUpdateAssumption, IInv, NEW n \in Names, AssetArrives(n)
  PROVE  IInv'
<1>1. task.phase = "assets" /\ part[n].state = "doing"
  BY DEF AssetArrives
<1>2. ObjectOf[n] \in Objects /\ object[ObjectOf[n]] \in ObjectStates
  BY DEF GameUpdateAssumption, IInv, AssetsTyped
<1>3. UNCHANGED <<task, game, versionCurrent, libs, late, jar, fml, index, userVars>>
  BY DEF AssetArrives
<1>4. cut \subseteq Objects /\ cuts \in 0..MaxCuts /\ MaxCuts \in Nat
  BY DEF GameUpdateAssumption, IInv, AssetsTyped, BoundsTyped
<1>5. {"short", "whole"} \subseteq ObjectStates
  BY DEF ObjectStates
<1>6. CASE part[n].etag = "whole" /\ Finished(n, object[ObjectOf[n]]) /\ UNCHANGED <<cut, cuts>>
  <2>1. Shared(ObjectOf[n])
    BY <1>1, <1>6 DEF IInv, AssetsSound, AssetSound
  <2> QED BY <1>1, <1>2, <1>3, <1>4, <1>6, <2>1, FinishedStep
<1>7. CASE Finished(n, "whole") /\ UNCHANGED <<cut, cuts>>
  BY <1>1, <1>3, <1>4, <1>5, <1>7, FinishedStep
<1>8. CASE /\ cuts < MaxCuts /\ cuts' = cuts + 1
           /\ cut' = cut \cup {ObjectOf[n]} /\ Finished(n, "short")
  <2>1. cuts' \in 0..MaxCuts /\ cut \subseteq cut' /\ cut' \subseteq Objects /\ ObjectOf[n] \in cut'
    BY <1>2, <1>4, <1>8
  <2> QED BY <1>1, <1>3, <1>5, <1>8, <2>1, FinishedStep
<1> QED BY <1>6, <1>7, <1>8 DEF AssetArrives

(* AssetError keeps the invariant.                                            *)
LEMMA AssetErrorStep ==
  ASSUME GameUpdateAssumption, IInv, NEW n \in Names, AssetError(n)
  PROVE  IInv'
<1> DEFINE p == [part[n] EXCEPT !.failed = TRUE]
<1>1. task.phase = "assets" /\ part[n] \in Parts /\ part[n].tries <= MaxFailures
  BY DEF AssetError, IInv, AssetsTyped, PartsRest
<1>2. p \in Parts /\ p.tries <= MaxFailures
  BY <1>1 DEF Parts
<1>3. /\ part' = [part EXCEPT ![n] = partFailed(p)]
      /\ object' = [object EXCEPT ![ObjectOf[n]] = "none"]
  BY DEF AssetError, IInv, AssetsTyped
<1> HIDE DEF p
<1>4. /\ partFailed(p) \in Parts
      /\ partFailed(p).state \in {"todo", "failed"}
      /\ partFailed(p).state = "todo" => partFailed(p).tries <= MaxFailures
  BY <1>2, PartFailedTyped
<1>5. "none" \in ObjectStates /\ cut \subseteq Objects /\ cuts \in 0..MaxCuts
  BY DEF ObjectStates, IInv, AssetsTyped, BoundsTyped
<1>6. UNCHANGED <<task, game, versionCurrent, libs, late, jar, fml, index, cut, cuts, userVars>>
  BY DEF AssetError
<1> QED BY <1>1, <1>3, <1>4, <1>5, <1>6, OneAsset

-----------------------------------------------------------------------------
(* The steps of the chain.                                                    *)

(* Before any report the task of an update is what the lemmas above ask for.  *)
LEMMA TaskRuns ==
  ASSUME IInv, task.phase # "idle"
  PROVE  task \in Tasks /\ task.running /\ task.reports = <<>> /\ game \in BOOLEAN /\ ~game
BY DEF IInv, TaskSound

(* executeTask keeps the invariant.                                           *)
LEMMA ExecuteTaskStep ==
  ASSUME GameUpdateAssumption, IInv, executeTask
  PROVE  IInv'
<1>1. game \in BOOLEAN /\ ~game
  BY DEF executeTask, IInv, TaskSound
<1>2. TaskSound' /\ task'.phase \in {"idle", "version", "jarlib"} /\ ~game'
  <2>1. CASE Fails(NewTask)
    BY <1>1, <2>1, NewTaskTyped, FailureIsSound
  <2>2. CASE WaitsFor(NewTask, "version")
    BY <1>1, <2>2, NewTaskTyped, WaitIsSound
  <2>3. CASE jarlibStart(NewTask)
    BY <1>1, <2>3, NewTaskTyped, JarlibStartIsSound
  <2> QED BY <2>1, <2>2, <2>3 DEF executeTask
<1>3. UNCHANGED <<versionCurrent, libs, late, mods, jar, fml, index, object, cuts>>
      /\ updates < MaxUpdates /\ updates' = updates + 1 /\ cut' = {}
      /\ part' = [n \in Names |-> NoPart]
  BY DEF executeTask
<1>4. NoPart \in Parts /\ NoPart.state = "none"
  BY DEF GameUpdateAssumption, NoPart, Parts, ObjectStates
<1>5. FilesTyped'
  BY <1>3 DEF IInv, FilesTyped
<1>6. AssetsTyped' /\ PartsRest'
  BY <1>3, <1>4 DEF IInv, AssetsTyped, PartsRest
<1>7. BoundsTyped'
  BY <1>3 DEF GameUpdateAssumption, IInv, BoundsTyped
<1>8. ChainSound' /\ AssetsSound'
  BY <1>2 DEF ChainSound, AssetsSound
<1> QED BY <1>2, <1>5, <1>6, <1>7, <1>8 DEF IInv

(* A step of the chain before the assets, from what it leaves.                *)
LEMMA ChainStep ==
  ASSUME IInv, TaskSound', FilesTyped', ChainSound', UNCHANGED <<assetVars, updates>>, ~game',
         task.phase # "assets", task'.phase # "assets"
  PROVE  IInv'
<1>1. BoundsTyped'
  BY DEF IInv, BoundsTyped, assetVars
<1>2. AssetsTyped' /\ PartsRest' /\ AssetsSound'
  BY AssetsKept DEF assetVars
<1> QED BY <1>1, <1>2 DEF IInv

(* json_downloaded keeps the invariant.                                       *)
LEMMA JsonDownloadedStep ==
  ASSUME GameUpdateAssumption, IInv, json_downloaded
  PROVE  IInv'
<1>1. task.phase = "version" /\ UNCHANGED <<late, mods, jar, fml, index, assetVars, updates>>
  BY DEF json_downloaded
<1>2. task \in Tasks /\ task.running /\ task.reports = <<>> /\ game \in BOOLEAN /\ ~game
  BY <1>1, TaskRuns
<1>3. TaskSound' /\ task'.phase \in {"idle", "jarlib"} /\ ~game'
  BY <1>2, FailureIsSound, JarlibStartIsSound DEF json_downloaded
<1>4. FilesTyped'
  <2>1. CASE Fails(task) /\ UNCHANGED <<versionCurrent, libs>>
    BY <1>1, <2>1 DEF IInv, FilesTyped
  <2>2. CASE versionCurrent' = TRUE /\ libs' \in SUBSET libs
    BY <1>1, <2>2 DEF IInv, FilesTyped
  <2> QED BY <2>1, <2>2 DEF json_downloaded
<1>5. ChainSound'
  BY <1>3 DEF ChainSound
<1> QED BY <1>1, <1>3, <1>4, <1>5, ChainStep

(* JobFails keeps the invariant.                                              *)
LEMMA JobFailsStep ==
  ASSUME GameUpdateAssumption, IInv, JobFails
  PROVE  IInv'
<1>1. task.phase \in {"version", "jarlib", "fml", "index"} /\ Fails(task)
      /\ UNCHANGED <<versionCurrent, jar, fml, index, assetVars, userVars>>
  BY DEF JobFails
<1>2. task \in Tasks /\ task.running /\ task.reports = <<>> /\ game \in BOOLEAN /\ ~game
  BY <1>1, TaskRuns
<1>3. TaskSound' /\ task'.phase = "idle" /\ ~game'
  BY <1>1, <1>2, FailureIsSound
<1>4. libs' \subseteq Libs /\ late' \subseteq ForgeLibs
  BY DEF JobFails, IInv, FilesTyped
<1>5. FilesTyped'
  BY <1>1, <1>4 DEF IInv, FilesTyped, userVars
<1>6. ChainSound'
  BY <1>3 DEF ChainSound
<1>7. UNCHANGED <<assetVars, updates>>
  BY <1>1 DEF userVars
<1> QED BY <1>1, <1>3, <1>5, <1>6, <1>7, ChainStep

(* fmllibsStart goes on with the FML libraries, or without them if they are   *)
(* there.                                                                     *)
LEMMA FmllibsStartIsSound ==
  ASSUME IInv, task.phase \in {"jarlib", "fml"}, fmllibsStart(task), UNCHANGED fml
  PROVE  /\ TaskSound' /\ task'.phase \in {"fml", "index"} /\ ~game'
         /\ task'.phase = "index" => fml = FmlLibs
<1>1. task \in Tasks /\ task.running /\ task.reports = <<>> /\ game \in BOOLEAN /\ ~game
  BY TaskRuns
<1>2. fml \subseteq FmlLibs
  BY DEF IInv, FilesTyped
<1>3. CASE FmlLibs \subseteq fml
  <2>1. WaitsFor(task, "index")
    BY <1>3 DEF fmllibsStart, assetIndexStart
  <2> QED BY <1>1, <1>2, <1>3, <2>1, WaitIsSound
<1>4. CASE ~ FmlLibs \subseteq fml
  <2>1. WaitsFor(task, "fml")
    BY <1>4 DEF fmllibsStart
  <2>2. TaskSound' /\ task'.phase = "fml" /\ ~game'
    BY <1>1, <2>1, WaitIsSound
  <2> QED BY <2>2
<1> QED BY <1>3, <1>4

(* jarlibFinished keeps the invariant: it goes on only with every library and *)
(* a jar of the present mods.                                                 *)
LEMMA JarlibFinishedStep ==
  ASSUME GameUpdateAssumption, IInv, jarlibFinished
  PROVE  IInv'
<1>1. task.phase = "jarlib" /\ UNCHANGED <<versionCurrent, fml, index, assetVars, userVars>>
  BY DEF jarlibFinished
<1>2. task \in Tasks /\ task.running /\ task.reports = <<>> /\ game \in BOOLEAN /\ ~game
  BY <1>1, TaskRuns
<1>3. libs' \subseteq Libs /\ Libs \ ForgeLibs \subseteq libs' /\ late' \subseteq ForgeLibs
  BY DEF jarlibFinished
<1>4. jar' \in JarStates
  BY DEF jarlibFinished, IInv, FilesTyped, JarStates
<1>5. FilesTyped'
  BY <1>1, <1>3, <1>4 DEF IInv, FilesTyped, userVars
<1>6. UNCHANGED <<assetVars, updates>>
  BY <1>1 DEF userVars
<1>7. CASE Fails(task)
  <2>1. TaskSound' /\ task'.phase = "idle" /\ ~game'
    BY <1>2, <1>7, FailureIsSound
  <2>2. ChainSound'
    BY <2>1 DEF ChainSound
  <2> QED BY <1>1, <1>5, <1>6, <2>1, <2>2, ChainStep
<1>8. CASE jar' = (IF mods = NoMods THEN "none" ELSE mods) /\ fmllibsStart(task)
  <2>1. /\ TaskSound' /\ task'.phase \in {"fml", "index"} /\ ~game'
        /\ task'.phase = "index" => fml = FmlLibs
    BY <1>1, <1>8, FmllibsStartIsSound
  <2>2. LibsReady'
    BY <1>1, <1>3, <1>8 DEF LibsReady, userVars
  <2>3. ChainSound'
    BY <1>1, <2>1, <2>2 DEF ChainSound, FmlReady
  <2> QED BY <1>1, <1>5, <1>6, <2>1, <2>3, ChainStep
<1> QED BY <1>7, <1>8 DEF jarlibFinished

(* fmllibsFinished keeps the invariant: it goes on only with all of them.     *)
LEMMA FmllibsFinishedStep ==
  ASSUME GameUpdateAssumption, IInv, fmllibsFinished
  PROVE  IInv'
<1>1. /\ task.phase = "fml" /\ fml' \subseteq FmlLibs
      /\ UNCHANGED <<versionCurrent, libs, late, jar, index, assetVars, userVars>>
  BY DEF fmllibsFinished, IInv, FilesTyped
<1>2. task \in Tasks /\ task.running /\ task.reports = <<>> /\ game \in BOOLEAN /\ ~game
  BY <1>1, TaskRuns
<1>3. FilesTyped'
  BY <1>1 DEF IInv, FilesTyped, userVars
<1>4. UNCHANGED <<assetVars, updates>>
  BY <1>1 DEF userVars
<1>5. CASE fml' = FmlLibs /\ WaitsFor(task, "index")
  <2>1. TaskSound' /\ task'.phase = "index" /\ ~game'
    BY <1>2, <1>5, WaitIsSound
  <2>2. ChainSound'
    BY <1>1, <1>5, <2>1 DEF ChainSound, LibsReady, FmlReady, IInv, userVars
  <2> QED BY <1>1, <1>3, <1>4, <2>1, <2>2, ChainStep
<1>6. CASE Fails(task)
  <2>1. TaskSound' /\ task'.phase = "idle" /\ ~game'
    BY <1>2, <1>6, FailureIsSound
  <2>2. ChainSound'
    BY <2>1 DEF ChainSound
  <2> QED BY <1>1, <1>3, <1>4, <2>1, <2>2, ChainStep
<1> QED BY <1>5, <1>6 DEF fmllibsFinished, assetIndexStart

(* assetIndexFinished keeps the invariant: the game is started at once only   *)
(* if no object is needed.                                                    *)
LEMMA AssetIndexFinishedStep ==
  ASSUME GameUpdateAssumption, IInv, assetIndexFinished
  PROVE  IInv'
<1>1. /\ task.phase = "index"
      /\ UNCHANGED <<versionCurrent, libs, late, jar, fml, object, cut, cuts, userVars>>
  BY DEF assetIndexFinished
<1>2. task \in Tasks /\ task.running /\ task.reports = <<>> /\ game \in BOOLEAN /\ ~game
  BY <1>1, TaskRuns
<1>3. LibsReady' /\ FmlReady'
  BY <1>1 DEF IInv, ChainSound, LibsReady, FmlReady, userVars
<1>4. BoundsTyped'
  BY <1>1 DEF IInv, BoundsTyped, userVars
<1>5. CASE /\ index' = [file |-> "broken", fresh |-> FALSE]
           /\ Ends(emitSucceeded(emitFailed(task))) /\ UNCHANGED part
  <2>1. TaskSound' /\ task'.phase = "idle" /\ ~game'
    BY <1>2, <1>5, NoSecondVerdict, FailureIsSound
  <2>2. FilesTyped'
    BY <1>1, <1>5 DEF IInv, FilesTyped, userVars
  <2>3. ChainSound'
    BY <2>1 DEF ChainSound
  <2>4. UNCHANGED <<assetVars, updates>>
    BY <1>1, <1>5 DEF assetVars, userVars
  <2> QED BY <1>1, <2>1, <2>2, <2>3, <2>4, ChainStep
<1>6. CASE /\ index' = [file |-> "good", fresh |-> TRUE]
           /\ part' = [n \in Names |-> [NoPart EXCEPT !.state = IF n \in Needed THEN "todo" ELSE @]]
           /\ IF Needed = {} THEN Ends(emitSucceeded(task)) ELSE WaitsFor(task, "assets")
  <2>1. TaskSound'
    BY <1>2, <1>6, SuccessIsSound, WaitIsSound
  <2>2. task'.phase = IF Needed = {} THEN "idle" ELSE "assets"
    BY <1>2, <1>6, SuccessIsSound, WaitIsSound
  <2>3. FilesTyped'
    BY <1>1, <1>6 DEF IInv, FilesTyped, userVars
  <2>4. ChainSound'
    BY <1>3, <1>6 DEF ChainSound, IndexReady
  <2>5. \A n \in Names : /\ part'[n] \in Parts /\ part'[n].tries = 0
                         /\ part'[n].state = IF n \in Needed THEN "todo" ELSE "none"
    <3>1. NoPart \in Parts /\ NoPart.state = "none" /\ NoPart.tries = 0
      BY DEF GameUpdateAssumption, NoPart, Parts, ObjectStates
    <3>2. ASSUME NEW n \in Names PROVE
            part'[n] = [NoPart EXCEPT !.state = IF n \in Needed THEN "todo" ELSE "none"]
      BY <1>6, <3>1
    <3>3. ASSUME NEW n \in Names
          PROVE  /\ part'[n] \in Parts /\ part'[n].tries = 0
                 /\ part'[n].state = IF n \in Needed THEN "todo" ELSE "none"
      <4> DEFINE s == IF n \in Needed THEN "todo" ELSE "none"
      <4>1. s \in {"none", "todo"} /\ part'[n] = [NoPart EXCEPT !.state = s]
        BY <3>2
      <4> HIDE DEF s
      <4>2. part'[n] \in Parts /\ part'[n].tries = 0 /\ part'[n].state = s
        BY <3>1, <4>1 DEF Parts
      <4> QED BY <4>2 DEF s
    <3> QED BY <3>3
  <2>6. AssetsTyped'
    BY <1>1, <1>6, <2>5 DEF IInv, AssetsTyped
  <2>7. PartsRest'
    <3>1. 0 <= MaxFailures
      BY DEF GameUpdateAssumption
    <3> QED BY <2>2, <2>5, <3>1 DEF PartsRest
  <2>8. AssetsSound'
    BY <1>1, <2>5 DEF AssetsSound, AssetSound, Needed
  <2>9. game' => ObjectsReady'
    <3>1. CASE Needed = {}
      BY <1>1, <3>1 DEF ObjectsReady, Needed
    <3>2. CASE Needed # {}
      <4>1. task'.phase = "assets"
        BY <2>2, <3>2
      <4> QED BY <2>1, <4>1 DEF TaskSound
    <3> QED BY <3>1, <3>2
  <2> QED BY <1>4, <2>1, <2>3, <2>4, <2>6, <2>7, <2>8, <2>9 DEF IInv
<1> QED BY <1>5, <1>6 DEF assetIndexFinished

(* AssetsJobEnds keeps the invariant: a job without failed parts has left     *)
(* every object whole, but for write errors and shared objects.               *)
LEMMA AssetsJobEndsStep ==
  ASSUME GameUpdateAssumption, IInv, AssetsJobEnds
  PROVE  IInv'
<1>1. /\ task.phase = "assets" /\ InState("todo") \cup InState("doing") = {}
      /\ UNCHANGED <<versionCurrent, libs, late, jar, fml, index, assetVars, userVars>>
  BY DEF AssetsJobEnds
<1>2. task \in Tasks /\ task.running /\ task.reports = <<>> /\ game \in BOOLEAN /\ ~game
  BY <1>1, TaskRuns
<1>3. TaskSound' /\ task'.phase = "idle" /\ (game' => InState("failed") = {})
  BY <1>2, SuccessIsSound, FailureIsSound DEF AssetsJobEnds
<1>4. FilesTyped'
  BY <1>1 DEF IInv, FilesTyped, userVars
<1>5. AssetsTyped' /\ BoundsTyped'
  BY <1>1 DEF IInv, AssetsTyped, BoundsTyped, assetVars, userVars
<1>6. PartsRest'
  BY <1>1 DEF PartsRest, InState, assetVars
<1>7. ChainSound'
  BY <1>1, <1>3 DEF IInv, ChainSound, LibsReady, FmlReady, IndexReady, userVars
<1>8. AssetsSound'
  BY <1>3 DEF AssetsSound
<1>9. ASSUME game' PROVE ObjectsReady'
  <2>1. \A n \in Names : part[n].state \notin {"todo", "doing", "failed"}
    BY <1>1, <1>3, <1>9 DEF InState
  <2>2. ObjectsReady
    BY <1>1, <2>1 DEF IInv, AssetsSound, AssetSound, ObjectsReady
  <2> QED BY <1>1, <2>2 DEF ObjectsReady, Shared, assetVars
<1> QED BY <1>3, <1>4, <1>5, <1>6, <1>7, <1>8, <1>9 DEF IInv

-----------------------------------------------------------------------------
(* What else happens.                                                         *)

(* LateLibrary keeps the invariant: libraries only come.                      *)
LEMMA LateLibraryStep ==
  ASSUME GameUpdateAssumption, IInv, LateLibrary
  PROVE  IInv'
<1>1. UNCHANGED <<task, game, versionCurrent, jar, fml, index, assetVars, userVars>>
      /\ libs \subseteq libs' /\ libs' \subseteq Libs /\ late' \subseteq ForgeLibs
  BY DEF LateLibrary, IInv, FilesTyped, GameUpdateAssumption
<1>2. TaskSound'
  BY <1>1 DEF IInv, TaskSound
<1>3. FilesTyped' /\ BoundsTyped'
  BY <1>1 DEF IInv, FilesTyped, BoundsTyped, assetVars, userVars
<1>4. ChainSound'
  BY <1>1 DEF IInv, ChainSound, LibsReady, FmlReady, IndexReady, userVars
<1>5. AssetsTyped' /\ PartsRest' /\ AssetsSound' /\ (ObjectsReady => ObjectsReady')
  BY <1>1, AssetsKept
<1> QED BY <1>1, <1>2, <1>3, <1>4, <1>5 DEF IInv

(* What happens between updates, while no game runs, keeps the invariant.     *)
LEMMA IdleStep ==
  ASSUME IInv, task.phase = "idle", UNCHANGED <<task, assetVars, updates>>, game' = FALSE, FilesTyped'
  PROVE  IInv'
<1>1. TaskSound' /\ task'.phase = "idle"
  BY DEF IInv, TaskSound
<1>2. ChainSound'
  BY <1>1 DEF ChainSound
<1> QED BY <1>1, <1>2, ChainStep

(* ChangeJarMods keeps the invariant.                                         *)
LEMMA ChangeJarModsStep ==
  ASSUME IInv, ChangeJarMods
  PROVE  IInv'
<1>1. task.phase = "idle" /\ game = FALSE /\ mods' \in JarMods
      /\ UNCHANGED <<task, game, versionCurrent, libs, late, jar, fml, index, assetVars, updates>>
  BY DEF ChangeJarMods, IInv, TaskSound
<1>2. FilesTyped'
  BY <1>1 DEF IInv, FilesTyped
<1> QED BY <1>1, <1>2, IdleStep

(* GameEnds keeps the invariant: no update runs during a game.                *)
LEMMA GameEndsStep ==
  ASSUME IInv, GameEnds
  PROVE  IInv'
<1>1. task.phase = "idle" /\ game' = FALSE
      /\ UNCHANGED <<task, versionCurrent, libs, late, jar, fml, index, assetVars, userVars>>
  BY DEF GameEnds, IInv, TaskSound
<1>2. FilesTyped' /\ UNCHANGED updates
  BY <1>1 DEF IInv, FilesTyped, userVars
<1> QED BY <1>1, <1>2, IdleStep

(* NewVersionFile keeps the invariant.                                        *)
LEMMA NewVersionFileStep ==
  ASSUME IInv, NewVersionFile
  PROVE  IInv'
<1>1. task.phase = "idle" /\ game = FALSE /\ versionCurrent' = FALSE
      /\ UNCHANGED <<task, game, libs, late, jar, fml, index, assetVars, userVars>>
  BY DEF NewVersionFile, IInv, TaskSound
<1>2. FilesTyped' /\ UNCHANGED updates
  BY <1>1 DEF IInv, FilesTyped, userVars
<1> QED BY <1>1, <1>2, IdleStep

(* Crash keeps the invariant: whatever it leaves, the next update starts at   *)
(* the beginning.                                                             *)
LEMMA CrashStep ==
  ASSUME GameUpdateAssumption, IInv, Crash
  PROVE  IInv'
<1>1. /\ task.phase # "idle" /\ task' = NoTask /\ late' = {}
      /\ part' = [n \in Names |-> NoPart]
      /\ UNCHANGED <<game, versionCurrent, libs, fml, object, cut, cuts, userVars>>
  BY DEF Crash
<1>2. ~game /\ game \in BOOLEAN
  BY <1>1, TaskRuns
<1>3. TaskSound' /\ task'.phase = "idle" /\ ~game'
  <2>1. <<>> \in Seq({"failed", "succeeded"}) /\ Len(<<>>) <= 1
    OBVIOUS
  <2>2. NoTask \in Tasks /\ NoTask.phase = "idle" /\ NoTask.reports = <<>>
    BY <2>1 DEF NoTask, Tasks
  <2> QED BY <1>1, <1>2, <2>1, <2>2 DEF TaskSound
<1>4. index' \in [file : {"none", "good", "broken"}, fresh : BOOLEAN]
  BY DEF Crash, IInv, FilesTyped
<1>5. jar' \in JarStates
  BY DEF Crash, IInv, FilesTyped, JarStates
<1>6. FilesTyped'
  BY <1>1, <1>4, <1>5 DEF IInv, FilesTyped, userVars
<1>7. NoPart \in Parts /\ NoPart.state = "none"
  BY DEF GameUpdateAssumption, NoPart, Parts, ObjectStates
<1>8. AssetsTyped' /\ PartsRest' /\ BoundsTyped'
  BY <1>1, <1>7 DEF IInv, AssetsTyped, PartsRest, BoundsTyped, userVars
<1>9. ChainSound' /\ AssetsSound'
  BY <1>3 DEF ChainSound, AssetsSound
<1> QED BY <1>3, <1>6, <1>8, <1>9 DEF IInv

-----------------------------------------------------------------------------
(* The theorems.                                                              *)

(* The inductive invariant holds of every reachable state.                    *)
THEOREM Invariance == Spec => []IInv
<1>1. ASSUME Init PROVE IInv
  <2>1. <<>> \in Seq({"failed", "succeeded"}) /\ Len(<<>>) <= 1
    OBVIOUS
  <2>2. NoTask \in Tasks /\ NoTask.phase = "idle" /\ NoTask.reports = <<>>
    BY <2>1 DEF NoTask, Tasks
  <2>3. TaskSound
    BY <1>1, <2>1, <2>2 DEF Init, TaskSound
  <2>4. FilesTyped /\ BoundsTyped
    BY <1>1, GameUpdateAssumption
    DEF Init, GameUpdateAssumption, FilesTyped, BoundsTyped, JarStates
  <2>5. AssetsTyped /\ PartsRest
    BY <1>1, GameUpdateAssumption
    DEF Init, GameUpdateAssumption, AssetsTyped, PartsRest, NoPart, Parts, ObjectStates
  <2>6. ChainSound /\ AssetsSound
    BY <1>1, <2>2 DEF Init, ChainSound, AssetsSound
  <2> QED BY <1>1, <2>3, <2>4, <2>5, <2>6 DEF Init, IInv
<1>2. ASSUME IInv, [Next]_vars PROVE IInv'
  <2>1. CASE UNCHANGED vars
    <3>1. TaskSound' /\ FilesTyped' /\ BoundsTyped'
      BY <1>2, <2>1 DEF vars, IInv, TaskSound, FilesTyped, BoundsTyped
    <3>2. ChainSound'
      BY <1>2, <2>1 DEF vars, IInv, ChainSound, LibsReady, FmlReady, IndexReady
    <3>3. AssetsTyped' /\ PartsRest' /\ AssetsSound' /\ (ObjectsReady => ObjectsReady')
      BY <1>2, <2>1, AssetsKept DEF vars, assetVars
    <3>4. game' = game
      BY <2>1 DEF vars
    <3> QED BY <1>2, <3>1, <3>2, <3>3, <3>4 DEF IInv
  <2>2. CASE executeTask
    BY <1>2, <2>2, GameUpdateAssumption, ExecuteTaskStep
  <2>3. CASE json_downloaded
    BY <1>2, <2>3, GameUpdateAssumption, JsonDownloadedStep
  <2>4. CASE JobFails
    BY <1>2, <2>4, GameUpdateAssumption, JobFailsStep
  <2>5. CASE jarlibFinished
    BY <1>2, <2>5, GameUpdateAssumption, JarlibFinishedStep
  <2>6. CASE fmllibsFinished
    BY <1>2, <2>6, GameUpdateAssumption, FmllibsFinishedStep
  <2>7. CASE assetIndexFinished
    BY <1>2, <2>7, GameUpdateAssumption, AssetIndexFinishedStep
  <2>8. ASSUME NEW n \in Names, StartAsset(n) \/ AssetArrives(n) \/ AssetError(n)
        PROVE  IInv'
    BY <1>2, <2>8, GameUpdateAssumption, StartAssetStep, AssetArrivesStep, AssetErrorStep
  <2>9. CASE AssetsJobEnds
    BY <1>2, <2>9, GameUpdateAssumption, AssetsJobEndsStep
  <2>10. CASE LateLibrary
    BY <1>2, <2>10, GameUpdateAssumption, LateLibraryStep
  <2>11. CASE ChangeJarMods
    BY <1>2, <2>11, ChangeJarModsStep
  <2>12. CASE GameEnds
    BY <1>2, <2>12, GameEndsStep
  <2>13. CASE NewVersionFile
    BY <1>2, <2>13, NewVersionFileStep
  <2>14. CASE Crash
    BY <1>2, <2>14, GameUpdateAssumption, CrashStep
  <2> QED BY <1>2, <2>1, <2>2, <2>3, <2>4, <2>5, <2>6, <2>7, <2>8, <2>9, <2>10, <2>11,
             <2>12, <2>13, <2>14 DEF Next
<1> QED BY <1>1, <1>2, PTL DEF Spec

(* Every value keeps its kind, whatever fails or crashes, and no asset is     *)
(* tried more often than NetJob's limit of failures allows.                   *)
THEOREM TypeCorrect == Spec => []TypeOK
<1>1. ASSUME IInv PROVE TypeOK
  <2>1. task.phase # "assets" => InState("todo") \cup InState("doing") = {}
    BY <1>1 DEF IInv, PartsRest, InState
  <2>2. {game, versionCurrent} \subseteq BOOLEAN
    BY <1>1 DEF IInv, TaskSound, FilesTyped
  <2> QED BY <1>1, <2>1, <2>2
          DEF IInv, TypeOK, TaskSound, Tasks, FilesTyped, AssetsTyped, BoundsTyped
<1> QED BY <1>1, Invariance, PTL

(* However the chain of jobs ends, the update has reported at most once: the  *)
(* second report of assetIndexFinished is always swallowed.                   *)
THEOREM VerdictCorrect == Spec => []OneVerdict
<1>1. IInv => OneVerdict
  BY DEF IInv, TaskSound, OneVerdict
<1> QED BY <1>1, Invariance, PTL

(* A game started by an update has the files it needs, after any number of    *)
(* failed, interrupted and crashed updates, for any assets and libraries.     *)
THEOREM ReadyCorrect == Spec => []GameIsReady
<1>1. ASSUME IInv PROVE GameIsReady
  <2>1. ASSUME game PROVE LibsReady /\ FmlReady /\ IndexReady /\ ObjectsReady
    BY <1>1, <2>1 DEF IInv, ChainSound
  <2> QED BY <2>1 DEF GameIsReady, LibsReady, FmlReady, IndexReady, ObjectsReady
<1> QED BY <1>1, Invariance, PTL
=============================================================================
