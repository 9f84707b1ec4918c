------------------------------- MODULE Profile -------------------------------
(***************************************************************************)
(* The profile of an instance: the list of patches that MinecraftProfile   *)
(* keeps, what OneSixProfileStrategy reads and writes of them under        *)
(* patches/ and in order.json, and the operations of the version page and  *)
(* of the installers of Forge and LiteLoader.                              *)
(*                                                                         *)
(* Two patches are built in, Minecraft and LWJGL: they come first, cannot  *)
(* be moved, and are vanilla until the user customizes them, which makes a *)
(* file. The others are files, removable and movable. All runs in the main *)
(* thread, one operation after the other; what makes it hard is that an    *)
(* operation can stop half-way, in a file, in the list or in both.         *)
(***************************************************************************)
EXTENDS Sublists, SequencesExt

CONSTANTS
  Loaders,    \* the mod loaders the user may install
  JarMods,    \* the ids of the jar mods the user may add
  Versions,   \* the Minecraft versions; every one is in the version list
  MayBreak,   \* the files somebody edits by hand, so that they do not parse
  MaxFaults,  \* bound on the operations in which a file refuses to be removed or
              \* written, or is written in part, and on the hand edits
  MaxOrder    \* bound on the order numbers, those of the installers among them

ASSUME ProfileAssumption ==
  /\ Loaders \subseteq {"forge", "liteloader"}
  /\ JarMods \cap {"minecraft", "lwjgl", "forge", "liteloader"} = {}
  /\ MayBreak \subseteq {"minecraft", "lwjgl"} \cup Loaders \cup JarMods
  /\ MaxFaults \in Nat /\ MaxOrder \in Nat /\ MaxOrder >= 10

VARIABLES
  files,      \* patches/*.json
  orderFile,  \* order.json
  version,    \* the instance's IntendedVersion
  patches,    \* MinecraftProfile::VersionPatches
  resolved,   \* the patches whose sum the profile is; <<>> when cleared
  flagged,    \* VersionBrokenFlag
  sound,      \* ghost: the last load succeeded, and nothing failed since
  damaged,    \* ghost: a file was damaged by hand or written in part, or the order was
              \* reset when two files had the same number
  faults      \* the operations so far in which a file refused

vars == <<files, orderFile, version, patches, resolved, flagged, sound, damaged, faults>>

Builtins == {"minecraft", "lwjgl"}
User     == Loaders \cup JarMods
Ids      == Builtins \cup User

\* The numbers the installers give; jar mods get a free one.
LoaderOrder(id) == [forge |-> 5, liteloader |-> 10][id]

NoFile   == [state |-> "none", order |-> 0, for |-> 0]
NoOrder  == [exists |-> FALSE, ids |-> <<>>]
Exists(id) == files[id].state # "none"

Orders == 0..MaxOrder
PatchFile == [state : {"none", "good", "broken"}, order : Orders, for : Versions \cup {0}]
Patch  == [id : Ids, custom : BOOLEAN, order : Orders, for : Versions \cup {0}]
IdsOf(list) == [i \in DOMAIN list |-> list[i].id]

\* The type invariant; no patch is in the list twice.
TypeOK ==
  /\ files \in [Ids -> PatchFile]
  /\ orderFile.exists \in BOOLEAN /\ orderFile.ids \in Seq(User)
  /\ version \in Versions
  /\ patches \in Seq(Patch) /\ IsInjective(IdsOf(patches))
  /\ resolved \in Seq(Ids)
  /\ {flagged, sound, damaged} \subseteq BOOLEAN /\ faults \in 0..MaxFaults

-----------------------------------------------------------------------------
\* OneSixProfileStrategy::load.

\* a plausible bug: the second pass takes what the first has taken
RestOf_All(f, o) == {id \in User : f[id].state # "none"}

\* loadUserPatches, second pass: the files that order.json does not name.
RestOf(f, o) == {id \in User : f[id].state # "none" /\ id \notin Range(o.ids)}

\* A patch as it is in the list. Only the second pass reads the order number of a file:
\* a patch that order.json names has none, and those of the builtins are negative.
PatchOf(f, o, id, v) ==
  [id |-> id, custom |-> id \in User \/ f[id].state # "none",
   order |-> IF id \in RestOf(f, o) THEN f[id].order ELSE 0,
   for |-> IF id = "minecraft" /\ f[id].state = "none" THEN v ELSE f[id].for]

\* The part of a sequence of ids that is read before the first that does not parse.
Readable(f, ids) ==
  LET bad == {i \in DOMAIN ids : f[ids[i]].state = "broken"}
  IN IF bad = {} THEN ids ELSE SubSeq(ids, 1, (CHOOSE i \in bad : \A j \in bad : i <= j) - 1)

\* The list that a load leaves, and whether it reached the end: an exception leaves
\* the patches that were read before it.
Load(f, o, v) ==
  LET Listed == Select(o.ids, {i \in DOMAIN o.ids : f[o.ids[i]].state # "none"})
      Rest   == RestOf(f, o)
      All    == <<"minecraft", "lwjgl">> \o Listed
      First  == Readable(f, All)
      ok     == /\ First = All
                /\ \A id \in Rest : f[id].state = "good"
                /\ \A id, other \in Rest : f[id].order = f[other].order => id = other
      Map    == [n \in {f[id].order : id \in Rest} |-> CHOOSE id \in Rest : f[id].order = n]
      Read   == IF ok THEN All \o Select(Map, DOMAIN Map) ELSE First
  IN [ok |-> ok, list |-> [i \in DOMAIN Read |-> PatchOf(f, o, Read[i], v)]]

\* reapplySafe: a patch for another Minecraft version than that of the list's first
\* patch throws, and the profile is cleared.
Applied(list) ==
  LET Game == {i \in DOMAIN list : list[i].id = "minecraft"}
  IN IF \E i \in Game, j \in DOMAIN list :
          list[j].id \in Loaders /\ list[j].for # list[i].for
       THEN <<>> ELSE IdsOf(list)

\* a plausible bug: the ids are prepended
OrderOf_Prepended(list) ==
  [exists |-> TRUE, ids |-> Reverse(IdsOf(Select(list, {i \in DOMAIN list : list[i].id \in User})))]

\* saveCurrentOrder: the movable patches of the list.
OrderOf(list) ==
  [exists |-> TRUE, ids |-> IdsOf(Select(list, {i \in DOMAIN list : list[i].id \in User}))]

Init ==
  /\ files = [id \in Ids |-> NoFile] /\ orderFile = NoOrder
  /\ version \in Versions
  /\ patches = Load(files, orderFile, version).list
  /\ resolved = Applied(patches)
  /\ flagged = FALSE /\ sound = TRUE /\ damaged = FALSE /\ faults = 0

-----------------------------------------------------------------------------
\* A file that cannot be removed or written.
Fault == faults < MaxFaults /\ faults' = faults + 1
Fine  == UNCHANGED faults

\* OneSixInstance::reloadProfile with the files as they will be.
ReloadProfile ==
  LET l == Load(files', orderFile', version')
  IN /\ patches' = l.list
     /\ resolved' = IF l.ok THEN Applied(l.list) ELSE <<>>
     /\ flagged' = ~l.ok
     /\ sound' = l.ok

\* The end of most operations: reapplySafe and saveCurrentOrder, whose failure
\* nobody hears of.
ApplyAndSave(list, fine) ==
  /\ patches' = list
  /\ resolved' = Applied(list)
  /\ \/ orderFile' = OrderOf(list) /\ sound' = fine /\ Fine
     \/ UNCHANGED orderFile /\ sound' = FALSE /\ Fault

\* Nothing but the files has changed when the operation gave up.
GiveUp ==
  /\ Fault
  /\ sound' = FALSE
  /\ UNCHANGED <<orderFile, version, patches, resolved, flagged, damaged>>

Reload ==
  /\ UNCHANGED <<files, orderFile, version, damaged, faults>>
  /\ ReloadProfile

\* a plausible bug: the file of a removed patch stays
Removed_Kept(f, id) == f

Removed(f, id) == [f EXCEPT ![id] = NoFile]

\* remove(index): the patch file first, then its jars; a jar that cannot be removed
\* leaves the patch in the list.
RemovePatch(i) ==
  /\ patches[i].id \in User
  /\ \/ /\ files' = Removed(files, patches[i].id)
        /\ ApplyAndSave(RemoveAt(patches, i), sound)
        /\ UNCHANGED <<version, flagged, damaged>>
     \/ UNCHANGED files /\ GiveUp
     \/ files' = Removed(files, patches[i].id) /\ GiveUp

\* customize(index): the load's exceptions are caught, and its list is kept.
Customize(i) ==
  /\ ~patches[i].custom
  /\ \/ /\ files' = [files EXCEPT ![patches[i].id] =
                       [state |-> "good", order |-> 0, for |-> patches[i].for]]
        /\ LET l == Load(files', orderFile, version) IN ApplyAndSave(l.list, l.ok)
        /\ UNCHANGED <<version, flagged, damaged>>
     \/ UNCHANGED files /\ GiveUp

\* revert(index): the list is loaded again even when the file could not be removed.
Revert(i) ==
  /\ patches[i].id \in Builtins /\ patches[i].custom
  /\ \/ /\ Exists(patches[i].id)
        /\ files' = Removed(files, patches[i].id)
        /\ LET l == Load(files', orderFile, version) IN ApplyAndSave(l.list, l.ok)
     \/ /\ ~Exists(patches[i].id)
        /\ UNCHANGED files
        /\ ApplyAndSave(patches, sound)
     \/ /\ Fault /\ Exists(patches[i].id)
        /\ patches' = Load(files, orderFile, version).list
        /\ sound' = FALSE
        /\ UNCHANGED <<files, orderFile, resolved>>
  /\ UNCHANGED <<version, flagged, damaged>>

\* move(index, direction): up from the first place goes to the last.
Move(i, up) ==
  LET n    == Len(patches)
      them == IF up THEN (IF i = 1 THEN n ELSE i - 1) ELSE (IF i = n THEN n ELSE i + 1)
  IN /\ i # them
     /\ patches[i].id \in User /\ patches[them].id \in User
     /\ ApplyAndSave([patches EXCEPT ![i] = patches[them], ![them] = patches[i]], sound)
     /\ UNCHANGED <<files, version, flagged, damaged>>

\* resetOrder: whether order.json could be removed is not asked, and an exception of the
\* load leaves the profile applied as it was.
ResetOrder ==
  /\ \/ orderFile' = NoOrder /\ Fine
     \/ UNCHANGED orderFile /\ Fault
  /\ LET l == Load(files, orderFile', version)
     IN /\ patches' = l.list
        /\ resolved' = IF l.ok THEN Applied(l.list) ELSE resolved
        /\ sound' = l.ok
        /\ damaged' = (damaged \/ ~l.ok)
  /\ UNCHANGED <<files, version, flagged>>

\* a plausible bug: the last patch of the list is not looked at
FreeOrder_ButLast(list) == 1 + Max({100} \cup {list[i].order : i \in 1..(Len(list) - 1)})

\* getFreeOrderNumber: above the numbers of the list, in which those of the patches that
\* order.json names are missing.
FreeOrder(list) == 1 + Max({100} \cup {list[i].order : i \in DOMAIN list})

\* A file that is written, or begun and, because write() is not checked, left in part.
Written(whole, order, for) ==
  [state |-> IF whole THEN "good" ELSE "broken", order |-> order, for |-> for]

\* installJarMods: copies a jar and writes its patch file for each; those of `torn' are
\* written in part. When one fails the order is not saved and nothing is applied, and
\* the patches before it stay.
InstallJarMods(jars, done, torn) ==
  /\ \A k \in DOMAIN jars : ~Exists(jars[k]) /\ jars[k] \notin Range(IdsOf(patches))
  /\ LET order(k) == FreeOrder(patches) + k - 1
         new == [k \in 1..done |-> [id |-> jars[k], custom |-> TRUE,
                                    order |-> order(k), for |-> 0]]
         list == patches \o new
     IN /\ \A k \in 1..done : order(k) \in Orders
        /\ files' = [id \in Ids |->
             IF \E k \in 1..done : jars[k] = id
               THEN LET k == CHOOSE k \in 1..done : jars[k] = id
                    IN Written(k \notin torn, order(k), 0)
               ELSE files[id]]
        /\ \/ /\ done = Len(jars) /\ torn = {}
              /\ ApplyAndSave(list, sound)
           \/ /\ done = Len(jars) /\ torn # {}
              /\ patches' = list /\ resolved' = Applied(list)
              /\ orderFile' = OrderOf(list)
              /\ sound' = FALSE /\ Fault
           \/ /\ done < Len(jars)
              /\ patches' = list
              /\ sound' = FALSE /\ Fault
              /\ UNCHANGED <<orderFile, resolved>>
  /\ damaged' = (damaged \/ torn # {})
  /\ UNCHANGED <<version, flagged>>

\* The end of an installation: the patch file is written, in part if the disk is full,
\* and the profile is loaded again.
WriteAndReload(id, whole) ==
  /\ files' = [files EXCEPT ![id] = Written(whole, LoaderOrder(id), version)]
  /\ damaged' = (damaged \/ ~whole)
  /\ UNCHANGED version
  /\ ReloadProfile

\* ForgeInstaller::add, LiteLoaderInstaller::add: the old file goes first, and stays
\* gone when the new one cannot be made.
InstallLoader(id) ==
  \/ \E whole \in BOOLEAN :
       /\ UNCHANGED orderFile
       /\ WriteAndReload(id, whole)
       /\ IF whole THEN Fine ELSE Fault
  \/ files' = Removed(files, id) /\ GiveUp
  \/ UNCHANGED files /\ GiveUp

\* The list and the order without the patch of Forge.
WithoutForge == Select(patches, {i \in DOMAIN patches : patches[i].id # "forge"})
ForgeListed  == "forge" \in Range(IdsOf(patches))

\* ForgeInstaller::addLegacy: the old file goes first; then the jar is copied, which
\* fails if it is there, as that of the same build is; then a patch that is listed is
\* removed from the list and, unless one of its jars stays or the order cannot be saved,
\* from order.json; then the new file is written.
InstallLegacy ==
  /\ "forge" \in Loaders
  /\ \/ UNCHANGED files /\ GiveUp
     \/ files' = Removed(files, "forge") /\ GiveUp
     \/ /\ Exists("forge")
        /\ files' = Removed(files, "forge")
        /\ sound' = FALSE
        /\ UNCHANGED <<orderFile, version, patches, resolved, flagged, damaged, faults>>
     \/ /\ ForgeListed /\ Fault
        /\ files' = Removed(files, "forge")
        /\ patches' = WithoutForge /\ resolved' = Applied(WithoutForge)
        /\ orderFile' = OrderOf(WithoutForge)
        /\ sound' = FALSE
        /\ UNCHANGED <<version, flagged, damaged>>
     \/ \E whole \in BOOLEAN :
          /\ orderFile' \in {orderFile} \cup (IF ForgeListed THEN {OrderOf(WithoutForge)} ELSE {})
          /\ WriteAndReload("forge", whole)
          /\ IF whole /\ (ForgeListed => orderFile' = OrderOf(WithoutForge)) THEN Fine ELSE Fault

\* revertToVanilla calls remove() for every custom patch, and stops at the first that
\* is not removable, a customized builtin, or that refuses. What can come of it: the ids
\* that are removed, those without a file, and whether one refused, its file or its jar.
Removals ==
  LET Custom   == {i \in DOMAIN patches : patches[i].custom}
      Users    == {i \in DOMAIN patches : patches[i].id \in User}
      IdsAt(P) == {patches[i].id : i \in P}
  IN IF Custom # Users THEN {[ids |-> {}, gone |-> {}, refused |-> FALSE]}
     ELSE {[ids |-> IdsAt(Users), gone |-> IdsAt(Users), refused |-> FALSE]}
          \cup {[ids |-> IdsAt({j \in Users : j < i}), refused |-> TRUE,
                gone |-> IdsAt({j \in Users : j < i \/ (jar /\ j = i)})]
                : i \in Users, jar \in BOOLEAN}

\* on_changeVersionBtn_clicked, the user having agreed: the list is loaded before the
\* version is set, and the profile is cleared until the update reloads it. The order is
\* saved after every removal; an order of an earlier removal loads as the old one does.
ChangeVersion(v) ==
  /\ v # version
  /\ version' = v
  /\ IF \E i \in DOMAIN patches : patches[i].custom
       THEN \E r \in Removals :
              LET Left == Select(patches, {i \in DOMAIN patches : patches[i].id \notin r.ids})
              IN /\ files' = [id \in Ids |-> IF id \in r.gone THEN NoFile ELSE files[id]]
                 /\ orderFile' \in {orderFile, OrderOf(Left)}
                 /\ IF r.refused \/ orderFile' # OrderOf(Left) THEN Fault ELSE Fine
                 /\ LET l == Load(files', orderFile', version)
                    IN patches' = l.list /\ flagged' = ~l.ok
       ELSE Fine /\ UNCHANGED <<files, orderFile, patches, flagged>>
  /\ resolved' = <<>>
  /\ sound' = FALSE
  /\ UNCHANGED damaged

\* External: somebody edits a file, and may mend it.
EditByHand(id) ==
  /\ id \in MayBreak /\ Exists(id)
  /\ IF files[id].state = "good" THEN Fault ELSE Fine
  /\ files' = [files EXCEPT ![id].state = IF @ = "good" THEN "broken" ELSE "good"]
  /\ damaged' = TRUE
  /\ sound' = FALSE
  /\ UNCHANGED <<orderFile, version, patches, resolved, flagged>>

JarLists == {<<j>> : j \in JarMods} \cup {jk \in JarMods \X JarMods : jk[1] # jk[2]}

Next ==
  \/ Reload \/ ResetOrder
  \/ \E i \in DOMAIN patches :
       RemovePatch(i) \/ Customize(i) \/ Revert(i) \/ \E up \in BOOLEAN : Move(i, up)
  \/ \E jars \in JarLists : \E done \in 0..Len(jars) :
       \E torn \in SUBSET (1..done) : InstallJarMods(jars, done, torn)
  \/ \E id \in Loaders : InstallLoader(id)
  \/ InstallLegacy
  \/ \E v \in Versions : ChangeVersion(v)
  \/ \E id \in Ids : EditByHand(id)

Spec == Init /\ [][Next]_vars

-----------------------------------------------------------------------------
\* What the version page shows of the list: everything but the order numbers.
Shown(list) == [i \in DOMAIN list |-> [id |-> list[i].id, custom |-> list[i].custom,
                                      for |-> list[i].for]]

(* As long as nothing has failed since the last load, the list on the screen is the one
   that a restart would load, in its order, and the profile is what the list amounts
   to: no operation leaves its result in memory only, or on the disk only. The order
   numbers are not compared: those of the list and those of a load differ. *)
ListIsOnDisk ==
  sound => LET l == Load(files, orderFile, version)
           IN l.ok /\ Shown(l.list) = Shown(patches) /\ resolved = Applied(patches)

(* Whatever failed half-way, a restart brings back no patch that the list does not show:
   what was removed stays removed, and nothing was installed behind the list's back, as
   long as the files are whole. *)
NothingComesBack ==
  ~damaged => Range(IdsOf(Load(files, orderFile, version).list)) \subseteq Range(IdsOf(patches))

(* What the launcher writes whole it can load, whatever could not be removed or saved on
   the way: every file parses, and no two patches that order.json does not name have the
   same order number. Those that it names may: a jar mod that is installed after a load
   gets the number of an earlier one, and once the order is reset with both there the
   profile does not load, which counts as damage. *)
LoadsUnlessDamaged ==
  ~damaged => Load(files, orderFile, version).ok

\* a before b in the list that the files and the order give
Before(l, a, b) ==
  \E i, j \in DOMAIN l : i < j /\ l[i].id = a /\ l[j].id = b

(* The order the user gave the patches is kept: two patches that were on the disk
   before and after an operation change places only when the user moves one of them or
   resets the order, or had moved it and that could not be saved, or when a legacy Forge
   is installed again, which goes behind the others (the files being whole). *)
OrderIsTheUsers ==
  [][~damaged' =>
       LET old == Load(files, orderFile, version).list
           new == Load(files', orderFile', version').list
       IN \A a, b \in User :
            Before(old, a, b) /\ Before(new, b, a) =>
              \/ Before(patches, b, a)
              \/ ResetOrder
              \/ \E i \in DOMAIN patches, up \in BOOLEAN : Move(i, up)
              \/ InstallLegacy /\ a = "forge"]_vars

===============================================================================
