------------------------------- MODULE GoUpdate -------------------------------
(***************************************************************************)
(* GoUpdate: what an update consists of.  From the file lists of the two   *)
(* versions and the files that are there, processFileLists makes the       *)
(* script that mmc_updater carries out.                                    *)
(*                                                                         *)
(* A file is where its content comes from, as seen from the new version.   *)
(* A list of the old version is a sequence of paths, one of the new        *)
(* version a sequence of entries: a path and how many http sources it has. *)
(***************************************************************************)
EXTENDS Sublists, SequencesExt

None    == "none"      \* no file
Old     == "old"       \* a file of another version
New     == "new"       \* the file of the new version
Partial == "partial"   \* a copy of it that broke off

Content == {None, Old, New, Partial}

PathsOf(list) == {list[i].path : i \in DOMAIN list}

\* parseVersionInfo skips sources of other types than http.
Entries(paths) == [path : paths, sources : Nat]

\* Files of the old list are deleted unless the new list has them too.
ToDelete(old, new, disk) ==
  Select(old, {i \in DOMAIN old : disk[old[i]] # None /\ old[i] \notin PathsOf(new)})

\* A plausible bug: only files that are missing.
NeedsUpgrade_Missing(p, disk) == disk[p] = None

\* The file is missing, or its md5 is not that of the list.
NeedsUpgrade(p, disk) == disk[p] # New

\* One copy for each source of each file that needs an upgrade.  The updater
\* itself is not copied.
ToCopy(new, disk, updaters) ==
  LET Copies(e) == IF NeedsUpgrade(e.path, disk) /\ e.path \notin updaters
                     THEN [i \in 1..e.sources |-> e.path] ELSE <<>>
  IN FlattenSeq([i \in DOMAIN new |-> Copies(new[i])])

\* The updater is downloaded into its place.
UpdatersToFetch(new, disk, updaters) ==
  {p \in updaters : NeedsUpgrade(p, disk)
                      /\ \E i \in DOMAIN new : new[i].path = p /\ new[i].sources > 0}

\* processFileLists and writeInstallScript, which keeps copies and deletions
\* apart.
processFileLists(old, new, disk, updaters) ==
  [install |-> ToCopy(new, disk, updaters), uninstall |-> ToDelete(old, new, disk)]
===============================================================================
