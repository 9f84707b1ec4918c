----------------------------- MODULE MCSelfUpdate -----------------------------
(* SelfUpdate on small instances. *)
EXTENDS SelfUpdate

AllBuilds == {"unix", "windows"}

One(p) == [path |-> p, sources |-> 1]

\* Two files in either order of the map of backups and one to delete; two files and
\* no old ones; the updater, which is path 3; an entry with two sources.
MCUpdates ==
  { [old |-> <<1, 4>>, new |-> <<One(2), One(1)>>],
    [old |-> <<4, 1>>, new |-> <<One(1), One(2)>>],
    [old |-> <<1, 3>>, new |-> <<One(1), One(3)>>],
    [old |-> <<2>>, new |-> <<[path |-> 1, sources |-> 2]>>] }
OnlyThree == {3}
===============================================================================
