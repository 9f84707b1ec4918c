----------------------------- MODULE MCProfile -----------------------------
(* Profile on small instances. *)
EXTENDS Profile

TwoVersions == {1, 2}
Forge == {"forge"}
JarSymmetry == Permutations(JarMods)
=============================================================================
