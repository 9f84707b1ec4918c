---------------------------- MODULE MCGameUpdate ----------------------------
(* GameUpdate on small instances. *)
EXTENDS GameUpdate

(* The first asset has a file of its own; the other two have one together. *)
ThreeNames == {1, 2, 3}
TwoObjects == {"own", "common"}
OneShared == [n \in ThreeNames |-> IF n = 1 THEN "own" ELSE "common"]
=============================================================================
