------------------------------ MODULE MCNetJob ------------------------------
(* NetJob on small instances: the sizes are given in the .cfg files. *)
EXTENDS NetJob

\* The libraries job of OneSixUpdate: the second of its parts is a ForgeMirrors.
SecondIsMirrors == {1}
NoMirrors == {}
=============================================================================
