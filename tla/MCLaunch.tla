------------------------------ MODULE MCLaunch ------------------------------
(* Launch on small instances. *)
EXTENDS Launch

AllSettings == [pre : BOOLEAN, post : BOOLEAN, autoClose : BOOLEAN]

\* The first launch may be profiled; its profiler may outlive it into the second.
FirstLaunch == {1}
=============================================================================
