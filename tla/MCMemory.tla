------------------------------ MODULE MCMemory ------------------------------
(***************************************************************************)
(* Memory with two processes, which are interchangeable, as are the two    *)
(* routes of the one step.                                                 *)
(***************************************************************************)
EXTENDS Memory

Interchangeable == Permutations(Procs) \cup Permutations(Routes)
=============================================================================
