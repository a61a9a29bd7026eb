---------------------------- MODULE MCSequential ----------------------------
(* Sequential on small instances: every bound is a constant of the cfg.    *)
EXTENDS Sequential
=============================================================================
