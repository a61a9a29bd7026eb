--------------------------- MODULE MCLinearDriver ---------------------------
EXTENDS LinearDriver, TLC

(* Every driver is interchangeable.                                        *)
DriverSymmetry == Permutations(Drivers)
=============================================================================
