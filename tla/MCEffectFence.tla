---------------------------- MODULE MCEffectFence ----------------------------
(* Instances of EffectFence for TLC: dispatchers are interchangeable.      *)
EXTENDS EffectFence, TLC

Symmetry == Permutations(Procs)
=============================================================================
