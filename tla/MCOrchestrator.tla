--------------------------- MODULE MCOrchestrator ---------------------------
(* Orchestrator for TLC: constants are set in the cfg.                     *)
EXTENDS Orchestrator
=============================================================================
