--------------------------- MODULE MCOrchestrator ---------------------------
(* Instances of Orchestrator. *)
EXTENDS Orchestrator
=============================================================================
