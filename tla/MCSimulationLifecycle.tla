----------------------- MODULE MCSimulationLifecycle -----------------------
(* Instances of SimulationLifecycle. *)
EXTENDS SimulationLifecycle
=============================================================================
