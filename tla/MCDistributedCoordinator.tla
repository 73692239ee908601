---------------------- MODULE MCDistributedCoordinator ----------------------
(* Instances of DistributedCoordinator. *)
EXTENDS DistributedCoordinator
=============================================================================
