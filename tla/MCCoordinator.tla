----------------------------- MODULE MCCoordinator -----------------------------
(* Model values for Coordinator.                                            *)
EXTENDS Coordinator

CONSTANT f1
================================================================================
