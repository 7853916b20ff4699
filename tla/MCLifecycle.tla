------------------------------ MODULE MCLifecycle ------------------------------
(* Lifecycle with the bounds of its configurations.                         *)
EXTENDS Lifecycle
================================================================================
