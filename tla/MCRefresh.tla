------------------------------- MODULE MCRefresh -------------------------------
(* Model values for Entities, and Refresh below it.                         *)
EXTENDS Entities

CONSTANT f1
================================================================================
