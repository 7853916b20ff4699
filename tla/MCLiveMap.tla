------------------------------- MODULE MCLiveMap -------------------------------
(* Model values for LiveMap.                                                *)
EXTENDS LiveMap

CONSTANT f1

List(of, nameless) == [f \in Flight \cup {NoFlight} |-> IF f = NoFlight THEN nameless ELSE of]

(* f1 is there with its position, and an aircraft without an id with it,   *)
(* which is not drawn; f1 has lost its position, or is away, which is the  *)
(* same for capture and map.                                               *)
MCLists == {List("placed", "placed"), List("blind", "away")}

(* A reload under overlapping requests; a fault and another setup; and a   *)
(* fault under overlapping requests.                                       *)
MCBudgets == {[fetches |-> 2, setups |-> 2, faults |-> 0],
              [fetches |-> 1, setups |-> 2, faults |-> 1],
              [fetches |-> 2, setups |-> 1, faults |-> 1]}
================================================================================
