------------------------------- MODULE MCQueries -------------------------------
(***************************************************************************)
(* An instance of Queries: days of three hours, weeks of two, LIMIT 1.      *)
(***************************************************************************)
EXTENDS Queries

MCNoName == "none"

MCKind == {[airline |-> "ABC", model |-> "B738", route |-> "YQR-YYZ", meets |-> Conditions],
           [airline |-> "none", model |-> "C172", route |-> "none", meets |-> {}]}

(* Clocks put forward from midnight; put back to midnight; put back by two *)
(* hours within a day.  Until then they are zones that never change.       *)
MCZones == {[before |-> -1, after |->  0, transition |-> 4],
            [before |->  0, after |-> -1, transition |-> 4],
            [before |->  2, after |->  0, transition |-> 4]}
=============================================================================
