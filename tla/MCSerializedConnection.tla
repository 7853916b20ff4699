------------------------ MODULE MCSerializedConnection ------------------------
(* Model values and bounds for SerializedConnection.                        *)
EXTENDS SerializedConnection

CONSTANTS f1, j1, j2, j3

KindsInOrder == <<"entry", "exit", "movement", "positions", "read", "close">>

MCUnit(i) == [kind |-> KindsInOrder[i], flight |-> f1, time |-> 0]

MCUnits == {MCUnit(i) : i \in DOMAIN KindsInOrder}

(* Jobs differ in their units alone, so that every choice of three units is *)
(* handed out in one order.                                                 *)
MCWorkloads ==
    {[j \in Job |-> MCUnit(CASE j = j1 -> a [] j = j2 -> b [] j = j3 -> c)] :
        <<a, b, c>> \in {t \in (1 .. 6) \X (1 .. 6) \X (1 .. 6) : t[1] <= t[2] /\ t[2] <= t[3]}}
================================================================================
