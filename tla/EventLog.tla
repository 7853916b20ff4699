------------------------------- MODULE EventLog -------------------------------
(***************************************************************************)
(* What Coordinator promises of the events it announces on the bus: each   *)
(* one is settled once, as stored or as dropped.  A sighting or movement   *)
(* gets its row in the very step in which it counts as stored, tables only *)
(* grow, and a dropped event never turns up.  No task, executor job,       *)
(* reload or crash is visible here.                                        *)
(***************************************************************************)
EXTENDS Naturals, Sequences

CONSTANT Movement    \* the kinds of event that airport_movements stores

VARIABLES
    log,         \* the events announced, in order
    fate,        \* of each: "pending", "stored" or "dropped"
    sightings,   \* the events with a row, in the order of the rows
    movements

vars == <<log, fate, sightings, movements>>

Pending == {i \in DOMAIN fate : fate[i] = "pending"}

Init ==
    /\ log = << >>
    /\ fate = << >>
    /\ sightings = << >>
    /\ movements = << >>

Announce ==
    /\ Len(log') = Len(log) + 1
    /\ log' = Append(log, log'[Len(log) + 1])
    /\ fate' = Append(fate, "pending")
    /\ UNCHANGED <<sightings, movements>>

(* The row of an event, in the table of its kind; an entry event has none. *)
RowOf(table, kinds, i) == IF log[i].kind \in kinds THEN Append(table, log[i]) ELSE table

Store(i) ==
    /\ i \in Pending
    /\ fate' = [fate EXCEPT ![i] = "stored"]
    /\ sightings' = RowOf(sightings, {"exit"}, i)
    /\ movements' = RowOf(movements, Movement, i)
    /\ UNCHANGED log

(* One event in a failure or an unload, all that are pending in a crash.   *)
Drop(some) ==
    /\ some \subseteq Pending
    /\ fate' = [i \in DOMAIN fate |-> IF i \in some THEN "dropped" ELSE fate[i]]
    /\ UNCHANGED <<log, sightings, movements>>

Next ==
    \/ Announce
    \/ \E i \in DOMAIN fate : Store(i) \/ Drop({i})
    \/ Drop(Pending)

Spec == Init /\ [][Next]_vars
===============================================================================
