----------------------------- MODULE MCLegacyImport -----------------------------
(* Two imports, two events, both tables, one or two sets of columns.        *)
EXTENDS LegacyImport, TLC

CONSTANTS i1, i2, e1, e2

Imports == {i1, i2}
Events  == {e1, e2}
Symmetry == Permutations(Imports) \cup Permutations(Events)

Fact(table, key, time) == [table |-> table, key |-> key, time |-> time]

(* An exit, an exit of another aircraft in the same second, an exit of the *)
(* first one's twin well after it, and a movement.                         *)
AllFacts == {Fact("sightings", "a", 1), Fact("sightings", "b", 1),
             Fact("sightings", "a", 4), Fact("airport_movements", "a", 1)}

(* Everything, and a window whose bound falls on a row of either logger.   *)
AllWindows == {[since |-> 0, until |-> 9], [since |-> 0, until |-> 2]}
=================================================================================
