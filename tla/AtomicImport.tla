------------------------------ MODULE AtomicImport ------------------------------
(***************************************************************************)
(* What LegacyImport promises of the live tables: they only grow; the      *)
(* integration records an event once; and an import, if it gets to its     *)
(* end, has its effect at one instant, at which it adds some rows of       *)
(* events without a row, one of each.  No window, staging, lock, old       *)
(* logger, failure or crash is visible here.                               *)
(***************************************************************************)
CONSTANT Import

VARIABLES
    rows,        \* the rows of the live tables
    finished     \* the imports that got to their end

vars == <<rows, finished>>

Init == rows = {} /\ finished = {}

(* The integration's own row of an event, whether or not an import has     *)
(* stored one.                                                             *)
Record ==
    /\ \E r \in rows' :
          /\ rows' = rows \cup {r}
          /\ r.by \notin Import
          /\ \A t \in rows : t.event = r.event => t.by \in Import
    /\ UNCHANGED finished

Merge(i) ==
    /\ i \notin finished
    /\ finished' = finished \cup {i}
    /\ rows \subseteq rows'
    /\ \A r \in rows' \ rows :
          /\ r.by = i
          /\ \A t \in rows' : t.event = r.event => t = r

Next == Record \/ \E i \in Import : Merge(i)

Spec == Init /\ [][Next]_vars
=================================================================================
