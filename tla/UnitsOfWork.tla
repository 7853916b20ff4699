------------------------------ MODULE UnitsOfWork ------------------------------
(***************************************************************************)
(* What SerializedConnection promises to the coordinator: every executor   *)
(* job takes effect as one atomic unit of work on the committed store, or  *)
(* not at all.  No statement, lock or transaction is visible here.         *)
(***************************************************************************)
EXTENDS Repository

CONSTANTS
    Job,        \* executor jobs handed to SerializedConnection.run or .close
    Workloads,  \* which jobs there are: the unit of work of each
    MaxTime,    \* bound: the clock stops here
    MaxCrash,   \* bound: how often the process may die
    MaxImport   \* bound: commits of the legacy import

Writes == {"entry", "exit", "movement", "positions"}
Kinds  == Writes \cup {"read", "close"}

VARIABLES
    unit,      \* the unit of work each job was handed
    store,     \* the committed content of the database file
    outcome,   \* how each job ended, or "pending"
    seen,      \* what the queries of a job have read
    open,      \* close() has not run
    now,       \* the wall clock, in seconds
    imported,  \* rows the legacy import has committed to the file
    crashes

vars == <<unit, store, outcome, seen, open, now, imported, crashes>>

(* The rows a trail capture hands over: one sample per flight.             *)
Sample(u) == {[flight |-> u.flight, ts |-> u.time, of |-> u]}

(* The effect of a write unit whose clock reading was t.                   *)
Effect(s, u, t) ==
    CASE u.kind = "entry"     -> RecordEntry(s, u.flight, u.time, t)
      [] u.kind = "exit"      -> RecordExit(s, u)
      [] u.kind = "movement"  -> RecordMovement(s, u)
      [] u.kind = "positions" -> RecordPositions(s, Sample(u), t)

Init ==
    /\ unit \in Workloads
    /\ store = EmptyStore
    /\ outcome = [j \in Job |-> "pending"]
    /\ seen = [j \in Job |-> {}]
    /\ open = TRUE
    /\ now = 0
    /\ imported = 0
    /\ crashes = 0

(* A write commits as a whole.                                             *)
Apply(j) ==
    /\ outcome[j] = "pending"
    /\ open
    /\ unit[j].kind \in Writes
    /\ \E t \in 0 .. now : store' = Effect(store, unit[j], t)
    /\ outcome' = [outcome EXCEPT ![j] = "done"]
    /\ UNCHANGED <<unit, seen, open, now, imported, crashes>>

(* All the SELECTs of a read see one committed store; an earlier one may   *)
(* have seen fewer imported rows than the last.                            *)
Query(j) ==
    /\ outcome[j] = "pending"
    /\ open
    /\ unit[j].kind = "read"
    /\ \E early \in 0 .. imported :
          seen' = [seen EXCEPT ![j] = {[tables |-> store, imported |-> n] :
                                          n \in {early, imported}}]
    /\ outcome' = [outcome EXCEPT ![j] = "done"]
    /\ UNCHANGED <<unit, store, open, now, imported, crashes>>

Close(j) ==
    /\ outcome[j] = "pending"
    /\ unit[j].kind = "close"
    /\ open' = FALSE
    /\ outcome' = [outcome EXCEPT ![j] = "done"]
    /\ UNCHANGED <<unit, store, seen, now, imported, crashes>>

(* A unit that raises leaves nothing behind.                               *)
Raise(j) ==
    /\ outcome[j] = "pending"
    /\ open
    /\ outcome' = [outcome EXCEPT ![j] = "raised"]
    /\ UNCHANGED <<unit, store, seen, open, now, imported, crashes>>

(* A unit that finds the connection closed does not run.                   *)
Refuse(j) ==
    /\ outcome[j] = "pending"
    /\ ~open
    /\ outcome' = [outcome EXCEPT ![j] = "refused"]
    /\ UNCHANGED <<unit, store, seen, open, now, imported, crashes>>

(* The process dies: jobs that have not committed are lost, whatever has   *)
(* committed is still there when the next process opens the file.          *)
Crash ==
    /\ crashes < MaxCrash
    /\ \E lost \in SUBSET {j \in Job : outcome[j] = "pending"} :
          outcome' = [j \in Job |-> IF j \in lost THEN "lost" ELSE outcome[j]]
    /\ open' = TRUE
    /\ crashes' = crashes + 1
    /\ UNCHANGED <<unit, store, seen, now, imported>>

(* A commit of the import, which is no job.                                *)
ImportCommit ==
    /\ imported < MaxImport
    /\ imported' = imported + 1
    /\ UNCHANGED <<unit, store, outcome, seen, open, now, crashes>>

Tick ==
    /\ now < MaxTime
    /\ now' = now + 1
    /\ UNCHANGED <<unit, store, outcome, seen, open, imported, crashes>>

Next ==
    \/ \E j \in Job : Apply(j) \/ Query(j) \/ Close(j) \/ Raise(j) \/ Refuse(j)
    \/ ImportCommit
    \/ Crash
    \/ Tick

Spec == Init /\ [][Next]_vars

================================================================================
