-------------------------- MODULE SerializedConnection --------------------------
(***************************************************************************)
(* storage/connection.py: executor threads that share one sqlite3          *)
(* connection under a lock, at the grain of SQL statements.                *)
(*                                                                         *)
(* The connection carries a single transaction.  `work' is what a          *)
(* statement on the connection reads and writes, `disk' what is committed  *)
(* to the file; they differ only while a transaction is open.  Nothing in  *)
(* a statement's guard mentions the lock: that statements of two jobs do   *)
(* not mix is what run() has to achieve.                                   *)
(*                                                                         *)
(* The legacy import writes the same file through a connection of its own, *)
(* which the lock knows nothing of.  It only inserts sightings and         *)
(* movements, so the rows it has committed are counted beside the tables   *)
(* of the coordinator; how it comes by them is LegacyImport.               *)
(***************************************************************************)
EXTENDS Repository

CONSTANTS
    Job,        \* executor jobs handed to SerializedConnection.run or .close
    Units,      \* the units of work a job may be handed
    Workloads,  \* which jobs there are: the unit of each
    NoJob,      \* the lock is free
    MaxTime,    \* bound: the clock stops here
    MaxCrash,   \* bound: how often the process may die
    MaxImport   \* bound: commits of the legacy import

Kinds == {"entry", "exit", "movement", "positions", "read", "close"}

ASSUME JobAssumption == NoJob \notin Job

ASSUME UnitsAssumption ==
    /\ MaxTime \in Nat
    /\ {MaxCrash, MaxImport} \subseteq Nat
    /\ Workloads \subseteq [Job -> Units]
    /\ \A u \in Units : /\ u.kind \in Kinds
                        /\ u.flight \in Flight \cup {NoFlight}
                        /\ u.kind = "entry" => u.flight \in Flight
                        /\ u.time \in Nat

VARIABLES
    unit,      \* the unit of work each job was handed
    pc,        \* where each job is
    lock,      \* the job that holds _lock, or NoJob
    closed,    \* _closed
    work,      \* the tables as the connection sees them
    disk,      \* the committed tables
    inTx,      \* conn.in_transaction
    taken,     \* entry_time a job's take_entry_time has read
    seen,      \* what each query of a reading job has read, see FoundType
    now,       \* the wall clock, in seconds
    imported,  \* rows the legacy import has committed to the file
    crashes

vars == <<unit, pc, lock, closed, work, disk, inTx, taken, seen, now, imported, crashes>>
conn == <<lock, closed, work, disk, inTx>>

(* The statements of each unit, in program order, are the labels of pc.    *)
DML    == {"insert_entry", "prune_entries", "delete_entry", "insert_sighting",
           "insert_movement", "insert_positions", "prune_positions"}
Select == {"select_entry", "query", "query_again"}
Statement == DML \cup Select \cup {"commit"}
Inside == Statement \cup {"entered", "unwind"}
Ended  == {"done", "raised", "refused", "lost"}
Label  == {"new", "waiting"} \cup Inside \cup Ended

First(kind) ==
    CASE kind = "entry"     -> "insert_entry"
      [] kind = "exit"      -> "select_entry"
      [] kind = "movement"  -> "insert_movement"
      [] kind = "positions" -> "insert_positions"
      [] kind = "read"      -> "query"

Init ==
    /\ unit \in Workloads
    /\ pc = [j \in Job |-> "new"]
    /\ lock = NoJob
    /\ closed = FALSE
    /\ work = EmptyStore
    /\ disk = EmptyStore
    /\ inTx = FALSE
    /\ taken = [j \in Job |-> NoTime]
    /\ seen = [j \in Job |-> {}]
    /\ now = 0
    /\ imported = 0
    /\ crashes = 0

Goto(j, label) == pc' = [pc EXCEPT ![j] = label]

(* hass.async_add_executor_job: the thread starts on run() or close().     *)
Submit(j) ==
    /\ pc[j] = "new"
    /\ Goto(j, "waiting")
    /\ UNCHANGED <<conn, unit, taken, seen, now, imported, crashes>>

(* A run() that does not take the lock.                                    *)
AcquireRegardless(j) ==
    /\ pc[j] = "waiting"
    /\ lock' = j
    /\ Goto(j, "entered")
    /\ UNCHANGED <<unit, closed, work, disk, inTx, taken, seen, now, imported, crashes>>

(* with self._lock: threading.Lock is not first come, first served.        *)
Acquire(j) ==
    /\ pc[j] = "waiting"
    /\ lock = NoJob
    /\ lock' = j
    /\ Goto(j, "entered")
    /\ UNCHANGED <<unit, closed, work, disk, inTx, taken, seen, now, imported, crashes>>

(* if self._closed: raise ProgrammingError, else enter fn.                 *)
Enter(j) ==
    /\ pc[j] = "entered"
    /\ unit[j].kind # "close"
    /\ ~closed
    /\ Goto(j, First(unit[j].kind))
    /\ UNCHANGED <<conn, unit, taken, seen, now, imported, crashes>>

Refuse(j) ==
    /\ pc[j] = "entered"
    /\ unit[j].kind # "close"
    /\ closed
    /\ Goto(j, "refused")
    /\ lock' = NoJob
    /\ UNCHANGED <<unit, closed, work, disk, inTx, taken, seen, now, imported, crashes>>

(* close(): conn.close() drops whatever the connection had not committed.  *)
Close(j) ==
    /\ pc[j] = "entered"
    /\ unit[j].kind = "close"
    /\ closed' = TRUE
    /\ work' = disk
    /\ inTx' = FALSE
    /\ lock' = NoJob
    /\ Goto(j, "done")
    /\ UNCHANGED <<unit, disk, taken, seen, now, imported, crashes>>

(* A data-changing statement opens a transaction if none is open.          *)
Execute(j, label, result, next) ==
    /\ pc[j] = label
    /\ work' = result
    /\ inTx' = TRUE
    /\ Goto(j, next)
    /\ UNCHANGED <<unit, lock, closed, disk, taken, seen, now, imported, crashes>>

(* record_entry                                                            *)
EntryStep(j) ==
    \/ Execute(j, "insert_entry",
               InsertEntry(work, unit[j].flight, unit[j].time), "prune_entries")
    \/ Execute(j, "prune_entries", PruneStaleEntries(work, now), "commit")

(* record_exit: take_entry_time reads outside a transaction and deletes    *)
(* only if it found a row.                                                 *)
SelectEntry(j) ==
    /\ pc[j] = "select_entry"
    /\ taken' = [taken EXCEPT ![j] = SelectEntryTime(work, unit[j].flight)]
    /\ Goto(j, IF taken'[j] = NoTime THEN "insert_sighting" ELSE "delete_entry")
    /\ UNCHANGED <<conn, unit, seen, now, imported, crashes>>

ExitStep(j) ==
    \/ SelectEntry(j)
    \/ Execute(j, "delete_entry", DeleteEntry(work, unit[j].flight), "insert_sighting")
    \/ Execute(j, "insert_sighting", InsertSighting(work, unit[j], taken[j]), "commit")

(* record_movement                                                         *)
MovementStep(j) ==
    Execute(j, "insert_movement", InsertMovement(work, unit[j]), "commit")

(* record_positions                                                        *)
Sample(u) == {[flight |-> u.flight, ts |-> u.time, of |-> u]}

PositionsStep(j) ==
    \/ Execute(j, "insert_positions", InsertPositions(work, Sample(unit[j])),
               "prune_positions")
    \/ Execute(j, "prune_positions", PruneOldPositions(work, now), "commit")

(* conn.commit() as the last act of a unit; run() returns, lock released.  *)
Commit(j) ==
    /\ pc[j] = "commit"
    /\ disk' = work
    /\ inTx' = FALSE
    /\ lock' = NoJob
    /\ Goto(j, "done")
    /\ UNCHANGED <<unit, closed, work, taken, seen, now, imported, crashes>>

(* What a SELECT finds: the coordinator's tables and the imported rows.    *)
Found(tables, rows) == [tables |-> tables, imported |-> rows]

(* A unit that only reads runs its SELECTs and returns.  build_data is two *)
(* queries here, which is enough to tell one snapshot from several; each   *)
(* is a read transaction of its own.                                       *)
Query(j) ==
    /\ pc[j] \in {"query", "query_again"}
    /\ seen' = [seen EXCEPT ![j] = @ \cup {Found(work, imported)}]
    /\ IF pc[j] = "query"
       THEN Goto(j, "query_again") /\ UNCHANGED lock
       ELSE Goto(j, "done") /\ lock' = NoJob
    /\ UNCHANGED <<unit, closed, work, disk, inTx, taken, now, imported, crashes>>

(* A statement raises.  The statement itself leaves no change, but the     *)
(* BEGIN in front of a data-changing one may already have run, and some    *)
(* errors make SQLite roll the whole transaction back by itself.           *)
Raise(j) ==
    /\ pc[j] \in Statement
    /\ \/ /\ inTx' \in (IF pc[j] \in DML THEN {inTx, TRUE} ELSE {inTx})
          /\ UNCHANGED work
       \/ /\ inTx
          /\ inTx' = FALSE
          /\ work' = disk
    /\ Goto(j, "unwind")
    /\ UNCHANGED <<unit, lock, closed, disk, taken, seen, now, imported, crashes>>

(* A run() that releases the lock with the failed transaction still open,  *)
(* and one that never releases it after a failure.                         *)
UnwindNoRollback(j) ==
    /\ pc[j] = "unwind"
    /\ lock' = NoJob
    /\ Goto(j, "raised")
    /\ UNCHANGED <<unit, closed, work, disk, inTx, taken, seen, now, imported, crashes>>

UnwindHoldingLock(j) ==
    /\ pc[j] = "unwind"
    /\ work' = disk
    /\ inTx' = FALSE
    /\ Goto(j, "raised")
    /\ UNCHANGED <<unit, lock, closed, disk, taken, seen, now, imported, crashes>>

(* except BaseException: roll back if a transaction is open, re-raise; the *)
(* with statement releases the lock.                                       *)
Unwind(j) ==
    /\ pc[j] = "unwind"
    /\ IF inTx THEN work' = disk /\ inTx' = FALSE ELSE UNCHANGED <<work, inTx>>
    /\ lock' = NoJob
    /\ Goto(j, "raised")
    /\ UNCHANGED <<unit, closed, disk, taken, seen, now, imported, crashes>>

(* The process dies and is started again: open_db on the same file, a new  *)
(* SerializedConnection, and jobs that were in the executor are gone.      *)
Crash ==
    /\ crashes < MaxCrash
    /\ crashes' = crashes + 1
    /\ pc' = [j \in Job |-> IF pc[j] \in {"waiting"} \cup Inside THEN "lost" ELSE pc[j]]
    /\ lock' = NoJob
    /\ closed' = FALSE
    /\ work' = disk
    /\ inTx' = FALSE
    /\ UNCHANGED <<unit, disk, taken, seen, now, imported>>

(* The import commits on its own connection: WAL mode lets it do so beside *)
(* the reads of a build, but not beside another open write transaction.    *)
ImportCommit ==
    /\ imported < MaxImport
    /\ ~inTx
    /\ imported' = imported + 1
    /\ UNCHANGED <<conn, unit, pc, taken, seen, now, crashes>>

Tick ==
    /\ now < MaxTime
    /\ now' = now + 1
    /\ UNCHANGED <<conn, unit, pc, taken, seen, imported, crashes>>

(* What a job does once its thread has entered run() or close().           *)
RunStep(j) ==
    \/ Enter(j) \/ Refuse(j) \/ Close(j)
    \/ EntryStep(j) \/ ExitStep(j) \/ MovementStep(j) \/ PositionsStep(j)
    \/ Commit(j) \/ Query(j) \/ Raise(j) \/ Unwind(j)

Next ==
    \/ \E j \in Job : Submit(j) \/ Acquire(j) \/ RunStep(j)
    \/ ImportCommit
    \/ Crash
    \/ Tick

Spec == Init /\ [][Next]_vars

(* A thread that can run does: the operating system schedules every        *)
(* thread, and a job gets the lock when nobody else keeps taking it.       *)
FairSpec == Spec /\ \A j \in Job : WF_vars(Acquire(j)) /\ WF_vars(RunStep(j))

-----------------------------------------------------------------------------
StoreType == StoreOf(Units)
FoundType == [tables : StoreType, imported : Nat]

(* Type invariant of connection.py's state.                                *)
TypeOK ==
    /\ unit \in [Job -> Units]
    /\ pc \in [Job -> Label]
    /\ lock \in Job \cup {NoJob}
    /\ closed \in BOOLEAN
    /\ work \in StoreType
    /\ disk \in StoreType
    /\ inTx \in BOOLEAN
    /\ taken \in [Job -> MaybeTime]
    /\ seen \in [Job -> SUBSET FoundType]
    /\ now \in 0 .. MaxTime
    /\ imported \in 0 .. MaxImport
    /\ crashes \in 0 .. MaxCrash

(* Whoever takes the lock starts clean: no transaction and no uncommitted  *)
(* row of an earlier unit is left when run() gives the lock back, whether  *)
(* the earlier unit returned, raised or found the connection closed        *)
(* (connection.py:52-55).                                                  *)
CleanHandover == lock = NoJob => ~inTx /\ work = disk

(* No statement reaches sqlite3 after conn.close(), although jobs that     *)
(* were submitted before the close can still get the lock after it.        *)
NoUseAfterClose == closed => \A j \in Job : pc[j] \notin Statement \cup {"unwind"}

(* The whole unit of work runs under the lock: a second thread is never    *)
(* between the lock and the release (connection.py:52-53).                 *)
OneUnitAtATime == \A j \in Job : pc[j] \in Inside => lock = j

(* An entry time is never lost on the way to its sighting.  Of the entries *)
(* of a flight that were recorded, the time of one (a later one replaces   *)
(* an earlier one) is still in entries, or a sighting carries it, or it    *)
(* was old enough to prune: take_entry_time's DELETE is never committed    *)
(* without its INSERT, and no rollback of another job brings the row back  *)
(* or drops it.                                                            *)
EntryTimeAccountedFor ==
    \A f \in Flight :
        LET recorded == {j \in Job : /\ unit[j].kind = "entry" /\ pc[j] = "done"
                                     /\ unit[j].flight = f}
        IN  recorded # {} =>
                \E j \in recorded :
                    \/ disk.entries[f] = unit[j].time
                    \/ \E i \in DOMAIN disk.sightings :
                          /\ disk.sightings[i].event.flight = f
                          /\ disk.sightings[i].entry_time = unit[j].time
                    \/ unit[j].time < now - EntryTTL

(* A unit whose caller saw run() return has its row in the file for good,  *)
(* across every later failure, close and crash; one whose caller saw it    *)
(* raise or be refused has none.  Rows are counted by the unit they hold.  *)
RowsMatchOutcome ==
    \A u \in Units : u.kind \in {"exit", "movement"} =>
        LET rows == IF u.kind = "exit"
                    THEN {i \in DOMAIN disk.sightings : disk.sightings[i].event = u}
                    ELSE {i \in DOMAIN disk.movements : disk.movements[i] = u}
            done == {j \in Job : unit[j] = u /\ pc[j] = "done"}
        IN \E pairing \in [done -> rows] :
              /\ \A i \in rows : \E j \in done : pairing[j] = i
              /\ \A j, k \in done : pairing[j] = pairing[k] => j = k

(* The queries of a build see one state of the coordinator's tables, and   *)
(* while they run it is the committed one: build_data never shows half of  *)
(* an exit, nor an exit in one list and not in the next.  What may differ  *)
(* between two of its queries are the imported rows, as the import commits *)
(* between them.                                                           *)
ReadsDifferByImportsOnly ==
    \A j \in Job :
        /\ \A r, q \in seen[j] : r.tables = q.tables
        /\ pc[j] = "query_again" => \A r \in seen[j] : r.tables = disk

(* Every job that was submitted ends - it returns, raises, is refused, or  *)
(* dies with the process; a unit that raises does not keep the lock.       *)
EveryJobEnds == \A j \in Job : pc[j] = "waiting" ~> pc[j] \in Ended

(* Refinement: the statements of a job add up to one atomic unit.          *)
Outcome(label) == IF label \in Ended THEN label ELSE "pending"

Atomic == INSTANCE UnitsOfWork WITH
    store   <- disk,
    outcome <- [j \in Job |-> Outcome(pc[j])],
    seen    <- [j \in Job |-> IF pc[j] = "done" THEN seen[j] ELSE {}],
    open    <- ~closed

RefinesUnitsOfWork == Atomic!Spec
=================================================================================
