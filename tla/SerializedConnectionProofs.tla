------------------------ MODULE SerializedConnectionProofs ------------------------
(***************************************************************************)
(* Theorems about SerializedConnection, for any set of jobs, units of      *)
(* work, flights and clock values: the lock excludes, nothing is handed    *)
(* over dirty, nothing runs on a closed connection, and the statements of  *)
(* every job add up to one atomic unit of UnitsOfWork.                     *)
(***************************************************************************)
EXTENDS SerializedConnection, RepositoryLemmas

(* The kind of unit a statement belongs to.                                *)
KindOf(label) ==
    CASE label \in {"insert_entry", "prune_entries"} -> {"entry"}
      [] label \in {"select_entry", "delete_entry", "insert_sighting"} -> {"exit"}
      [] label = "insert_movement" -> {"movement"}
      [] label \in {"insert_positions", "prune_positions"} -> {"positions"}
      [] label \in {"query", "query_again"} -> {"read"}
      [] label = "commit" -> {"entry", "exit", "movement", "positions"}
      [] OTHER -> Kinds

(* What the statements of u executed so far have made of the tables s when *)
(* the job stands at a label; a prune's clock reading may be an older one. *)
SoFar(label, s, w, u, t, clock) ==
    /\ label = "prune_entries"   => w = InsertEntry(s, u.flight, u.time)
    /\ label = "delete_entry"    => t = SelectEntryTime(s, u.flight)
    /\ label = "insert_sighting" => /\ w = DeleteEntry(s, u.flight)
                                    /\ t = SelectEntryTime(s, u.flight)
    /\ label = "prune_positions" => w = InsertPositions(s, Sample(u))
    /\ label = "commit" => \E at \in 0 .. clock : w = Atomic!Effect(s, u, at)

(* The labels at which no data-changing statement has run yet.             *)
NotBegun == {"entered", "insert_entry", "select_entry", "delete_entry",
             "insert_movement", "insert_positions", "query", "query_again"}

(* What a job has read so far.                                             *)
ReadSoFar(j) ==
    /\ pc[j] \in {"new", "waiting", "entered", "query"} => seen[j] = {}
    /\ pc[j] = "query_again" =>
          \E n \in 0 .. imported : seen[j] = {Found(disk, n)}
    /\ unit[j].kind # "read" => seen[j] = {}
    /\ \A r, q \in seen[j] : r.tables = q.tables

Holder == lock \in Job => pc[lock] \in Inside

Transaction == ~inTx => work = disk

Progress(j) ==
    pc[j] \in Inside => /\ unit[j].kind \in KindOf(pc[j])
                        /\ pc[j] \in NotBegun => ~inTx
                        /\ SoFar(pc[j], disk, work, unit[j], taken[j], now)

Reading == \A j \in Job : ReadSoFar(j)

(* The inductive invariant: who holds the lock stands inside, and the      *)
(* tables the connection sees are the committed ones plus exactly what the *)
(* holder's executed statements did to them.                               *)
IInv ==
    /\ TypeOK
    /\ OneUnitAtATime
    /\ Holder
    /\ Transaction
    /\ CleanHandover
    /\ NoUseAfterClose
    /\ \A j \in Job : Progress(j)
    /\ Reading

-----------------------------------------------------------------------------
(* A data-changing statement keeps the types, if its result is a store.    *)
LEMMA ExecuteType ==
  ASSUME TypeOK, NEW j \in Job, NEW label, NEW result \in StoreType,
         NEW next \in Label, Execute(j, label, result, next)
  PROVE  TypeOK'
  BY DEF TypeOK, Execute, Goto

(* What the assumption on Units says of the unit of a job.                 *)
LEMMA UnitFacts ==
  ASSUME TypeOK, NEW j \in Job
  PROVE  /\ unit[j] \in Units
         /\ unit[j].kind \in Kinds
         /\ unit[j].flight \in Flight \cup {NoFlight}
         /\ unit[j].kind = "entry" => unit[j].flight \in Flight
         /\ unit[j].time \in Nat
  BY UnitsAssumption DEF TypeOK

(* The rows a positions job inserts are rows of flight_positions.          *)
LEMMA SampleType ==
  ASSUME TypeOK, NEW j \in Job
  PROVE  Sample(unit[j]) \in SUBSET [flight : Flight \cup {NoFlight}, ts : Nat, of : Units]
  BY UnitFacts DEF Sample

(* One statement of the job that stands inside leads from the invariant to *)
(* the invariant, if it is the next thing the unit has to do.              *)
LEMMA ExecuteStep ==
  ASSUME IInv, NEW j \in Job, NEW label \in DML, NEW result \in StoreType,
         NEW next \in {"prune_entries", "insert_sighting", "prune_positions", "commit"},
         Execute(j, label, result, next),
         unit[j].kind \in KindOf(next),
         SoFar(next, disk, result, unit[j], taken[j], now)
  PROVE  IInv'
  <1>1. /\ pc[j] = label /\ pc' = [pc EXCEPT ![j] = next] /\ work' = result /\ inTx' = TRUE
        /\ UNCHANGED <<unit, lock, closed, disk, taken, seen, now, imported, crashes>>
    BY DEF Execute, Goto
  <1>2. /\ pc \in [Job -> Label] /\ label \in Inside /\ next \in Label
        /\ next \in Inside /\ next \notin NotBegun
    BY DEF IInv, TypeOK, Inside, Statement, DML, Label, NotBegun
  <1>3. lock = j /\ \A k \in Job \ {j} : pc[k] \notin Inside
    BY <1>1, <1>2 DEF IInv, OneUnitAtATime
  <1>4. TypeOK'
    BY <1>2, ExecuteType DEF IInv
  <1>5. OneUnitAtATime' /\ Holder'
    BY <1>1, <1>2, <1>3 DEF OneUnitAtATime, Holder
  <1>6. Transaction'
    BY <1>1 DEF Transaction
  <1>7. CleanHandover'
    BY <1>1, <1>3, JobAssumption DEF CleanHandover
  <1>8. NoUseAfterClose'
    BY <1>1, <1>2 DEF IInv, NoUseAfterClose, Statement
  <1>9. \A k \in Job : Progress(k)'
    <2> SUFFICES ASSUME NEW k \in Job, pc'[k] \in Inside PROVE Progress(k)'
      BY DEF Progress
    <2>1. k = j
      BY <1>1, <1>2, <1>3
    <2> QED BY <2>1, <1>1, <1>2 DEF Progress
  <1>10. Reading'
    BY <1>1, <1>2 DEF IInv, Reading, ReadSoFar
  <1> QED BY <1>4, <1>5, <1>6, <1>7, <1>8, <1>9, <1>10 DEF IInv

(* A job that leaves run() or close() hands the connection over clean.     *)
LEMMA LeaveStep ==
  ASSUME IInv, TypeOK', NEW j \in Job, pc[j] \in Inside,
         NEW label \in Ended, pc' = [pc EXCEPT ![j] = label],
         lock' = NoJob, work' = disk', ~inTx', Reading'
  PROVE  IInv'
  <1>1. pc \in [Job -> Label] /\ label \notin Inside
    BY DEF IInv, TypeOK, Ended, Inside, Statement, DML, Select
  <1>2. lock = j /\ \A k \in Job \ {j} : pc[k] \notin Inside
    BY DEF IInv, OneUnitAtATime
  <1>3. \A k \in Job : pc'[k] \notin Inside
    BY <1>1, <1>2
  <1>4. OneUnitAtATime' /\ Holder' /\ Transaction' /\ CleanHandover'
    BY <1>3, JobAssumption DEF OneUnitAtATime, Holder, Transaction, CleanHandover
  <1>5. NoUseAfterClose'
    BY <1>3 DEF NoUseAfterClose, Inside
  <1>6. \A k \in Job : Progress(k)'
    BY <1>3 DEF Progress
  <1> QED BY <1>4, <1>5, <1>6 DEF IInv

(* A job that moves on inside without touching the tables.                 *)
LEMMA MoveStep ==
  ASSUME IInv, TypeOK', NEW j \in Job, pc[j] \in Inside,
         NEW next \in Inside, pc' = [pc EXCEPT ![j] = next],
         UNCHANGED <<unit, lock, closed, disk>>,
         \A k \in Job \ {j} : taken'[k] = taken[k],
         ~closed, next # "unwind" => ~inTx',
         Transaction', Progress(j)', Reading'
  PROVE  IInv'
  <1>1. pc \in [Job -> Label]
    BY DEF IInv, TypeOK
  <1>2. lock = j /\ \A k \in Job \ {j} : pc[k] \notin Inside
    BY DEF IInv, OneUnitAtATime
  <1>3. OneUnitAtATime' /\ Holder' /\ CleanHandover'
    BY <1>1, <1>2, JobAssumption DEF OneUnitAtATime, Holder, CleanHandover
  <1>5. NoUseAfterClose'
    BY DEF NoUseAfterClose
  <1>6. \A k \in Job : Progress(k)'
    BY <1>1, <1>2 DEF Progress
  <1> QED BY <1>3, <1>5, <1>6 DEF IInv

(* The initial state satisfies the invariant.                              *)
LEMMA InitStep == Init => IInv
  <1> SUFFICES ASSUME Init PROVE IInv
    OBVIOUS
  <1>1. TypeOK
    <2>1. EmptyStore \in StoreType
      BY EmptyStoreType DEF StoreType
    <2>2. /\ now \in 0 .. MaxTime /\ crashes \in 0 .. MaxCrash /\ imported \in 0 .. MaxImport
          /\ unit \in [Job -> Units]
      BY UnitsAssumption DEF Init
    <2>3. /\ pc \in [Job -> Label] /\ lock \in Job \cup {NoJob}
          /\ taken \in [Job -> MaybeTime]
      BY DEF Init, Label, MaybeTime
    <2>4. seen \in [Job -> SUBSET FoundType]
      BY DEF Init
    <2> QED BY <2>1, <2>2, <2>3, <2>4 DEF Init, TypeOK
  <1>2. \A j \in Job : pc[j] \notin Inside
    BY DEF Init, Inside, Statement, DML, Select
  <1>3. OneUnitAtATime /\ Holder /\ Transaction /\ CleanHandover /\ NoUseAfterClose
    BY <1>2, JobAssumption
    DEF Init, OneUnitAtATime, Holder, Transaction, CleanHandover, NoUseAfterClose
  <1>4. \A j \in Job : Progress(j)
    BY <1>2 DEF Progress
  <1>5. Reading
    BY DEF Init, Reading, ReadSoFar
  <1> QED BY <1>1, <1>3, <1>4, <1>5 DEF IInv

-----------------------------------------------------------------------------
(* Each action of a job preserves the invariant.                           *)
LEMMA SubmitStep == ASSUME IInv, NEW j \in Job, Submit(j) PROVE IInv'
  <1>1. pc[j] = "new" /\ pc' = [pc EXCEPT ![j] = "waiting"]
        /\ UNCHANGED <<unit, lock, closed, work, disk, inTx, taken, seen, now, imported, crashes>>
    BY DEF Submit, Goto, conn
  <1>2. /\ "waiting" \in Label /\ "waiting" \notin Inside /\ "new" \notin Inside
        /\ "waiting" \notin Statement /\ "waiting" # "unwind"
    BY DEF Label, Inside, Statement, DML, Select
  <1>3. TypeOK'
    BY <1>1, <1>2 DEF IInv, TypeOK
  <1>4. pc \in [Job -> Label]
    BY DEF IInv, TypeOK
  <1>5. OneUnitAtATime' /\ Holder' /\ Transaction' /\ CleanHandover' /\ NoUseAfterClose'
    BY <1>1, <1>2, <1>4
    DEF IInv, OneUnitAtATime, Holder, Transaction, CleanHandover, NoUseAfterClose
  <1>6. \A k \in Job : Progress(k)'
    BY <1>1, <1>2, <1>4 DEF IInv, Progress
  <1>7. Reading'
    BY <1>1, <1>4 DEF IInv, Reading, ReadSoFar
  <1> QED BY <1>3, <1>5, <1>6, <1>7 DEF IInv

(* Taking the free lock: nobody is inside, and there is nothing open.      *)
LEMMA AcquireStep == ASSUME IInv, NEW j \in Job, Acquire(j) PROVE IInv'
  <1>1. pc[j] = "waiting" /\ lock = NoJob /\ lock' = j /\ pc' = [pc EXCEPT ![j] = "entered"]
        /\ UNCHANGED <<unit, closed, work, disk, inTx, taken, seen, now, imported, crashes>>
    BY DEF Acquire, Goto
  <1>2. /\ "entered" \in Label /\ "entered" \in Inside /\ "entered" \notin Statement
    BY DEF Label, Inside, Statement, DML, Select
  <1>3. TypeOK'
    BY <1>1, <1>2 DEF IInv, TypeOK
  <1>4. /\ pc \in [Job -> Label]
        /\ \A k \in Job : pc[k] \notin Inside
        /\ ~inTx
    BY <1>1, JobAssumption DEF IInv, TypeOK, OneUnitAtATime, CleanHandover
  <1>5. OneUnitAtATime' /\ Holder' /\ Transaction' /\ CleanHandover' /\ NoUseAfterClose'
    BY <1>1, <1>2, <1>4, JobAssumption
    DEF IInv, OneUnitAtATime, Holder, Transaction, CleanHandover, NoUseAfterClose
  <1>6. \A k \in Job : Progress(k)'
    <2> SUFFICES ASSUME NEW k \in Job, pc'[k] \in Inside PROVE Progress(k)'
      BY DEF Progress
    <2>1. k = j /\ pc'[k] = "entered"
      BY <1>1, <1>4
    <2>2. unit[k].kind \in Kinds
      BY UnitFacts DEF IInv
    <2> QED BY <1>1, <1>4, <2>1, <2>2 DEF Progress, SoFar, KindOf
  <1>7. Reading'
    BY <1>1, <1>4 DEF IInv, Reading, ReadSoFar
  <1> QED BY <1>3, <1>5, <1>6, <1>7 DEF IInv

(* Past the check of _closed: the first statement of the unit is next.     *)
LEMMA EnterStep == ASSUME IInv, NEW j \in Job, Enter(j) PROVE IInv'
  <1> DEFINE next == First(unit[j].kind)
  <1>1. pc[j] = "entered" /\ unit[j].kind # "close" /\ ~closed /\ pc' = [pc EXCEPT ![j] = next]
        /\ UNCHANGED <<unit, lock, closed, work, disk, inTx, taken, seen, now, imported, crashes>>
    BY DEF Enter, Goto, conn
  <1>2. unit[j].kind \in Kinds
    BY UnitFacts DEF IInv
  <1>3. next \in {"insert_entry", "select_entry", "insert_movement",
                  "insert_positions", "query"} /\ unit[j].kind \in KindOf(next)
    BY <1>1, <1>2 DEF First, KindOf, Kinds
  <1>4. next \in Label /\ next \in Inside /\ next # "unwind" /\ "entered" \in Inside
    BY <1>3 DEF Label, Inside, Statement, DML, Select
  <1> HIDE DEF next
  <1>5. pc \in [Job -> Label]
    BY DEF IInv, TypeOK
  <1>6. TypeOK'
    BY <1>1, <1>4 DEF IInv, TypeOK
  <1>7. ~inTx
    BY <1>1, <1>4 DEF IInv, Progress, NotBegun
  <1>8. Transaction'
    BY <1>1 DEF IInv, Transaction
  <1>9. Progress(j)'
    BY <1>1, <1>3, <1>5, <1>7 DEF Progress, SoFar
  <1>10. Reading'
    BY <1>1, <1>3, <1>5 DEF IInv, Reading, ReadSoFar
  <1>11. \A k \in Job \ {j} : taken'[k] = taken[k]
    BY <1>1
  <1>12. next \in Inside /\ pc' = [pc EXCEPT ![j] = next] /\ ~closed
         /\ (next # "unwind" => ~inTx')
    BY <1>1, <1>4, <1>7
  <1>13. pc[j] \in Inside /\ ~inTx' /\ UNCHANGED <<unit, lock, closed, disk>>
    BY <1>1, <1>4, <1>7
  <1> QED BY <1>6, <1>8, <1>9, <1>10, <1>11, <1>12, <1>13, MoveStep

(* run() on a closed connection raises and releases the lock.              *)
LEMMA RefuseStep == ASSUME IInv, NEW j \in Job, Refuse(j) PROVE IInv'
  <1>1. pc[j] = "entered" /\ pc' = [pc EXCEPT ![j] = "refused"] /\ lock' = NoJob
        /\ UNCHANGED <<unit, closed, work, disk, inTx, taken, seen, now, imported, crashes>>
    BY DEF Refuse, Goto
  <1>2. "refused" \in Ended /\ "refused" \in Label /\ "entered" \in Inside
    BY DEF Ended, Label, Inside
  <1>3. TypeOK'
    BY <1>1, <1>2 DEF IInv, TypeOK
  <1>4. ~inTx /\ work = disk
    BY <1>1, <1>2 DEF IInv, Progress, NotBegun, Transaction
  <1>5. Reading'
    BY <1>1 DEF IInv, TypeOK, Reading, ReadSoFar
  <1> QED BY <1>1, <1>2, <1>3, <1>4, <1>5, LeaveStep

(* close() drops what is uncommitted, which between units is nothing.      *)
LEMMA CloseStep == ASSUME IInv, NEW j \in Job, Close(j) PROVE IInv'
  <1>1. pc[j] = "entered" /\ pc' = [pc EXCEPT ![j] = "done"] /\ lock' = NoJob
        /\ closed' = TRUE /\ work' = disk /\ inTx' = FALSE
        /\ UNCHANGED <<unit, disk, taken, seen, now, imported, crashes>>
    BY DEF Close, Goto
  <1>2. "done" \in Ended /\ "done" \in Label /\ "entered" \in Inside
    BY DEF Ended, Label, Inside
  <1>3. TypeOK'
    BY <1>1, <1>2 DEF IInv, TypeOK
  <1>5. Reading'
    BY <1>1 DEF IInv, TypeOK, Reading, ReadSoFar
  <1> QED BY <1>1, <1>2, <1>3, <1>5, LeaveStep

(* The commit of the holder makes the file what the connection sees.       *)
LEMMA CommitStep == ASSUME IInv, NEW j \in Job, Commit(j) PROVE IInv'
  <1>1. pc[j] = "commit" /\ pc' = [pc EXCEPT ![j] = "done"] /\ lock' = NoJob
        /\ disk' = work /\ inTx' = FALSE
        /\ UNCHANGED <<unit, closed, work, taken, seen, now, imported, crashes>>
    BY DEF Commit, Goto
  <1>2. "done" \in Ended /\ "done" \in Label /\ "commit" \in Inside
    BY DEF Ended, Label, Inside, Statement
  <1>3. TypeOK'
    BY <1>1, <1>2 DEF IInv, TypeOK
  <1>4. \A k \in Job : pc[k] # "query_again"
    BY <1>1, <1>2 DEF IInv, OneUnitAtATime, Inside, Statement, Select
  <1>5. Reading'
    BY <1>1, <1>4 DEF IInv, TypeOK, Reading, ReadSoFar
  <1> QED BY <1>1, <1>2, <1>3, <1>5, LeaveStep

(* The handler in run() leaves no transaction open behind a failure.       *)
LEMMA UnwindStep == ASSUME IInv, NEW j \in Job, Unwind(j) PROVE IInv'
  <1>1. pc[j] = "unwind" /\ pc' = [pc EXCEPT ![j] = "raised"] /\ lock' = NoJob
        /\ UNCHANGED <<unit, closed, disk, taken, seen, now, imported, crashes>>
    BY DEF Unwind, Goto
  <1>2. "raised" \in Ended /\ "raised" \in Label /\ "unwind" \in Inside
    BY DEF Ended, Label, Inside
  <1>3. work' = disk /\ inTx' = FALSE
    BY DEF Unwind, IInv, Transaction, TypeOK
  <1>4. TypeOK'
    BY <1>1, <1>2, <1>3 DEF IInv, TypeOK
  <1>5. Reading'
    BY <1>1 DEF IInv, TypeOK, Reading, ReadSoFar
  <1> QED BY <1>1, <1>2, <1>3, <1>4, <1>5, LeaveStep

(* A query reads the committed tables, since no transaction is open.       *)
LEMMA QueryStep == ASSUME IInv, NEW j \in Job, Query(j) PROVE IInv'
  <1>1. pc[j] \in {"query", "query_again"} /\ seen' = [seen EXCEPT ![j] = @ \cup {Found(work, imported)}]
        /\ UNCHANGED <<unit, closed, work, disk, inTx, taken, now, imported, crashes>>
    BY DEF Query
  <1>2. pc[j] \in Inside /\ pc[j] \in NotBegun /\ pc[j] \in Statement
    BY <1>1 DEF Inside, Statement, Select, NotBegun
  <1>3. /\ ~inTx /\ work = disk /\ unit[j].kind = "read" /\ ~closed
        /\ \A k \in Job \ {j} : pc[k] \notin Inside
        /\ pc \in [Job -> Label] /\ seen \in [Job -> SUBSET FoundType] /\ disk \in StoreType
    BY <1>1, <1>2
    DEF IInv, TypeOK, Progress, KindOf, Transaction, OneUnitAtATime, NoUseAfterClose
  <1>0. imported \in 0 .. imported /\ Found(disk, imported) \in FoundType
    BY <1>3, UnitsAssumption DEF IInv, TypeOK, Found, FoundType
  <1>4. \E n \in 0 .. imported : seen'[j] = {Found(disk, n), Found(disk, imported)}
    BY <1>0, <1>1, <1>3 DEF IInv, Reading, ReadSoFar
  <1>7. \A r, q \in seen'[j] : r.tables = q.tables
    BY <1>4 DEF Found
  <1>5. CASE pc[j] = "query"
    <2>1. pc' = [pc EXCEPT ![j] = "query_again"] /\ lock' = lock
      BY <1>5 DEF Query, Goto
    <2>2. "query_again" \in Inside /\ "query_again" \in Label
      BY DEF Inside, Statement, Select, Label
    <2>3. TypeOK'
      BY <1>0, <1>1, <1>3, <2>1, <2>2 DEF IInv, TypeOK
    <2>9. seen'[j] = {Found(disk, imported)}
      BY <1>1, <1>3, <1>5 DEF IInv, Reading, ReadSoFar
    <2>4. Reading'
      BY <1>0, <1>1, <1>3, <1>7, <2>1, <2>9 DEF IInv, Reading, ReadSoFar
    <2>5. Transaction' /\ ~inTx' /\ UNCHANGED <<unit, lock, closed, disk>>
      BY <1>1, <1>3, <2>1 DEF Transaction
    <2>6. Progress(j)'
      BY <1>1, <1>3, <2>1 DEF Progress, KindOf, SoFar
    <2>7. \A k \in Job \ {j} : taken'[k] = taken[k]
      BY <1>1
    <2>8. ~closed /\ ("query_again" # "unwind" => ~inTx')
      BY <1>3, <2>5
    <2> QED BY <1>2, <2>1, <2>2, <2>3, <2>4, <2>5, <2>6, <2>7, <2>8, MoveStep
  <1>6. CASE pc[j] = "query_again"
    <2>1. pc' = [pc EXCEPT ![j] = "done"] /\ lock' = NoJob
      BY <1>6 DEF Query, Goto
    <2>2. "done" \in Ended /\ "done" \in Label
      BY DEF Ended, Label
    <2>3. TypeOK'
      BY <1>0, <1>1, <1>3, <2>1, <2>2 DEF IInv, TypeOK
    <2>4. Reading'
      BY <1>1, <1>3, <1>7, <2>1 DEF IInv, Reading, ReadSoFar
    <2> QED BY <1>1, <1>2, <1>3, <2>1, <2>2, <2>3, <2>4, LeaveStep
  <1> QED BY <1>1, <1>5, <1>6

(* A statement that raises leads to the handler, with or without its       *)
(* transaction still open.                                                 *)
LEMMA RaiseStep == ASSUME IInv, NEW j \in Job, Raise(j) PROVE IInv'
  <1>1. pc[j] \in Statement /\ pc' = [pc EXCEPT ![j] = "unwind"]
        /\ UNCHANGED <<unit, lock, closed, disk, taken, seen, now, imported, crashes>>
    BY DEF Raise, Goto
  <1>2. "unwind" \in Inside /\ "unwind" \in Label /\ "unwind" \notin NotBegun
        /\ pc[j] \in Inside
    BY <1>1 DEF Inside, Label, NotBegun
  <1>3. /\ inTx' \in BOOLEAN /\ work' \in {work, disk}
        /\ ~inTx' => work' = disk
    BY DEF Raise, IInv, Transaction, TypeOK
  <1>4. TypeOK'
    BY <1>1, <1>2, <1>3 DEF IInv, TypeOK
  <1>5. pc \in [Job -> Label] /\ ~closed
    BY <1>1 DEF IInv, TypeOK, NoUseAfterClose
  <1>6. Transaction'
    BY <1>1, <1>3 DEF Transaction
  <1>7. Progress(j)'
    <2>1. unit[j].kind \in Kinds
      BY UnitFacts DEF IInv
    <2> QED BY <1>1, <1>2, <1>5, <2>1 DEF Progress, SoFar, KindOf
  <1>8. Reading'
    BY <1>1, <1>5 DEF IInv, Reading, ReadSoFar
  <1>9. (\A k \in Job \ {j} : taken'[k] = taken[k]) /\ UNCHANGED <<unit, lock, closed, disk>>
    BY <1>1
  <1> QED BY <1>1, <1>2, <1>4, <1>5, <1>6, <1>7, <1>8, <1>9, MoveStep

(* The SELECT of take_entry_time reads the committed entries.              *)
LEMMA SelectEntryStep == ASSUME IInv, NEW j \in Job, SelectEntry(j) PROVE IInv'
  <1> DEFINE t == SelectEntryTime(work, unit[j].flight)
             next == IF t = NoTime THEN "insert_sighting" ELSE "delete_entry"
  <1>1. pc[j] = "select_entry" /\ taken' = [taken EXCEPT ![j] = t]
        /\ UNCHANGED <<unit, lock, closed, work, disk, inTx, seen, now, imported, crashes>>
    BY DEF SelectEntry, conn
  <1>2. t \in MaybeTime
    BY SelectEntryTimeType DEF IInv, TypeOK, StoreType
  <1>3. pc' = [pc EXCEPT ![j] = next] /\ taken'[j] = t
    BY <1>1 DEF SelectEntry, Goto, IInv, TypeOK
  <1>4. pc[j] \in Inside /\ pc[j] \in NotBegun /\ pc[j] \in Statement
        /\ next \in Inside /\ next # "unwind" /\ next \in Label
    BY <1>1 DEF Inside, Statement, DML, Select, NotBegun, Label
  <1>5. ~inTx /\ work = disk /\ unit[j].kind = "exit" /\ ~closed /\ pc \in [Job -> Label]
    BY <1>1, <1>4 DEF IInv, TypeOK, Progress, KindOf, Transaction, NoUseAfterClose
  <1>6. TypeOK'
    BY <1>1, <1>2, <1>3, <1>4 DEF IInv, TypeOK
  <1>7. t = SelectEntryTime(disk, unit[j].flight)
        /\ (t = NoTime => work = DeleteEntry(disk, unit[j].flight))
    BY <1>5, DeleteNoEntry DEF IInv, TypeOK, StoreType
  <1>8. next = "delete_entry" \/ (next = "insert_sighting" /\ t = NoTime)
    OBVIOUS
  <1>9. Progress(j)'
    <2>1. pc'[j] = next /\ unit' = unit /\ work' = work /\ disk' = disk /\ inTx' = inTx
      BY <1>1, <1>3, <1>5
    <2>2. unit[j].kind \in KindOf(next)
      BY <1>5, <1>8 DEF KindOf
    <2> QED BY <1>3, <1>5, <1>7, <1>8, <2>1, <2>2 DEF Progress, SoFar
  <1>10. Reading'
    BY <1>1, <1>3, <1>5, <1>8 DEF IInv, Reading, ReadSoFar
  <1>11. Transaction' /\ ~inTx' /\ UNCHANGED <<unit, lock, closed, disk>>
         /\ \A k \in Job \ {j} : taken'[k] = taken[k]
    BY <1>1, <1>5 DEF IInv, TypeOK, Transaction
  <1> HIDE DEF next, t
  <1> QED BY <1>3, <1>4, <1>5, <1>6, <1>9, <1>10, <1>11, MoveStep

(* The statements of each kind of unit, composed, are its atomic effect.   *)
LEMMA EffectEntry ==
  ASSUME NEW s, NEW u, NEW t, u.kind = "entry"
  PROVE  Atomic!Effect(s, u, t) = PruneStaleEntries(InsertEntry(s, u.flight, u.time), t)
  BY DEF Atomic!Effect, Atomic!RecordEntry, Atomic!PruneStaleEntries, Atomic!InsertEntry,
         PruneStaleEntries, InsertEntry

(* The same for an exit.                                                   *)
LEMMA EffectExit ==
  ASSUME NEW s, NEW u, NEW t, u.kind = "exit"
  PROVE  Atomic!Effect(s, u, t) = InsertSighting(DeleteEntry(s, u.flight), u,
                                                 SelectEntryTime(s, u.flight))
  BY DEF Atomic!Effect, Atomic!RecordExit, Atomic!InsertSighting, Atomic!DeleteEntry,
         Atomic!SelectEntryTime, InsertSighting, DeleteEntry, SelectEntryTime

(* The same for an airport movement.                                       *)
LEMMA EffectMovement ==
  ASSUME NEW s, NEW u, NEW t, u.kind = "movement"
  PROVE  Atomic!Effect(s, u, t) = InsertMovement(s, u)
  BY DEF Atomic!Effect, Atomic!RecordMovement, Atomic!InsertMovement, InsertMovement

(* The same for a trail sample.                                            *)
LEMMA EffectPositions ==
  ASSUME NEW s, NEW u, NEW t, u.kind = "positions"
  PROVE  Atomic!Effect(s, u, t) = PruneOldPositions(InsertPositions(s, Sample(u)), t)
  BY DEF Atomic!Effect, Atomic!RecordPositions, Atomic!PruneOldPositions,
         Atomic!InsertPositions, Atomic!Sample, PruneOldPositions, InsertPositions, Sample

(* The clock reading of the statement that runs now is one the clock shows. *)
LEMMA ReadClock == ASSUME TypeOK PROVE now \in 0 .. now
  BY UnitsAssumption DEF TypeOK

(* The two statements of record_entry keep the invariant.                  *)
LEMMA EntryStepStep == ASSUME IInv, NEW j \in Job, EntryStep(j) PROVE IInv'
  <1> USE DEF StoreType
  <1>1. TypeOK /\ work \in StoreType
    BY DEF IInv, TypeOK
  <1>2. CASE Execute(j, "insert_entry", InsertEntry(work, unit[j].flight, unit[j].time),
                     "prune_entries")
    <2>1. pc[j] = "insert_entry" /\ "insert_entry" \in DML /\ pc[j] \in Inside
          /\ pc[j] \in NotBegun
      BY <1>2 DEF Execute, Inside, Statement, DML, NotBegun
    <2>2. unit[j].kind = "entry" /\ work = disk
      BY <2>1 DEF IInv, Progress, KindOf, Transaction
    <2>3. InsertEntry(work, unit[j].flight, unit[j].time) \in StoreType
      BY <1>1, <2>2, UnitFacts, InsertEntryType DEF MaybeTime
    <2>4. unit[j].kind \in KindOf("prune_entries")
      BY <2>2 DEF KindOf
    <2>5. SoFar("prune_entries", disk, InsertEntry(work, unit[j].flight, unit[j].time),
                unit[j], taken[j], now)
      BY <2>2 DEF SoFar
    <2> QED BY <1>2, <2>1, <2>3, <2>4, <2>5, ExecuteStep
  <1>3. CASE Execute(j, "prune_entries", PruneStaleEntries(work, now), "commit")
    <2>1. pc[j] = "prune_entries" /\ "prune_entries" \in DML /\ pc[j] \in Inside
      BY <1>3 DEF Execute, Inside, Statement, DML
    <2>2. unit[j].kind = "entry" /\ work = InsertEntry(disk, unit[j].flight, unit[j].time)
      BY <2>1 DEF IInv, Progress, KindOf, SoFar
    <2>3. PruneStaleEntries(work, now) \in StoreType
      BY <1>1, PruneStaleEntriesType
    <2>4. unit[j].kind \in KindOf("commit")
      BY <2>2 DEF KindOf
    <2>5. PruneStaleEntries(work, now) = Atomic!Effect(disk, unit[j], now)
      BY <2>2, EffectEntry
    <2>6. SoFar("commit", disk, PruneStaleEntries(work, now), unit[j], taken[j], now)
      BY <1>1, <2>5, ReadClock DEF SoFar
    <2> QED BY <1>3, <2>1, <2>3, <2>4, <2>6, ExecuteStep
  <1> QED BY <1>2, <1>3 DEF EntryStep

(* The three statements of record_exit keep the invariant.                 *)
LEMMA ExitStepStep == ASSUME IInv, NEW j \in Job, ExitStep(j) PROVE IInv'
  <1> USE DEF StoreType
  <1>1. TypeOK /\ work \in StoreType /\ taken[j] \in MaybeTime
    BY DEF IInv, TypeOK
  <1>2. CASE SelectEntry(j)
    BY <1>2, SelectEntryStep
  <1>3. CASE Execute(j, "delete_entry", DeleteEntry(work, unit[j].flight), "insert_sighting")
    <2>1. pc[j] = "delete_entry" /\ "delete_entry" \in DML /\ pc[j] \in Inside
          /\ pc[j] \in NotBegun
      BY <1>3 DEF Execute, Inside, Statement, DML, NotBegun
    <2>2. unit[j].kind = "exit" /\ work = disk
          /\ taken[j] = SelectEntryTime(disk, unit[j].flight)
      BY <2>1 DEF IInv, Progress, KindOf, Transaction, SoFar
    <2>3. DeleteEntry(work, unit[j].flight) \in StoreType
      BY <1>1, DeleteEntryType
    <2>4. unit[j].kind \in KindOf("insert_sighting")
      BY <2>2 DEF KindOf
    <2>5. SoFar("insert_sighting", disk, DeleteEntry(work, unit[j].flight),
                unit[j], taken[j], now)
      BY <2>2 DEF SoFar
    <2> QED BY <1>3, <2>1, <2>3, <2>4, <2>5, ExecuteStep
  <1>4. CASE Execute(j, "insert_sighting", InsertSighting(work, unit[j], taken[j]), "commit")
    <2>1. pc[j] = "insert_sighting" /\ "insert_sighting" \in DML /\ pc[j] \in Inside
      BY <1>4 DEF Execute, Inside, Statement, DML
    <2>2. unit[j].kind = "exit" /\ work = DeleteEntry(disk, unit[j].flight)
          /\ taken[j] = SelectEntryTime(disk, unit[j].flight)
      BY <2>1 DEF IInv, Progress, KindOf, SoFar
    <2>3. InsertSighting(work, unit[j], taken[j]) \in StoreType
      BY <1>1, UnitFacts, InsertSightingType
    <2>4. unit[j].kind \in KindOf("commit")
      BY <2>2 DEF KindOf
    <2>5. InsertSighting(work, unit[j], taken[j]) = Atomic!Effect(disk, unit[j], now)
      BY <2>2, EffectExit
    <2>6. SoFar("commit", disk, InsertSighting(work, unit[j], taken[j]),
                unit[j], taken[j], now)
      BY <1>1, <2>5, ReadClock DEF SoFar
    <2> QED BY <1>4, <2>1, <2>3, <2>4, <2>6, ExecuteStep
  <1> QED BY <1>2, <1>3, <1>4 DEF ExitStep

(* The statement of record_movement keeps the invariant.                   *)
LEMMA MovementStepStep == ASSUME IInv, NEW j \in Job, MovementStep(j) PROVE IInv'
  <1> USE DEF StoreType
  <1>1. TypeOK /\ work \in StoreType
        /\ Execute(j, "insert_movement", InsertMovement(work, unit[j]), "commit")
    BY DEF IInv, TypeOK, MovementStep
  <1>2. pc[j] = "insert_movement" /\ "insert_movement" \in DML /\ pc[j] \in Inside
        /\ pc[j] \in NotBegun
    BY <1>1 DEF Execute, Inside, Statement, DML, NotBegun
  <1>3. unit[j].kind = "movement" /\ work = disk
    BY <1>2 DEF IInv, Progress, KindOf, Transaction
  <1>4. InsertMovement(work, unit[j]) \in StoreType
    BY <1>1, UnitFacts, InsertMovementType
  <1>5. unit[j].kind \in KindOf("commit")
    BY <1>3 DEF KindOf
  <1>6. InsertMovement(work, unit[j]) = Atomic!Effect(disk, unit[j], now)
    BY <1>3, EffectMovement
  <1>7. SoFar("commit", disk, InsertMovement(work, unit[j]), unit[j], taken[j], now)
    BY <1>1, <1>6, ReadClock DEF SoFar
  <1> QED BY <1>1, <1>2, <1>4, <1>5, <1>7, ExecuteStep

(* The two statements of record_positions keep the invariant.              *)
LEMMA PositionsStepStep == ASSUME IInv, NEW j \in Job, PositionsStep(j) PROVE IInv'
  <1> USE DEF StoreType
  <1>1. TypeOK /\ work \in StoreType
    BY DEF IInv, TypeOK
  <1>2. CASE Execute(j, "insert_positions", InsertPositions(work, Sample(unit[j])),
                     "prune_positions")
    <2>1. pc[j] = "insert_positions" /\ "insert_positions" \in DML /\ pc[j] \in Inside
          /\ pc[j] \in NotBegun
      BY <1>2 DEF Execute, Inside, Statement, DML, NotBegun
    <2>2. unit[j].kind = "positions" /\ work = disk
      BY <2>1 DEF IInv, Progress, KindOf, Transaction
    <2>3. InsertPositions(work, Sample(unit[j])) \in StoreType
      BY <1>1, SampleType, InsertPositionsType
    <2>4. unit[j].kind \in KindOf("prune_positions")
      BY <2>2 DEF KindOf
    <2>5. SoFar("prune_positions", disk, InsertPositions(work, Sample(unit[j])),
                unit[j], taken[j], now)
      BY <2>2 DEF SoFar
    <2> QED BY <1>2, <2>1, <2>3, <2>4, <2>5, ExecuteStep
  <1>3. CASE Execute(j, "prune_positions", PruneOldPositions(work, now), "commit")
    <2>1. pc[j] = "prune_positions" /\ "prune_positions" \in DML /\ pc[j] \in Inside
      BY <1>3 DEF Execute, Inside, Statement, DML
    <2>2. unit[j].kind = "positions" /\ work = InsertPositions(disk, Sample(unit[j]))
      BY <2>1 DEF IInv, Progress, KindOf, SoFar
    <2>3. PruneOldPositions(work, now) \in StoreType
      BY <1>1, PruneOldPositionsType
    <2>4. unit[j].kind \in KindOf("commit")
      BY <2>2 DEF KindOf
    <2>5. PruneOldPositions(work, now) = Atomic!Effect(disk, unit[j], now)
      BY <2>2, EffectPositions
    <2>6. SoFar("commit", disk, PruneOldPositions(work, now), unit[j], taken[j], now)
      BY <1>1, <2>5, ReadClock DEF SoFar
    <2> QED BY <1>3, <2>1, <2>3, <2>4, <2>6, ExecuteStep
  <1> QED BY <1>2, <1>3 DEF PositionsStep

(* A restart finds the committed tables and nobody inside.                 *)
LEMMA CrashStep == ASSUME IInv, Crash PROVE IInv'
  <1>1. /\ crashes < MaxCrash /\ crashes' = crashes + 1 /\ lock' = NoJob
        /\ pc' = [j \in Job |-> IF pc[j] \in {"waiting"} \cup Inside THEN "lost" ELSE pc[j]]
        /\ closed' = FALSE /\ work' = disk /\ inTx' = FALSE
        /\ UNCHANGED <<unit, disk, taken, seen, now, imported>>
    BY DEF Crash
  <1>2. "lost" \in Label /\ "lost" \notin Inside
    BY DEF Label, Ended, Inside, Statement, DML, Select
  <1>3. TypeOK'
    <2>1. crashes' \in 0 .. MaxCrash
      BY <1>1, UnitsAssumption DEF IInv, TypeOK
    <2>2. pc' \in [Job -> Label]
      BY <1>1, <1>2 DEF IInv, TypeOK
    <2> QED BY <1>1, <2>1, <2>2 DEF IInv, TypeOK
  <1>4. \A j \in Job : pc'[j] \notin Inside
    BY <1>1, <1>2
  <1>5. OneUnitAtATime' /\ Holder' /\ Transaction' /\ CleanHandover' /\ NoUseAfterClose'
    BY <1>1, <1>4, JobAssumption
    DEF OneUnitAtATime, Holder, Transaction, CleanHandover, NoUseAfterClose
  <1>6. \A j \in Job : Progress(j)'
    BY <1>4 DEF Progress
  <1>7. Reading'
    BY <1>1 DEF IInv, Reading, ReadSoFar
  <1> QED BY <1>3, <1>5, <1>6, <1>7 DEF IInv

(* The clock only widens the choice of times a prune may have read.        *)
LEMMA TickStep == ASSUME IInv, Tick PROVE IInv'
  <1>1. now < MaxTime /\ now' = now + 1
        /\ UNCHANGED <<unit, pc, lock, closed, work, disk, inTx, taken, seen, imported, crashes>>
    BY DEF Tick, conn
  <1>2. now \in Nat /\ now' \in 0 .. MaxTime /\ 0 .. now \subseteq 0 .. now'
    BY <1>1, UnitsAssumption DEF IInv, TypeOK
  <1>3. TypeOK'
    BY <1>1, <1>2 DEF IInv, TypeOK
  <1>4. OneUnitAtATime' /\ Holder' /\ Transaction' /\ CleanHandover' /\ NoUseAfterClose'
    BY <1>1 DEF IInv, OneUnitAtATime, Holder, Transaction, CleanHandover, NoUseAfterClose
  <1>5. \A j \in Job : Progress(j)'
    BY <1>1, <1>2 DEF IInv, Progress, SoFar
  <1>6. Reading'
    BY <1>1 DEF IInv, Reading, ReadSoFar
  <1> QED BY <1>3, <1>4, <1>5, <1>6 DEF IInv

(* A commit of the import touches no table of the coordinator, but a job   *)
(* that has run its first query may have counted fewer imported rows.      *)
LEMMA ImportStep == ASSUME IInv, ImportCommit PROVE IInv'
  <1>1. imported < MaxImport /\ imported' = imported + 1
        /\ UNCHANGED <<unit, pc, lock, closed, work, disk, inTx, taken, seen, now, crashes>>
    BY DEF ImportCommit, conn
  <1>2. imported \in Nat /\ imported' \in 0 .. MaxImport
        /\ 0 .. imported \subseteq 0 .. imported'
    BY <1>1, UnitsAssumption DEF IInv, TypeOK
  <1>3. TypeOK'
    BY <1>1, <1>2 DEF IInv, TypeOK
  <1>4. OneUnitAtATime' /\ Holder' /\ Transaction' /\ CleanHandover' /\ NoUseAfterClose'
    BY <1>1 DEF IInv, OneUnitAtATime, Holder, Transaction, CleanHandover, NoUseAfterClose
  <1>5. \A j \in Job : Progress(j)'
    BY <1>1 DEF IInv, Progress, SoFar
  <1>6. Reading'
    BY <1>1, <1>2 DEF IInv, Reading, ReadSoFar
  <1> QED BY <1>3, <1>4, <1>5, <1>6 DEF IInv

(* Every step preserves the invariant.                                     *)
LEMMA NextStep == ASSUME IInv, [Next]_vars PROVE IInv'
  <1>1. CASE \E j \in Job : Submit(j) \/ Acquire(j)
    BY <1>1, SubmitStep, AcquireStep
  <1>2. CASE \E j \in Job : RunStep(j)
    BY <1>2, EnterStep, RefuseStep, CloseStep, EntryStepStep, ExitStepStep,
       MovementStepStep, PositionsStepStep, CommitStep, QueryStep, RaiseStep, UnwindStep
    DEF RunStep
  <1>3. CASE Crash
    BY <1>3, CrashStep
  <1>4. CASE Tick
    BY <1>4, TickStep
  <1>6. CASE ImportCommit
    BY <1>6, ImportStep
  <1>5. CASE UNCHANGED vars
    <2>1. TypeOK'
      BY <1>5 DEF IInv, TypeOK, vars
    <2>2. OneUnitAtATime' /\ Holder' /\ Transaction' /\ CleanHandover' /\ NoUseAfterClose'
      BY <1>5
      DEF IInv, OneUnitAtATime, Holder, Transaction, CleanHandover, NoUseAfterClose, vars
    <2>3. (\A j \in Job : Progress(j)') /\ Reading'
      BY <1>5 DEF IInv, Progress, Reading, ReadSoFar, vars
    <2> QED BY <2>1, <2>2, <2>3 DEF IInv
  <1> QED BY <1>1, <1>2, <1>3, <1>4, <1>5, <1>6 DEF Next

-----------------------------------------------------------------------------
(* The inductive invariant holds in every reachable state, for any set of  *)
(* jobs and units: the base of every theorem below.                        *)
THEOREM Invariance == Spec => []IInv
  <1>1. Init => IInv
    BY InitStep
  <1>2. IInv /\ [Next]_vars => IInv'
    BY NextStep
  <1> QED BY <1>1, <1>2, PTL DEF Spec

(* The state of SerializedConnection and of the jobs in it stays typed.    *)
THEOREM TypeCorrect == Spec => []TypeOK
  <1>1. IInv => TypeOK
    BY DEF IInv
  <1> QED BY <1>1, Invariance, PTL

(* run() holds the lock for the whole unit of work (connection.py:74):     *)
(* two jobs are never inside at once.                                      *)
THEOREM MutualExclusion == Spec => []OneUnitAtATime
  <1>1. IInv => OneUnitAtATime
    BY DEF IInv
  <1> QED BY <1>1, Invariance, PTL

(* No way out of run() keeps the lock (connection.py:74-82): it is free,   *)
(* or its holder is between its first statement and its last.              *)
THEOREM LockIsGivenBack == Spec => [](lock # NoJob => lock \in Job /\ pc[lock] \in Inside)
  <1>1. IInv => (lock # NoJob => lock \in Job /\ pc[lock] \in Inside)
    BY DEF IInv, TypeOK, Holder
  <1> QED BY <1>1, Invariance, PTL

(* Whatever way a unit ends, the next holder of the lock finds no open     *)
(* transaction and no uncommitted row (connection.py:77-82).               *)
THEOREM HandoverIsClean == Spec => []CleanHandover
  <1>1. IInv => CleanHandover
    BY DEF IInv
  <1> QED BY <1>1, Invariance, PTL

(* No statement runs on a closed connection, however late a job submitted  *)
(* before the close gets the lock (connection.py:75-76, 84-88).            *)
THEOREM ClosedIsClosed == Spec => []NoUseAfterClose
  <1>1. IInv => NoUseAfterClose
    BY DEF IInv
  <1> QED BY <1>1, Invariance, PTL

(* All the queries of one build see the coordinator's tables as one        *)
(* commit left them, the last one before the build (connection.py:74); an  *)
(* import that commits between two of them adds its rows and no others.    *)
THEOREM ReadsShareOneCommit == Spec => []ReadsDifferByImportsOnly
  <1>1. IInv => ReadsDifferByImportsOnly
    BY DEF IInv, Reading, ReadSoFar, Found, ReadsDifferByImportsOnly
  <1> QED BY <1>1, Invariance, PTL

-----------------------------------------------------------------------------
(* Refinement: the committed tables, with the outcome of every job, behave *)
(* as UnitsOfWork.                                                         *)
outcomes == [j \in Job |-> Outcome(pc[j])]
readings == [j \in Job |-> IF pc[j] = "done" THEN seen[j] ELSE {}]

(* Labels inside run() are not the labels of a job that has ended.         *)
LEMMA LabelFacts ==
  /\ Inside \cap Ended = {} /\ Statement \subseteq Inside
  /\ "new" \notin Ended /\ "waiting" \notin Ended /\ "entered" \notin Ended
  /\ "pending" \notin Ended
  BY DEF Inside, Ended, Statement, DML, Select

(* A step that ends no job and leaves the file and the connection's state  *)
(* alone is a stutter of UnitsOfWork.                                      *)
LEMMA Stutter ==
  ASSUME NEW j \in Job, pc \in [Job -> Label], NEW next \in Label \ Ended, pc[j] \notin Ended,
         pc' = [pc EXCEPT ![j] = next],
         \A k \in Job \ {j} : seen'[k] = seen[k],
         UNCHANGED <<unit, closed, disk, now, imported, crashes>>
  PROVE  UNCHANGED Atomic!vars
  <1>1. \A k \in Job : Outcome(pc'[k]) = Outcome(pc[k])
    BY DEF Outcome
  <1>2. \A k \in Job : (IF pc'[k] = "done" THEN seen'[k] ELSE {})
                       = (IF pc[k] = "done" THEN seen[k] ELSE {})
    BY DEF Ended
  <1> QED BY <1>1, <1>2 DEF Atomic!vars

(* A job that ends changes its own outcome and no other.                   *)
LEMMA Ending ==
  ASSUME NEW j \in Job, pc \in [Job -> Label], pc[j] \in Inside,
         NEW label \in Ended, pc' = [pc EXCEPT ![j] = label]
  PROVE  /\ outcomes[j] = "pending"
         /\ outcomes' = [outcomes EXCEPT ![j] = label]
  BY LabelFacts DEF outcomes, Outcome

(* An ending job that has read nothing leaves the abstract readings alone. *)
LEMMA SameReadings ==
  ASSUME NEW j \in Job, pc \in [Job -> Label], seen[j] = {}, UNCHANGED seen,
         pc[j] \notin Ended, NEW label \in Ended, pc' = [pc EXCEPT ![j] = label]
  PROVE  readings' = readings
  BY DEF readings, Ended

(* The initial states are initial states of UnitsOfWork.                   *)
LEMMA InitRefines == Init => Atomic!Init
  <1> SUFFICES ASSUME Init PROVE Atomic!Init
    OBVIOUS
  <1>1. Atomic!EmptyStore = EmptyStore
    BY DEF Atomic!EmptyStore, EmptyStore
  <1>2. \A j \in Job : Outcome(pc[j]) = "pending" /\ seen[j] = {}
    BY LabelFacts DEF Init, Outcome
  <1> QED BY <1>1, <1>2 DEF Init, Atomic!Init

(* The commit is the step at which the whole unit takes effect.            *)
LEMMA CommitRefines ==
  ASSUME IInv, NEW j \in Job, Commit(j) PROVE Atomic!Apply(j)
  <1>1. pc[j] = "commit" /\ pc' = [pc EXCEPT ![j] = "done"] /\ disk' = work
        /\ UNCHANGED <<unit, closed, seen, now, imported, crashes>>
    BY DEF Commit, Goto
  <1>2. pc[j] \in Inside /\ pc[j] \in Statement /\ "done" \in Ended /\ pc[j] \notin Ended
    BY <1>1, LabelFacts DEF Statement, Ended
  <1>3. pc \in [Job -> Label] /\ ~closed /\ unit[j].kind \in Atomic!Writes
    BY <1>1, <1>2 DEF IInv, TypeOK, NoUseAfterClose, Progress, KindOf, Atomic!Writes
  <1>4. seen[j] = {}
    BY <1>3 DEF IInv, Reading, ReadSoFar, Atomic!Writes
  <1>5. \E t \in 0 .. now : disk' = Atomic!Effect(disk, unit[j], t)
    BY <1>1, <1>2 DEF IInv, Progress, SoFar
  <1>6. readings' = readings
    BY <1>1, <1>2, <1>3, <1>4, SameReadings
  <1>7. outcomes[j] = "pending" /\ outcomes' = [outcomes EXCEPT ![j] = "done"]
    BY <1>1, <1>2, <1>3, Ending
  <1> QED BY <1>1, <1>3, <1>5, <1>6, <1>7 DEF Atomic!Apply, outcomes, readings

(* The last query is the reading step; the one before it is hidden.        *)
LEMMA QueryRefines ==
  ASSUME IInv, NEW j \in Job, Query(j) PROVE Atomic!Query(j) \/ UNCHANGED Atomic!vars
  <1>1. pc[j] \in {"query", "query_again"} /\ seen' = [seen EXCEPT ![j] = @ \cup {Found(work, imported)}]
        /\ UNCHANGED <<unit, closed, work, disk, inTx, taken, now, imported, crashes>>
    BY DEF Query
  <1>2. pc[j] \in Inside /\ pc[j] \in NotBegun /\ pc[j] \in Statement /\ pc[j] \notin Ended
    BY <1>1, LabelFacts DEF Statement, Select, NotBegun
  <1>3. /\ work = disk /\ unit[j].kind = "read" /\ ~closed
        /\ pc \in [Job -> Label] /\ seen \in [Job -> SUBSET FoundType]
    BY <1>1, <1>2 DEF IInv, TypeOK, Progress, KindOf, Transaction, NoUseAfterClose
  <1>4. CASE pc[j] = "query"
    <2>1. pc' = [pc EXCEPT ![j] = "query_again"] /\ "query_again" \in Label \ Ended
      BY <1>4 DEF Query, Goto, Label, Ended, Inside, Statement, Select
    <2>2. \A k \in Job \ {j} : seen'[k] = seen[k]
      BY <1>1, <1>3
    <2> QED BY <1>1, <1>2, <1>3, <2>1, <2>2, Stutter
  <1>5. CASE pc[j] = "query_again"
    <2>1. pc' = [pc EXCEPT ![j] = "done"] /\ "done" \in Ended
      BY <1>5 DEF Query, Goto, Ended
    <2>2. PICK early \in 0 .. imported : seen[j] = {Found(disk, early)}
      BY <1>5 DEF IInv, Reading, ReadSoFar
    <2>5. seen'[j] = {[tables |-> disk, imported |-> n] : n \in {early, imported}}
      BY <1>1, <1>3, <2>2 DEF Found
    <2>3. readings' = [readings EXCEPT
             ![j] = {[tables |-> disk, imported |-> n] : n \in {early, imported}}]
      BY <1>1, <1>2, <1>3, <2>1, <2>5 DEF readings
    <2>4. outcomes[j] = "pending" /\ outcomes' = [outcomes EXCEPT ![j] = "done"]
      BY <1>2, <1>3, <2>1, Ending
    <2> QED BY <1>1, <1>3, <2>3, <2>4 DEF Atomic!Query, outcomes, readings
  <1> QED BY <1>1, <1>4, <1>5

(* A refusal on the closed connection is the abstract refusal.             *)
LEMMA RefuseRefines ==
  ASSUME IInv, NEW j \in Job, Refuse(j) PROVE Atomic!Refuse(j)
  <1>1. pc[j] = "entered" /\ closed /\ pc' = [pc EXCEPT ![j] = "refused"]
        /\ UNCHANGED <<unit, closed, disk, seen, now, imported, crashes>>
    BY DEF Refuse, Goto
  <1>2. pc[j] \in Inside /\ "refused" \in Ended /\ pc[j] \notin Ended
    BY <1>1 DEF Inside, Ended
  <1>3. pc \in [Job -> Label] /\ seen[j] = {}
    BY <1>1 DEF IInv, TypeOK, Reading, ReadSoFar
  <1>4. readings' = readings
    BY <1>1, <1>2, <1>3, SameReadings
  <1>5. outcomes[j] = "pending" /\ outcomes' = [outcomes EXCEPT ![j] = "refused"]
    BY <1>1, <1>2, <1>3, Ending
  <1> QED BY <1>1, <1>4, <1>5 DEF Atomic!Refuse, outcomes, readings

(* close() is the abstract close, and loses no committed row.              *)
LEMMA CloseRefines ==
  ASSUME IInv, NEW j \in Job, Close(j) PROVE Atomic!Close(j)
  <1>1. pc[j] = "entered" /\ unit[j].kind = "close" /\ closed' = TRUE
        /\ pc' = [pc EXCEPT ![j] = "done"] /\ UNCHANGED <<unit, disk, seen, now, imported, crashes>>
    BY DEF Close, Goto
  <1>2. pc[j] \in Inside /\ "done" \in Ended /\ pc[j] \notin Ended
    BY <1>1 DEF Inside, Ended
  <1>3. pc \in [Job -> Label] /\ seen[j] = {}
    BY <1>1 DEF IInv, TypeOK, Reading, ReadSoFar
  <1>4. readings' = readings
    BY <1>1, <1>2, <1>3, SameReadings
  <1>5. outcomes[j] = "pending" /\ outcomes' = [outcomes EXCEPT ![j] = "done"]
    BY <1>1, <1>2, <1>3, Ending
  <1> QED BY <1>1, <1>4, <1>5 DEF Atomic!Close, outcomes, readings

(* A failed unit leaves no trace: its rollback is the abstract failure.    *)
LEMMA UnwindRefines ==
  ASSUME IInv, NEW j \in Job, Unwind(j) PROVE Atomic!Raise(j)
  <1>1. pc[j] = "unwind" /\ pc' = [pc EXCEPT ![j] = "raised"]
        /\ UNCHANGED <<unit, closed, disk, seen, now, imported, crashes>>
    BY DEF Unwind, Goto
  <1>2. pc[j] \in Inside /\ "raised" \in Ended /\ pc[j] \notin Ended
    BY <1>1 DEF Inside, Ended
  <1>3. pc \in [Job -> Label] /\ ~closed
    BY <1>1 DEF IInv, TypeOK, NoUseAfterClose
  <1>4. readings' = readings
    BY <1>1, <1>3 DEF readings
  <1>5. outcomes[j] = "pending" /\ outcomes' = [outcomes EXCEPT ![j] = "raised"]
    BY <1>1, <1>2, <1>3, Ending
  <1> QED BY <1>1, <1>3, <1>4, <1>5 DEF Atomic!Raise, outcomes, readings

(* A crash ends the submitted jobs and keeps what was committed.           *)
LEMMA CrashRefines == ASSUME IInv, Crash PROVE Atomic!Crash
  <1> DEFINE dying == {j \in Job : pc[j] \in {"waiting"} \cup Inside}
  <1>1. /\ crashes < MaxCrash /\ crashes' = crashes + 1 /\ closed' = FALSE
        /\ pc' = [j \in Job |-> IF pc[j] \in {"waiting"} \cup Inside THEN "lost" ELSE pc[j]]
        /\ UNCHANGED <<unit, disk, seen, now, imported>>
    BY DEF Crash
  <1>2. "lost" \in Ended /\ "lost" # "done" /\ "done" \notin Inside
    BY DEF Ended, Inside, Statement, DML, Select
  <1>3. dying \in SUBSET {j \in Job : outcomes[j] = "pending"}
    BY LabelFacts DEF outcomes, Outcome
  <1>4. outcomes' = [j \in Job |-> IF j \in dying THEN "lost" ELSE outcomes[j]]
    BY <1>1, <1>2 DEF outcomes, Outcome
  <1>5. readings' = readings
    BY <1>1, <1>2 DEF readings
  <1> HIDE DEF dying
  <1>6. \E lost \in SUBSET {j \in Job : outcomes[j] = "pending"} :
           outcomes' = [j \in Job |-> IF j \in lost THEN "lost" ELSE outcomes[j]]
    BY <1>3, <1>4
  <1> QED BY <1>1, <1>5, <1>6 DEF Atomic!Crash, outcomes, readings

(* A statement inside a transaction is hidden.                             *)
LEMMA ExecuteRefines ==
  ASSUME IInv, NEW j \in Job, NEW label \in DML, NEW result,
         NEW next \in {"prune_entries", "insert_sighting", "prune_positions", "commit"},
         Execute(j, label, result, next)
  PROVE  UNCHANGED Atomic!vars
  <1>1. pc[j] = label /\ pc' = [pc EXCEPT ![j] = next]
        /\ UNCHANGED <<unit, closed, disk, seen, now, imported, crashes>>
    BY DEF Execute, Goto
  <1>2. pc[j] \notin Ended /\ next \in Label \ Ended /\ pc \in [Job -> Label]
    BY <1>1 DEF DML, Ended, Label, Inside, Statement, IInv, TypeOK
  <1> QED BY <1>1, <1>2, Stutter

(* The other steps of a job do not show in UnitsOfWork.                    *)
LEMMA HiddenStep ==
  ASSUME IInv, NEW j \in Job,
         \/ Submit(j) \/ Acquire(j) \/ Enter(j) \/ SelectEntry(j) \/ Raise(j)
  PROVE  UNCHANGED Atomic!vars
  <1> USE DEF Goto, conn
  <1>1. pc \in [Job -> Label] /\ unit[j].kind \in Kinds
    BY UnitFacts DEF IInv, TypeOK
  <1>2. \E next \in {"waiting", "entered", "unwind", "insert_entry", "select_entry",
                     "insert_movement", "insert_positions", "query",
                     "insert_sighting", "delete_entry"} :
           pc' = [pc EXCEPT ![j] = next]
    <2>1. CASE Submit(j)
      BY <2>1 DEF Submit
    <2>2. CASE Acquire(j)
      BY <2>2 DEF Acquire
    <2>3. CASE Enter(j)
      BY <1>1, <2>3 DEF Enter, First, Kinds
    <2>4. CASE SelectEntry(j)
      BY <2>4 DEF SelectEntry
    <2>5. CASE Raise(j)
      BY <2>5 DEF Raise
    <2> QED BY <2>1, <2>2, <2>3, <2>4, <2>5
  <1>3. pc[j] \notin Ended /\ UNCHANGED <<unit, closed, disk, seen, now, imported, crashes>>
    BY LabelFacts
    DEF Submit, Acquire, Enter, SelectEntry, Raise, Ended, Statement, DML, Select
  <1>4. PICK next \in Label \ Ended : pc' = [pc EXCEPT ![j] = next]
    BY <1>2 DEF Label, Ended, Inside, Statement, DML, Select
  <1> QED BY <1>1, <1>3, <1>4, Stutter

(* Every step is a step of UnitsOfWork or hidden from it.                  *)
LEMMA StepRefines ==
  ASSUME IInv, [Next]_vars PROVE [Atomic!Next]_(Atomic!vars)
  <1>1. ASSUME NEW j \in Job, Submit(j) \/ Acquire(j) PROVE UNCHANGED Atomic!vars
    BY <1>1, HiddenStep
  <1>2. ASSUME NEW j \in Job, RunStep(j)
        PROVE  \/ UNCHANGED Atomic!vars \/ Atomic!Apply(j) \/ Atomic!Query(j)
               \/ Atomic!Close(j) \/ Atomic!Raise(j) \/ Atomic!Refuse(j)
    <2>1. CASE Enter(j) \/ SelectEntry(j) \/ Raise(j)
      BY <2>1, HiddenStep
    <2>2. CASE Refuse(j) \/ Close(j) \/ Commit(j) \/ Query(j) \/ Unwind(j)
      BY <2>2, RefuseRefines, CloseRefines, CommitRefines, QueryRefines, UnwindRefines
    <2>3. CASE EntryStep(j) \/ (ExitStep(j) /\ ~SelectEntry(j)) \/ MovementStep(j)
               \/ PositionsStep(j)
      BY <2>3, ExecuteRefines DEF EntryStep, ExitStep, MovementStep, PositionsStep, DML
    <2> QED BY <1>2, <2>1, <2>2, <2>3 DEF RunStep, ExitStep
  <1>3. CASE Crash
    BY <1>3, CrashRefines DEF Atomic!Next
  <1>4. CASE Tick
    <2>1. now < MaxTime /\ now' = now + 1 /\ UNCHANGED <<unit, pc, closed, disk, seen, imported, crashes>>
      BY <1>4 DEF Tick, conn
    <2> QED BY <2>1 DEF Atomic!Next, Atomic!Tick
  <1>6. CASE ImportCommit
    <2>1. imported < MaxImport /\ imported' = imported + 1
          /\ UNCHANGED <<unit, pc, closed, disk, seen, now, crashes>>
      BY <1>6 DEF ImportCommit, conn
    <2> QED BY <2>1 DEF Atomic!Next, Atomic!ImportCommit
  <1>5. CASE UNCHANGED vars
    BY <1>5 DEF vars, Atomic!vars
  <1> QED BY <1>1, <1>2, <1>3, <1>4, <1>5, <1>6 DEF Next, Atomic!Next

(* SerializedConnection implements UnitsOfWork: a job's statements, with   *)
(* every interleaving of threads, every failing statement, every close and *)
(* every crash, take effect on the file as one atomic unit or not at all,  *)
(* and nothing but a unit that ends "done" changes the file.               *)
THEOREM Refinement == Spec => RefinesUnitsOfWork
  <1>1. Init => Atomic!Init
    BY InitRefines
  <1>2. IInv /\ [Next]_vars => [Atomic!Next]_(Atomic!vars)
    BY StepRefines
  <1> QED BY <1>1, <1>2, Invariance, PTL DEF Spec, RefinesUnitsOfWork, Atomic!Spec
-----------------------------------------------------------------------------
(* The rows and entry times that the jobs left in the file.  What a step   *)
(* does to the file is read off UnitsOfWork: a write takes effect when its *)
(* job gets to "done", and nothing else changes the file.                  *)
Written(kind) == {j \in Job : unit[j].kind = kind /\ pc[j] = "done"}

Writes(j, t) ==
    /\ unit[j].kind \in Atomic!Writes /\ pc[j] # "done"
    /\ disk' = Atomic!Effect(disk, unit[j], t)
    /\ \A kind \in Atomic!Writes :
          Written(kind)' = IF kind = unit[j].kind THEN Written(kind) \cup {j} ELSE Written(kind)

WritesNothing ==
    disk' = disk /\ \A kind \in Atomic!Writes : Written(kind)' = Written(kind)

(* Every step writes one unit or none, and the clock does not go back.     *)
LEMMA FileStep ==
  ASSUME IInv, [Next]_vars
  PROVE  /\ unit' = unit /\ now' \in Nat /\ now <= now'
         /\ WritesNothing \/ \E j \in Job, t \in 0 .. now : Writes(j, t)
  <1>1. [Atomic!Next]_(Atomic!vars)
    BY StepRefines
  <1>2. now \in Nat /\ \A j \in Job : unit[j].kind \in Kinds
    BY UnitFacts, UnitsAssumption DEF IInv, TypeOK
  <1>3. \A j \in Job : /\ outcomes[j] = "done" <=> pc[j] = "done"
                       /\ outcomes'[j] = "done" <=> pc'[j] = "done"
    BY DEF outcomes, Outcome, Ended
  <1>4. outcomes \in [Job -> {outcomes[j] : j \in Job}]
    BY DEF outcomes
  <1>5. CASE UNCHANGED Atomic!vars
    <2>1. disk' = disk /\ unit' = unit /\ now' = now /\ outcomes' = outcomes
      BY <1>5 DEF Atomic!vars, outcomes
    <2> QED BY <1>2, <1>3, <2>1 DEF WritesNothing, Written
  <1>6. ASSUME NEW j \in Job, Atomic!Apply(j)
        PROVE  /\ unit' = unit /\ now' = now /\ \E t \in 0 .. now : Writes(j, t)
    <2>1. /\ outcomes[j] = "pending" /\ outcomes' = [outcomes EXCEPT ![j] = "done"]
          /\ unit[j].kind \in Atomic!Writes /\ unit' = unit /\ now' = now
      BY <1>6 DEF Atomic!Apply, outcomes
    <2>2. PICK t \in 0 .. now : disk' = Atomic!Effect(disk, unit[j], t)
      BY <1>6 DEF Atomic!Apply
    <2>3. \A k \in Job : pc'[k] = "done" <=> (k = j \/ pc[k] = "done")
      BY <1>3, <1>4, <2>1
    <2>4. pc[j] # "done"
      BY <1>3, <2>1
    <2>5. \A kind \in Atomic!Writes :
             Written(kind)' = IF kind = unit[j].kind THEN Written(kind) \cup {j}
                              ELSE Written(kind)
      BY <2>1, <2>3 DEF Written
    <2> QED BY <2>1, <2>2, <2>4, <2>5 DEF Writes
  <1>7. ASSUME NEW j \in Job, Atomic!Query(j) \/ Atomic!Close(j)
        PROVE  unit' = unit /\ now' = now /\ WritesNothing
    <2>1. /\ outcomes' = [outcomes EXCEPT ![j] = "done"] /\ unit[j].kind \in {"read", "close"}
          /\ unit' = unit /\ now' = now /\ disk' = disk
      BY <1>7 DEF Atomic!Query, Atomic!Close, outcomes
    <2>2. \A k \in Job : pc'[k] = "done" <=> (k = j \/ pc[k] = "done")
      BY <1>3, <1>4, <2>1
    <2> QED BY <2>1, <2>2 DEF WritesNothing, Written, Atomic!Writes
  <1>8. ASSUME NEW j \in Job, Atomic!Raise(j) \/ Atomic!Refuse(j)
        PROVE  unit' = unit /\ now' = now /\ WritesNothing
    <2>1. /\ outcomes[j] = "pending"
          /\ \E end \in {"raised", "refused"} : outcomes' = [outcomes EXCEPT ![j] = end]
          /\ unit' = unit /\ now' = now /\ disk' = disk
      BY <1>8 DEF Atomic!Raise, Atomic!Refuse, outcomes
    <2>2. \A k \in Job : pc'[k] = "done" <=> pc[k] = "done"
      BY <1>3, <1>4, <2>1
    <2> QED BY <2>1, <2>2 DEF WritesNothing, Written
  <1>9. ASSUME Atomic!Crash
        PROVE  unit' = unit /\ now' = now /\ WritesNothing
    <2>1. /\ unit' = unit /\ now' = now /\ disk' = disk
          /\ \E dead \in SUBSET {j \in Job : outcomes[j] = "pending"} :
                outcomes' = [j \in Job |-> IF j \in dead THEN "lost" ELSE outcomes[j]]
      BY <1>9 DEF Atomic!Crash, outcomes
    <2>2. \A k \in Job : pc'[k] = "done" <=> pc[k] = "done"
      BY <1>3, <1>4, <2>1
    <2> QED BY <2>1, <2>2 DEF WritesNothing, Written
  <1>10. ASSUME Atomic!Tick
         PROVE  unit' = unit /\ now' = now + 1 /\ WritesNothing
    <2>1. unit' = unit /\ now' = now + 1 /\ disk' = disk /\ outcomes' = outcomes
      BY <1>10 DEF Atomic!Tick, outcomes
    <2> QED BY <1>3, <2>1 DEF WritesNothing, Written
  <1>11. ASSUME Atomic!ImportCommit
         PROVE  unit' = unit /\ now' = now /\ WritesNothing
    <2>1. unit' = unit /\ now' = now /\ disk' = disk /\ outcomes' = outcomes
      BY <1>11 DEF Atomic!ImportCommit, outcomes
    <2> QED BY <1>3, <2>1 DEF WritesNothing, Written
  <1> QED BY <1>1, <1>2, <1>5, <1>6, <1>7, <1>8, <1>9, <1>10, <1>11 DEF Atomic!Next

(* Every finished job of a kind has one row of its own, and every row has  *)
(* such a job.                                                             *)
OneRowEach(jobs, events) ==
    \E place \in [jobs -> DOMAIN events] :
        /\ \A j \in jobs : events[place[j]] = unit[j]
        /\ \A j, k \in jobs : place[j] = place[k] => j = k
        /\ \A i \in DOMAIN events : \E j \in jobs : place[j] = i

SightingEvents(s) == [i \in DOMAIN s.sightings |-> s.sightings[i].event]

RowsInv == /\ OneRowEach(Written("exit"), SightingEvents(disk))
           /\ OneRowEach(Written("movement"), disk.movements)

(* The row that a job adds is its own.                                     *)
LEMMA RowAdded ==
  ASSUME NEW jobs, NEW events, OneRowEach(jobs, events), unit' = unit,
         NEW j \in Job \ jobs, NEW new, NEW events2,
         new \notin DOMAIN events, DOMAIN events2 = DOMAIN events \cup {new},
         events2[new] = unit[j], \A i \in DOMAIN events : events2[i] = events[i]
  PROVE  OneRowEach(jobs \cup {j}, events2)
  <1>1. PICK place \in [jobs -> DOMAIN events] :
           /\ \A k \in jobs : events[place[k]] = unit[k]
           /\ \A k, l \in jobs : place[k] = place[l] => k = l
           /\ \A i \in DOMAIN events : \E k \in jobs : place[k] = i
    BY DEF OneRowEach
  <1> DEFINE place2 == [k \in jobs \cup {j} |-> IF k = j THEN new ELSE place[k]]
  <1>2. /\ place2 \in [jobs \cup {j} -> DOMAIN events2] /\ place2[j] = new
        /\ \A k \in jobs : place2[k] = place[k]
    BY <1>1
  <1> HIDE DEF place2
  <1>3. \A k \in jobs \cup {j} : events2[place2[k]] = unit[k]
    BY <1>1, <1>2
  <1>4. \A k, l \in jobs \cup {j} : place2[k] = place2[l] => k = l
    BY <1>1, <1>2
  <1>5. \A i \in DOMAIN events2 : \E k \in jobs \cup {j} : place2[k] = i
    BY <1>1, <1>2
  <1> QED BY <1>2, <1>3, <1>4, <1>5 DEF OneRowEach

(* What a unit adds to the two tables of events.                           *)
LEMMA RowsOfEffect ==
  ASSUME NEW s \in StoreType, NEW u \in Units, NEW t, u.kind \in Atomic!Writes,
         NEW r, r = Atomic!Effect(s, u, t)
  PROVE  /\ r.sightings = IF u.kind # "exit" THEN s.sightings
                          ELSE Append(s.sightings, [event |-> u,
                                        entry_time |-> SelectEntryTime(s, u.flight)])
         /\ r.movements = IF u.kind = "movement" THEN Append(s.movements, u) ELSE s.movements
  <1> USE DEF StoreType, StoreOf
  <1>1. CASE u.kind = "entry"
    <2>1. r = PruneStaleEntries(InsertEntry(s, u.flight, u.time), t)
      BY <1>1, EffectEntry
    <2>2. r.sightings = s.sightings /\ r.movements = s.movements
      BY <2>1 DEF PruneStaleEntries, InsertEntry
    <2> QED BY <1>1, <2>2
  <1>2. CASE u.kind = "exit"
    <2> DEFINE row == [event |-> u, entry_time |-> SelectEntryTime(s, u.flight)]
    <2>1. r = InsertSighting(DeleteEntry(s, u.flight), u, SelectEntryTime(s, u.flight))
      BY <1>2, EffectExit
    <2>2. DeleteEntry(s, u.flight) \in StoreType
      BY DeleteEntryType
    <2>3. /\ DeleteEntry(s, u.flight).sightings = s.sightings
          /\ DeleteEntry(s, u.flight).movements = s.movements
      BY DEF DeleteEntry
    <2>4. r.sightings = Append(s.sightings, row) /\ r.movements = s.movements
      BY <2>1, <2>2, <2>3 DEF InsertSighting
    <2> QED BY <1>2, <2>4
  <1>3. CASE u.kind = "movement"
    BY <1>3, EffectMovement DEF InsertMovement
  <1>4. CASE u.kind = "positions"
    <2>1. r = PruneOldPositions(InsertPositions(s, Sample(u)), t)
      BY <1>4, EffectPositions
    <2>2. r.sightings = s.sightings /\ r.movements = s.movements
      BY <2>1 DEF PruneOldPositions, InsertPositions
    <2> QED BY <1>4, <2>2
  <1> QED BY <1>1, <1>2, <1>3, <1>4 DEF Atomic!Writes

(* Every step keeps one row for each finished exit and movement.           *)
LEMMA RowsStep == ASSUME IInv, RowsInv, [Next]_vars PROVE RowsInv'
  <1>1. unit' = unit /\ (WritesNothing \/ \E j \in Job, t \in 0 .. now : Writes(j, t))
    BY FileStep
  <1>2. CASE WritesNothing
    <2>1. disk' = disk /\ Written("exit")' = Written("exit")
          /\ Written("movement")' = Written("movement")
      BY <1>2 DEF WritesNothing, Atomic!Writes
    <2> QED BY <1>1, <2>1 DEF RowsInv, OneRowEach
  <1>3. ASSUME NEW j \in Job, NEW t \in 0 .. now, Writes(j, t) PROVE RowsInv'
    <2>1. /\ disk \in StoreType /\ unit[j] \in Units
          /\ Written("exit")' = (IF unit[j].kind = "exit" THEN Written("exit") \cup {j}
                                 ELSE Written("exit"))
          /\ Written("movement")' = (IF unit[j].kind = "movement" THEN Written("movement") \cup {j}
                                     ELSE Written("movement"))
          /\ j \notin Written("exit") /\ j \notin Written("movement")
      BY <1>3, UnitFacts DEF Writes, Atomic!Writes, Written, IInv, TypeOK
    <2>2. /\ disk'.sightings = (IF unit[j].kind # "exit" THEN disk.sightings
                                ELSE Append(disk.sightings, [event |-> unit[j],
                                       entry_time |-> SelectEntryTime(disk, unit[j].flight)]))
          /\ disk'.movements = (IF unit[j].kind = "movement" THEN Append(disk.movements, unit[j])
                                ELSE disk.movements)
      BY <1>3, <2>1, RowsOfEffect DEF Writes
    <2>3. OneRowEach(Written("exit"), SightingEvents(disk))'
      <3>1. CASE unit[j].kind # "exit"
        <4>1. SightingEvents(disk)' = SightingEvents(disk)
          BY <2>2, <3>1 DEF SightingEvents
        <4> QED BY <1>1, <2>1, <3>1, <4>1 DEF RowsInv, OneRowEach
      <3>2. CASE unit[j].kind = "exit"
        <4> DEFINE row == [event |-> unit[j], entry_time |-> SelectEntryTime(disk, unit[j].flight)]
                   new == Len(disk.sightings) + 1
        <4>1. SelectEntryTime(disk, unit[j].flight) \in MaybeTime
          BY <2>1, SelectEntryTimeType DEF StoreType
        <4>2. /\ disk.sightings \in Seq([event : Units, entry_time : MaybeTime])
              /\ row \in [event : Units, entry_time : MaybeTime] /\ row.event = unit[j]
          BY <2>1, <4>1 DEF StoreType, StoreOf
        <4>3. disk'.sightings = Append(disk.sightings, row)
          BY <2>2, <3>2
        <4> HIDE DEF row
        <4>4. /\ new \notin DOMAIN disk.sightings
              /\ DOMAIN disk'.sightings = DOMAIN disk.sightings \cup {new}
              /\ disk'.sightings[new] = row
              /\ \A i \in DOMAIN disk.sightings : disk'.sightings[i] = disk.sightings[i]
          BY <4>2, <4>3
        <4>5. /\ DOMAIN SightingEvents(disk) = DOMAIN disk.sightings
              /\ DOMAIN SightingEvents(disk)' = DOMAIN SightingEvents(disk) \cup {new}
              /\ SightingEvents(disk)'[new] = unit[j]
              /\ \A i \in DOMAIN SightingEvents(disk) :
                    SightingEvents(disk)'[i] = SightingEvents(disk)[i]
          BY <4>2, <4>4 DEF SightingEvents
        <4> HIDE DEF new
        <4>6. OneRowEach(Written("exit") \cup {j}, SightingEvents(disk)')
          BY <1>1, <2>1, <4>4, <4>5, RowAdded, SMTT(60) DEF RowsInv
        <4> QED BY <1>1, <2>1, <3>2, <4>6 DEF OneRowEach
      <3> QED BY <3>1, <3>2
    <2>4. OneRowEach(Written("movement"), disk.movements)'
      <3>1. CASE unit[j].kind # "movement"
        BY <1>1, <2>1, <2>2, <3>1 DEF RowsInv, OneRowEach
      <3>2. CASE unit[j].kind = "movement"
        <4> DEFINE new == Len(disk.movements) + 1
        <4>1. disk.movements \in Seq(Units)
          BY <2>1 DEF StoreType, StoreOf
        <4>2. /\ new \notin DOMAIN disk.movements
              /\ DOMAIN disk'.movements = DOMAIN disk.movements \cup {new}
              /\ disk'.movements[new] = unit[j]
              /\ \A i \in DOMAIN disk.movements : disk'.movements[i] = disk.movements[i]
          BY <2>1, <2>2, <3>2, <4>1
        <4> HIDE DEF new
        <4>3. OneRowEach(Written("movement") \cup {j}, disk'.movements)
          BY <1>1, <2>1, <4>2, RowAdded, SMTT(60) DEF RowsInv
        <4> QED BY <1>1, <2>1, <3>2, <4>3 DEF OneRowEach
      <3> QED BY <3>1, <3>2
    <2> QED BY <2>3, <2>4 DEF RowsInv
  <1> QED BY <1>1, <1>2, <1>3

(* Rows match outcomes, whatever units the jobs were handed: restricted to *)
(* the jobs of one unit, the places of rows pair them with its rows        *)
(* (connection.py:77-82).                                                  *)
THEOREM OutcomeTellsRows == Spec => []RowsMatchOutcome
  <1>1. Init => RowsInv
    <2> SUFFICES ASSUME Init PROVE RowsInv
      OBVIOUS
    <2>1. Written("exit") = {} /\ Written("movement") = {}
      BY DEF Init, Written
    <2>2. DOMAIN SightingEvents(disk) = {} /\ DOMAIN disk.movements = {}
      BY DEF Init, EmptyStore, SightingEvents
    <2>3. ASSUME NEW events, DOMAIN events = {} PROVE OneRowEach({}, events)
      <3> DEFINE nowhere == [j \in {} |-> 0]
      <3>1. nowhere \in [{} -> DOMAIN events]
        OBVIOUS
      <3> QED BY <2>3, <3>1 DEF OneRowEach
    <2> QED BY <2>1, <2>2, <2>3 DEF RowsInv
  <1>2. IInv /\ RowsInv /\ [Next]_vars => RowsInv'
    BY RowsStep
  <1>3. IInv /\ RowsInv => RowsMatchOutcome
    <2> SUFFICES ASSUME RowsInv, NEW u \in Units, u.kind \in {"exit", "movement"}
        PROVE  LET rows == IF u.kind = "exit"
                           THEN {i \in DOMAIN disk.sightings : disk.sightings[i].event = u}
                           ELSE {i \in DOMAIN disk.movements : disk.movements[i] = u}
                   done == {j \in Job : unit[j] = u /\ pc[j] = "done"}
               IN \E pairing \in [done -> rows] :
                     /\ \A i \in rows : \E j \in done : pairing[j] = i
                     /\ \A j, k \in done : pairing[j] = pairing[k] => j = k
      BY DEF RowsMatchOutcome
    <2> DEFINE events == IF u.kind = "exit" THEN SightingEvents(disk) ELSE disk.movements
               rows == IF u.kind = "exit"
                       THEN {i \in DOMAIN disk.sightings : disk.sightings[i].event = u}
                       ELSE {i \in DOMAIN disk.movements : disk.movements[i] = u}
               done == {j \in Job : unit[j] = u /\ pc[j] = "done"}
    <2>1. rows = {i \in DOMAIN events : events[i] = u}
      BY DEF SightingEvents
    <2>2. OneRowEach(Written(u.kind), events)
      BY DEF RowsInv
    <2>3. done \subseteq Written(u.kind) /\ \A j \in Written(u.kind) : j \in Job /\ pc[j] = "done"
      BY DEF Written
    <2> HIDE DEF events, rows
    <2>4. PICK place \in [Written(u.kind) -> DOMAIN events] :
             /\ \A j \in Written(u.kind) : events[place[j]] = unit[j]
             /\ \A j, k \in Written(u.kind) : place[j] = place[k] => j = k
             /\ \A i \in DOMAIN events : \E j \in Written(u.kind) : place[j] = i
      BY <2>2 DEF OneRowEach
    <2> DEFINE pairing == [j \in done |-> place[j]]
    <2>5. pairing \in [done -> rows] /\ \A j \in done : pairing[j] = place[j]
      BY <2>1, <2>3, <2>4
    <2>6. \A i \in rows : \E j \in done : pairing[j] = i
      BY <2>1, <2>3, <2>4
    <2>7. \A j, k \in done : pairing[j] = pairing[k] => j = k
      BY <2>3, <2>4, <2>5
    <2> HIDE DEF pairing, done
    <2>8. \E p \in [done -> rows] : /\ \A i \in rows : \E j \in done : p[j] = i
                                    /\ \A j, k \in done : p[j] = p[k] => j = k
      BY <2>5, <2>6, <2>7
    <2> QED BY <2>8, Zenon DEF rows, done
  <1> QED BY <1>1, <1>2, <1>3, Invariance, PTL DEF Spec
-----------------------------------------------------------------------------
(* Where the time of a recorded entry is.                                  *)
Waiting(s, f, t)  == s.entries[f] = t
Joined(s, f, t)   == \E i \in DOMAIN s.sightings : /\ s.sightings[i].event.flight = f
                                                   /\ s.sightings[i].entry_time = t
Accounted(s, f, t, n) == Waiting(s, f, t) \/ Joined(s, f, t) \/ t < n - EntryTTL

(* record_entry of a flight accounts for its own time, and loses that of   *)
(* another flight only by pruning it.                                      *)
LEMMA EntryAccounts ==
  ASSUME NEW s \in StoreType, NEW u \in Units, u.kind = "entry",
         NEW f \in Flight, NEW t \in Nat, NEW at \in Nat, NEW n \in Nat, at <= n,
         \/ u.flight = f /\ u.time = t
         \/ u.flight # f /\ Accounted(s, f, t, n)
  PROVE  Accounted(Atomic!Effect(s, u, at), f, t, n)
  <1> DEFINE mid == InsertEntry(s, u.flight, u.time)
             r   == PruneStaleEntries(mid, at)
  <1>1. Atomic!Effect(s, u, at) = r
    BY EffectEntry
  <1>2. mid.entries[f] = IF u.flight = f THEN u.time ELSE s.entries[f]
    BY UnitsAssumption DEF InsertEntry, StoreType, StoreOf
  <1>3. mid.sightings = s.sightings
    BY DEF InsertEntry, StoreType, StoreOf
  <1>4. mid \in StoreType
    BY UnitsAssumption, InsertEntryType DEF StoreType, MaybeTime
  <1> HIDE DEF mid
  <1>5. /\ r.entries[f] = IF mid.entries[f] # NoTime /\ mid.entries[f] < at - EntryTTL
                          THEN NoTime ELSE mid.entries[f]
        /\ r.sightings = s.sightings
    BY <1>3, <1>4 DEF PruneStaleEntries, StoreType, StoreOf
  <1> HIDE DEF r
  <1>6. CASE mid.entries[f] = t
    <2>1. r.entries[f] = t \/ t < at - EntryTTL
      BY <1>5, <1>6
    <2>2. t < at - EntryTTL => t < n - EntryTTL
      BY RepositoryAssumption
    <2> QED BY <1>1, <2>1, <2>2 DEF Accounted, Waiting
  <1>7. CASE u.flight # f /\ (Joined(s, f, t) \/ t < n - EntryTTL)
    BY <1>1, <1>5, <1>7 DEF Accounted, Joined
  <1> QED BY <1>2, <1>6, <1>7 DEF Accounted, Waiting

(* record_exit of a flight moves its time into the sighting.               *)
LEMMA ExitAccounts ==
  ASSUME NEW s \in StoreType, NEW u \in Units, u.kind = "exit",
         NEW f \in Flight, NEW t \in Nat, NEW at, NEW n, Accounted(s, f, t, n)
  PROVE  Accounted(Atomic!Effect(s, u, at), f, t, n)
  <1> DEFINE r    == Atomic!Effect(s, u, at)
             row  == [event |-> u, entry_time |-> SelectEntryTime(s, u.flight)]
             last == Len(s.sightings) + 1
  <1>1. r.sightings = Append(s.sightings, row)
    <2>1. u.kind \in Atomic!Writes
      BY DEF Atomic!Writes
    <2> QED BY <2>1, RowsOfEffect
  <1>2. /\ s.sightings \in Seq([event : Units, entry_time : MaybeTime])
        /\ row \in [event : Units, entry_time : MaybeTime]
    BY SelectEntryTimeType DEF StoreType, StoreOf
  <1>3. r.entries = DeleteEntry(s, u.flight).entries
    <2>1. r = InsertSighting(DeleteEntry(s, u.flight), u, SelectEntryTime(s, u.flight))
      BY EffectExit
    <2>2. DeleteEntry(s, u.flight) \in StoreType
      BY DeleteEntryType DEF StoreType
    <2> QED BY <2>1, <2>2 DEF InsertSighting, StoreType, StoreOf
  <1>4. r.entries[f] = IF f = u.flight THEN NoTime ELSE s.entries[f]
    BY <1>3 DEF DeleteEntry, StoreType, StoreOf
  <1>5. row.event.flight = u.flight /\ (u.flight = f => row.entry_time = s.entries[f])
    BY DEF SelectEntryTime
  <1> HIDE DEF r, row
  <1>6. /\ last \in DOMAIN r.sightings /\ r.sightings[last] = row
        /\ \A i \in DOMAIN s.sightings :
              i \in DOMAIN r.sightings /\ r.sightings[i] = s.sightings[i]
    BY <1>1, <1>2
  <1> HIDE DEF last
  <1>7. Waiting(s, f, t) => Waiting(r, f, t) \/ Joined(r, f, t)
    BY <1>4, <1>5, <1>6 DEF Waiting, Joined
  <1>8. Joined(s, f, t) => Joined(r, f, t)
    BY <1>6 DEF Joined
  <1>9. Accounted(r, f, t, n)
    BY <1>7, <1>8 DEF Accounted
  <1> QED BY <1>9 DEF r

(* The other units do not touch entries and sightings.                     *)
LEMMA OthersAccount ==
  ASSUME NEW s \in StoreType, NEW u \in Units, u.kind \in {"movement", "positions"},
         NEW f, NEW t, NEW at, NEW n, Accounted(s, f, t, n)
  PROVE  Accounted(Atomic!Effect(s, u, at), f, t, n)
  <1> DEFINE r == Atomic!Effect(s, u, at)
  <1>1. CASE u.kind = "movement"
    <2>1. r = InsertMovement(s, u)
      BY <1>1, EffectMovement
    <2>2. r.entries = s.entries /\ r.sightings = s.sightings
      BY <2>1 DEF InsertMovement, StoreType, StoreOf
    <2> QED BY <2>2 DEF Accounted, Waiting, Joined
  <1>2. CASE u.kind = "positions"
    <2>1. r = PruneOldPositions(InsertPositions(s, Sample(u)), at)
      BY <1>2, EffectPositions
    <2>2. r.entries = s.entries /\ r.sightings = s.sightings
      BY <2>1 DEF PruneOldPositions, InsertPositions, StoreType, StoreOf
    <2> QED BY <2>2 DEF Accounted, Waiting, Joined
  <1> QED BY <1>1, <1>2

(* Of the finished entries of a flight, one is accounted for.              *)
Recorded(f)   == {j \in Written("entry") : unit[j].flight = f}
EntryKept(f)  == \E j \in Recorded(f) : Accounted(disk, f, unit[j].time, now)

EntriesInv == \A f \in Flight : Recorded(f) # {} => EntryKept(f)

(* What is old enough to prune stays so.                                   *)
LEMMA StaysPruned ==
  ASSUME NEW t \in Nat, NEW a \in Nat, NEW b \in Nat, a <= b, NEW ttl \in Nat, t < a - ttl
  PROVE  t < b - ttl
  OBVIOUS

(* Every step accounts for the entries.                                    *)
LEMMA EntriesStep == ASSUME IInv, EntriesInv, [Next]_vars PROVE EntriesInv'
  <1>1. /\ unit' = unit /\ now' \in Nat /\ now \in Nat /\ now <= now'
        /\ WritesNothing \/ \E j \in Job, t \in 0 .. now : Writes(j, t)
    BY FileStep, UnitsAssumption DEF IInv, TypeOK
  <1>2. \A j \in Job : /\ unit[j] \in Units /\ unit[j].time \in Nat
                       /\ unit[j].kind = "entry" => unit[j].flight \in Flight
    BY UnitFacts DEF IInv
  <1>3. ASSUME NEW s, NEW f, NEW t \in Nat, Accounted(s, f, t, now)
        PROVE  Accounted(s, f, t, now')
    <2>1. now \in Nat /\ now' \in Nat /\ now <= now' /\ EntryTTL \in Nat
      BY <1>1, RepositoryAssumption
    <2>2. t < now - EntryTTL => t < now' - EntryTTL
      BY <2>1, StaysPruned
    <2> QED BY <1>3, <2>2 DEF Accounted
  <1>4. CASE WritesNothing
    <2>1. disk' = disk /\ Written("entry")' = Written("entry")
      BY <1>4 DEF WritesNothing, Atomic!Writes
    <2>2. \A j \in Written("entry") : unit[j].time \in Nat
      BY <1>2 DEF Written
    <2> SUFFICES ASSUME NEW f \in Flight, Recorded(f)' # {} PROVE EntryKept(f)'
      BY DEF EntriesInv
    <2>3. Recorded(f)' = Recorded(f)
      BY <1>1, <2>1 DEF Recorded
    <2>4. PICK j \in Recorded(f) : Accounted(disk, f, unit[j].time, now)
      BY <2>3 DEF EntriesInv, EntryKept
    <2>5. Accounted(disk, f, unit[j].time, now')
      BY <1>3, <2>2, <2>4 DEF Recorded
    <2> QED BY <1>1, <2>1, <2>3, <2>5 DEF EntryKept
  <1>5. ASSUME NEW k \in Job, NEW at \in 0 .. now, Writes(k, at) PROVE EntriesInv'
    <2>1. /\ disk \in StoreType /\ disk' = Atomic!Effect(disk, unit[k], at)
          /\ unit[k].kind \in {"entry", "exit", "movement", "positions"} /\ pc[k] # "done"
          /\ Written("entry")' = (IF unit[k].kind = "entry" THEN Written("entry") \cup {k}
                                  ELSE Written("entry"))
          /\ at \in Nat /\ at <= now
      BY <1>1, <1>5 DEF Writes, Atomic!Writes, IInv, TypeOK
    <2> SUFFICES ASSUME NEW f \in Flight, Recorded(f)' # {} PROVE EntryKept(f)'
      BY DEF EntriesInv
    <2>2. ASSUME NEW j \in Recorded(f)', Accounted(disk', f, unit[j].time, now)
          PROVE  EntryKept(f)'
      <3>1. unit[j].time \in Nat
        BY <1>1, <1>2 DEF Recorded, Written
      <3>2. Accounted(disk', f, unit[j].time, now')
        BY <1>3, <2>2, <3>1
      <3> QED BY <1>1, <3>2 DEF EntryKept
    <2>3. CASE unit[k].kind = "entry" /\ unit[k].flight = f
      <3>1. k \in Recorded(f)'
        BY <1>1, <2>1, <2>3 DEF Recorded
      <3>2. Accounted(disk', f, unit[k].time, now)
        BY <1>1, <1>2, <2>1, <2>3, EntryAccounts
      <3> QED BY <2>2, <3>1, <3>2
    <2>4. CASE ~(unit[k].kind = "entry" /\ unit[k].flight = f)
      <3>1. Recorded(f)' = Recorded(f)
        BY <1>1, <2>1, <2>4 DEF Recorded
      <3>2. PICK j \in Recorded(f) : Accounted(disk, f, unit[j].time, now)
        BY <3>1 DEF EntriesInv, EntryKept
      <3> DEFINE t == unit[j].time
      <3>3. t \in Nat
        BY <1>2 DEF Recorded, Written
      <3>4. Accounted(disk, f, t, now)
        BY <3>2
      <3> HIDE DEF t
      <3>5. CASE unit[k].kind = "entry"
        <4>1. Accounted(disk', f, t, now)
          BY <1>1, <1>2, <2>1, <2>4, <3>3, <3>4, <3>5, EntryAccounts
        <4> QED BY <2>2, <3>1, <4>1 DEF t
      <3>6. CASE unit[k].kind = "exit"
        <4>1. Accounted(disk', f, t, now)
          BY <1>2, <2>1, <3>3, <3>4, <3>6, ExitAccounts
        <4> QED BY <2>2, <3>1, <4>1 DEF t
      <3>7. CASE unit[k].kind \in {"movement", "positions"}
        <4>1. Accounted(disk', f, t, now)
          BY <1>2, <2>1, <3>4, <3>7, OthersAccount
        <4> QED BY <2>2, <3>1, <4>1 DEF t
      <3> QED BY <2>1, <3>5, <3>6, <3>7
    <2> QED BY <2>3, <2>4
  <1> QED BY <1>1, <1>4, <1>5

(* No entry time is lost on the way to its sighting, for any units, any    *)
(* TTL and any clock: take_entry_time's DELETE and the INSERT of the       *)
(* sighting are committed together or not at all (repository.py:59-80,     *)
(* 228-235).                                                               *)
THEOREM NoEntryTimeIsLost == Spec => []EntryTimeAccountedFor
  <1>1. Init => EntriesInv
    BY DEF Init, EntriesInv, Recorded, Written
  <1>2. IInv /\ EntriesInv /\ [Next]_vars => EntriesInv'
    BY EntriesStep
  <1>3. EntriesInv => EntryTimeAccountedFor
    <2> SUFFICES ASSUME EntriesInv, NEW f \in Flight, Recorded(f) # {}
        PROVE  \E j \in Recorded(f) :
                  \/ disk.entries[f] = unit[j].time
                  \/ \E i \in DOMAIN disk.sightings :
                        /\ disk.sightings[i].event.flight = f
                        /\ disk.sightings[i].entry_time = unit[j].time
                  \/ unit[j].time < now - EntryTTL
      <3>1. \A f \in Flight : Recorded(f) = {j \in Job : /\ unit[j].kind = "entry"
                                                         /\ pc[j] = "done"
                                                         /\ unit[j].flight = f}
        BY DEF Recorded, Written
      <3> QED BY <3>1 DEF EntryTimeAccountedFor
    <2> QED BY DEF EntriesInv, EntryKept, Accounted, Waiting, Joined
  <1> QED BY <1>1, <1>2, <1>3, Invariance, PTL DEF Spec
===================================================================================
