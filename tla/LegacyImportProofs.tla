---------------------------- MODULE LegacyImportProofs ----------------------------
(***************************************************************************)
(* Theorems about LegacyImport, for any number of imports, events, windows *)
(* and any tolerance: imports never repeat an event, copy both tables or   *)
(* none, skip what the integration has written, and lose nothing.          *)
(***************************************************************************)
EXTENDS LegacyImport, TLAPS

(* Whoever wrote a row, it has the columns of its event, and a time no     *)
(* later than the old logger's delay.                                      *)
FromEvent(r) ==
    /\ r.table = what[r.event].table
    /\ r.key = what[r.event].key
    /\ r.time - what[r.event].time \in 0 .. MaxDelay

Rows ==
    /\ \A r \in legacy \cup target : FromEvent(r)
    /\ \A i \in Import : \A r \in stage[i] \cup copied[i] : FromEvent(r)

(* The old logger stores an event once, and imports copy what it stored.   *)
Copies ==
    /\ \A l, m \in legacy : l.event = m.event => l = m
    /\ \A i \in Import : \A r \in stage[i] : \E l \in legacy : r = Normalized(l)
    /\ \A i \in Import : \A r \in copied[i] : \E l \in stage[i] : r = CopyOf(l, i)

(* Between BEGIN and COMMIT an import holds the write lock; what it has    *)
(* copied is of events that have no row.                                   *)
Copying == {"copy_sightings", "copy_movements", "commit"}

Exclusive ==
    /\ \A i \in Import : pc[i] \in Copying => lock = i
    /\ \A i \in Import : copied[i] # {} => pc[i] \in Copying

Fresh == \A i \in Import : \A r \in copied[i] : \A t \in target : t.event # r.event

(* What was staged of the tables copied so far has a row.                  *)
HasRow(i, l) == \E t \in target \cup copied[i] : t.event = l.event

Kept ==
    \A i \in Import : \A l \in stage[i] : Lone(l.event) =>
        /\ pc[i] \in {"copy_movements", "commit"} /\ l.table = "sightings" => HasRow(i, l)
        /\ pc[i] = "commit" => HasRow(i, l)

(* The inductive invariant.                                                *)
IInv == /\ TypeOK /\ Rows /\ Copies /\ Exclusive /\ Fresh /\ Kept
        /\ AllOrNothing /\ ImportsNeverRepeat

-----------------------------------------------------------------------------
(* What normalizing and copying do to a row, column by column.             *)
LEMMA NormalizedRow ==
  ASSUME NEW l \in LegacyRow
  PROVE  /\ Normalized(l) \in StagedRow
         /\ Normalized(l).table = l.table /\ Normalized(l).key = l.key
         /\ Normalized(l).time = l.time /\ Normalized(l).event = l.event
         /\ Normalized(l).photo = "clean"
  BY DEF Normalized, LegacyRow, StagedRow

(* Photos are normalized once; staged rows stay as they are.               *)
LEMMA StagedIsNormal ==
  ASSUME NEW l \in StagedRow
  PROVE  Normalized(l).photo = "clean" /\ l.photo = "clean"
  BY DEF Normalized, StagedRow

(* A copy is the staged row, written by the import.                        *)
LEMMA CopiedRow ==
  ASSUME NEW l \in StagedRow, NEW i \in Import
  PROVE  /\ CopyOf(l, i) \in TargetRow
         /\ CopyOf(l, i).table = l.table /\ CopyOf(l, i).key = l.key
         /\ CopyOf(l, i).time = l.time /\ CopyOf(l, i).event = l.event
         /\ CopyOf(l, i).by = i
  BY DEF CopyOf, StagedRow, TargetRow

(* The identity finds a row of the same event: the delay is within the     *)
(* tolerance.                                                              *)
LEMMA SameEventSameRow ==
  ASSUME TypeOK, NEW t \in TargetRow, NEW l \in LegacyRow \cup StagedRow,
         FromEvent(t), FromEvent(l), t.event = l.event
  PROVE  SameRow(t, l)
  <1>1. t.table = l.table /\ t.key = l.key
    BY DEF FromEvent
  <1>2. Normalized(l).photo = "clean" /\ t.photo = "clean"
    BY NormalizedRow, StagedIsNormal DEF TargetRow
  <1>3. t.time \in (l.time - Tolerance) .. (l.time + Tolerance)
    <2>1. /\ t.time \in Nat /\ l.time \in Nat /\ Tolerance \in Nat /\ MaxDelay \in Nat
          /\ MaxDelay <= Tolerance
      BY ImportAssumption, DelayAssumption DEF TargetRow, LegacyRow, StagedRow
    <2>2. what[l.event].time \in Nat
      BY FactsAssumption DEF TypeOK, LegacyRow, StagedRow
    <2> DEFINE at == what[l.event].time
    <2>3. t.time - at \in 0 .. MaxDelay /\ l.time - at \in 0 .. MaxDelay /\ at \in Nat
      BY <2>2 DEF FromEvent
    <2> HIDE DEF at
    <2> QED BY <2>1, <2>3
  <1> QED BY <1>1, <1>2, <1>3 DEF SameRow

(* A row that could be taken for another one's is of the same event,       *)
(* unless another event is alike.                                          *)
LEMMA SameRowSameEvent ==
  ASSUME TypeOK, NEW t \in TargetRow, NEW l \in LegacyRow \cup StagedRow,
         FromEvent(t), FromEvent(l), SameRow(t, l), Lone(l.event)
  PROVE  t.event = l.event
  <1> DEFINE at == what[l.event].time
             ut == what[t.event].time
  <1>1. /\ t.time \in Nat /\ l.time \in Nat /\ Tolerance \in Nat /\ MaxDelay \in Nat
        /\ t.event \in Event /\ l.event \in Event
    BY ImportAssumption DEF TargetRow, LegacyRow, StagedRow
  <1>2. at \in Nat /\ ut \in Nat
    BY <1>1, FactsAssumption DEF TypeOK
  <1>3. t.time - ut \in 0 .. MaxDelay /\ l.time - at \in 0 .. MaxDelay
    BY DEF FromEvent
  <1>4. what[t.event].table = what[l.event].table /\ what[t.event].key = what[l.event].key
    BY DEF FromEvent, SameRow
  <1>5. t.time \in (l.time - Tolerance) .. (l.time + Tolerance)
    BY DEF SameRow
  <1>6. t.event # l.event => \/ ut - at > Tolerance + MaxDelay
                             \/ at - ut > Tolerance + MaxDelay
    BY <1>1, <1>4 DEF Lone
  <1> HIDE DEF at, ut
  <1> QED BY <1>1, <1>2, <1>3, <1>5, <1>6

(* Copies of an event are the same row.                                    *)
LEMMA OneCopyOfAnEvent ==
  ASSUME IInv, NEW i \in Import, NEW l \in stage[i], NEW m \in stage[i], l.event = m.event
  PROVE  l = m
  <1>1. PICK a \in legacy : l = Normalized(a)
    BY DEF IInv, Copies
  <1>2. PICK b \in legacy : m = Normalized(b)
    BY DEF IInv, Copies
  <1>3. a.event = b.event
    BY <1>1, <1>2, NormalizedRow DEF IInv, TypeOK
  <1> QED BY <1>1, <1>2, <1>3 DEF IInv, Copies

-----------------------------------------------------------------------------
(* Both databases are empty at first.                                      *)
LEMMA InitInv == Init => IInv
  <1> SUFFICES ASSUME Init PROVE IInv
    OBVIOUS
  <1>1. TypeOK
    BY ImportAssumption DEF Init, TypeOK, Label
  <1>2. Rows /\ Copies /\ Exclusive /\ Fresh /\ Kept /\ AllOrNothing /\ ImportsNeverRepeat
    BY DEF Init, Rows, Copies, Exclusive, Fresh, Kept, AllOrNothing, ImportsNeverRepeat, Copying
  <1> QED BY <1>1, <1>2 DEF IInv

(* The rows that a staging, and a copy, adds.                              *)
LEMMA StagedRows ==
  ASSUME IInv, NEW i \in Import, NEW table
  PROVE  \A r \in {Normalized(l) : l \in NewRows(i, table)} :
            r \in StagedRow /\ FromEvent(r) /\ r.table = table
  <1> SUFFICES ASSUME NEW l \in NewRows(i, table)
               PROVE  LET r == Normalized(l)
                      IN  r \in StagedRow /\ FromEvent(r) /\ r.table = table
    OBVIOUS
  <1>1. l \in LegacyRow /\ FromEvent(l) /\ l.table = table
    BY DEF NewRows, IInv, TypeOK, Rows
  <1> QED BY <1>1, NormalizedRow DEF FromEvent

(* What a copy statement inserts are rows of real events.                  *)
LEMMA CopiedRows ==
  ASSUME IInv, NEW i \in Import, NEW table
  PROVE  \A r \in {CopyOf(l, i) : l \in StillNew(i, table)} :
            r \in TargetRow /\ FromEvent(r) /\ r.by = i
  <1> SUFFICES ASSUME NEW l \in StillNew(i, table)
               PROVE  LET r == CopyOf(l, i)
                      IN  r \in TargetRow /\ FromEvent(r) /\ r.by = i
    OBVIOUS
  <1>1. l \in StagedRow /\ FromEvent(l)
    BY DEF StillNew, IInv, TypeOK, Rows
  <1> QED BY <1>1, CopiedRow DEF FromEvent

(* The actions that store nothing: an import moves on, or ends with empty  *)
(* hands.                                                                  *)
Leaves ==
    \/ \E e \in Event : LiveBusy(e)
    \/ \E i \in Import : DryRun(i) \/ Begin(i) \/ Raise(i) \/ Retry(i)
    \/ Crash
    \/ UNCHANGED vars

(* They leave the databases alone, and drop what was staged and copied.    *)
LEMMA LeavesFacts ==
  ASSUME TypeOK, Leaves
  PROVE  /\ UNCHANGED <<what, legacy, target>>
         /\ \A i \in Import : \/ stage'[i] = stage[i] /\ copied'[i] = copied[i]
                              \/ stage'[i] = {} /\ copied'[i] = {}
  <1> USE DEF TypeOK, world, own, vars
  <1> DEFINE Same(i)    == stage'[i] = stage[i] /\ copied'[i] = copied[i]
             Dropped(i) == stage'[i] = {} /\ copied'[i] = {}
  <1>1. ASSUME NEW i \in Import, DryRun(i) \/ Begin(i) \/ Retry(i)
        PROVE  UNCHANGED <<what, live, legacy, target, stage, copied>>
    BY <1>1 DEF DryRun, Begin, Retry
  <1>2. ASSUME NEW i \in Import, Raise(i)
        PROVE  /\ UNCHANGED <<what, legacy, target>>
               /\ \A j \in Import : Same(j) \/ Dropped(j)
    <2>1. /\ UNCHANGED <<what, legacy, target>>
          /\ stage' = [stage EXCEPT ![i] = {}]
          /\ copied' = [copied EXCEPT ![i] = {}]
      BY <1>2 DEF Raise, Abandon
    <2>2. Dropped(i)
      BY <2>1
    <2>3. \A j \in Import \ {i} : Same(j)
      BY <2>1
    <2> QED BY <2>1, <2>2, <2>3
  <1>3. CASE Crash
    <2>1. /\ UNCHANGED <<what, legacy, target>>
          /\ \A j \in Import : Dropped(j)
      BY <1>3 DEF Crash
    <2> QED BY <2>1
  <1>4. CASE UNCHANGED vars
    BY <1>4
  <1>5. ASSUME NEW e \in Event, LiveBusy(e)
        PROVE  UNCHANGED <<what, legacy, target, stage, copied>>
    BY <1>5 DEF LiveBusy
  <1> QED BY <1>1, <1>2, <1>3, <1>4, <1>5 DEF Leaves

(* What the integration, and what the old logger, stores of an event.      *)
LEMMA LiveRow ==
  ASSUME TypeOK, NEW e \in Event, LiveWrite(e)
  PROVE  \E r \in TargetRow : /\ target' = target \cup {r}
                              /\ FromEvent(r) /\ r.event = e /\ r.by = "live"
  <1> DEFINE r == [table |-> what[e].table, key |-> what[e].key, time |-> what[e].time,
                   photo |-> "clean", event |-> e, by |-> "live"]
  <1>1. r \in TargetRow
    BY FactsAssumption DEF TypeOK, TargetRow
  <1>2. what[e].time - what[e].time \in 0 .. MaxDelay
    BY FactsAssumption, ImportAssumption DEF TypeOK
  <1>3. FromEvent(r) /\ r.event = e /\ r.by = "live"
    BY <1>2 DEF FromEvent
  <1>4. target' = target \cup {r}
    BY DEF LiveWrite
  <1> HIDE DEF r
  <1> QED BY <1>1, <1>3, <1>4

(* The legacy logger adds one row of an event it did not have.             *)
LEMMA OldRow ==
  ASSUME TypeOK, NEW e \in Event, LegacyWrite(e)
  PROVE  \E r \in LegacyRow : /\ legacy' = legacy \cup {r}
                              /\ FromEvent(r) /\ r.event = e
                              /\ \A l \in legacy : l.event # e
  <1>1. PICK delay \in 0 .. MaxDelay, photo \in Photo :
           legacy' = legacy \cup
              {[table |-> what[e].table, key |-> what[e].key,
                time |-> what[e].time + delay, photo |-> photo,
                event |-> e, by |-> "legacy"]}
    BY DEF LegacyWrite
  <1> DEFINE r == [table |-> what[e].table, key |-> what[e].key,
                   time |-> what[e].time + delay, photo |-> photo,
                   event |-> e, by |-> "legacy"]
  <1>2. what[e] \in Facts /\ what[e].time + delay \in Nat
        /\ (what[e].time + delay) - what[e].time \in 0 .. MaxDelay
    BY FactsAssumption, ImportAssumption DEF TypeOK
  <1>3. r \in LegacyRow
    BY <1>2, FactsAssumption DEF LegacyRow
  <1>4. FromEvent(r) /\ r.event = e
    BY <1>2 DEF FromEvent
  <1>5. legacy' = legacy \cup {r} /\ \A l \in legacy : l.event # e
    BY <1>1 DEF LegacyWrite
  <1> HIDE DEF r
  <1> QED BY <1>3, <1>4, <1>5

(* Every step keeps the types.                                             *)
LEMMA TypeStep == ASSUME IInv, [Next]_vars PROVE TypeOK'
  <1> USE DEF world, own
  <1>0. TypeOK
    BY DEF IInv
  <1>1. ASSUME NEW e \in Event, LiveWrite(e) PROVE TypeOK'
    <2>1. target' \in SUBSET TargetRow
      BY <1>0, <1>1, LiveRow DEF TypeOK
    <2>2. live' \in [Event -> {"no", "yes", "lost"}]
      BY <1>0, <1>1 DEF LiveWrite, TypeOK
    <2> QED BY <1>0, <1>1, <2>1, <2>2 DEF LiveWrite, TypeOK
  <1>2. ASSUME NEW e \in Event, LiveBusy(e) PROVE TypeOK'
    BY <1>0, <1>2 DEF LiveBusy, TypeOK
  <1>3. ASSUME NEW e \in Event, LegacyWrite(e) PROVE TypeOK'
    <2>1. legacy' \in SUBSET LegacyRow
      BY <1>0, <1>3, OldRow DEF TypeOK
    <2> QED BY <1>0, <1>3, <2>1 DEF LegacyWrite, TypeOK
  <1>4. ASSUME NEW i \in Import, NEW label, NEW table, NEW next \in Label,
               StageTable(i, label, table, next)
        PROVE  TypeOK'
    <2>1. {Normalized(l) : l \in NewRows(i, table)} \subseteq StagedRow
      BY StagedRows
    <2>2. stage' \in [Import -> SUBSET StagedRow]
      BY <1>0, <1>4, <2>1 DEF StageTable, TypeOK
    <2>3. pc' \in [Import -> Label]
      BY <1>0, <1>4 DEF StageTable, Goto, TypeOK
    <2> QED BY <1>0, <1>4, <2>2, <2>3 DEF StageTable, TypeOK
  <1>5. ASSUME NEW i \in Import, NEW label, NEW table, NEW next \in Label,
               CopyTable(i, label, table, next)
        PROVE  TypeOK'
    <2>1. {CopyOf(l, i) : l \in StillNew(i, table)} \subseteq TargetRow
      BY CopiedRows
    <2>2. copied' \in [Import -> SUBSET TargetRow]
      BY <1>0, <1>5, <2>1 DEF CopyTable, TypeOK
    <2>3. pc' \in [Import -> Label]
      BY <1>0, <1>5 DEF CopyTable, Goto, TypeOK
    <2> QED BY <1>0, <1>5, <2>2, <2>3 DEF CopyTable, TypeOK
  <1>6. ASSUME NEW i \in Import, DryRun(i) \/ Begin(i) PROVE TypeOK'
    BY <1>0, <1>6 DEF DryRun, Begin, Goto, TypeOK, Label
  <1>7. ASSUME NEW i \in Import, Commit(i) PROVE TypeOK'
    BY <1>0, <1>7 DEF Commit, Goto, TypeOK, Label
  <1>8. ASSUME NEW i \in Import, Raise(i) PROVE TypeOK'
    BY <1>0, <1>8 DEF Raise, Abandon, Goto, TypeOK, Label
  <1>9. ASSUME NEW i \in Import, Retry(i) PROVE TypeOK'
    BY <1>0, <1>9 DEF Retry, Goto, TypeOK, Label
  <1>10. CASE Crash
    BY <1>0, <1>10 DEF Crash, TypeOK, Label
  <1>11. CASE UNCHANGED vars
    BY <1>0, <1>11 DEF vars, TypeOK
  <1>12. {"stage_movements", "staged", "copy_movements", "commit"} \subseteq Label
    BY DEF Label
  <1> QED BY <1>1, <1>2, <1>3, <1>4, <1>5, <1>6, <1>7, <1>8, <1>9, <1>10, <1>11, <1>12
          DEF Next, Stage, Copy

(* The steps that store something, by what they add and where.             *)
StagesOf(i, table) ==
    \/ table = "sightings" /\ StageTable(i, "idle", table, "stage_movements")
    \/ table = "airport_movements" /\ StageTable(i, "stage_movements", table, "staged")
CopiesOf(i, table) ==
    \/ table = "sightings" /\ CopyTable(i, "copy_sightings", table, "copy_movements")
    \/ table = "airport_movements" /\ CopyTable(i, "copy_movements", table, "commit")

(* Every step is of one of these kinds.                                    *)
LEMMA EveryStep ==
  ASSUME [Next]_vars
  PROVE  \/ \E e \in Event : LiveWrite(e) \/ LegacyWrite(e)
         \/ \E i \in Import : \E table \in Tables : StagesOf(i, table) \/ CopiesOf(i, table)
         \/ \E i \in Import : Commit(i)
         \/ Leaves
  <1>1. ASSUME NEW i \in Import, Stage(i)
        PROVE  \E table \in Tables : StagesOf(i, table)
    BY <1>1 DEF Stage, StagesOf, Tables
  <1>2. ASSUME NEW i \in Import, Copy(i)
        PROVE  \E table \in Tables : CopiesOf(i, table)
    BY <1>2 DEF Copy, CopiesOf, Tables
  <1> QED BY <1>1, <1>2 DEF Next, Leaves

(* The rows keep to their events.                                          *)
LEMMA RowsStep == ASSUME IInv, [Next]_vars PROVE Rows'
  <1> USE DEF world, own
  <1>0. TypeOK /\ Rows
    BY DEF IInv
  <1>1. ASSUME NEW e \in Event, LiveWrite(e) PROVE Rows'
    <2>1. UNCHANGED <<what, legacy, stage, copied>>
      BY <1>1 DEF LiveWrite
    <2> QED BY <1>0, <1>1, <2>1, LiveRow DEF Rows, FromEvent
  <1>2. ASSUME NEW e \in Event, LegacyWrite(e) PROVE Rows'
    <2>1. UNCHANGED <<what, target, stage, copied>>
      BY <1>2 DEF LegacyWrite
    <2> QED BY <1>0, <1>2, <2>1, OldRow DEF Rows, FromEvent
  <1>3. ASSUME NEW i \in Import, NEW table, StagesOf(i, table) PROVE Rows'
    <2>1. /\ UNCHANGED <<what, legacy, target, copied>>
          /\ stage' = [stage EXCEPT ![i] = @ \cup {Normalized(l) : l \in NewRows(i, table)}]
      BY <1>3 DEF StagesOf, StageTable
    <2>2. \A j \in Import : \A r \in stage'[j] : FromEvent(r)
      BY <1>0, <2>1, StagedRows DEF Rows, TypeOK
    <2> QED BY <1>0, <2>1, <2>2 DEF Rows, FromEvent
  <1>4. ASSUME NEW i \in Import, NEW table, CopiesOf(i, table) PROVE Rows'
    <2>1. /\ UNCHANGED <<what, legacy, target, stage>>
          /\ copied' = [copied EXCEPT ![i] = @ \cup {CopyOf(l, i) : l \in StillNew(i, table)}]
      BY <1>4 DEF CopiesOf, CopyTable
    <2>2. \A j \in Import : \A r \in copied'[j] : FromEvent(r)
      BY <1>0, <2>1, CopiedRows DEF Rows, TypeOK
    <2> QED BY <1>0, <2>1, <2>2 DEF Rows, FromEvent
  <1>5. ASSUME NEW i \in Import, Commit(i) PROVE Rows'
    <2>1. /\ UNCHANGED <<what, legacy>>
          /\ target' = target \cup copied[i]
          /\ \A j \in Import : stage'[j] \subseteq stage[j] /\ copied'[j] \subseteq copied[j]
      BY <1>0, <1>5 DEF Commit, TypeOK
    <2> QED BY <1>0, <2>1 DEF Rows, FromEvent
  <1>6. CASE Leaves
    <2>1. /\ UNCHANGED <<what, legacy, target>>
          /\ \A j \in Import : stage'[j] \subseteq stage[j] /\ copied'[j] \subseteq copied[j]
      BY <1>0, <1>6, LeavesFacts
    <2> QED BY <1>0, <2>1 DEF Rows, FromEvent
  <1> QED BY <1>1, <1>2, <1>3, <1>4, <1>5, <1>6, EveryStep

(* Every copy keeps its original.                                          *)
LEMMA CopiesStep == ASSUME IInv, [Next]_vars PROVE Copies'
  <1> USE DEF world, own
  <1>0. TypeOK /\ Copies
    BY DEF IInv
  <1>1. ASSUME NEW e \in Event, LiveWrite(e) PROVE Copies'
    BY <1>0, <1>1 DEF LiveWrite, Copies
  <1>2. ASSUME NEW e \in Event, LegacyWrite(e) PROVE Copies'
    <2>1. UNCHANGED <<stage, copied>>
      BY <1>2 DEF LegacyWrite
    <2>2. \A l, m \in legacy' : l.event = m.event => l = m
      BY <1>0, <1>2, OldRow DEF Copies
    <2>3. legacy \subseteq legacy'
      BY <1>2 DEF LegacyWrite
    <2> QED BY <1>0, <2>1, <2>2, <2>3 DEF Copies
  <1>3. ASSUME NEW i \in Import, NEW table, StagesOf(i, table) PROVE Copies'
    <2>1. /\ UNCHANGED <<legacy, copied>>
          /\ stage' = [stage EXCEPT ![i] = @ \cup {Normalized(l) : l \in NewRows(i, table)}]
      BY <1>3 DEF StagesOf, StageTable
    <2>2. \A j \in Import : \A r \in stage'[j] : \E l \in legacy : r = Normalized(l)
      BY <1>0, <2>1 DEF Copies, TypeOK, NewRows
    <2>3. \A j \in Import : stage[j] \subseteq stage'[j]
      BY <1>0, <2>1 DEF TypeOK
    <2> QED BY <1>0, <2>1, <2>2, <2>3 DEF Copies
  <1>4. ASSUME NEW i \in Import, NEW table, CopiesOf(i, table) PROVE Copies'
    <2>1. /\ UNCHANGED <<legacy, stage>>
          /\ copied' = [copied EXCEPT ![i] = @ \cup {CopyOf(l, i) : l \in StillNew(i, table)}]
      BY <1>4 DEF CopiesOf, CopyTable
    <2>2. \A j \in Import : \A r \in copied'[j] : \E l \in stage[j] : r = CopyOf(l, j)
      BY <1>0, <2>1 DEF Copies, TypeOK, StillNew
    <2> QED BY <1>0, <2>1, <2>2 DEF Copies
  <1>5. ASSUME NEW i \in Import, Commit(i) PROVE Copies'
    <2>1. /\ legacy' = legacy
          /\ stage' = [stage EXCEPT ![i] = {}]
          /\ copied' = [copied EXCEPT ![i] = {}]
      BY <1>5 DEF Commit
    <2>2. \A j \in Import : \/ stage'[j] = stage[j] /\ copied'[j] = copied[j]
                            \/ stage'[j] = {} /\ copied'[j] = {}
      BY <1>0, <2>1 DEF TypeOK
    <2> QED BY <1>0, <2>1, <2>2 DEF Copies
  <1>6. CASE Leaves
    <2>1. /\ legacy' = legacy
          /\ \A j \in Import : \/ stage'[j] = stage[j] /\ copied'[j] = copied[j]
                               \/ stage'[j] = {} /\ copied'[j] = {}
      BY <1>0, <1>6, LeavesFacts
    <2> QED BY <1>0, <2>1 DEF Copies
  <1> QED BY <1>1, <1>2, <1>3, <1>4, <1>5, <1>6, EveryStep

(* BEGIN IMMEDIATE waits for the lock, and only its holder copies.         *)
LEMMA ExclusiveStep == ASSUME IInv, [Next]_vars PROVE Exclusive'
  <1> USE DEF world, own, Copying
  <1>0. TypeOK /\ Exclusive
    BY DEF IInv
  <1>1. ASSUME NEW e \in Event, LiveWrite(e) \/ LiveBusy(e) \/ LegacyWrite(e)
        PROVE  Exclusive'
    BY <1>0, <1>1 DEF LiveWrite, LiveBusy, LegacyWrite, Exclusive
  <1>2. ASSUME NEW i \in Import, NEW table, StagesOf(i, table) PROVE Exclusive'
    <2>1. PICK next \in {"stage_movements", "staged"} :
             /\ UNCHANGED <<lock, copied>>
             /\ pc' = [pc EXCEPT ![i] = next]
             /\ pc[i] \in {"idle", "stage_movements"}
      BY <1>2 DEF StagesOf, StageTable, Goto
    <2> QED BY <1>0, <2>1 DEF Exclusive, TypeOK
  <1>3. ASSUME NEW i \in Import, NEW table, CopiesOf(i, table) PROVE Exclusive'
    <2>1. PICK next \in {"copy_movements", "commit"} :
             /\ lock' = lock
             /\ pc' = [pc EXCEPT ![i] = next]
             /\ pc[i] \in Copying
      BY <1>3 DEF CopiesOf, CopyTable, Goto
    <2>2. \A j \in Import \ {i} : copied'[j] = copied[j]
      BY <1>0, <1>3 DEF CopiesOf, CopyTable, TypeOK
    <2> QED BY <1>0, <2>1, <2>2 DEF Exclusive, TypeOK
  <1>4. ASSUME NEW i \in Import, DryRun(i) \/ Retry(i) PROVE Exclusive'
    <2>1. PICK next \in {"dry", "idle"} : /\ UNCHANGED <<lock, copied>>
                                          /\ pc' = [pc EXCEPT ![i] = next]
                                          /\ pc[i] \notin Copying
      BY <1>4 DEF DryRun, Retry, Goto
    <2> QED BY <1>0, <2>1 DEF Exclusive, TypeOK
  <1>5. ASSUME NEW i \in Import, Begin(i) PROVE Exclusive'
    <2>1. /\ lock = Nobody /\ lock' = i /\ copied' = copied
          /\ pc' = [pc EXCEPT ![i] = "copy_sightings"]
      BY <1>5 DEF Begin, Goto
    <2>2. \A j \in Import : pc[j] \notin Copying
      BY <1>0, <2>1, ImportAssumption DEF Exclusive
    <2> QED BY <1>0, <2>1, <2>2 DEF Exclusive, TypeOK
  <1>6. ASSUME NEW i \in Import, Commit(i) \/ Raise(i) PROVE Exclusive'
    <2>1. PICK next \in {"done", "raised"} :
             /\ pc' = [pc EXCEPT ![i] = next]
             /\ copied' = [copied EXCEPT ![i] = {}]
             /\ lock' = lock \/ lock = i
      BY <1>0, <1>6 DEF Commit, Raise, Abandon, Goto, Exclusive
    <2> QED BY <1>0, <2>1 DEF Exclusive, TypeOK
  <1>7. CASE Crash
    BY <1>0, <1>7 DEF Crash, Exclusive, TypeOK
  <1>8. CASE UNCHANGED vars
    BY <1>0, <1>8 DEF vars, Exclusive
  <1>9. ASSUME Leaves PROVE Exclusive'
    BY <1>1, <1>4, <1>5, <1>6, <1>7, <1>8, <1>9 DEF Leaves
  <1> QED BY <1>1, <1>2, <1>3, <1>6, <1>9, EveryStep

(* Whoever writes the live tables has the lock to himself: the others have *)
(* nothing copied.                                                         *)
LEMMA Alone ==
  ASSUME Exclusive
  PROVE  /\ lock = Nobody => \A j \in Import : copied[j] = {}
         /\ \A i \in Import : lock = i => \A j \in Import \ {i} : copied[j] = {}
  BY ImportAssumption DEF Exclusive

(* The check under the write lock keeps copies to events without a row.    *)
LEMMA FreshStep == ASSUME IInv, [Next]_vars PROVE Fresh'
  <1> USE DEF world, own
  <1>0. TypeOK /\ Exclusive /\ Fresh /\ Rows
    BY DEF IInv
  <1>1. ASSUME NEW e \in Event, LiveWrite(e) PROVE Fresh'
    <2>1. \A j \in Import : copied'[j] = {}
      BY <1>0, <1>1, Alone DEF LiveWrite
    <2> QED BY <2>1 DEF Fresh
  <1>2. ASSUME NEW e \in Event, LegacyWrite(e) PROVE Fresh'
    BY <1>0, <1>2 DEF LegacyWrite, Fresh
  <1>3. ASSUME NEW i \in Import, NEW table, StagesOf(i, table) PROVE Fresh'
    BY <1>0, <1>3 DEF StagesOf, StageTable, Fresh
  <1>4. ASSUME NEW i \in Import, NEW table, CopiesOf(i, table) PROVE Fresh'
    <2>1. /\ target' = target
          /\ copied' = [copied EXCEPT ![i] = @ \cup {CopyOf(l, i) : l \in StillNew(i, table)}]
      BY <1>4 DEF CopiesOf, CopyTable
    <2>2. ASSUME NEW l \in StillNew(i, table), NEW t \in target, t.event = CopyOf(l, i).event
          PROVE  FALSE
      <3>1. l \in StagedRow /\ FromEvent(l) /\ t \in TargetRow /\ FromEvent(t)
        BY <1>0 DEF StillNew, TypeOK, Rows
      <3>2. t.event = l.event
        BY <2>2, <3>1, CopiedRow
      <3>3. SameRow(t, l)
        BY <1>0, <3>1, <3>2, SameEventSameRow
      <3> QED BY <3>3 DEF StillNew, IsNew
    <2>3. ASSUME NEW j \in Import, NEW r \in copied'[j], NEW t \in target
          PROVE  t.event # r.event
      BY <1>0, <2>1, <2>2 DEF Fresh, TypeOK
    <2> QED BY <2>1, <2>3 DEF Fresh
  <1>5. ASSUME NEW i \in Import, Commit(i) PROVE Fresh'
    <2>1. lock = i /\ copied' = [copied EXCEPT ![i] = {}]
      BY <1>0, <1>5 DEF Commit, Exclusive, Copying
    <2>2. \A j \in Import : copied'[j] = {}
      BY <1>0, <2>1, Alone DEF TypeOK
    <2> QED BY <2>2 DEF Fresh
  <1>6. CASE Leaves
    <2>1. /\ target' = target
          /\ \A j \in Import : copied'[j] \subseteq copied[j]
      BY <1>0, <1>6, LeavesFacts
    <2> QED BY <1>0, <2>1 DEF Fresh
  <1> QED BY <1>1, <1>2, <1>3, <1>4, <1>5, <1>6, EveryStep

(* An import that has its end before it has its rows in the tables; and no *)
(* event has two rows of imports.                                          *)
LEMMA ImportedStep == ASSUME IInv, [Next]_vars PROVE AllOrNothing' /\ ImportsNeverRepeat'
  <1> USE DEF world, own
  <1>0. TypeOK /\ Exclusive /\ Fresh /\ Copies /\ AllOrNothing /\ ImportsNeverRepeat
    BY DEF IInv
  <1>1. ASSUME NEW e \in Event, LiveWrite(e) PROVE AllOrNothing' /\ ImportsNeverRepeat'
    <2>1. PICK r \in TargetRow : target' = target \cup {r} /\ r.by = "live"
      BY <1>0, <1>1, LiveRow
    <2>2. r.by \notin Import /\ pc' = pc
      BY <1>1, <2>1, ImportAssumption DEF LiveWrite
    <2> QED BY <1>0, <2>1, <2>2 DEF AllOrNothing, ImportsNeverRepeat
  <1>2. ASSUME NEW i \in Import, Commit(i) PROVE AllOrNothing' /\ ImportsNeverRepeat'
    <2>1. target' = target \cup copied[i] /\ pc' = [pc EXCEPT ![i] = "done"]
      BY <1>2 DEF Commit, Goto
    <2>2. ASSUME NEW r \in copied[i]
          PROVE  \E l \in stage[i] : r = CopyOf(l, i) /\ r.event = l.event /\ r.by = i
      BY <1>0, CopiedRow DEF Copies, TypeOK
    <2>3. AllOrNothing'
      BY <1>0, <2>1, <2>2 DEF AllOrNothing, TypeOK
    <2>4. \A r, s \in copied[i] : r.event = s.event => r = s
      BY <2>2, OneCopyOfAnEvent
    <2>5. \A r \in copied[i] : \A t \in target : t.event # r.event
      BY <1>0 DEF Fresh
    <2>6. ImportsNeverRepeat'
      BY <1>0, <2>1, <2>4, <2>5 DEF ImportsNeverRepeat
    <2> QED BY <2>3, <2>6
  <1>3. ASSUME target' = target, \A i \in Import : pc[i] = "done" => pc'[i] = "done"
        PROVE  AllOrNothing' /\ ImportsNeverRepeat'
    BY <1>0, <1>3 DEF AllOrNothing, ImportsNeverRepeat
  <1>4. ASSUME NEW e \in Event, LegacyWrite(e)
        PROVE  target' = target /\ \A j \in Import : pc[j] = "done" => pc'[j] = "done"
    BY <1>4 DEF LegacyWrite
  <1>5. ASSUME NEW i \in Import, NEW table, StagesOf(i, table) \/ CopiesOf(i, table)
        PROVE  target' = target /\ \A j \in Import : pc[j] = "done" => pc'[j] = "done"
    BY <1>0, <1>5 DEF StagesOf, StageTable, CopiesOf, CopyTable, Goto, TypeOK
  <1>6. ASSUME Leaves
        PROVE  target' = target /\ \A j \in Import : pc[j] = "done" => pc'[j] = "done"
    BY <1>0, <1>6 DEF Leaves, LiveBusy, DryRun, Begin, Raise, Abandon, Retry, Crash, Goto,
                      TypeOK, vars
  <1> QED BY <1>1, <1>2, <1>3, <1>4, <1>5, <1>6, EveryStep

(* Copying a table leaves no row of it behind: whatever is not new has a   *)
(* row of its own event, as no other event is alike.                       *)
LEMMA CopyKeeps ==
  ASSUME IInv, NEW i \in Import, NEW table, NEW l \in stage[i],
         l.table = table, Lone(l.event)
  PROVE  \E t \in target \cup copied[i] \cup {CopyOf(m, i) : m \in StillNew(i, table)} :
            t.event = l.event
  <1>1. l \in StagedRow /\ FromEvent(l)
    BY DEF IInv, TypeOK, Rows
  <1>2. CASE l \in StillNew(i, table)
    BY <1>1, <1>2, CopiedRow
  <1>3. CASE l \notin StillNew(i, table)
    <2>1. PICK t \in target \cup copied[i] : SameRow(t, l)
      BY <1>3 DEF StillNew, IsNew
    <2>2. t \in TargetRow /\ FromEvent(t)
      BY DEF IInv, TypeOK, Rows
    <2>3. t.event = l.event
      BY <1>1, <2>1, <2>2, SameRowSameEvent DEF IInv
    <2> QED BY <2>3
  <1> QED BY <1>2, <1>3

(* An import that is left alone, while the table grows, keeps what it had. *)
LEMMA KeptApart ==
  ASSUME Kept, what' = what, target \subseteq target', NEW i \in Import,
         (stage'[i] = stage[i] /\ copied'[i] = copied[i]) \/ stage'[i] = {},
         pc'[i] \in {"copy_movements", "commit"} => pc'[i] = pc[i]
  PROVE  \A l \in stage'[i] : Lone(l.event)' =>
            /\ pc'[i] \in {"copy_movements", "commit"} /\ l.table = "sightings" => HasRow(i, l)'
            /\ pc'[i] = "commit" => HasRow(i, l)'
  <1> SUFFICES ASSUME NEW l \in stage'[i], Lone(l.event)'
               PROVE  /\ pc'[i] \in {"copy_movements", "commit"} /\ l.table = "sightings"
                            => HasRow(i, l)'
                      /\ pc'[i] = "commit" => HasRow(i, l)'
    OBVIOUS
  <1>1. stage'[i] = stage[i] /\ copied'[i] = copied[i]
    OBVIOUS
  <1>2. Lone(l.event)
    BY DEF Lone
  <1>3. HasRow(i, l) => HasRow(i, l)'
    BY <1>1 DEF HasRow
  <1> QED BY <1>1, <1>2, <1>3 DEF Kept

(* No staged row falls through.                                            *)
LEMMA KeptStep == ASSUME IInv, [Next]_vars PROVE Kept'
  <1> USE DEF world, own
  <1>0. TypeOK /\ Kept
    BY DEF IInv
  <1> DEFINE Apart(i) == /\ \/ stage'[i] = stage[i] /\ copied'[i] = copied[i]
                            \/ stage'[i] = {}
                         /\ pc'[i] \in {"copy_movements", "commit"} => pc'[i] = pc[i]
             KeptBy(i) == \A l \in stage'[i] : Lone(l.event)' =>
                 /\ pc'[i] \in {"copy_movements", "commit"} /\ l.table = "sightings"
                       => HasRow(i, l)'
                 /\ pc'[i] = "commit" => HasRow(i, l)'
  <1>1. ASSUME what' = what, target \subseteq target', NEW i \in Import, Apart(i)
        PROVE  KeptBy(i)
    BY <1>0, <1>1, KeptApart
  <1>2. (\A i \in Import : KeptBy(i)) => Kept'
    BY DEF Kept
  <1>3. ASSUME NEW e \in Event, LiveWrite(e) \/ LegacyWrite(e)
        PROVE  what' = what /\ target \subseteq target' /\ \A i \in Import : Apart(i)
    BY <1>3 DEF LiveWrite, LegacyWrite
  <1>4. ASSUME NEW i \in Import, NEW table, StagesOf(i, table)
        PROVE  what' = what /\ target \subseteq target' /\ \A j \in Import : KeptBy(j)
    <2>1. /\ what' = what /\ target' = target
          /\ \A j \in Import \ {i} : Apart(j)
          /\ pc'[i] \notin {"copy_movements", "commit"}
      BY <1>0, <1>4 DEF StagesOf, StageTable, Goto, TypeOK
    <2> QED BY <1>1, <2>1
  <1>5. ASSUME NEW i \in Import, NEW table, CopiesOf(i, table)
        PROVE  \A j \in Import : KeptBy(j)
    <2> DEFINE new == {CopyOf(m, i) : m \in StillNew(i, table)}
    <2>1. /\ what' = what /\ target' = target /\ stage' = stage
          /\ copied' = [copied EXCEPT ![i] = @ \cup new]
      BY <1>5 DEF CopiesOf, CopyTable
    <2>2. copied'[i] = copied[i] \cup new /\ \A j \in Import \ {i} : copied'[j] = copied[j]
      BY <1>0, <2>1 DEF TypeOK
    <2>3. \A j \in Import \ {i} : Apart(j)
      BY <1>0, <1>5, <2>1, <2>2 DEF CopiesOf, CopyTable, Goto, TypeOK
    <2>4. ASSUME NEW l \in stage[i], Lone(l.event), l.table = table PROVE HasRow(i, l)'
      <3>1. \E t \in target \cup copied[i] \cup new : t.event = l.event
        BY <2>4, CopyKeeps
      <3> HIDE DEF new
      <3> QED BY <2>1, <2>2, <3>1 DEF HasRow
    <2>5. ASSUME NEW l \in stage[i], HasRow(i, l) PROVE HasRow(i, l)'
      BY <2>1, <2>2, <2>5 DEF HasRow
    <2>6. \A l : Lone(l.event)' => Lone(l.event)
      BY <2>1 DEF Lone
    <2>7. /\ table = "sightings" => pc'[i] = "copy_movements"
          /\ table = "airport_movements" => pc[i] = "copy_movements"
          /\ table \in Tables
      BY <1>0, <1>5 DEF CopiesOf, CopyTable, Goto, TypeOK, Tables
    <2>8. \A l \in stage[i] : l.table \in Tables
      BY <1>0 DEF TypeOK, StagedRow
    <2>9. KeptBy(i)
      <3> SUFFICES ASSUME NEW l \in stage[i], Lone(l.event)
                   PROVE  /\ l.table = "sightings" => HasRow(i, l)'
                          /\ pc'[i] = "commit" => HasRow(i, l)'
        BY <2>1, <2>6
      <3>1. CASE table = "sightings"
        BY <2>4, <2>7, <3>1
      <3>2. CASE table = "airport_movements"
        BY <1>0, <2>4, <2>5, <2>7, <2>8, <3>2 DEF Kept, Tables
      <3> QED BY <2>7, <3>1, <3>2 DEF Tables
    <2> QED BY <1>1, <2>1, <2>3, <2>9
  <1>6. ASSUME NEW i \in Import, Commit(i)
        PROVE  what' = what /\ target \subseteq target' /\ \A j \in Import : Apart(j)
    BY <1>0, <1>6 DEF Commit, Goto, TypeOK
  <1>7. ASSUME Leaves
        PROVE  what' = what /\ target \subseteq target' /\ \A i \in Import : Apart(i)
    <2>1. \A i \in Import : pc'[i] \in {"copy_movements", "commit"} => pc'[i] = pc[i]
      BY <1>0, <1>7 DEF Leaves, LiveBusy, DryRun, Begin, Raise, Retry, Crash, Goto, TypeOK, vars
    <2> QED BY <1>0, <1>7, <2>1, LeavesFacts
  <1> QED BY <1>1, <1>2, <1>3, <1>4, <1>5, <1>6, <1>7, EveryStep

-----------------------------------------------------------------------------
(* The invariant holds in every reachable state.                           *)
THEOREM Invariance == Spec => []IInv
  <1>1. Init => IInv
    BY InitInv
  <1>2. IInv /\ [Next]_vars => IInv'
    BY TypeStep, RowsStep, CopiesStep, ExclusiveStep, FreshStep, KeptStep, ImportedStep
    DEF IInv
  <1> QED BY <1>1, <1>2, PTL DEF Spec

(* Type correctness: no doubled photo prefix gets into the live tables.    *)
THEOREM TypeCorrect == Spec => []TypeOK
  <1>1. IInv => TypeOK
    BY DEF IInv
  <1> QED BY <1>1, Invariance, PTL

(* "Safe to re-run": for any number of imports, at once or one after the   *)
(* other, none stores an event that another one has stored.                *)
THEOREM SafeToRerun == Spec => []ImportsNeverRepeat
  <1>1. IInv => ImportsNeverRepeat
    BY DEF IInv
  <1> QED BY <1>1, Invariance, PTL

(* A row of an import is in the tables only if the import got to its end.  *)
THEOREM BothTablesOrNone == Spec => []AllOrNothing
  <1>1. IInv => AllOrNothing
    BY DEF IInv
  <1> QED BY <1>1, Invariance, PTL

(* Which steps a commit, and a staging, can be.                            *)
LEMMA CommitStep ==
  ASSUME TypeOK, [Next]_vars, NEW i \in Import, Commits(i)
  PROVE  Commit(i)
  <1> USE DEF Commits, world, own, TypeOK
  <1>1. ASSUME NEW e \in Event, LiveWrite(e) \/ LiveBusy(e) \/ LegacyWrite(e) PROVE FALSE
    BY <1>1 DEF LiveWrite, LiveBusy, LegacyWrite
  <1>2. ASSUME NEW j \in Import, Stage(j) \/ Copy(j) \/ DryRun(j) \/ Begin(j) \/ Raise(j)
                                          \/ Retry(j)
        PROVE  FALSE
    BY <1>2 DEF Stage, StageTable, Copy, CopyTable, DryRun, Begin, Raise, Retry, Goto
  <1>3. CASE Crash
    BY <1>3 DEF Crash
  <1>4. ASSUME NEW j \in Import, Commit(j) PROVE j = i
    BY <1>4 DEF Commit, Goto
  <1> QED BY <1>1, <1>2, <1>3, <1>4 DEF Next, vars

(* Only an import that stages changes what is staged.                      *)
LEMMA StagingStep ==
  ASSUME TypeOK, [Next]_vars, NEW i \in Import, NEW table, Stages(i, table)
  PROVE  StagesOf(i, table)
  <1> USE DEF Stages, world, own, TypeOK
  <1>1. ASSUME NEW e \in Event, LiveWrite(e) \/ LiveBusy(e) \/ LegacyWrite(e) PROVE FALSE
    BY <1>1 DEF LiveWrite, LiveBusy, LegacyWrite
  <1>2. ASSUME NEW j \in Import, Copy(j) \/ DryRun(j) \/ Begin(j) \/ Commit(j) \/ Raise(j)
                                         \/ Retry(j)
        PROVE  FALSE
    BY <1>2 DEF Copy, CopyTable, DryRun, Begin, Commit, Raise, Retry, Goto
  <1>3. CASE Crash
    BY <1>3 DEF Crash
  <1>4. ASSUME NEW j \in Import, Stage(j) PROVE StagesOf(i, table)
    <2>1. j = i
      BY <1>4 DEF Stage, StageTable, Goto
    <2> QED BY <1>4, <2>1 DEF Stage, StageTable, Goto, StagesOf
  <1> QED BY <1>1, <1>2, <1>3, <1>4 DEF Next, vars

(* An import commits no row of an event that has one in the live tables,   *)
(* whoever stored it and however long after the staging.                   *)
THEOREM CommitsOnlyNewEvents == Spec => SkipsWhatIsThere
  <1>1. ASSUME IInv, [Next]_vars, NEW i \in Import, Commits(i),
               NEW t \in target, NEW r \in target' \ target
        PROVE  r.event # t.event
    <2>1. Commit(i)
      BY <1>1, CommitStep DEF IInv
    <2>2. r \in copied[i]
      BY <1>1, <2>1 DEF Commit
    <2> QED BY <1>1, <2>2 DEF IInv, Fresh
  <1>2. IInv /\ [Next]_vars =>
           [\A i \in Import : Commits(i) =>
               \A t \in target : \A r \in target' \ target : r.event # t.event]_vars
    BY <1>1
  <1> QED BY <1>2, Invariance, PTL DEF Spec, SkipsWhatIsThere

(* Every event that was staged has a row once the import commits, if no    *)
(* other event is alike.                                                   *)
THEOREM NothingFallsThrough == Spec => StagedIsKept
  <1>1. ASSUME IInv, [Next]_vars, NEW i \in Import, Commits(i),
               NEW l \in stage[i], Lone(l.event)
        PROVE  \E t \in target' : t.event = l.event
    <2>1. Commit(i) /\ pc[i] = "commit"
      BY <1>1, CommitStep DEF IInv, Commits
    <2>2. HasRow(i, l)
      BY <1>1, <2>1 DEF IInv, Kept
    <2> QED BY <2>1, <2>2 DEF HasRow, Commit
  <1>2. IInv /\ [Next]_vars =>
           [\A i \in Import : Commits(i) =>
               \A l \in stage[i] : Lone(l.event) => \E t \in target' : t.event = l.event]_vars
    BY <1>1
  <1> QED BY <1>2, Invariance, PTL DEF Spec, StagedIsKept

(* A row of the window that is not staged is of an event the live tables   *)
(* have, if no other event is alike.                                       *)
THEOREM SkippedHasARow == Spec => SkippedIsSameEvent
  <1>1. ASSUME IInv, [Next]_vars, NEW i \in Import, NEW table \in Tables, Stages(i, table),
               NEW l \in legacy, l.table = table, InWindow(l, window[i]), Lone(l.event),
               Normalized(l) \notin stage'[i]
        PROVE  \E t \in target : t.event = l.event
    <2>1. StagesOf(i, table)
      BY <1>1, StagingStep DEF IInv
    <2>2. l \notin NewRows(i, table)
      BY <1>1, <2>1 DEF StagesOf, StageTable, IInv, TypeOK
    <2>3. PICK t \in target : SameRow(t, l)
      BY <1>1, <2>2 DEF NewRows, IsNew
    <2>4. t \in TargetRow /\ l \in LegacyRow /\ FromEvent(t) /\ FromEvent(l)
      BY <1>1 DEF IInv, TypeOK, Rows
    <2> QED BY <1>1, <2>3, <2>4, SameRowSameEvent DEF IInv
  <1>2. IInv /\ [Next]_vars =>
           [\A i \in Import : \A table \in Tables : Stages(i, table) =>
               \A l \in legacy :
                  (/\ l.table = table /\ InWindow(l, window[i]) /\ Lone(l.event)
                   /\ Normalized(l) \notin stage'[i])
                     => \E t \in target : t.event = l.event]_vars
    BY <1>1
  <1> QED BY <1>2, Invariance, PTL DEF Spec, SkippedIsSameEvent

-----------------------------------------------------------------------------
(* The integration stores an event once: it has recorded all it has a row  *)
(* of.                                                                     *)
Recorded == \A t \in target : t.by \notin Import => live[t.event] = "yes"

LEMMA RecordedStep == ASSUME IInv, Recorded, [Next]_vars PROVE Recorded'
  <1> USE DEF world, own
  <1>0. TypeOK
    BY DEF IInv
  <1>1. ASSUME NEW e \in Event, LiveWrite(e) PROVE Recorded'
    <2>1. PICK r \in TargetRow : target' = target \cup {r} /\ r.event = e
      BY <1>0, <1>1, LiveRow
    <2>2. live'[e] = "yes" /\ \A d \in Event \ {e} : live'[d] = live[d]
      BY <1>0, <1>1 DEF LiveWrite, TypeOK
    <2>3. \A t \in target : t.event \in Event
      BY <1>0 DEF TypeOK, TargetRow
    <2> QED BY <2>1, <2>2, <2>3 DEF Recorded
  <1>2. ASSUME NEW e \in Event, LiveBusy(e) PROVE Recorded'
    <2>1. live[e] = "no" /\ target' = target /\ \A d \in Event \ {e} : live'[d] = live[d]
      BY <1>0, <1>2 DEF LiveBusy, TypeOK
    <2>2. \A t \in target : t.event \in Event
      BY <1>0 DEF TypeOK, TargetRow
    <2> QED BY <2>1, <2>2 DEF Recorded
  <1>3. ASSUME NEW i \in Import, Commit(i) PROVE Recorded'
    <2>1. live' = live /\ target' = target \cup copied[i]
      BY <1>3 DEF Commit
    <2>2. \A r \in copied[i] : r.by \in Import
      BY <1>0, CopiedRow DEF IInv, Copies, TypeOK
    <2> QED BY <2>1, <2>2 DEF Recorded
  <1>4. ASSUME UNCHANGED <<live, target>> PROVE Recorded'
    BY <1>4 DEF Recorded
  <1>5. ASSUME NEW e \in Event, LegacyWrite(e) PROVE UNCHANGED <<live, target>>
    BY <1>5 DEF LegacyWrite
  <1>6. ASSUME NEW i \in Import, NEW table, StagesOf(i, table) \/ CopiesOf(i, table)
        PROVE  UNCHANGED <<live, target>>
    BY <1>6 DEF StagesOf, StageTable, CopiesOf, CopyTable
  <1>7. ASSUME NEW i \in Import, DryRun(i) \/ Begin(i) \/ Raise(i) \/ Retry(i)
        PROVE  UNCHANGED <<live, target>>
    BY <1>7 DEF DryRun, Begin, Raise, Abandon, Retry
  <1>8. ASSUME Crash \/ UNCHANGED vars PROVE UNCHANGED <<live, target>>
    BY <1>8 DEF Crash, vars
  <1> QED BY <1>1, <1>2, <1>3, <1>4, <1>5, <1>6, <1>7, <1>8, EveryStep DEF Leaves

(* The integration's write is its row in one step.                         *)
LEMMA WriteIsRecord ==
  ASSUME IInv, Recorded, NEW e \in Event, LiveWrite(e) PROVE Atomic!Record
  <1>1. PICK r \in TargetRow : target' = target \cup {r} /\ r.event = e /\ r.by = "live"
    BY LiveRow DEF IInv
  <1>2. live[e] = "no" /\ pc' = pc
    BY DEF LiveWrite
  <1>3. r.by \notin Import
    BY <1>1, ImportAssumption
  <1>4. \A t \in target : t.event = r.event => t.by \in Import
    BY <1>1, <1>2 DEF Recorded
  <1>5. r \in target'
    BY <1>1
  <1> QED BY <1>1, <1>2, <1>3, <1>4, <1>5 DEF Atomic!Record

(* A commit is the merge.                                                  *)
LEMMA CommitIsMerge == ASSUME IInv, NEW i \in Import, Commit(i) PROVE Atomic!Merge(i)
  <1>1. /\ pc[i] = "commit" /\ pc' = [pc EXCEPT ![i] = "done"]
        /\ target' = target \cup copied[i]
    BY DEF Commit, Goto
  <1>2. {j \in Import : pc'[j] = "done"} = {j \in Import : pc[j] = "done"} \cup {i}
    BY <1>1 DEF IInv, TypeOK
  <1>3. i \notin {j \in Import : pc[j] = "done"}
    BY <1>1
  <1>4. ASSUME NEW r \in copied[i]
        PROVE  \E l \in stage[i] : r = CopyOf(l, i) /\ r.event = l.event /\ r.by = i
    BY CopiedRow DEF IInv, Copies, TypeOK
  <1>5. \A r, s \in copied[i] : r.event = s.event => r = s
    BY <1>4, OneCopyOfAnEvent
  <1>6. ASSUME NEW r \in target' \ target
        PROVE  r.by = i /\ \A t \in target' : t.event = r.event => t = r
    <2>1. r \in copied[i]
      BY <1>1
    <2>2. \A t \in target : t.event # r.event
      BY <2>1 DEF IInv, Fresh
    <2> QED BY <1>1, <1>4, <1>5, <2>1, <2>2
  <1> QED BY <1>1, <1>2, <1>3, <1>6 DEF Atomic!Merge

(* Nothing else shows: no row comes or goes, no import ends.               *)
LEMMA RestIsHidden ==
  ASSUME IInv, [Next]_vars, \A e \in Event : ~LiveWrite(e), \A i \in Import : ~Commit(i)
  PROVE  UNCHANGED Atomic!vars
  <1> USE DEF world, own
  <1> DEFINE Unseen == /\ target' = target
                       /\ \A j \in Import : pc'[j] = "done" <=> pc[j] = "done"
  <1>0. TypeOK
    BY DEF IInv
  <1>1. ASSUME NEW e \in Event, LegacyWrite(e) \/ LiveBusy(e) PROVE Unseen
    BY <1>1 DEF LegacyWrite, LiveBusy
  <1>2. ASSUME NEW i \in Import, NEW table, StagesOf(i, table) \/ CopiesOf(i, table)
        PROVE  Unseen
    BY <1>0, <1>2 DEF StagesOf, StageTable, CopiesOf, CopyTable, Goto, TypeOK
  <1>3. ASSUME NEW i \in Import, DryRun(i) \/ Begin(i) \/ Raise(i) \/ Retry(i)
        PROVE  Unseen
    BY <1>0, <1>3 DEF DryRun, Begin, Raise, Abandon, Retry, Goto, TypeOK
  <1>4. ASSUME Crash PROVE Unseen
    BY <1>0, <1>4 DEF Crash, TypeOK
  <1>5. ASSUME UNCHANGED vars PROVE Unseen
    BY <1>5 DEF vars
  <1>6. Unseen
    BY <1>1, <1>2, <1>3, <1>4, <1>5, EveryStep DEF Leaves
  <1> QED BY <1>6 DEF Atomic!vars

(* The import is atomic, for any number of imports, failures and crashes:  *)
(* whatever is staged, checked and copied before, its rows come at one     *)
(* instant, of events without a row, or never.                             *)
THEOREM Refinement == Spec => RefinesAtomicImport
  <1>1. Init => Atomic!Init /\ Recorded
    <2> SUFFICES ASSUME Init PROVE Atomic!Init /\ Recorded
      OBVIOUS
    <2>1. target = {} /\ {i \in Import : pc[i] = "done"} = {}
      BY DEF Init
    <2> QED BY <2>1 DEF Atomic!Init, Recorded
  <1>2. IInv /\ Recorded /\ [Next]_vars => Recorded'
    BY RecordedStep
  <1>3. IInv /\ Recorded /\ [Next]_vars => [Atomic!Next]_(Atomic!vars)
    BY WriteIsRecord, CommitIsMerge, RestIsHidden DEF Atomic!Next
  <1> QED BY <1>1, <1>2, <1>3, Invariance, PTL DEF Spec, RefinesAtomicImport, Atomic!Spec
=================================================================================
