------------------------------ MODULE LegacyImport ------------------------------
(***************************************************************************)
(* legacy_import.py: the windowed, de-duplicating import of the old        *)
(* logger's database into the live one, while the integration writes the   *)
(* live one, the old logger writes its own, other imports run, statements  *)
(* fail and the process may die.                                           *)
(*                                                                         *)
(* A row is [table, key, time, photo] - key stands for all the columns the *)
(* identity compares - with the ghost fields event (which real event it    *)
(* records) and by (who inserted it).                                      *)
(***************************************************************************)
EXTENDS Integers, FiniteSets

CONSTANTS
    Import,      \* import service calls, each on a connection of its own
    Event,       \* events of the source that both loggers may record
    Facts,       \* what an event may be: [table, key, time]
    Windows,     \* windows of an import: [since, until], half open
    Tolerance,   \* DEFAULT_DEDUPE_TOLERANCE_SECONDS
    MaxDelay,    \* the old logger stamps its row up to this much later
    Nobody,      \* the write lock of the live database is free
    MaxFail      \* bound: statements that raise, and crashes

ASSUME ImportAssumption ==
    /\ {"live", "legacy", Nobody} \cap Import = {}
    /\ {Tolerance, MaxDelay, MaxFail} \subseteq Nat

VARIABLES
    what,      \* the facts of each event
    live,      \* has the integration recorded the event: "no", "yes", "lost"
    legacy,    \* the rows of the old logger's database
    target,    \* the committed rows of the live database
    lock,      \* which import holds the write lock
    pc,        \* where each import is
    window,    \* its window
    stage,     \* its TEMP tables
    copied,    \* rows it has inserted and not committed
    fails

world == <<what, live, legacy>>
own   == <<window, stage, copied>>
vars  == <<world, target, lock, pc, own, fails>>

Tables == {"sightings", "airport_movements"}
Photo  == {"clean", "doubled"}   \* 'https:...' and 'https:https:...'

ASSUME FactsAssumption == \A f \in Facts : f.table \in Tables /\ f.time \in Nat

(* "stamps its row up to ~1 s after skywatch does": the tolerance covers it.*)
ASSUME DelayAssumption == MaxDelay <= Tolerance

(* normalize_photo_url and the CASE of _source_expr.                        *)
Normalized(row) == [row EXCEPT !.photo = "clean"]

InWindow(row, w) == row.time >= w.since /\ row.time < w.until

(* An identity without the columns.                                        *)
SameTime(t, l) ==
    t.table = l.table /\ t.time \in (l.time - Tolerance) .. (l.time + Tolerance)

(* The identity of _window_plan: the same columns, photo normalized on the *)
(* legacy side only, and timestamps that agree to within the tolerance.    *)
SameRow(t, l) ==
    /\ t.table = l.table
    /\ t.key = l.key
    /\ t.photo = Normalized(l).photo
    /\ t.time \in (l.time - Tolerance) .. (l.time + Tolerance)

IsNew(l, rows) == \A t \in rows : ~SameRow(t, l)

Init ==
    /\ what \in [Event -> Facts]
    /\ live = [e \in Event |-> "no"]
    /\ legacy = {}
    /\ target = {}
    /\ lock = Nobody
    /\ pc = [i \in Import |-> "idle"]
    /\ window \in [Import -> Windows]
    /\ stage = [i \in Import |-> {}]
    /\ copied = [i \in Import |-> {}]
    /\ fails = 0

-----------------------------------------------------------------------------
(* The integration stores its row of an event; it cannot while an import   *)
(* holds the write lock, and gives up after the busy timeout.              *)
LiveWrite(e) ==
    /\ live[e] = "no"
    /\ lock = Nobody
    /\ live' = [live EXCEPT ![e] = "yes"]
    /\ target' = target \cup
          {[table |-> what[e].table, key |-> what[e].key, time |-> what[e].time,
            photo |-> "clean", event |-> e, by |-> "live"]}
    /\ UNCHANGED <<what, legacy, lock, pc, own, fails>>

LiveBusy(e) ==
    /\ live[e] = "no"
    /\ lock # Nobody
    /\ live' = [live EXCEPT ![e] = "lost"]
    /\ UNCHANGED <<what, legacy, target, lock, pc, own, fails>>

(* The old logger, a process of its own, stores its row a little later.    *)
LegacyWrite(e) ==
    /\ \A l \in legacy : l.event # e
    /\ \E delay \in 0 .. MaxDelay, photo \in Photo :
          legacy' = legacy \cup
             {[table |-> what[e].table, key |-> what[e].key,
               time |-> what[e].time + delay, photo |-> photo,
               event |-> e, by |-> "legacy"]}
    /\ UNCHANGED <<what, live, target, lock, pc, own, fails>>

-----------------------------------------------------------------------------
Goto(i, label) == pc' = [pc EXCEPT ![i] = label]

(* CREATE TEMP TABLE ... AS new_rows_sql, one statement per table: a plain *)
(* read of both databases at that moment.                                  *)
NewRows(i, table) ==
    {l \in legacy : l.table = table /\ InWindow(l, window[i]) /\ IsNew(l, target)}

StageTable(i, label, table, next) ==
    /\ pc[i] = label
    /\ stage' = [stage EXCEPT ![i] = @ \cup {Normalized(l) : l \in NewRows(i, table)}]
    /\ Goto(i, next)
    /\ UNCHANGED <<world, target, lock, window, copied, fails>>

Stage(i) ==
    \/ StageTable(i, "idle", "sightings", "stage_movements")
    \/ StageTable(i, "stage_movements", "airport_movements", "staged")

(* dry_run counts the new rows with plain reads and writes nothing.        *)
DryRun(i) ==
    /\ pc[i] = "idle"
    /\ Goto(i, "dry")
    /\ UNCHANGED <<world, target, lock, own, fails>>

(* BEGIN IMMEDIATE                                                         *)
Begin(i) ==
    /\ pc[i] = "staged"
    /\ lock = Nobody
    /\ lock' = i
    /\ Goto(i, "copy_sightings")
    /\ UNCHANGED <<world, target, own, fails>>

CopyOf(row, i) == [row EXCEPT !.by = i]

(* A commit that trusts what was staged.                                   *)
StillStaged(i, table) == {l \in stage[i] : l.table = table}

(* A copy of each table in a transaction of its own, and a second copy     *)
(* that drops the first.                                                   *)
CopyTableCommitting(i, label, table, next) ==
    /\ pc[i] = label
    /\ target' = target \cup {CopyOf(l, i) : l \in StillStaged(i, table)}
    /\ Goto(i, next)
    /\ UNCHANGED <<world, lock, window, stage, copied, fails>>

CopyLastTable(i, label, table, next) ==
    /\ pc[i] = label
    /\ copied' = [copied EXCEPT ![i] = {CopyOf(l, i) : l \in StillStaged(i, table)}]
    /\ Goto(i, next)
    /\ UNCHANGED <<world, target, lock, window, stage, fails>>

(* commit_sql: the identity is checked again, against the rows as they are *)
(* now; the rows this statement inserts are invisible to its own check.    *)
StillNew(i, table) ==
    {l \in stage[i] : l.table = table /\ IsNew(l, target \cup copied[i])}

CopyTable(i, label, table, next) ==
    /\ pc[i] = label
    /\ copied' = [copied EXCEPT ![i] =
                     @ \cup {CopyOf(l, i) : l \in StillNew(i, table)}]
    /\ Goto(i, next)
    /\ UNCHANGED <<world, target, lock, window, stage, fails>>

Copy(i) ==
    \/ CopyTable(i, "copy_sightings", "sightings", "copy_movements")
    \/ CopyTable(i, "copy_movements", "airport_movements", "commit")

(* The one commit covers both tables; the stage tables are dropped.        *)
Commit(i) ==
    /\ pc[i] = "commit"
    /\ target' = target \cup copied[i]
    /\ lock' = Nobody
    /\ copied' = [copied EXCEPT ![i] = {}]
    /\ stage' = [stage EXCEPT ![i] = {}]
    /\ Goto(i, "done")
    /\ UNCHANGED <<world, window, fails>>

(* A clean-up that commits instead of rolling back.                        *)
AbandonCommitting(i) ==
    /\ target' = target \cup copied[i]
    /\ copied' = [copied EXCEPT ![i] = {}]
    /\ stage' = [stage EXCEPT ![i] = {}]
    /\ lock' = IF lock = i THEN Nobody ELSE lock
    /\ UNCHANGED window

(* A statement raises, or BEGIN IMMEDIATE times out: roll back if in a     *)
(* transaction, drop the stage tables, re-raise.                           *)
Abandon(i) ==
    /\ copied' = [copied EXCEPT ![i] = {}]
    /\ stage' = [stage EXCEPT ![i] = {}]
    /\ lock' = IF lock = i THEN Nobody ELSE lock
    /\ UNCHANGED <<window, target>>

Raise(i) ==
    /\ pc[i] \in {"stage_movements", "staged", "copy_sightings", "copy_movements", "commit"}
    /\ fails < MaxFail
    /\ fails' = fails + 1
    /\ Abandon(i)
    /\ Goto(i, "raised")
    /\ UNCHANGED world

(* Whoever called the service may call it again.                           *)
Retry(i) ==
    /\ pc[i] \in {"raised", "dry"}
    /\ \E w \in Windows : window' = [window EXCEPT ![i] = w]
    /\ Goto(i, "idle")
    /\ UNCHANGED <<world, target, lock, stage, copied, fails>>

(* The process dies: SQLite rolls open transactions back on the next open. *)
Crash ==
    /\ fails < MaxFail
    /\ fails' = fails + 1
    /\ pc' = [i \in Import |-> IF pc[i] \in {"done", "dry"} THEN pc[i] ELSE "raised"]
    /\ lock' = Nobody
    /\ stage' = [i \in Import |-> {}]
    /\ copied' = [i \in Import |-> {}]
    /\ UNCHANGED <<world, target, window>>

Next ==
    \/ \E e \in Event : LiveWrite(e) \/ LiveBusy(e) \/ LegacyWrite(e)
    \/ \E i \in Import : \/ Stage(i) \/ DryRun(i) \/ Begin(i) \/ Copy(i) \/ Commit(i)
                         \/ Raise(i) \/ Retry(i)
    \/ Crash

Spec == Init /\ [][Next]_vars

-----------------------------------------------------------------------------
LegacyRow == [table : Tables, key : {f.key : f \in Facts}, time : Nat, photo : Photo,
              event : Event, by : {"legacy"}]
StagedRow == [table : Tables, key : {f.key : f \in Facts}, time : Nat, photo : {"clean"},
              event : Event, by : {"legacy"}]
TargetRow == [table : Tables, key : {f.key : f \in Facts}, time : Nat, photo : {"clean"},
              event : Event, by : {"live"} \cup Import]
Label == {"idle", "stage_movements", "staged", "copy_sightings", "copy_movements",
          "commit", "done", "dry", "raised"}

(* The steps the action properties are about.                              *)
Commits(i) == pc[i] = "commit" /\ pc'[i] = "done"

Stages(i, table) ==
    \/ table = "sightings" /\ pc[i] = "idle" /\ pc'[i] = "stage_movements"
    \/ table = "airport_movements" /\ pc[i] = "stage_movements" /\ pc'[i] = "staged"

(* Type invariant; its TargetRow says that a doubled photo prefix never    *)
(* reaches the live tables (_source_expr, legacy_import.py:265-277).       *)
TypeOK ==
    /\ what \in [Event -> Facts]
    /\ live \in [Event -> {"no", "yes", "lost"}]
    /\ legacy \in SUBSET LegacyRow
    /\ target \in SUBSET TargetRow
    /\ lock \in Import \cup {Nobody}
    /\ pc \in [Import -> Label]
    /\ window \in [Import -> Windows]
    /\ stage \in [Import -> SUBSET StagedRow]
    /\ copied \in [Import -> SUBSET TargetRow]
    /\ fails \in Nat

(* Imports that run at once or one after the other, over overlapping       *)
(* windows, after a failure or a crash, never store an event twice between *)
(* them: the re-check under the write lock sees what others committed      *)
(* since the staging ("safe to re-run", legacy_import.py:213).             *)
ImportsNeverRepeat ==
    \A s, t \in target : (s.by \in Import /\ t.by \in Import /\ s.event = t.event) => s = t

(* A row the integration wrote before an import commits is not imported    *)
(* again, even when it came after the staging (legacy_import.py:298-300).  *)
SkipsWhatIsThere ==
    [][\A i \in Import : Commits(i) =>
          \A t \in target : \A r \in target' \ target : r.event # t.event]_vars

(* Both tables or none: an import that did not get to its end has left no  *)
(* row, and while one is between BEGIN and COMMIT the others see none.     *)
AllOrNothing ==
    \A t \in target : t.by \in Import => pc[t.by] = "done"

(* No other event has a row that could be taken for one of this event: the *)
(* same columns at times that the tolerance and the delay bring together.  *)
Lone(e) ==
    \A d \in Event \ {e} :
        \/ what[d].table # what[e].table \/ what[d].key # what[e].key
        \/ what[d].time - what[e].time > Tolerance + MaxDelay
        \/ what[e].time - what[d].time > Tolerance + MaxDelay

(* Every row an import staged is in the live tables once it commits, its   *)
(* own copy or somebody else's row of that event: a concurrent commit, the *)
(* second table or the re-check make no row fall through - unless another  *)
(* event is alike, whose row the re-check may take for it.                 *)
StagedIsKept ==
    [][\A i \in Import : Commits(i) =>
          \A l \in stage[i] : Lone(l.event) => \E t \in target' : t.event = l.event]_vars

(* legacy_import.py:372: "A legacy row is skipped when the target already  *)
(* holds a row for the same event".  A row of the window that the staging  *)
(* of its table passes over belongs to an event the target already has,    *)
(* unless another event is alike.                                          *)
SkippedIsSameEvent ==
    [][\A i \in Import : \A table \in Tables : Stages(i, table) =>
          \A l \in legacy :
             (/\ l.table = table /\ InWindow(l, window[i]) /\ Lone(l.event)
              /\ Normalized(l) \notin stage'[i])
                => \E t \in target : t.event = l.event]_vars

-----------------------------------------------------------------------------
(* Refinement: staging without the lock, re-checking under it, copying     *)
(* table by table, failing, retrying and dying come to a merge at the      *)
(* instant of the commit, or to nothing ("on error everything is rolled    *)
(* back", legacy_import.py:383-384).                                        *)
Atomic == INSTANCE AtomicImport WITH
    rows     <- target,
    finished <- {i \in Import : pc[i] = "done"}

RefinesAtomicImport == Atomic!Spec
=================================================================================
