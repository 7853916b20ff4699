------------------------------ MODULE Repository ------------------------------
(***************************************************************************)
(* The tables of the skywatch database and the SQL statements that         *)
(* storage/repository.py runs on them, as pure operators from one store to *)
(* the next.  Which thread runs them, in what order and in which           *)
(* transaction is the business of the modules that EXTEND this one.        *)
(*                                                                         *)
(* Times are whole seconds, the precision _iso keeps.  The payload of an   *)
(* event (call sign, airline, altitude, ...) is abstracted to the event    *)
(* itself: a row remembers the event it was written for.                   *)
(***************************************************************************)
EXTENDS Integers, Sequences

CONSTANTS
    Flight,          \* the flight ids the source reports
    NoFlight,        \* an exit event whose payload has no id
    NoTime,          \* a NULL entry_time, and a flight with no entries row
    EntryTTL,        \* DEFAULT_ENTRY_TTL_HOURS
    TrailRetention   \* DEFAULT_TRAIL_RETENTION_MINUTES

ASSUME RepositoryAssumption ==
    /\ NoFlight \notin Flight
    /\ NoTime \notin Nat
    /\ EntryTTL \in Nat
    /\ TrailRetention \in Nat

(***************************************************************************)
(* A store has one record field per table.  entries has flight_id as its   *)
(* primary key, so it is a function; sightings and airport_movements are   *)
(* numbered by an autoincremented id and may hold equal rows, so they are  *)
(* sequences; flight_positions has the key (flight_id, ts), which is the   *)
(* caller's to respect.                                                    *)
(***************************************************************************)
MaybeTime == Nat \cup {NoTime}

EmptyStore == [entries   |-> [f \in Flight |-> NoTime],
               sightings |-> << >>,
               movements |-> << >>,
               positions |-> {}]

(* The stores whose rows were written for events of the set Event.          *)
StoreOf(Event) ==
    [entries   : [Flight -> MaybeTime],
     sightings : Seq([event : Event, entry_time : MaybeTime]),
     movements : Seq(Event),
     positions : SUBSET [flight : Flight \cup {NoFlight}, ts : Nat, of : Event]]

(* INSERT OR IGNORE INTO entries would keep the time of an earlier visit.  *)
InsertEntryOrIgnore(store, f, t) ==
    [store EXCEPT !.entries[f] = IF @ = NoTime THEN t ELSE @]

(* INSERT OR REPLACE INTO entries: a second entry event overwrites.        *)
InsertEntry(store, f, t) == [store EXCEPT !.entries[f] = t]

(* DELETE FROM entries WHERE entry_time < now - ttl.                       *)
PruneStaleEntries(store, now) ==
    [store EXCEPT !.entries =
        [f \in Flight |-> IF /\ store.entries[f] # NoTime
                             /\ store.entries[f] < now - EntryTTL
                          THEN NoTime
                          ELSE store.entries[f]]]

(* A take_entry_time that reads and does not take.                         *)
KeepEntry(store, f) == store

(* The SELECT and the DELETE of take_entry_time.  There is no age check    *)
(* here: a stale row is joined as long as no entry insert has pruned it.   *)
SelectEntryTime(store, f) == IF f \in Flight THEN store.entries[f] ELSE NoTime

DeleteEntry(store, f) ==
    IF f \in Flight THEN [store EXCEPT !.entries[f] = NoTime] ELSE store

InsertSighting(store, event, t) ==
    [store EXCEPT !.sightings = Append(@, [event |-> event, entry_time |-> t])]

InsertMovement(store, event) == [store EXCEPT !.movements = Append(@, event)]

(* INSERT OR IGNORE on the key (flight, ts): the row that is there stays.  *)
InsertPositions(store, rows) ==
    [store EXCEPT !.positions =
        @ \cup {r \in rows : \A p \in @ : p.flight # r.flight \/ p.ts # r.ts}]

(* DELETE FROM flight_positions WHERE ts < now - retention.                *)
PruneOldPositions(store, now) ==
    [store EXCEPT !.positions = {p \in @ : p.ts >= now - TrailRetention}]

(***************************************************************************)
(* The units of work: one call per source event, each one transaction.     *)
(***************************************************************************)
RecordEntry(store, f, t, now) ==
    PruneStaleEntries(InsertEntry(store, f, t), now)

RecordExit(store, event) ==
    InsertSighting(DeleteEntry(store, event.flight), event,
                   SelectEntryTime(store, event.flight))

RecordMovement(store, event) == InsertMovement(store, event)

RecordPositions(store, rows, now) ==
    PruneOldPositions(InsertPositions(store, rows), now)
===============================================================================
