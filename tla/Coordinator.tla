------------------------------ MODULE Coordinator ------------------------------
(***************************************************************************)
(* coordinator.py with backends/fr24.py: what becomes of the events of the *)
(* source.  A handler on the event loop announces each event on the bus    *)
(* and creates a task; the task hands a unit of work to the executor, and  *)
(* the executor runs the units in any order (SerializedConnection shows    *)
(* that one unit is atomic, so it is one step here).  Meanwhile the entry  *)
(* may be unloaded or reloaded, a setup may raise and leave its            *)
(* coordinator listening beside the next one, a unit may fail and the      *)
(* process may die.  What the task does once its unit is stored - it asks  *)
(* for a refresh - is modelled in Refresh.                                 *)
(***************************************************************************)
EXTENDS Repository, FiniteSets

CONSTANTS
    Movement,    \* the airport movements: "landed", "took_off"
    MaxEvents,   \* bound: events announced
    MaxTime,     \* bound: the clock stops here
    MaxFault,    \* bound: units of work that raise and deaths of the process
    MaxInstance  \* bound: coordinators that are set up

ASSUME CoordinatorAssumption ==
    /\ {"entry", "exit"} \cap Movement = {}
    /\ {MaxEvents, MaxTime, MaxFault, MaxInstance} \subseteq Nat

VARIABLES
    inside,     \* flights within the radius: the world, not the program
    visit,      \* ghost: per flight, the event that announced its arrival, or 0
    bus,        \* the event of the source that coordinators still have to hear
    events,     \* the skywatch_sighting events fired so far
    stage,      \* how far the persisting of each event has got
    store,      \* the committed database
    phase,      \* of the entry: is it being set up, loaded, closing or neither
    instance,   \* the SkywatchCoordinator that was created last
    live,       \* those whose listeners are registered and whose _db is not None
    open,       \* those whose SerializedConnection is open
    alone,      \* ghost: none has been set up beside a live one
    now, faults

world  == <<inside, visit, bus>>
jobs   == <<events, stage>>
entry  == <<phase, instance, live, open, alone>>
vars   == <<world, jobs, store, entry, now, faults>>

Final  == {"stored", "raised", "refused", "skipped", "lost"}
Stages == {"task", "queued"} \cup Final

Phases == {"idle", "refreshing", "loaded", "closing"}

(* Nothing of the source is being delivered.                               *)
Silence == [kind |-> "exit", flight |-> NoFlight, visit |-> 0, to |-> {}]
Quiet   == bus.to = {}

Init ==
    /\ inside \in SUBSET Flight
    /\ visit = [f \in Flight |-> 0]
    /\ events = << >>
    /\ stage = << >>
    /\ store = EmptyStore
    /\ bus = Silence
    /\ phase = "idle"
    /\ instance = 0
    /\ live = {}
    /\ open = {}
    /\ alone = TRUE
    /\ now = 0
    /\ faults = 0

-----------------------------------------------------------------------------
(* A setup that leaves the connection to the coordinator before it.        *)
SetupKeepingConnection ==
    /\ phase = "idle" /\ Quiet
    /\ instance < MaxInstance
    /\ phase' = "refreshing"
    /\ instance' = instance + 1
    /\ live' = live \cup {instance + 1}
    /\ alone' = (alone /\ live = {})
    /\ UNCHANGED <<world, jobs, store, open, now, faults>>

(* async_setup up to the first refresh: a coordinator of its own opens the *)
(* database and listens to the source.  What raises before that (open_db,  *)
(* no FR24) registers no listener, and nothing here tells it from no setup.*)
Setup ==
    /\ phase = "idle" /\ Quiet
    /\ instance < MaxInstance
    /\ phase' = "refreshing"
    /\ instance' = instance + 1
    /\ live' = live \cup {instance + 1}
    /\ open' = open \cup {instance + 1}
    /\ alone' = (alone /\ live = {})
    /\ UNCHANGED <<world, jobs, store, now, faults>>

SetupReturns ==
    /\ phase = "refreshing" /\ Quiet
    /\ phase' = "loaded"
    /\ UNCHANGED <<world, jobs, store, instance, live, open, alone, now, faults>>

(* async_config_entry_first_refresh, or what async_setup_entry does after  *)
(* it, raises.  Nobody unloads the coordinator: its listeners and _db stay,*)
(* and a retry or a reload sets up the next one beside it.                 *)
SetupRaises ==
    /\ phase = "refreshing" /\ Quiet
    /\ phase' = "idle"
    /\ UNCHANGED <<world, jobs, store, instance, live, open, alone, now, faults>>

(* async_unload: nothing it awaits before the executor call suspends, so   *)
(* no event slips in between dropping the listeners and dropping _db.      *)
Unload ==
    /\ phase = "loaded" /\ Quiet
    /\ phase' = "closing"
    /\ live' = live \ {instance}
    /\ UNCHANGED <<world, jobs, store, instance, open, alone, now, faults>>

(* db.close in the executor: it waits for the lock, not for queued jobs.   *)
Close ==
    /\ phase = "closing"
    /\ phase' = "idle"
    /\ open' = open \ {instance}
    /\ UNCHANGED <<world, jobs, store, instance, live, alone, now, faults>>

-----------------------------------------------------------------------------
(* The job of an earlier event of the flight has not ended; the ghost     *)
(* field `prompt' of an event says that there was no such job.             *)
Outstanding(f) ==
    \E i \in DOMAIN events : events[i].flight = f /\ stage[i] \notin Final

(* An event of the source is fired.  Nobody hears of it when nobody is     *)
(* listening.                                                              *)
Fire(kind, f, v) ==
    /\ Quiet
    /\ Len(events) + Cardinality(live) <= MaxEvents
    /\ bus' = IF live = {} THEN Silence
                           ELSE [kind |-> kind, flight |-> f, visit |-> v, to |-> live]
    /\ UNCHANGED <<jobs, store, entry, now, faults>>

(* An aircraft enters the radius, and leaves it.                           *)
EnterRadius(f) ==
    /\ f \notin inside
    /\ inside' = inside \cup {f}
    /\ visit' = [visit EXCEPT ![f] = 0]
    /\ Fire("entry", f, 0)

LeaveRadius(f) ==
    /\ f \in inside
    /\ inside' = inside \ {f}
    /\ Fire("exit", f, visit[f])
    /\ UNCHANGED visit

(* An exit payload without an id is stored unjoined; an entry payload      *)
(* without an id is dropped by _payload_to_entry and leaves no trace.      *)
LeaveWithoutId ==
    /\ live # {}
    /\ Fire("exit", NoFlight, 0)
    /\ UNCHANGED <<inside, visit>>

AirportMovement(kind) ==
    /\ live # {}
    /\ Fire(kind, NoFlight, 0)
    /\ UNCHANGED <<inside, visit>>

(* _on_entry, _on_exit, _on_landing, _on_takeoff of one coordinator: fire  *)
(* skywatch_sighting and create the persisting task in one go on the event *)
(* loop.                                                                   *)
Announce(kind, f, v, c) ==
    /\ events' = Append(events, [kind |-> kind, flight |-> f, time |-> now,
                                 id |-> Len(events) + 1, visit |-> v,
                                 instance |-> c, prompt |-> ~Outstanding(f)])
    /\ stage' = Append(stage, "task")

(* The bus runs the handlers of all who listen before anything else.       *)
Hear(c) ==
    /\ c \in bus.to
    /\ Announce(bus.kind, bus.flight, bus.visit, c)
    /\ bus' = IF bus.to = {c} THEN Silence ELSE [bus EXCEPT !.to = @ \ {c}]
    /\ visit' = IF bus.kind = "entry" THEN [visit EXCEPT ![bus.flight] = Len(events) + 1]
                                      ELSE visit
    /\ UNCHANGED <<inside, store, entry, now, faults>>

-----------------------------------------------------------------------------
Advance(i, to) == stage' = [stage EXCEPT ![i] = to]

(* _async_persist_* up to its await: give up if _db is gone, else submit.  *)
StartTask(i) ==
    /\ stage[i] = "task"
    /\ Advance(i, IF events[i].instance \in live THEN "queued" ELSE "skipped")
    /\ UNCHANGED <<world, events, store, entry, now, faults>>

(* The connection the job was given is still open.                         *)
Usable(i) == events[i].instance \in open

Unit(i) ==
    IF events[i].kind = "entry"
    THEN RecordEntry(store, events[i].flight, events[i].time, now)
    ELSE IF events[i].kind = "exit" THEN RecordExit(store, events[i])
                                    ELSE RecordMovement(store, events[i])

(* SerializedConnection.run in an executor thread.                         *)
Run(i) ==
    /\ stage[i] = "queued"
    /\ Usable(i)
    /\ store' = Unit(i)
    /\ Advance(i, "stored")
    /\ UNCHANGED <<world, events, entry, now, faults>>

(* The SELECT of take_entry_time is no part of the transaction that its    *)
(* DELETE begins.  The lock keeps the row as it was found, but only from   *)
(* the jobs of the same connection: with two, an exit may join the time of *)
(* a row that the other has replaced or taken, or miss one it has made.    *)
RunBesideAnother(i) ==
    /\ stage[i] = "queued"
    /\ Usable(i) /\ open # {events[i].instance}
    /\ events[i].kind = "exit"
    /\ \/ store' = InsertSighting(store, events[i], NoTime)
       \/ \E k \in DOMAIN events :
             /\ events[k].kind = "entry" /\ events[k].flight = events[i].flight
             /\ stage[k] = "stored"
             /\ store' = InsertSighting(DeleteEntry(store, events[i].flight), events[i],
                                        events[k].time)
    /\ Advance(i, "stored")
    /\ UNCHANGED <<world, events, entry, now, faults>>

Refuse(i) ==
    /\ stage[i] = "queued"
    /\ ~Usable(i)
    /\ Advance(i, "refused")
    /\ UNCHANGED <<world, events, store, entry, now, faults>>

(* A unit that raises after its row was committed.                         *)
RaiseAfterCommit(i) ==
    /\ stage[i] = "queued"
    /\ Usable(i)
    /\ faults < MaxFault
    /\ faults' = faults + 1
    /\ store' = Unit(i)
    /\ Advance(i, "raised")
    /\ UNCHANGED <<world, events, entry, now>>

Raise(i) ==
    /\ stage[i] = "queued"
    /\ Usable(i)
    /\ faults < MaxFault
    /\ faults' = faults + 1
    /\ Advance(i, "raised")
    /\ UNCHANGED <<world, events, store, entry, now>>

-----------------------------------------------------------------------------
(* Home Assistant dies: tasks, executor jobs and memory are gone.          *)
Crash ==
    /\ faults < MaxFault
    /\ faults' = faults + 1
    /\ stage' = [i \in DOMAIN stage |->
                    IF stage[i] \in {"task", "queued"} THEN "lost" ELSE stage[i]]
    /\ bus' = Silence
    /\ phase' = "idle"
    /\ live' = {}
    /\ open' = {}
    /\ UNCHANGED <<inside, visit, events, store, instance, alone, now>>

Tick ==
    /\ now < MaxTime
    /\ now' = now + 1
    /\ UNCHANGED <<world, jobs, store, entry, faults>>

JobStep(i) ==
    StartTask(i) \/ Run(i) \/ RunBesideAnother(i) \/ Refuse(i) \/ Raise(i)

EntryStep == Setup \/ SetupReturns \/ SetupRaises \/ Unload \/ Close

World ==
    \/ \E f \in Flight : EnterRadius(f) \/ LeaveRadius(f)
    \/ LeaveWithoutId
    \/ \E kind \in Movement : AirportMovement(kind)
    \/ \E c \in bus.to : Hear(c)

Next ==
    \/ EntryStep
    \/ World
    \/ \E i \in DOMAIN events : JobStep(i)
    \/ Crash
    \/ Tick

Spec == Init /\ [][Next]_vars

-----------------------------------------------------------------------------
Kinds == {"entry", "exit"} \cup Movement

EventType ==
    [kind : Kinds, flight : Flight \cup {NoFlight},
     time : Nat, id : Nat, visit : Nat, instance : Nat, prompt : BOOLEAN]

(* Type invariant of the pipeline.                                         *)
TypeOK ==
    /\ inside \in SUBSET Flight
    /\ visit \in [Flight -> Nat]
    /\ bus \in [kind : Kinds, flight : Flight \cup {NoFlight}, visit : Nat,
                to : SUBSET (1 .. instance)]
    /\ events \in Seq(EventType)
    /\ stage \in Seq(Stages)
    /\ Len(stage) = Len(events)
    /\ store \in StoreOf(EventType)
    /\ phase \in Phases /\ instance \in Nat /\ alone \in BOOLEAN
    /\ live \in SUBSET (1 .. instance) /\ open \in SUBSET (1 .. instance)
    /\ now \in Nat /\ faults \in Nat

SightingsOf(i) == {n \in DOMAIN store.sightings : store.sightings[n].event = events[i]}
MovementsOf(i) == {n \in DOMAIN store.movements : store.movements[n] = events[i]}

(* An exit or movement that was announced has exactly one row if its unit  *)
(* ran and none otherwise, whatever the order of the jobs, reloads,        *)
(* failures and crashes: nothing is stored twice and nothing half.         *)
ExactlyOneRow ==
    \A i \in DOMAIN events :
        LET rows == IF events[i].kind = "exit" THEN SightingsOf(i) ELSE MovementsOf(i)
        IN  events[i].kind # "entry" =>
                IF stage[i] = "stored" THEN \E n \in rows : rows = {n} ELSE rows = {}

(* While a coordinator listens - loaded, or left behind by a setup that    *)
(* raised - each of its events reaches the database or fails there: only   *)
(* an unload makes a task give up (skipped) or an executor job find its    *)
(* connection closed (refused), and only those of the coordinator unloaded.*)
DroppedOnlyByUnload ==
    \A i \in DOMAIN events :
        stage[i] \in {"refused", "skipped"} => events[i].instance \notin live

(* An entry time is joined to one sighting only, in any order of the jobs: *)
(* n sightings of a flight with one entry time took n recorded entries -   *)
(* unless two coordinators have shared the database.                       *)
EntryJoinedOnce ==
    alone => \A i \in DOMAIN events : events[i].kind = "entry" =>
        LET f == events[i].flight
            t == events[i].time
            joined == {n \in DOMAIN store.sightings :
                          /\ store.sightings[n].event.flight = f
                          /\ store.sightings[n].entry_time = t}
            entries == {k \in DOMAIN events : /\ events[k].kind = "entry"
                                              /\ events[k].flight = f
                                              /\ events[k].time = t
                                              /\ stage[k] = "stored"}
        IN  \/ joined = {}
            \/ \E pairing \in [joined -> entries] :
                  \A m, n \in joined : pairing[m] = pairing[n] => m = n

(* If the source's events of a flight are further apart than its jobs      *)
(* take, a sighting carries the time of its own visit's entry, or NULL     *)
(* only if that entry grew older than the TTL - never an earlier visit's,  *)
(* unless two coordinators have shared the database.                       *)
JoinsItsOwnVisit ==
    alone => \A n \in DOMAIN store.sightings :
        LET row == store.sightings[n]
            e   == row.event.visit
            prompt == \A i \in DOMAIN events :
                         events[i].flight = row.event.flight => events[i].prompt
        IN  (prompt /\ e # 0 /\ stage[e] = "stored") =>
                \/ row.entry_time = events[e].time
                \/ row.entry_time = NoTime /\ events[e].time < now - EntryTTL

(* "Called on every entry insert so orphan rows never accumulate even if a *)
(* matching exit event is dropped" (repository.py:49-50): rows older than  *)
(* the TTL do not survive the recording of any flight's entry.             *)
OrphansNeverAccumulate ==
    [][\A i \in DOMAIN events :
         (events[i].kind = "entry" /\ stage[i] = "queued" /\ stage'[i] = "stored") =>
             \A f \in Flight : \/ store'.entries[f] = NoTime
                               \/ store'.entries[f] >= now - EntryTTL]_vars

(* Refinement: whatever tasks, jobs, reloads and crashes do, the rows are  *)
(* those of an event log in which each event is settled once.              *)
Fate(label) ==
    IF label \in {"task", "queued"} THEN "pending"
    ELSE IF label = "stored" THEN "stored" ELSE "dropped"

Log == INSTANCE EventLog WITH
    log       <- events,
    fate      <- [i \in DOMAIN stage |-> Fate(stage[i])],
    sightings <- [n \in DOMAIN store.sightings |-> store.sightings[n].event],
    movements <- store.movements

RefinesEventLog == Log!Spec

=================================================================================
