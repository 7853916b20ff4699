---------------------------- MODULE CoordinatorProofs ----------------------------
(***************************************************************************)
(* Theorems about Coordinator, for any flights, events, setups that raise, *)
(* reloads, failures and crashes: every exit and movement that ran has one *)
(* row, only an unload drops one, no entry older than the TTL survives a   *)
(* recording, and the whole implements EventLog.                           *)
(***************************************************************************)
EXTENDS Coordinator, RepositoryLemmas

(* Events are numbered, by the coordinators there have been so far.        *)
Numbered ==
    \A i \in DOMAIN events :
        /\ events[i].id = i
        /\ events[i].instance <= instance
        /\ events[i].kind = "entry" => events[i].flight \in Flight

(* What the bus delivers may be announced.                                 *)
Deliverable == bus.kind = "entry" => bus.flight \in Flight

(* A coordinator that listens has an open connection; only the one that is *)
(* being unloaded has one and does not listen.  If no two ever listened,   *)
(* there is one connection, and an event is heard by one.                  *)
OpenWhileUp ==
    /\ live \subseteq open
    /\ \A c \in open : c \in live \/ (phase = "closing" /\ c = instance)
    /\ phase = "closing" => instance \notin live
    /\ bus.to \subseteq live
    /\ alone => \A c, d \in open : c = d

(* Of the events of some kinds, exactly those that were stored are in a    *)
(* table, once each.                                                       *)
OneRowEach(rows, kinds, evs, stg) ==
    /\ \A n \in DOMAIN rows : \E i \in DOMAIN evs :
          rows[n] = evs[i] /\ evs[i].kind \in kinds /\ stg[i] = "stored"
    /\ \A m, n \in DOMAIN rows : rows[m] = rows[n] => m = n
    /\ \A i \in DOMAIN evs : (evs[i].kind \in kinds /\ stg[i] = "stored") =>
          \E n \in DOMAIN rows : rows[n] = evs[i]

EventsOf(sightings) == [n \in DOMAIN sightings |-> sightings[n].event]

RowsInv ==
    /\ OneRowEach(EventsOf(store.sightings), {"exit"}, events, stage)
    /\ OneRowEach(store.movements, Movement, events, stage)

(* The inductive invariant.                                                *)
IInv ==
    TypeOK /\ Numbered /\ Deliverable /\ OpenWhileUp /\ RowsInv /\ DroppedOnlyByUnload

-----------------------------------------------------------------------------
(* A stored event gets its row; the rows of other kinds are not concerned. *)
LEMMA RowAdded ==
  ASSUME NEW kinds, NEW evs \in Seq(EventType), NEW stg \in Seq(Stages),
         Len(stg) = Len(evs), \A i, j \in DOMAIN evs : evs[i] = evs[j] => i = j,
         NEW rows \in Seq(EventType), OneRowEach(rows, kinds, evs, stg),
         NEW i \in DOMAIN evs, stg[i] # "stored", evs[i].kind \in kinds
  PROVE  OneRowEach(Append(rows, evs[i]), kinds, evs, [stg EXCEPT ![i] = "stored"])
  <1> DEFINE new  == Append(rows, evs[i])
             stg2 == [stg EXCEPT ![i] = "stored"]
             last == Len(rows) + 1
  <1>1. /\ DOMAIN new = 1 .. last /\ DOMAIN rows = 1 .. Len(rows) /\ last \in 1 .. last
        /\ new[last] = evs[i]
        /\ \A n \in DOMAIN rows : n \in DOMAIN new /\ new[n] = rows[n]
        /\ \A n \in DOMAIN new : n = last \/ n \in DOMAIN rows
    OBVIOUS
  <1>2. /\ DOMAIN stg = DOMAIN evs
        /\ stg2[i] = "stored"
        /\ \A j \in DOMAIN evs : j # i => stg2[j] = stg[j]
    OBVIOUS
  <1>3. \A n \in DOMAIN rows : rows[n] # evs[i]
    BY DEF OneRowEach
  <1> HIDE DEF new, stg2, last
  <1>4. \A n \in DOMAIN new : \E j \in DOMAIN evs :
           new[n] = evs[j] /\ evs[j].kind \in kinds /\ stg2[j] = "stored"
    BY <1>1, <1>2 DEF OneRowEach
  <1>5. \A m, n \in DOMAIN new : new[m] = new[n] => m = n
    BY <1>1, <1>3 DEF OneRowEach
  <1>6. \A j \in DOMAIN evs : (evs[j].kind \in kinds /\ stg2[j] = "stored") =>
           \E n \in DOMAIN new : new[n] = evs[j]
    BY <1>1, <1>2 DEF OneRowEach
  <1> QED BY <1>4, <1>5, <1>6 DEF OneRowEach, new, stg2

(* The event of another table leaves this one alone.                       *)
LEMMA RowElsewhere ==
  ASSUME NEW kinds, NEW evs, NEW stg, DOMAIN stg = DOMAIN evs,
         NEW rows, OneRowEach(rows, kinds, evs, stg),
         NEW i \in DOMAIN evs, evs[i].kind \notin kinds
  PROVE  OneRowEach(rows, kinds, evs, [stg EXCEPT ![i] = "stored"])
  <1> DEFINE stg2 == [stg EXCEPT ![i] = "stored"]
  <1>1. \A j \in DOMAIN evs : j # i => stg2[j] = stg[j]
    OBVIOUS
  <1> HIDE DEF stg2
  <1>2. OneRowEach(rows, kinds, evs, stg2)
    BY <1>1 DEF OneRowEach
  <1> QED BY <1>2 DEF stg2

(* Neither a step of a job that stores nothing nor an announcement makes   *)
(* or loses a row.                                                         *)
LEMMA NothingStored ==
  ASSUME NEW kinds, NEW evs, NEW stg, NEW stg2,
         \A i \in DOMAIN evs : stg[i] = "stored" <=> stg2[i] = "stored",
         NEW rows, OneRowEach(rows, kinds, evs, stg)
  PROVE  OneRowEach(rows, kinds, evs, stg2)
  BY DEF OneRowEach

(* A new event, which has a task and no row.                               *)
LEMMA Announced ==
  ASSUME NEW kinds, NEW evs \in Seq(EventType), NEW stg \in Seq(Stages),
         Len(stg) = Len(evs), NEW rows, OneRowEach(rows, kinds, evs, stg),
         NEW e \in EventType
  PROVE  OneRowEach(rows, kinds, Append(evs, e), Append(stg, "task"))
  <1> DEFINE evs2 == Append(evs, e)
             stg2 == Append(stg, "task")
             last == Len(evs) + 1
  <1>1. /\ \A i \in DOMAIN evs : i \in DOMAIN evs2 /\ evs2[i] = evs[i] /\ stg2[i] = stg[i]
        /\ \A i \in DOMAIN evs2 : i \in DOMAIN evs \/ stg2[i] = "task"
    OBVIOUS
  <1> HIDE DEF evs2, stg2
  <1>2. OneRowEach(rows, kinds, evs2, stg2)
    BY <1>1 DEF OneRowEach
  <1> QED BY <1>2 DEF evs2, stg2

(* A sequence holds what it is a sequence of.                              *)
LEMMA Elements == ASSUME NEW S, NEW q \in Seq(S), NEW n \in DOMAIN q PROVE q[n] \in S
  OBVIOUS

(* What the units of work do to the tables.                                *)
LEMMA UnitOfEntry ==
  ASSUME NEW s \in StoreOf(EventType), NEW f \in Flight, NEW t \in Nat, NEW n \in Nat,
         NEW r, r = RecordEntry(s, f, t, n)
  PROVE  /\ r \in StoreOf(EventType)
         /\ r.sightings = s.sightings /\ r.movements = s.movements
         /\ \A g \in Flight : r.entries[g] = NoTime \/ r.entries[g] >= n - EntryTTL
  <1> DEFINE a == InsertEntry(s, f, t)
  <1>1. a \in StoreOf(EventType) /\ a.sightings = s.sightings /\ a.movements = s.movements
    BY InsertEntryType DEF InsertEntry, StoreOf, MaybeTime
  <1>2. r = PruneStaleEntries(a, n)
    BY DEF RecordEntry
  <1> HIDE DEF a
  <1>3. r \in StoreOf(EventType)
    BY <1>1, <1>2, PruneStaleEntriesType
  <1>4. r.sightings = a.sightings /\ r.movements = a.movements
    BY <1>1, <1>2 DEF PruneStaleEntries, StoreOf
  <1>5. \A g \in Flight : r.entries[g] =
           IF a.entries[g] # NoTime /\ a.entries[g] < n - EntryTTL THEN NoTime ELSE a.entries[g]
    BY <1>1, <1>2 DEF PruneStaleEntries, StoreOf
  <1>6. ASSUME NEW g \in Flight, r.entries[g] # NoTime
        PROVE  r.entries[g] >= n - EntryTTL
    <2>1. a.entries[g] \in MaybeTime
      BY <1>1 DEF StoreOf
    <2>2. a.entries[g] \in Nat /\ ~(a.entries[g] < n - EntryTTL) /\ r.entries[g] = a.entries[g]
      BY <2>1, <1>5, <1>6 DEF MaybeTime
    <2>3. EntryTTL \in Nat
      BY RepositoryAssumption
    <2> HIDE DEF a
    <2>4. ASSUME NEW x \in Nat, NEW y \in Nat, ~(x < n - y) PROVE x >= n - y
      BY <2>4
    <2> QED BY <2>2, <2>3, <2>4
  <1> QED BY <1>1, <1>3, <1>4, <1>6

(* record_exit appends one sighting.                                       *)
LEMMA UnitOfExit ==
  ASSUME NEW s \in StoreOf(EventType), NEW e \in EventType,
         NEW r, r = RecordExit(s, e)
  PROVE  /\ r \in StoreOf(EventType)
         /\ EventsOf(r.sightings) = Append(EventsOf(s.sightings), e)
         /\ r.movements = s.movements
  <1> DEFINE t   == SelectEntryTime(s, e.flight)
             d   == DeleteEntry(s, e.flight)
             row == [event |-> e, entry_time |-> t]
  <1>1. t \in MaybeTime
    BY SelectEntryTimeType
  <1>2. /\ d \in StoreOf(EventType)
        /\ d.sightings = s.sightings /\ d.movements = s.movements
    BY DeleteEntryType DEF DeleteEntry, StoreOf
  <1>3. r = InsertSighting(d, e, t) /\ r = [d EXCEPT !.sightings = Append(@, row)]
    BY DEF RecordExit, InsertSighting
  <1>4. r \in StoreOf(EventType)
    BY <1>1, <1>2, <1>3, InsertSightingType
  <1>5. row.event = e
    OBVIOUS
  <1> HIDE DEF t, d, row
  <1>6. r.movements = s.movements /\ r.sightings = Append(s.sightings, row)
    BY <1>2, <1>3 DEF StoreOf
  <1>7. s.sightings \in Seq([event : EventType, entry_time : MaybeTime])
    BY DEF StoreOf
  <1>8. row \in [event : EventType, entry_time : MaybeTime]
    BY <1>1 DEF row
  <1>9. EventsOf(Append(s.sightings, row)) = Append(EventsOf(s.sightings), e)
    BY <1>5, <1>7, <1>8 DEF EventsOf
  <1> QED BY <1>4, <1>6, <1>9

(* record_movement appends one movement.                                   *)
LEMMA UnitOfMovement ==
  ASSUME NEW s \in StoreOf(EventType), NEW e \in EventType,
         NEW r, r = RecordMovement(s, e)
  PROVE  /\ r \in StoreOf(EventType)
         /\ r.sightings = s.sightings
         /\ r.movements = Append(s.movements, e)
  BY InsertMovementType DEF RecordMovement, InsertMovement, StoreOf

-----------------------------------------------------------------------------
(* An event that was fired has the fields of one.                          *)
LEMMA AnEvent ==
  ASSUME TypeOK, NEW i \in DOMAIN events
  PROVE  /\ events[i] \in EventType
         /\ events[i].kind \in {"entry", "exit"} \cup Movement
         /\ events[i].flight \in Flight \cup {NoFlight}
         /\ events[i].time \in Nat /\ events[i].instance \in Nat
  <1>1. events[i] \in EventType
    BY DEF TypeOK
  <1> QED BY <1>1 DEF EventType, Kinds

(* An event of the world is announced by one who heard of it, or it only   *)
(* moves an aircraft and the bus.                                          *)
NewEvent(e) ==
    /\ events' = Append(events, e) /\ stage' = Append(stage, "task")
    /\ e.kind = "entry" => e.flight \in Flight
    /\ e.id = Len(events) + 1 /\ e.instance <= instance

(* The bus has an event that may be announced by those who listen.         *)
LEMMA FireKeeps ==
  ASSUME TypeOK, OpenWhileUp, NEW kind \in Kinds, NEW f \in Flight \cup {NoFlight},
         NEW v \in Nat, kind = "entry" => f \in Flight, Fire(kind, f, v)
  PROVE  /\ UNCHANGED <<jobs, store, entry, now, faults>>
         /\ bus' \in [kind : Kinds, flight : Flight \cup {NoFlight}, visit : Nat,
                      to : SUBSET (1 .. instance)]
         /\ Deliverable' /\ bus'.to \subseteq live
  <1>1. live \in SUBSET (1 .. instance)
    BY DEF TypeOK
  <1>2. CASE bus' = Silence
    BY <1>1, <1>2 DEF Silence, Kinds, Deliverable, Fire
  <1>3. CASE bus' = [kind |-> kind, flight |-> f, visit |-> v, to |-> live]
    <2>1. /\ bus' \in [kind : Kinds, flight : Flight \cup {NoFlight}, visit : Nat,
                       to : SUBSET (1 .. instance)]
          /\ bus'.to = live /\ bus'.kind = kind /\ bus'.flight = f
      BY <1>1, <1>3
    <2> QED BY <2>1 DEF Deliverable, Fire
  <1> QED BY <1>2, <1>3 DEF Fire

(* A step of the world, as far as the jobs see it.                         *)
LEMMA WorldStep ==
  ASSUME TypeOK, Deliverable, OpenWhileUp, World
  PROVE  /\ inside' \in SUBSET Flight /\ visit' \in [Flight -> Nat]
         /\ bus' \in [kind : Kinds, flight : Flight \cup {NoFlight}, visit : Nat,
                      to : SUBSET (1 .. instance)]
         /\ Deliverable' /\ bus'.to \subseteq live
         /\ UNCHANGED <<store, entry, now, faults>>
         /\ UNCHANGED jobs \/ \E e \in EventType : NewEvent(e)
  <1>0. /\ Len(events) + 1 \in Nat /\ 0 \in Nat /\ NoFlight \in Flight \cup {NoFlight}
        /\ "exit" \in Kinds /\ "entry" \in Kinds /\ Movement \subseteq Kinds
        /\ inside \in SUBSET Flight /\ visit \in [Flight -> Nat]
    BY DEF TypeOK, Kinds
  <1>1. CASE \E f \in Flight : EnterRadius(f)
    <2> PICK f \in Flight : EnterRadius(f)
      BY <1>1
    <2>1. Fire("entry", f, 0)
      BY DEF EnterRadius
    <2>2. inside' \in SUBSET Flight /\ visit' \in [Flight -> Nat]
      BY <1>0 DEF EnterRadius
    <2> QED BY <1>0, <2>1, <2>2, FireKeeps
  <1>2. CASE \E f \in Flight : LeaveRadius(f)
    <2> PICK f \in Flight : LeaveRadius(f)
      BY <1>2
    <2>1. Fire("exit", f, visit[f]) /\ visit[f] \in Nat
      BY <1>0 DEF LeaveRadius
    <2>2. inside' \in SUBSET Flight /\ visit' \in [Flight -> Nat]
      BY <1>0 DEF LeaveRadius
    <2>3. "exit" # "entry"
      OBVIOUS
    <2> QED BY <1>0, <2>1, <2>2, <2>3, FireKeeps
  <1>3. CASE LeaveWithoutId
    <2>1. Fire("exit", NoFlight, 0) /\ UNCHANGED <<inside, visit>>
      BY <1>3 DEF LeaveWithoutId
    <2>2. "exit" # "entry"
      OBVIOUS
    <2> QED BY <1>0, <2>1, <2>2, FireKeeps
  <1>4. CASE \E kind \in Movement : AirportMovement(kind)
    <2> PICK kind \in Movement : AirportMovement(kind)
      BY <1>4
    <2>1. kind # "entry"
      BY CoordinatorAssumption
    <2>2. Fire(kind, NoFlight, 0) /\ UNCHANGED <<inside, visit>>
      BY DEF AirportMovement
    <2> QED BY <1>0, <2>1, <2>2, FireKeeps
  <1>5. CASE \E c \in bus.to : Hear(c)
    <2> PICK c \in bus.to : Hear(c)
      BY <1>5
    <2>1. /\ bus.kind \in Kinds /\ bus.flight \in Flight \cup {NoFlight}
          /\ bus.visit \in Nat /\ bus.to \subseteq 1 .. instance /\ instance \in Nat
          /\ bus.kind = "entry" => bus.flight \in Flight
      BY DEF TypeOK, Deliverable
    <2>2. c \in Nat /\ c <= instance
      BY <2>1
    <2> DEFINE e == [kind |-> bus.kind, flight |-> bus.flight, time |-> now,
                     id |-> Len(events) + 1, visit |-> bus.visit, instance |-> c,
                     prompt |-> ~Outstanding(bus.flight)]
    <2>3. (~Outstanding(bus.flight)) \in BOOLEAN
      BY DEF Outstanding
    <2>4. e \in EventType
      BY <1>0, <2>1, <2>2, <2>3 DEF EventType, TypeOK
    <2>5. NewEvent(e)
      BY <2>1, <2>2 DEF Hear, Announce, NewEvent
    <2> HIDE DEF e
    <2>9. \E x \in EventType : NewEvent(x)
      BY <2>4, <2>5
    <2>6. inside' \in SUBSET Flight /\ visit' \in [Flight -> Nat]
          /\ UNCHANGED <<store, entry, now, faults>>
      BY <1>0, <2>1 DEF Hear
    <2>7. CASE bus' = Silence
      BY <2>9, <2>6, <2>7 DEF Silence, Kinds, Deliverable
    <2>8. CASE bus' = [bus EXCEPT !.to = @ \ {c}]
      <3>1. /\ bus' \in [kind : Kinds, flight : Flight \cup {NoFlight}, visit : Nat,
                         to : SUBSET (1 .. instance)]
            /\ bus'.kind = bus.kind /\ bus'.flight = bus.flight /\ bus'.to \subseteq bus.to
        BY <2>8 DEF TypeOK
      <3>2. Deliverable' /\ bus'.to \subseteq live
        BY <3>1 DEF Deliverable, OpenWhileUp
      <3> QED BY <2>9, <2>6, <3>1, <3>2
    <2> QED BY <2>7, <2>8 DEF Hear
  <1> QED BY <1>1, <1>2, <1>3, <1>4, <1>5 DEF World

(* The new event comes to the invariant as a job that has stored nothing.  *)
LEMMA WorldKeeps ==
  ASSUME IInv, World PROVE IInv'
  <1> USE DEF IInv
  <1>1. /\ inside' \in SUBSET Flight /\ visit' \in [Flight -> Nat]
        /\ bus' \in [kind : Kinds, flight : Flight \cup {NoFlight}, visit : Nat,
                     to : SUBSET (1 .. instance)]
        /\ Deliverable' /\ bus'.to \subseteq live
        /\ UNCHANGED <<store, entry, now, faults>>
    BY WorldStep
  <1>2. CASE UNCHANGED jobs
    <2>1. TypeOK' BY <1>1, <1>2 DEF TypeOK, jobs, entry
    <2>2. Numbered' /\ OpenWhileUp' /\ DroppedOnlyByUnload'
      BY <1>1, <1>2 DEF Numbered, OpenWhileUp, DroppedOnlyByUnload, jobs, entry
    <2>3. RowsInv' BY <1>1, <1>2 DEF RowsInv, jobs
    <2> QED BY <1>1, <2>1, <2>2, <2>3
  <1>3. CASE \E e \in EventType : NewEvent(e)
    <2> PICK e \in EventType : NewEvent(e)
      BY <1>3
    <2>1. /\ events \in Seq(EventType) /\ stage \in Seq(Stages) /\ Len(stage) = Len(events)
          /\ instance \in Nat
      BY DEF TypeOK
    <2>2. events' = Append(events, e) /\ stage' = Append(stage, "task")
      BY DEF NewEvent
    <2>3. "task" \in Stages
      BY DEF Stages
    <2>4. events' \in Seq(EventType) /\ stage' \in Seq(Stages) /\ Len(stage') = Len(events')
      BY <2>1, <2>2, <2>3
    <2>5. TypeOK'
      BY <1>1, <2>4 DEF TypeOK, entry
    <2>6. \A i \in DOMAIN events' :
             \/ i \in DOMAIN events /\ events'[i] = events[i] /\ stage'[i] = stage[i]
             \/ i = Len(events) + 1 /\ events'[i] = e /\ stage'[i] = "task"
      BY <2>1, <2>2
    <2>7. Numbered'
      BY <1>1, <2>1, <2>6 DEF Numbered, NewEvent, entry
    <2>8. OpenWhileUp' /\ DroppedOnlyByUnload'
      BY <1>1, <2>6 DEF OpenWhileUp, DroppedOnlyByUnload, entry
    <2>9. RowsInv'
      BY <1>1, <2>1, <2>2, Announced DEF RowsInv
    <2> QED BY <1>1, <2>5, <2>7, <2>8, <2>9
  <1> QED BY <1>2, <1>3, WorldStep

-----------------------------------------------------------------------------
(* A unit of work that commits writes the row of its event and no other.   *)
LEMMA UnitKeeps ==
  ASSUME IInv, NEW i \in DOMAIN events, stage[i] # "stored", store' = Unit(i),
         stage' = [stage EXCEPT ![i] = "stored"], events' = events
  PROVE  store' \in StoreOf(EventType) /\ RowsInv'
  <1> DEFINE e == events[i]
  <1> USE DEF IInv
  <1>1. /\ events \in Seq(EventType) /\ stage \in Seq(Stages) /\ Len(stage) = Len(events)
        /\ store \in StoreOf(EventType) /\ now \in Nat /\ DOMAIN stage = DOMAIN events
    BY DEF TypeOK
  <1>2. /\ e \in EventType /\ e.kind \in {"entry", "exit"} \cup Movement /\ e.time \in Nat
        /\ e.kind = "entry" => e.flight \in Flight
    BY AnEvent DEF Numbered
  <1>3. \A j, k \in DOMAIN events : events[j] = events[k] => j = k
    BY DEF Numbered
  <1>4. /\ EventsOf(store.sightings) \in Seq(EventType) /\ store.movements \in Seq(EventType)
    <2>1. /\ store.sightings \in Seq([event : EventType, entry_time : MaybeTime])
          /\ store.movements \in Seq(EventType)
      BY <1>1 DEF StoreOf
    <2>2. \A n \in DOMAIN store.sightings : store.sightings[n].event \in EventType
      <3> SUFFICES ASSUME NEW n \in DOMAIN store.sightings
                   PROVE  store.sightings[n].event \in EventType
        OBVIOUS
      <3>1. store.sightings[n] \in [event : EventType, entry_time : MaybeTime]
        BY <2>1, Elements
      <3> QED BY <3>1
    <2>3. EventsOf(store.sightings) =
             [n \in 1 .. Len(store.sightings) |-> store.sightings[n].event]
      BY <2>1 DEF EventsOf
    <2> QED BY <2>1, <2>2, <2>3
  <1>5. /\ OneRowEach(EventsOf(store.sightings), {"exit"}, events, stage)
        /\ OneRowEach(store.movements, Movement, events, stage)
    BY DEF RowsInv
  <1>6. "entry" \notin Movement /\ "exit" \notin Movement
    BY CoordinatorAssumption
  <1>7. CASE e.kind = "entry"
    <2>1. store' = RecordEntry(store, e.flight, e.time, now)
      BY <1>7 DEF Unit
    <2>2. /\ store' \in StoreOf(EventType)
          /\ store'.sightings = store.sightings /\ store'.movements = store.movements
      <3>1. events[i].flight \in Flight /\ events[i].time \in Nat
        BY <1>2, <1>7
      <3>2. store \in StoreOf(EventType) /\ now \in Nat
        BY <1>1
      <3>3. ASSUME NEW f \in Flight, NEW t \in Nat, store' = RecordEntry(store, f, t, now)
            PROVE  /\ store' \in StoreOf(EventType)
                   /\ store'.sightings = store.sightings
                   /\ store'.movements = store.movements
        BY <3>2, <3>3, UnitOfEntry
      <3> QED BY <2>1, <3>1, <3>3
    <2>3. RowsInv'
      BY <1>1, <1>5, <1>6, <1>7, <2>2, RowElsewhere DEF RowsInv
    <2> QED BY <2>2, <2>3
  <1>8. CASE e.kind = "exit"
    <2>1. store' = RecordExit(store, e)
      BY <1>8 DEF Unit
    <2>2. /\ store' \in StoreOf(EventType)
          /\ EventsOf(store'.sightings) = Append(EventsOf(store.sightings), e)
          /\ store'.movements = store.movements
      BY <1>1, <1>2, <2>1, UnitOfExit
    <2>a. events[i].kind \in {"exit"}
      BY <1>8
    <2>b. OneRowEach(Append(EventsOf(store.sightings), events[i]), {"exit"}, events,
                     [stage EXCEPT ![i] = "stored"])
      BY <1>1, <1>3, <1>4, <1>5, <2>a, RowAdded
    <2>3. OneRowEach(EventsOf(store'.sightings), {"exit"}, events, stage')
      BY <2>2, <2>b
    <2>4. OneRowEach(store'.movements, Movement, events, stage')
      BY <1>1, <1>5, <1>6, <1>8, <2>2, RowElsewhere
    <2> QED BY <2>2, <2>3, <2>4 DEF RowsInv, EventsOf
  <1>9. CASE e.kind \in Movement
    <2>1. store' = RecordMovement(store, e)
      BY <1>6, <1>9 DEF Unit
    <2>2. /\ store' \in StoreOf(EventType)
          /\ store'.sightings = store.sightings
          /\ store'.movements = Append(store.movements, e)
      BY <1>1, <1>2, <2>1, UnitOfMovement
    <2>b. OneRowEach(Append(store.movements, events[i]), Movement, events,
                     [stage EXCEPT ![i] = "stored"])
      BY <1>1, <1>3, <1>4, <1>5, <1>9, RowAdded
    <2>3. OneRowEach(store'.movements, Movement, events, stage')
      BY <2>2, <2>b
    <2>4. OneRowEach(EventsOf(store'.sightings), {"exit"}, events, stage')
      BY <1>1, <1>5, <1>6, <1>9, <2>2, RowElsewhere
    <2> QED BY <2>2, <2>3, <2>4 DEF RowsInv, EventsOf
  <1> QED BY <1>2, <1>7, <1>8, <1>9

(* The unit of an exit beside another connection, but for the time joined. *)
LEMMA LateExit ==
  ASSUME IInv, NEW i \in DOMAIN events, RunBesideAnother(i)
  PROVE  /\ store' \in StoreOf(EventType)
         /\ EventsOf(store'.sightings) = Append(EventsOf(store.sightings), events[i])
         /\ store'.movements = store.movements
  <1>1. store \in StoreOf(EventType) /\ events[i] \in EventType
    BY AnEvent DEF IInv, TypeOK
  <1>2. PICK s \in {store, DeleteEntry(store, events[i].flight)}, t \in MaybeTime :
           store' = InsertSighting(s, events[i], t)
    <2>1. CASE store' = InsertSighting(store, events[i], NoTime)
      BY <2>1 DEF MaybeTime
    <2>2. CASE \E k \in DOMAIN events :
                  store' = InsertSighting(DeleteEntry(store, events[i].flight), events[i],
                                          events[k].time)
      <3>1. PICK k \in DOMAIN events :
               store' = InsertSighting(DeleteEntry(store, events[i].flight), events[i],
                                       events[k].time)
        BY <2>2
      <3>2. events[k].time \in MaybeTime
        BY AnEvent DEF IInv, MaybeTime
      <3> QED BY <3>1, <3>2
    <2> QED BY <2>1, <2>2 DEF RunBesideAnother
  <1>3. /\ s \in StoreOf(EventType)
        /\ s.sightings = store.sightings /\ s.movements = store.movements
    <2>1. CASE s = store
      BY <1>1, <2>1
    <2>2. CASE s = DeleteEntry(store, events[i].flight)
      <3>1. s \in StoreOf(EventType)
        BY <1>1, <2>2, DeleteEntryType
      <3> QED BY <1>1, <2>2, <3>1 DEF DeleteEntry, StoreOf
    <2> QED BY <2>1, <2>2
  <1>4. store' \in StoreOf(EventType)
    BY <1>1, <1>2, <1>3, InsertSightingType
  <1> DEFINE row == [event |-> events[i], entry_time |-> t]
  <1>5. /\ store'.movements = store.movements
        /\ store'.sightings = Append(store.sightings, row)
    BY <1>2, <1>3 DEF InsertSighting, StoreOf
  <1>6. /\ row.event = events[i]
        /\ row \in [event : EventType, entry_time : MaybeTime]
        /\ store.sightings \in Seq([event : EventType, entry_time : MaybeTime])
    BY <1>1 DEF StoreOf
  <1> HIDE DEF row
  <1>7. EventsOf(Append(store.sightings, row)) = Append(EventsOf(store.sightings), events[i])
    BY <1>6 DEF EventsOf
  <1> QED BY <1>4, <1>5, <1>7

(* It writes the row of its event and no other, too.                       *)
LEMMA LateExitKeeps ==
  ASSUME IInv, NEW i \in DOMAIN events, RunBesideAnother(i)
  PROVE  store' \in StoreOf(EventType) /\ RowsInv'
  <1>1. /\ events \in Seq(EventType) /\ stage \in Seq(Stages) /\ Len(stage) = Len(events)
        /\ DOMAIN stage = DOMAIN events
        /\ \A j, k \in DOMAIN events : events[j] = events[k] => j = k
    BY DEF IInv, TypeOK, Numbered
  <1>2. /\ stage[i] # "stored" /\ stage' = [stage EXCEPT ![i] = "stored"]
        /\ events' = events /\ events[i].kind = "exit" /\ events[i].kind \in {"exit"}
        /\ events[i].kind \notin Movement
    BY CoordinatorAssumption DEF RunBesideAnother, Advance
  <1>3. /\ OneRowEach(EventsOf(store.sightings), {"exit"}, events, stage)
        /\ OneRowEach(store.movements, Movement, events, stage)
    BY DEF IInv, RowsInv
  <1>4. EventsOf(store.sightings) \in Seq(EventType)
    <2>1. store.sightings \in Seq([event : EventType, entry_time : MaybeTime])
      BY DEF IInv, TypeOK, StoreOf
    <2>2. \A n \in DOMAIN store.sightings : store.sightings[n].event \in EventType
      <3> SUFFICES ASSUME NEW n \in DOMAIN store.sightings
                   PROVE  store.sightings[n].event \in EventType
        OBVIOUS
      <3>1. store.sightings[n] \in [event : EventType, entry_time : MaybeTime]
        BY <2>1, Elements
      <3> QED BY <3>1
    <2>3. EventsOf(store.sightings) =
             [n \in 1 .. Len(store.sightings) |-> store.sightings[n].event]
      BY <2>1 DEF EventsOf
    <2> QED BY <2>1, <2>2, <2>3
  <1>5. OneRowEach(Append(EventsOf(store.sightings), events[i]), {"exit"}, events,
                   [stage EXCEPT ![i] = "stored"])
    BY <1>1, <1>2, <1>3, <1>4, RowAdded
  <1>6. OneRowEach(store.movements, Movement, events, [stage EXCEPT ![i] = "stored"])
    BY <1>1, <1>2, <1>3, RowElsewhere
  <1> QED BY <1>2, <1>5, <1>6, LateExit DEF RowsInv, EventsOf

(* A job that ends without a commit.                                       *)
LEMMA NoUnitKeeps ==
  ASSUME IInv, NEW i \in DOMAIN events, stage[i] \in {"task", "queued"},
         NEW to \in Stages, to # "stored", Advance(i, to), UNCHANGED <<events, store>>
  PROVE  stage' \in Seq(Stages) /\ Len(stage') = Len(events) /\ RowsInv'
  <1> USE DEF IInv
  <1>1. stage \in Seq(Stages) /\ Len(stage) = Len(events) /\ events \in Seq(EventType)
    BY DEF TypeOK
  <1>2. stage' \in Seq(Stages) /\ Len(stage') = Len(events)
    BY <1>1 DEF Advance
  <1>3. \A j \in DOMAIN events : stage[j] = "stored" <=> stage'[j] = "stored"
    BY <1>1 DEF Advance
  <1>4. RowsInv'
    BY <1>3, NothingStored DEF RowsInv
  <1> QED BY <1>2, <1>4

(* The steps of a job keep the invariant.                                  *)
LEMMA JobKeeps ==
  ASSUME IInv, NEW i \in DOMAIN events, JobStep(i) PROVE IInv'
  <1> USE DEF IInv
  <1>1. stage \in Seq(Stages) /\ Len(stage) = Len(events) /\ events \in Seq(EventType)
    BY DEF TypeOK
  <1>2. UNCHANGED <<world, events, entry, now>> /\ faults' \in Nat
    BY DEF JobStep, StartTask, Run, RunBesideAnother, Refuse, Raise, TypeOK
  <1>3. Numbered' /\ Deliverable' /\ OpenWhileUp'
    BY <1>2 DEF Numbered, Deliverable, OpenWhileUp, entry, world
  <1>4. /\ stage' \in Seq(Stages) /\ Len(stage') = Len(events)
        /\ store' \in StoreOf(EventType) /\ RowsInv'
    <2>1. CASE Run(i)
      <3>1. "stored" \in Stages
        BY DEF Stages, Final
      <3>2. stage' \in Seq(Stages) /\ Len(stage') = Len(events)
        BY <1>1, <2>1, <3>1 DEF Run, Advance
      <3> QED BY <2>1, <3>2, UnitKeeps DEF Run, Advance
    <2>3. CASE RunBesideAnother(i)
      <3>1. "stored" \in Stages
        BY DEF Stages, Final
      <3>2. stage' \in Seq(Stages) /\ Len(stage') = Len(events)
        BY <1>1, <2>3, <3>1 DEF RunBesideAnother, Advance
      <3> QED BY <2>3, <3>2, LateExitKeeps
    <2>2. CASE StartTask(i) \/ Refuse(i) \/ Raise(i)
      <3>1. PICK to \in {"queued", "skipped", "refused", "raised"} : Advance(i, to)
        BY <2>2 DEF StartTask, Refuse, Raise
      <3>2. to \in Stages /\ to # "stored"
        BY DEF Stages, Final
      <3>3. stage[i] \in {"task", "queued"} /\ UNCHANGED <<events, store>>
        BY <2>2 DEF StartTask, Refuse, Raise
      <3>4. stage' \in Seq(Stages) /\ Len(stage') = Len(events) /\ RowsInv'
        BY <3>1, <3>2, <3>3, NoUnitKeeps
      <3> QED BY <3>3, <3>4 DEF TypeOK
    <2> QED BY <2>1, <2>2, <2>3 DEF JobStep
  <1>5. TypeOK'
    BY <1>2, <1>4 DEF TypeOK, world, entry
  <1>6. DroppedOnlyByUnload'
    <2>1. \A j \in DOMAIN events : j # i => stage'[j] = stage[j]
      BY <1>1 DEF JobStep, StartTask, Run, RunBesideAnother, Refuse, Raise, Advance
    <2>2. stage'[i] \in {"refused", "skipped"} => events[i].instance \notin live
      BY <1>1 DEF JobStep, StartTask, Run, RunBesideAnother, Refuse, Raise, Advance, Usable,
                  OpenWhileUp
    <2> QED BY <1>2, <2>1, <2>2 DEF DroppedOnlyByUnload, entry
  <1> QED BY <1>3, <1>4, <1>5, <1>6

(* A crash loses jobs and no row.                                          *)
LEMMA CrashKeeps == ASSUME IInv, Crash PROVE IInv'
  <1> USE DEF IInv
  <1>1. stage \in Seq(Stages) /\ Len(stage) = Len(events) /\ events \in Seq(EventType)
    BY DEF TypeOK
  <1>2. /\ DOMAIN stage' = DOMAIN stage
        /\ \A i \in DOMAIN stage :
              stage'[i] = IF stage[i] \in {"task", "queued"} THEN "lost" ELSE stage[i]
    BY DEF Crash
  <1>3. stage' \in Seq(Stages) /\ Len(stage') = Len(events)
    <2>1. \A i \in DOMAIN stage : stage[i] \in Stages
      BY <1>1
    <2>2. "lost" \in Stages
      BY DEF Stages, Final
    <2>3. stage' = [i \in 1 .. Len(stage) |->
                       IF stage[i] \in {"task", "queued"} THEN "lost" ELSE stage[i]]
      BY <1>1 DEF Crash
    <2> QED BY <1>1, <2>1, <2>2, <2>3
  <1>4. TypeOK'
    <2>1. UNCHANGED <<inside, visit, events, store, instance, alone, now>>
      BY DEF Crash
    <2>2. phase' \in Phases /\ live' = {} /\ open' = {}
      BY DEF Crash, Phases
    <2>3. faults' \in Nat
      BY DEF Crash, TypeOK
    <2>4. bus' \in [kind : Kinds, flight : Flight \cup {NoFlight}, visit : Nat,
                   to : SUBSET (1 .. instance)]
      BY DEF Crash, Silence, Kinds
    <2> QED BY <1>3, <2>1, <2>2, <2>3, <2>4 DEF TypeOK
  <1>5. \A i \in DOMAIN events : stage[i] = "stored" <=> stage'[i] = "stored"
    BY <1>1, <1>2
  <1>6. RowsInv'
    BY <1>5, NothingStored DEF RowsInv, Crash
  <1>7. Deliverable'
    BY DEF Deliverable, Crash, Silence
  <1> QED BY <1>4, <1>6, <1>7
         DEF Numbered, OpenWhileUp, DroppedOnlyByUnload, Crash, Silence

(* Set up, unloaded or closed: the jobs and the tables stay.               *)
LEMMA EntryKeeps == ASSUME IInv, EntryStep PROVE IInv'
  <1> USE DEF IInv
  <1>1. /\ instance \in Nat /\ alone \in BOOLEAN
        /\ live \subseteq 1 .. instance /\ open \subseteq 1 .. instance
        /\ \A c \in open : c # instance + 1
    BY DEF TypeOK
  <1>2. /\ UNCHANGED <<world, jobs, store, now, faults>>
        /\ phase' \in Phases /\ alone' \in BOOLEAN
        /\ instance' \in Nat /\ instance' >= instance
        /\ live' \subseteq 1 .. instance' /\ open' \subseteq 1 .. instance'
        /\ 1 .. instance \subseteq 1 .. instance'
    <2>1. CASE Setup
      <3>1. /\ UNCHANGED <<world, jobs, store, now, faults>>
            /\ instance' = instance + 1 /\ phase' = "refreshing" /\ alone' \in BOOLEAN
            /\ live' = live \cup {instance + 1} /\ open' = open \cup {instance + 1}
        BY <2>1 DEF Setup
      <3>2. 1 .. instance + 1 = (1 .. instance) \cup {instance + 1} /\ instance + 1 \in Nat
        BY <1>1
      <3> QED BY <1>1, <3>1, <3>2 DEF Phases
    <2>2. CASE SetupReturns \/ SetupRaises \/ Unload \/ Close
      <3>1. /\ UNCHANGED <<world, jobs, store, now, faults, instance, alone>>
            /\ phase' \in Phases /\ live' \subseteq live /\ open' \subseteq open
        BY <2>2 DEF SetupReturns, SetupRaises, Unload, Close, Phases
      <3> QED BY <1>1, <3>1
    <2> QED BY <2>1, <2>2 DEF EntryStep
  <1>3. TypeOK'
    BY <1>2 DEF TypeOK, world, jobs
  <1>4. RowsInv' /\ Deliverable'
    BY <1>2 DEF RowsInv, Deliverable, jobs, world
  <1>5. \A i \in DOMAIN events : events[i].instance \in Nat
    BY AnEvent
  <1>6. Numbered'
    BY <1>1, <1>2, <1>5 DEF Numbered, jobs
  <1>7. OpenWhileUp'
    <2>1. CASE Setup
      BY <1>1, <2>1 DEF OpenWhileUp, Setup, world
    <2>2. CASE SetupReturns \/ SetupRaises
      BY <2>2 DEF OpenWhileUp, SetupReturns, SetupRaises, world
    <2>3. CASE Unload
      BY <2>3 DEF OpenWhileUp, Unload, Quiet, world
    <2>4. CASE Close
      BY <2>4 DEF OpenWhileUp, Close, world
    <2> QED BY <2>1, <2>2, <2>3, <2>4 DEF EntryStep
  <1>8. DroppedOnlyByUnload'
    <2>1. CASE Setup
      <3>1. \A i \in DOMAIN events : events[i].instance # instance + 1
        BY <1>1, <1>5 DEF Numbered
      <3> QED BY <1>2, <2>1, <3>1 DEF DroppedOnlyByUnload, Setup, jobs
    <2>2. CASE SetupReturns \/ SetupRaises \/ Unload \/ Close
      <3>1. live' \subseteq live
        BY <2>2 DEF SetupReturns, SetupRaises, Unload, Close
      <3> QED BY <1>2, <3>1 DEF DroppedOnlyByUnload, jobs
    <2> QED BY <2>1, <2>2 DEF EntryStep
  <1> QED BY <1>3, <1>4, <1>6, <1>7, <1>8

(* Time passes.                                                            *)
LEMMA TickKeeps == ASSUME IInv, Tick \/ UNCHANGED vars PROVE IInv'
  <1>1. UNCHANGED <<world, jobs, store, entry, faults>> /\ now' \in Nat
    BY DEF IInv, TypeOK, Tick, vars
  <1>2. TypeOK' /\ RowsInv'
    BY <1>1 DEF IInv, TypeOK, RowsInv, world, jobs, entry
  <1>3. Numbered' /\ Deliverable' /\ OpenWhileUp' /\ DroppedOnlyByUnload'
    BY <1>1 DEF IInv, Numbered, Deliverable, OpenWhileUp, DroppedOnlyByUnload, jobs, entry,
                world
  <1> QED BY <1>2, <1>3 DEF IInv

-----------------------------------------------------------------------------
(* The invariant holds in every reachable state.                           *)
THEOREM Invariance == Spec => []IInv
  <1>1. Init => IInv
    <2> SUFFICES ASSUME Init PROVE IInv
      OBVIOUS
    <2>1. EmptyStore \in StoreOf(EventType) /\ EmptyStore.sightings = << >>
          /\ EmptyStore.movements = << >>
      BY EmptyStoreType DEF EmptyStore
    <2>2. TypeOK
      <3>1. events \in Seq(EventType) /\ stage \in Seq(Stages) /\ Len(stage) = Len(events)
        BY DEF Init
      <3>2. visit \in [Flight -> Nat] /\ inside \in SUBSET Flight
        BY DEF Init
      <3>3. bus \in [kind : Kinds, flight : Flight \cup {NoFlight}, visit : Nat,
                    to : SUBSET (1 .. instance)]
        BY DEF Init, Silence, Kinds
      <3> QED BY <2>1, <3>1, <3>2, <3>3 DEF Init, TypeOK, Phases
    <2>3. RowsInv
      BY <2>1 DEF Init, RowsInv, OneRowEach, EventsOf
    <2>4. Deliverable /\ OpenWhileUp
      BY DEF Init, Silence, Deliverable, OpenWhileUp
    <2> QED BY <2>2, <2>3, <2>4 DEF Init, IInv, Numbered, DroppedOnlyByUnload
  <1>2. IInv /\ [Next]_vars => IInv'
    BY WorldKeeps, JobKeeps, CrashKeeps, EntryKeeps, TickKeeps DEF Next
  <1> QED BY <1>1, <1>2, PTL DEF Spec

(* Every variable keeps its type.                                          *)
THEOREM TypeCorrect == Spec => []TypeOK
  <1>1. IInv => TypeOK
    BY DEF IInv
  <1> QED BY <1>1, Invariance, PTL

(* Whatever the order of the jobs, reloads, failures and crashes: an exit  *)
(* or movement has one row if its unit ran, and none otherwise.            *)
THEOREM OneRowPerEvent == Spec => []ExactlyOneRow
  <1>1. ASSUME IInv PROVE ExactlyOneRow
    <2> SUFFICES ASSUME NEW i \in DOMAIN events, events[i].kind # "entry"
                 PROVE  LET rows == IF events[i].kind = "exit" THEN SightingsOf(i)
                                                               ELSE MovementsOf(i)
                        IN  IF stage[i] = "stored" THEN \E n \in rows : rows = {n}
                                                   ELSE rows = {}
      BY DEF ExactlyOneRow
    <2>1. /\ OneRowEach(EventsOf(store.sightings), {"exit"}, events, stage)
          /\ OneRowEach(store.movements, Movement, events, stage)
      BY <1>1 DEF IInv, RowsInv
    <2>2. \A j \in DOMAIN events : events[j] = events[i] => j = i
      BY <1>1 DEF IInv, Numbered
    <2>3. CASE events[i].kind = "exit"
      <3>1. SightingsOf(i) = {n \in DOMAIN EventsOf(store.sightings) :
                                 EventsOf(store.sightings)[n] = events[i]}
        BY DEF SightingsOf, EventsOf
      <3> QED BY <2>1, <2>2, <2>3, <3>1 DEF OneRowEach
    <2>4. CASE events[i].kind # "exit"
      <3>1. events[i].kind \in Movement
        BY <1>1, <2>4, AnEvent DEF IInv
      <3> QED BY <2>1, <2>2, <2>4, <3>1 DEF OneRowEach, MovementsOf
    <2> QED BY <2>3, <2>4
  <1> QED BY <1>1, Invariance, PTL

(* Only an unload drops an event, and only one of the coordinator that is  *)
(* unloaded: never one of those that listen.                               *)
THEOREM OnlyUnloadDrops == Spec => []DroppedOnlyByUnload
  <1>1. IInv => DroppedOnlyByUnload
    BY DEF IInv
  <1> QED BY <1>1, Invariance, PTL

(* No entry older than the TTL survives the recording of another.          *)
THEOREM OrphansPruned == Spec => OrphansNeverAccumulate
  <1> DEFINE Pruned == \A i \in DOMAIN events :
         (events[i].kind = "entry" /\ stage[i] = "queued" /\ stage'[i] = "stored") =>
             \A f \in Flight : store'.entries[f] = NoTime \/ store'.entries[f] >= now - EntryTTL
  <1>1. ASSUME IInv, [Next]_vars PROVE Pruned
    <2> SUFFICES ASSUME NEW i \in DOMAIN events, events[i].kind = "entry",
                        stage[i] = "queued", stage'[i] = "stored"
                 PROVE  \A f \in Flight : \/ store'.entries[f] = NoTime
                                          \/ store'.entries[f] >= now - EntryTTL
      OBVIOUS
    <2>1. /\ stage \in Seq(Stages) /\ Len(stage) = Len(events) /\ events \in Seq(EventType)
          /\ store \in StoreOf(EventType) /\ now \in Nat
      BY <1>1 DEF IInv, TypeOK
    <2>2. events[i].flight \in Flight /\ events[i].time \in Nat
      BY <1>1, AnEvent DEF IInv, Numbered
    <2>3. ~World
      <3> SUFFICES ASSUME World PROVE FALSE
        OBVIOUS
      <3>1. UNCHANGED jobs \/ \E e \in EventType : NewEvent(e)
        BY <1>1, WorldStep DEF IInv
      <3> QED BY <2>1, <3>1 DEF jobs, NewEvent
    <2>4. \E j \in DOMAIN events : JobStep(j)
      BY <1>1, <2>1, <2>3 DEF Next, EntryStep, Setup, SetupReturns, SetupRaises, Unload, Close,
                              Crash, Tick, vars, jobs
    <2>5. PICK j \in DOMAIN events : JobStep(j)
      BY <2>4
    <2>6. j = i /\ Run(i)
      BY <2>1, <2>5 DEF JobStep, StartTask, Run, RunBesideAnother, Refuse, Raise, Advance
    <2>7. store' = RecordEntry(store, events[i].flight, events[i].time, now)
      BY <2>6 DEF Run, Unit
    <2> QED BY <2>1, <2>2, <2>7, UnitOfEntry
  <1>2. IInv /\ [Next]_vars =>
           [\A i \in DOMAIN events :
              (events[i].kind = "entry" /\ stage[i] = "queued" /\ stage'[i] = "stored") =>
                 \A f \in Flight : \/ store'.entries[f] = NoTime
                                   \/ store'.entries[f] >= now - EntryTTL]_vars
    BY <1>1
  <1> QED BY <1>2, Invariance, PTL DEF Spec, OrphansNeverAccumulate

-----------------------------------------------------------------------------
(* A stored entry event that a time may have come from.                    *)
IsEntry(k, f, t, evs, stg) ==
    /\ k \in DOMAIN evs
    /\ evs[k].kind = "entry" /\ evs[k].flight = f /\ evs[k].time = t
    /\ stg[k] = "stored"

(* Each time in a sighting or an entry row came from an entry event, and   *)
(* no two of them from the same one.                                       *)
Sourced(from, held, rows, entries, evs, stg) ==
    /\ \A n \in DOMAIN rows : rows[n].entry_time # NoTime =>
          IsEntry(from[n], rows[n].event.flight, rows[n].entry_time, evs, stg)
    /\ \A m, n \in DOMAIN rows :
          (rows[m].entry_time # NoTime /\ rows[n].entry_time # NoTime /\ from[m] = from[n])
              => m = n
    /\ \A f \in Flight : entries[f] # NoTime => IsEntry(held[f], f, entries[f], evs, stg)
    /\ \A n \in DOMAIN rows : \A f \in Flight :
          (rows[n].entry_time # NoTime /\ entries[f] # NoTime) => from[n] # held[f]

OneSourceEach(rows, entries, evs, stg) ==
    \E from \in [DOMAIN rows -> Nat], held \in [Flight -> Nat] :
        Sourced(from, held, rows, entries, evs, stg)

Joins == alone => OneSourceEach(store.sightings, store.entries, events, stage)

(* While there is one connection, no unit runs beside another's.           *)
LEMMA OneConnection ==
  ASSUME IInv, alone, NEW i PROVE ~RunBesideAnother(i)
  BY DEF IInv, OpenWhileUp, RunBesideAnother, Usable

(* Only a setup ends it.                                                   *)
LEMMA AloneBefore ==
  ASSUME IInv, [Next]_vars, alone' PROVE alone
  <1>1. World => UNCHANGED entry
    BY WorldStep DEF IInv
  <1> QED BY <1>1 DEF Next, EntryStep, Setup, SetupReturns, SetupRaises, Unload, Close, JobStep,
                     StartTask, Run, RunBesideAnother, Refuse, Raise, Crash, Tick, vars, entry

(* Sources stay what they are: events do not change, nor does a stored one *)
(* become another.                                                         *)
LEMMA SourcesStay ==
  ASSUME NEW rows, NEW entries, NEW evs, NEW stg, NEW evs2, NEW stg2,
         OneSourceEach(rows, entries, evs, stg),
         \A k \in DOMAIN evs : /\ k \in DOMAIN evs2 /\ evs2[k] = evs[k]
                               /\ stg[k] = "stored" => stg2[k] = "stored"
  PROVE  OneSourceEach(rows, entries, evs2, stg2)
  <1>1. PICK from \in [DOMAIN rows -> Nat], held \in [Flight -> Nat] :
           Sourced(from, held, rows, entries, evs, stg)
    BY DEF OneSourceEach
  <1>2. \A k, f, t : IsEntry(k, f, t, evs, stg) => IsEntry(k, f, t, evs2, stg2)
    BY DEF IsEntry
  <1>3. Sourced(from, held, rows, entries, evs2, stg2)
    BY <1>1, <1>2 DEF Sourced
  <1> QED BY <1>3 DEF OneSourceEach

(* An entry that is stored is the source of its row, and of no sighting so *)
(* far; the other entry rows stay or are pruned.                           *)
LEMMA SourceAdded ==
  ASSUME NEW rows, NEW entries, NEW entries2, NEW evs, NEW stg, NEW stg2,
         OneSourceEach(rows, entries, evs, stg),
         NEW i \in DOMAIN evs, i \in Nat, stg[i] # "stored", evs[i].kind = "entry",
         stg2[i] = "stored", \A k \in DOMAIN evs : k # i => stg2[k] = stg[k],
         \A f \in Flight : \/ entries2[f] = NoTime
                           \/ f # evs[i].flight /\ entries2[f] = entries[f]
                           \/ f = evs[i].flight /\ entries2[f] = evs[i].time
  PROVE  OneSourceEach(rows, entries2, evs, stg2)
  <1>1. PICK from \in [DOMAIN rows -> Nat], held \in [Flight -> Nat] :
           Sourced(from, held, rows, entries, evs, stg)
    BY DEF OneSourceEach
  <1> DEFINE held2 == [f \in Flight |-> IF f = evs[i].flight THEN i ELSE held[f]]
  <1>2. held2 \in [Flight -> Nat]
    OBVIOUS
  <1>3. \A k, f, t : IsEntry(k, f, t, evs, stg) => k # i /\ IsEntry(k, f, t, evs, stg2)
    BY DEF IsEntry
  <1>4. IsEntry(i, evs[i].flight, evs[i].time, evs, stg2)
    BY DEF IsEntry
  <1>5. \A f \in Flight : held2[f] = IF f = evs[i].flight THEN i ELSE held[f]
    OBVIOUS
  <1> HIDE DEF held2
  <1>6. Sourced(from, held2, rows, entries2, evs, stg2)
    BY <1>1, <1>3, <1>4, <1>5 DEF Sourced
  <1> QED BY <1>2, <1>6 DEF OneSourceEach

(* An exit takes the time of its flight's entry row with its source, or    *)
(* takes none.                                                             *)
LEMMA SourceTaken ==
  ASSUME NEW R, NEW rows \in Seq(R), NEW row \in R, NEW entries, NEW entries2,
         NEW evs, NEW stg, OneSourceEach(rows, entries, evs, stg),
         \/ row.entry_time = NoTime
         \/ row.event.flight \in Flight /\ row.entry_time = entries[row.event.flight],
         \A f \in Flight : \/ entries2[f] = NoTime
                           \/ f # row.event.flight /\ entries2[f] = entries[f]
  PROVE  OneSourceEach(Append(rows, row), entries2, evs, stg)
  <1>1. PICK from \in [DOMAIN rows -> Nat], held \in [Flight -> Nat] :
           Sourced(from, held, rows, entries, evs, stg)
    BY DEF OneSourceEach
  <1> DEFINE rows2 == Append(rows, row)
             last  == Len(rows) + 1
             f     == row.event.flight
             from2 == [n \in DOMAIN rows2 |->
                          IF n \in DOMAIN rows THEN from[n]
                          ELSE IF f \in Flight THEN held[f] ELSE 0]
  <1>2. /\ DOMAIN rows2 = DOMAIN rows \cup {last} /\ last \notin DOMAIN rows
        /\ rows2[last] = row /\ \A n \in DOMAIN rows : rows2[n] = rows[n]
    OBVIOUS
  <1> HIDE DEF rows2, last
  <1>3. from2 \in [DOMAIN rows2 -> Nat]
    OBVIOUS
  <1>4. /\ \A n \in DOMAIN rows : from2[n] = from[n]
        /\ f \in Flight => from2[last] = held[f]
    BY <1>2
  <1>5. row.entry_time # NoTime =>
           /\ f \in Flight /\ row.entry_time = entries[f] /\ from2[last] = held[f]
           /\ IsEntry(held[f], f, row.entry_time, evs, stg)
    BY <1>1, <1>4 DEF Sourced
  <1> HIDE DEF from2
  <1>6. \A n \in DOMAIN rows2 : rows2[n].entry_time # NoTime =>
           IsEntry(from2[n], rows2[n].event.flight, rows2[n].entry_time, evs, stg)
    BY <1>1, <1>2, <1>4, <1>5 DEF Sourced
  <1>7. \A m, n \in DOMAIN rows2 :
           (rows2[m].entry_time # NoTime /\ rows2[n].entry_time # NoTime /\ from2[m] = from2[n])
               => m = n
    BY <1>1, <1>2, <1>4, <1>5 DEF Sourced
  <1>8. \A g \in Flight : entries2[g] # NoTime => IsEntry(held[g], g, entries2[g], evs, stg)
    BY <1>1 DEF Sourced
  <1>9. \A n \in DOMAIN rows2 : \A g \in Flight :
           (rows2[n].entry_time # NoTime /\ entries2[g] # NoTime) => from2[n] # held[g]
    <2> SUFFICES ASSUME NEW n \in DOMAIN rows2, NEW g \in Flight,
                        rows2[n].entry_time # NoTime, entries2[g] # NoTime
                 PROVE  from2[n] # held[g]
      OBVIOUS
    <2>1. g # f /\ entries2[g] = entries[g]
      OBVIOUS
    <2>2. CASE n \in DOMAIN rows
      BY <1>1, <1>2, <1>4, <2>1, <2>2 DEF Sourced
    <2>3. CASE n = last
      <3>1. evs[held[f]].flight = f /\ from2[n] = held[f]
        BY <1>2, <1>5, <2>3 DEF IsEntry
      <3>2. evs[held[g]].flight = g
        BY <1>8 DEF IsEntry
      <3> QED BY <2>1, <3>1, <3>2
    <2> QED BY <1>2, <2>2, <2>3
  <1>10. Sourced(from2, held, rows2, entries2, evs, stg)
    BY <1>6, <1>7, <1>8, <1>9 DEF Sourced
  <1> QED BY <1>3, <1>10 DEF OneSourceEach, rows2

(* What record_entry does to the entry rows.                               *)
LEMMA EntriesAfterEntry ==
  ASSUME NEW s \in StoreOf(EventType), NEW f \in Flight, NEW t \in Nat, NEW n,
         NEW r, r = RecordEntry(s, f, t, n)
  PROVE  \A g \in Flight : \/ r.entries[g] = NoTime
                           \/ g # f /\ r.entries[g] = s.entries[g]
                           \/ g = f /\ r.entries[g] = t
  <1> DEFINE a == InsertEntry(s, f, t)
  <1>1. \A g \in Flight : a.entries[g] = IF g = f THEN t ELSE s.entries[g]
    BY DEF InsertEntry, StoreOf
  <1>2. a \in StoreOf(EventType)
    BY InsertEntryType DEF MaybeTime
  <1>3. r = PruneStaleEntries(a, n)
    BY DEF RecordEntry
  <1> HIDE DEF a
  <1>4. \A g \in Flight : r.entries[g] = NoTime \/ r.entries[g] = a.entries[g]
    BY <1>2, <1>3 DEF PruneStaleEntries, StoreOf
  <1> QED BY <1>1, <1>4

(* What record_exit does to the entry rows, and the row it makes.          *)
LEMMA EntriesAfterExit ==
  ASSUME NEW s \in StoreOf(EventType), NEW e \in EventType,
         NEW r, r = RecordExit(s, e)
  PROVE  /\ r.entries = DeleteEntry(s, e.flight).entries
         /\ r.sightings = Append(s.sightings,
               [event |-> e, entry_time |-> SelectEntryTime(s, e.flight)])
  <1> DEFINE d == DeleteEntry(s, e.flight)
  <1>1. d \in StoreOf(EventType) /\ d.sightings = s.sightings
    BY DeleteEntryType DEF DeleteEntry, StoreOf
  <1>3. r = InsertSighting(d, e, SelectEntryTime(s, e.flight))
    BY DEF RecordExit
  <1> HIDE DEF d
  <1>4. /\ r.entries = d.entries
        /\ r.sightings = Append(d.sightings,
              [event |-> e, entry_time |-> SelectEntryTime(s, e.flight)])
    BY <1>1, <1>3 DEF InsertSighting, StoreOf
  <1> QED BY <1>1, <1>4 DEF d

(* A unit of work moves a time with its source, or makes a source of its   *)
(* own event.                                                              *)
LEMMA UnitJoins ==
  ASSUME IInv, alone, Joins, NEW i \in DOMAIN events, Run(i)
  PROVE  Joins'
  <1> DEFINE e == events[i]
  <1>1. /\ stage \in Seq(Stages) /\ Len(stage) = Len(events) /\ events \in Seq(EventType)
        /\ store \in StoreOf(EventType)
    BY DEF IInv, TypeOK
  <1>2. /\ e \in EventType /\ e.kind \in {"entry", "exit"} \cup Movement /\ e.time \in Nat
        /\ e.kind = "entry" => e.flight \in Flight
    BY AnEvent DEF IInv, Numbered
  <1>3. /\ store' = Unit(i) /\ events' = events /\ stage[i] # "stored"
        /\ stage'[i] = "stored" /\ \A k \in DOMAIN events : k # i => stage'[k] = stage[k]
    BY <1>1 DEF Run, Advance
  <1>4. /\ OneSourceEach(store.sightings, store.entries, events, stage)
        /\ OneSourceEach(store.sightings, store.entries, events, stage')
    BY <1>3, SourcesStay DEF Joins
  <1>5. CASE e.kind = "entry"
    <2>1. store' = RecordEntry(store, e.flight, e.time, now)
      BY <1>3, <1>5 DEF Unit
    <2>2. store'.sightings = store.sightings
      BY <2>1, <1>1 DEF RecordEntry, PruneStaleEntries, InsertEntry, StoreOf
    <2>3. \A f \in Flight : \/ store'.entries[f] = NoTime
                            \/ f # e.flight /\ store'.entries[f] = store.entries[f]
                            \/ f = e.flight /\ store'.entries[f] = e.time
      <3>1. ASSUME NEW f \in Flight, NEW t \in Nat, store' = RecordEntry(store, f, t, now)
            PROVE  \A g \in Flight : \/ store'.entries[g] = NoTime
                                     \/ g # f /\ store'.entries[g] = store.entries[g]
                                     \/ g = f /\ store'.entries[g] = t
        BY <1>1, <3>1, EntriesAfterEntry
      <3>2. e.flight \in Flight /\ e.time \in Nat
        BY <1>2, <1>5
      <3> QED BY <2>1, <3>1, <3>2
    <2>4. i \in Nat
      BY <1>1
    <2>5. OneSourceEach(store.sightings, store'.entries, events, stage')
      BY <1>3, <1>4, <1>5, <2>3, <2>4, SourceAdded
    <2> QED BY <1>3, <2>2, <2>5 DEF Joins
  <1>6. CASE e.kind = "exit"
    <2> DEFINE row == [event |-> e, entry_time |-> SelectEntryTime(store, e.flight)]
    <2>1. store' = RecordExit(store, e)
      BY <1>3, <1>6 DEF Unit
    <2>2. store'.sightings = Append(store.sightings, row)
      BY <1>1, <1>2, <2>1, EntriesAfterExit
    <2>3. \A f \in Flight : \/ store'.entries[f] = NoTime
                            \/ f # e.flight /\ store'.entries[f] = store.entries[f]
      <3>1. store'.entries = DeleteEntry(store, e.flight).entries
        BY <1>1, <1>2, <2>1, EntriesAfterExit
      <3> QED BY <1>1, <3>1 DEF DeleteEntry, StoreOf
    <2> DEFINE Rows == [event : EventType, entry_time : MaybeTime]
    <2>4. row \in Rows /\ store.sightings \in Seq(Rows)
      BY <1>1, <1>2, SelectEntryTimeType DEF StoreOf
    <2>5. /\ row.event.flight = e.flight
          /\ \/ row.entry_time = NoTime
             \/ e.flight \in Flight /\ row.entry_time = store.entries[e.flight]
      BY DEF SelectEntryTime
    <2> HIDE DEF row, Rows
    <2>6. OneSourceEach(Append(store.sightings, row), store'.entries, events, stage')
      <3>1. \/ row.entry_time = NoTime
            \/ row.event.flight \in Flight /\ row.entry_time = store.entries[row.event.flight]
        BY <2>5
      <3>2. \A f \in Flight : \/ store'.entries[f] = NoTime
                              \/ f # row.event.flight /\ store'.entries[f] = store.entries[f]
        BY <2>3, <2>5
      <3> HIDE DEF e
      <3> QED BY <1>4, <2>4, <3>1, <3>2, SourceTaken
    <2> QED BY <1>3, <2>2, <2>6 DEF Joins
  <1>7. CASE e.kind \in Movement
    <2>1. store' = RecordMovement(store, e)
      BY <1>3, <1>7, CoordinatorAssumption DEF Unit
    <2>2. store'.sightings = store.sightings /\ store'.entries = store.entries
      BY <1>1, <2>1 DEF RecordMovement, InsertMovement, StoreOf
    <2> QED BY <1>3, <1>4, <2>2 DEF Joins
  <1> QED BY <1>2, <1>5, <1>6, <1>7

(* Every other step leaves the tables, the events there are and those that *)
(* were stored.                                                            *)
LEMMA StepJoins ==
  ASSUME IInv, Joins, [Next]_vars
  PROVE  Joins'
  <1> SUFFICES ASSUME alone' PROVE Joins'
    BY DEF Joins
  <1>0. alone
    BY AloneBefore
  <1>1. /\ stage \in Seq(Stages) /\ Len(stage) = Len(events) /\ events \in Seq(EventType)
    BY DEF IInv, TypeOK
  <1>2. ASSUME UNCHANGED store,
               \A k \in DOMAIN events : /\ k \in DOMAIN events' /\ events'[k] = events[k]
                                        /\ stage[k] = "stored" => stage'[k] = "stored"
        PROVE  Joins'
    BY <1>0, <1>2, SourcesStay DEF Joins
  <1>3. CASE World
    <2>1. UNCHANGED store /\ (UNCHANGED jobs \/ \E e \in EventType : NewEvent(e))
      BY <1>3, WorldStep DEF IInv
    <2>2. \A k \in DOMAIN events : /\ k \in DOMAIN events' /\ events'[k] = events[k]
                                   /\ stage[k] = "stored" => stage'[k] = "stored"
      BY <1>1, <2>1 DEF NewEvent, jobs
    <2> QED BY <1>2, <2>1, <2>2
  <1>4. CASE \E i \in DOMAIN events : JobStep(i)
    <2>1. PICK i \in DOMAIN events : JobStep(i)
      BY <1>4
    <2>2. CASE Run(i)
      BY <1>0, <2>2, UnitJoins
    <2>3. CASE StartTask(i) \/ Refuse(i) \/ Raise(i)
      <3>1. UNCHANGED <<store, events>> /\ stage[i] # "stored"
            /\ \E to : Advance(i, to)
        BY <2>3 DEF StartTask, Refuse, Raise
      <3>2. \A k \in DOMAIN events : k # i => stage'[k] = stage[k]
        BY <1>1, <3>1 DEF Advance
      <3> QED BY <1>2, <3>1, <3>2
    <2> QED BY <1>0, <2>1, <2>2, <2>3, OneConnection DEF JobStep
  <1>5. CASE Crash
    <2>1. UNCHANGED <<store, events>>
      BY <1>5 DEF Crash
    <2>2. \A k \in DOMAIN events : stage[k] = "stored" => stage'[k] = "stored"
      BY <1>1, <1>5 DEF Crash
    <2> QED BY <1>2, <2>1, <2>2
  <1>6. CASE EntryStep \/ Tick \/ UNCHANGED vars
    <2>1. UNCHANGED <<jobs, store>>
      BY <1>6 DEF EntryStep, Setup, SetupReturns, SetupRaises, Unload, Close, Tick, vars
    <2> QED BY <1>2, <2>1 DEF jobs
  <1> QED BY <1>3, <1>4, <1>5, <1>6 DEF Next

(* n sightings with one entry time took it from n recorded entries, while  *)
(* no two coordinators share the database: for any number of flights,      *)
(* visits, reloads, failures and crashes.                                  *)
THEOREM JoinedOnce == Spec => []EntryJoinedOnce
  <1>1. Init => Joins
    <2> SUFFICES ASSUME Init PROVE Joins
      OBVIOUS
    <2>1. store.sightings = << >> /\ \A f \in Flight : store.entries[f] = NoTime
      BY DEF Init, EmptyStore
    <2>2. [n \in DOMAIN store.sightings |-> 0] \in [DOMAIN store.sightings -> Nat]
          /\ [f \in Flight |-> 0] \in [Flight -> Nat]
      OBVIOUS
    <2>3. Sourced([n \in DOMAIN store.sightings |-> 0], [f \in Flight |-> 0],
                  store.sightings, store.entries, events, stage)
      BY <2>1 DEF Sourced
    <2> QED BY <2>2, <2>3 DEF Joins, OneSourceEach
  <1>2. IInv /\ Joins /\ [Next]_vars => Joins'
    BY StepJoins
  <1>3. ASSUME IInv, Joins PROVE EntryJoinedOnce
    <2>0. SUFFICES ASSUME alone PROVE EntryJoinedOnce
      BY DEF EntryJoinedOnce
    <2>1. PICK from \in [DOMAIN store.sightings -> Nat], held \in [Flight -> Nat] :
             Sourced(from, held, store.sightings, store.entries, events, stage)
      BY <1>3, <2>0 DEF Joins, OneSourceEach
    <2> SUFFICES ASSUME NEW i \in DOMAIN events, events[i].kind = "entry"
                 PROVE  LET f == events[i].flight
                            t == events[i].time
                            joined == {n \in DOMAIN store.sightings :
                                          /\ store.sightings[n].event.flight = f
                                          /\ store.sightings[n].entry_time = t}
                            entries == {k \in DOMAIN events :
                                          /\ events[k].kind = "entry"
                                          /\ events[k].flight = f
                                          /\ events[k].time = t
                                          /\ stage[k] = "stored"}
                        IN  \/ joined = {}
                            \/ \E pairing \in [joined -> entries] :
                                  \A m, n \in joined : pairing[m] = pairing[n] => m = n
      BY DEF EntryJoinedOnce
    <2> DEFINE f == events[i].flight
               t == events[i].time
               joined == {n \in DOMAIN store.sightings :
                             /\ store.sightings[n].event.flight = f
                             /\ store.sightings[n].entry_time = t}
               entries == {k \in DOMAIN events :
                             /\ events[k].kind = "entry" /\ events[k].flight = f
                             /\ events[k].time = t /\ stage[k] = "stored"}
               pairing == [n \in joined |-> from[n]]
    <2>2. t # NoTime
      BY <1>3, AnEvent, RepositoryAssumption DEF IInv
    <2>3. \A n \in joined : from[n] \in entries
      BY <2>1, <2>2 DEF Sourced, IsEntry
    <2>4. \A m, n \in joined : from[m] = from[n] => m = n
      BY <2>1, <2>2 DEF Sourced
    <2>5. pairing \in [joined -> entries] /\ \A n \in joined : pairing[n] = from[n]
      BY <2>3
    <2> HIDE DEF pairing, joined, entries
    <2>6. \E p \in [joined -> entries] : \A m, n \in joined : p[m] = p[n] => m = n
      <3>1. \A m, n \in joined : pairing[m] = pairing[n] => m = n
        BY <2>4, <2>5
      <3> QED BY <2>5, <3>1
    <2> QED BY <2>6 DEF joined, entries
  <1> QED BY <1>1, <1>2, <1>3, Invariance, PTL DEF Spec

-----------------------------------------------------------------------------
(* An event that was prompt found the earlier ones of its flight settled.  *)
PromptInv ==
    \A k, l \in DOMAIN events :
        (k < l /\ events[k].flight = events[l].flight /\ events[l].prompt)
            => stage[k] \in Final

(* The visit of an aircraft that is inside began with its last event.      *)
VisitOfFlight ==
    \A f \in inside : visit[f] # 0 =>
        /\ visit[f] \in DOMAIN events
        /\ events[visit[f]].kind = "entry" /\ events[visit[f]].flight = f
        /\ \A k \in DOMAIN events : events[k].flight = f => k <= visit[f]

(* An exit is its flight's next event after the entry of its visit.        *)
FollowsEntry(x, e) ==
    /\ e \in DOMAIN events /\ e < x
    /\ events[e].kind = "entry" /\ events[e].flight = events[x].flight
    /\ \A k \in DOMAIN events : events[k].flight = events[x].flight => k <= e \/ k >= x

VisitOfExit ==
    \A x \in DOMAIN events :
        (events[x].kind = "exit" /\ events[x].visit # 0) => FollowsEntry(x, events[x].visit)

(* The event that is being delivered is heard by one; an exit is of the    *)
(* visit that began with the last event of its flight.                     *)
VisitOfBus ==
    bus.to # {} =>
        /\ \A c, d \in bus.to : c = d
        /\ bus.kind # "entry" => bus.flight \notin inside
        /\ (bus.kind = "exit" /\ bus.visit # 0) =>
              /\ bus.visit \in DOMAIN events
              /\ events[bus.visit].kind = "entry" /\ events[bus.visit].flight = bus.flight
              /\ \A k \in DOMAIN events : events[k].flight = bus.flight => k <= bus.visit

(* The last entry that was stored has its row, or grew older than the TTL. *)
AllPrompt(f) == \A k \in DOMAIN events : events[k].flight = f => events[k].prompt

LastStored(e) ==
    \A k \in DOMAIN events :
        (events[k].flight = events[e].flight /\ k > e) => stage[k] # "stored"

TimeOrPruned(row, t, n) == row = t \/ (row = NoTime /\ t < n - EntryTTL)

RowOfEntry ==
    \A e \in DOMAIN events :
        (/\ events[e].kind = "entry" /\ stage[e] = "stored"
         /\ AllPrompt(events[e].flight) /\ LastStored(e))
            => TimeOrPruned(store.entries[events[e].flight], events[e].time, now)

Visits == PromptInv /\ VisitOfFlight /\ VisitOfExit /\ VisitOfBus

(* What is promised of a sighting, by the numbers of its events.           *)
OwnTime(n) ==
    LET row == store.sightings[n]
        e   == row.event.visit
    IN  (AllPrompt(row.event.flight) /\ e # 0 /\ stage[e] = "stored")
            => TimeOrPruned(row.entry_time, events[e].time, now)

OwnVisits == \A n \in DOMAIN store.sightings : OwnTime(n)

Owned == Visits /\ RowOfEntry /\ OwnVisits

OInv == IInv /\ alone /\ Owned

(* The sighting of an exit knows which of the events that was.             *)
LEMMA ExitOfRow ==
  ASSUME IInv, NEW n \in DOMAIN store.sightings
  PROVE  \E x \in DOMAIN events : /\ store.sightings[n].event = events[x]
                                  /\ events[x].kind = "exit" /\ stage[x] = "stored"
  BY DEF IInv, RowsInv, OneRowEach, EventsOf

(* What an announcement does to the numbers of the events.                 *)
LEMMA Numbering ==
  ASSUME TypeOK, NEW kind, NEW f, NEW v, NEW c, Announce(kind, f, v, c)
  PROVE  /\ DOMAIN events' = DOMAIN events \cup {Len(events) + 1}
         /\ \A k \in DOMAIN events : /\ k \in Nat /\ k < Len(events) + 1 /\ k # 0
                                     /\ events'[k] = events[k] /\ stage'[k] = stage[k]
         /\ LET e == events'[Len(events) + 1]
            IN  /\ e.kind = kind /\ e.flight = f /\ e.visit = v
                /\ e.prompt => ~Outstanding(f)
         /\ stage'[Len(events) + 1] = "task" /\ Len(events) + 1 \in Nat \ {0}
  <1> DEFINE e == [kind |-> kind, flight |-> f, time |-> now, id |-> Len(events) + 1,
                   visit |-> v, instance |-> c, prompt |-> ~Outstanding(f)]
  <1>1. /\ events \in Seq(EventType) /\ stage \in Seq(Stages) /\ Len(stage) = Len(events)
    BY DEF TypeOK
  <1>2. events' = Append(events, e) /\ stage' = Append(stage, "task")
    BY DEF Announce
  <1>3. e.kind = kind /\ e.flight = f /\ e.visit = v /\ (e.prompt => ~Outstanding(f))
    OBVIOUS
  <1> HIDE DEF e
  <1>4. events'[Len(events) + 1] = e /\ stage'[Len(events) + 1] = "task"
    BY <1>1, <1>2
  <1>5. /\ DOMAIN events' = DOMAIN events \cup {Len(events) + 1}
        /\ \A k \in DOMAIN events : /\ k \in Nat /\ k < Len(events) + 1 /\ k # 0
                                    /\ events'[k] = events[k] /\ stage'[k] = stage[k]
        /\ Len(events) + 1 \in Nat \ {0}
    BY <1>1, <1>2
  <1> QED BY <1>3, <1>4, <1>5

(* A new event that is prompt found none outstanding.                      *)
LEMMA AnnouncedPrompt ==
  ASSUME TypeOK, PromptInv, NEW kind, NEW f, NEW v, NEW c, Announce(kind, f, v, c)
  PROVE  PromptInv'
  <1> DEFINE last == Len(events) + 1
  <1>1. /\ DOMAIN events' = DOMAIN events \cup {last} /\ last \in Nat
        /\ \A k \in DOMAIN events : /\ k \in Nat /\ k < last
                                    /\ events'[k] = events[k] /\ stage'[k] = stage[k]
        /\ events'[last].flight = f /\ (events'[last].prompt => ~Outstanding(f))
    BY Numbering
  <1> HIDE DEF last
  <1>2. ASSUME NEW k \in DOMAIN events, events[k].flight = f, ~Outstanding(f)
        PROVE  stage[k] \in Final
    BY <1>2 DEF Outstanding
  <1>3. ASSUME NEW k \in DOMAIN events', NEW l \in DOMAIN events', k < l,
               events'[k].flight = events'[l].flight, events'[l].prompt
        PROVE  stage'[k] \in Final
    <2>1. k \in DOMAIN events
      BY <1>1, <1>3
    <2>2. CASE l \in DOMAIN events
      BY <1>1, <1>3, <2>1, <2>2 DEF PromptInv
    <2>3. CASE l = last
      BY <1>1, <1>2, <1>3, <2>1, <2>3
    <2> QED BY <1>1, <2>2, <2>3
  <1>4. Final' = Final
    BY DEF Final
  <1> QED BY <1>3, <1>4 DEF PromptInv

(* The exits of before follow the entries they followed.                   *)
LEMMA AnnouncedExits ==
  ASSUME TypeOK, VisitOfExit, NEW kind, NEW f, NEW v, NEW c, Announce(kind, f, v, c),
         (kind = "exit" /\ v # 0) =>
            /\ v \in DOMAIN events
            /\ events[v].kind = "entry" /\ events[v].flight = f
            /\ \A k \in DOMAIN events : events[k].flight = f => k <= v
  PROVE  VisitOfExit'
  <1> DEFINE last == Len(events) + 1
  <1>1. /\ DOMAIN events' = DOMAIN events \cup {last} /\ last \in Nat
        /\ \A k \in DOMAIN events : k \in Nat /\ k < last /\ events'[k] = events[k]
        /\ events'[last].kind = kind /\ events'[last].flight = f /\ events'[last].visit = v
    BY Numbering
  <1> HIDE DEF last
  <1> SUFFICES ASSUME NEW x \in DOMAIN events', events'[x].kind = "exit",
                      events'[x].visit # 0
               PROVE  FollowsEntry(x, events[x].visit)'
    BY DEF VisitOfExit
  <1>2. CASE x \in DOMAIN events
    <2>1. FollowsEntry(x, events[x].visit)
      BY <1>1, <1>2 DEF VisitOfExit
    <2> QED BY <1>1, <1>2, <2>1 DEF FollowsEntry
  <1>3. CASE x = last
    BY <1>1, <1>3 DEF FollowsEntry
  <1> QED BY <1>1, <1>2, <1>3

(* An aircraft that has come or gone, and who is told.                     *)
LEMMA FireVisits ==
  ASSUME IInv, alone, Visits, NEW kind, NEW f, NEW v, Fire(kind, f, v),
         kind # "entry" => f \notin inside',
         (kind = "exit" /\ v # 0) =>
            /\ v \in DOMAIN events
            /\ events[v].kind = "entry" /\ events[v].flight = f
            /\ \A k \in DOMAIN events : events[k].flight = f => k <= v,
         \A g \in inside' : visit'[g] # 0 => g \in inside /\ visit'[g] = visit[g]
  PROVE  Visits'
  <1>1. UNCHANGED jobs
    BY DEF Fire
  <1>2. PromptInv' /\ VisitOfExit'
    BY <1>1 DEF Visits, PromptInv, VisitOfExit, FollowsEntry, jobs
  <1>3. VisitOfFlight'
    BY <1>1 DEF Visits, VisitOfFlight, jobs
  <1>4. VisitOfBus'
    <2>1. CASE bus' = Silence
      BY <2>1 DEF VisitOfBus, Silence
    <2>2. CASE bus' = [kind |-> kind, flight |-> f, visit |-> v, to |-> live]
      <3>1. \A c, d \in live : c = d
        BY DEF IInv, OpenWhileUp
      <3> QED BY <1>1, <2>2, <3>1 DEF VisitOfBus, jobs
    <2> QED BY <2>1, <2>2 DEF Fire
  <1> QED BY <1>2, <1>3, <1>4 DEF Visits

(* Aircraft come and go.                                                   *)
LEMMA WorldVisits ==
  ASSUME IInv, alone, Visits, World
  PROVE  Visits'
  <1>0. /\ TypeOK /\ inside \in SUBSET Flight /\ visit \in [Flight -> Nat]
        /\ NoFlight \notin Flight
    BY RepositoryAssumption DEF IInv, TypeOK
  <1>1. CASE \E f \in Flight : EnterRadius(f)
    <2> PICK f \in Flight : EnterRadius(f)
      BY <1>1
    <2>1. Fire("entry", f, 0)
      BY DEF EnterRadius
    <2>2. \A g \in inside' : visit'[g] # 0 => g \in inside /\ visit'[g] = visit[g]
      BY <1>0 DEF EnterRadius
    <2>3. "entry" # "exit"
      OBVIOUS
    <2> QED BY <2>1, <2>2, <2>3, FireVisits
  <1>2. CASE \E f \in Flight : LeaveRadius(f)
    <2> PICK f \in Flight : LeaveRadius(f)
      BY <1>2
    <2>1. Fire("exit", f, visit[f])
      BY DEF LeaveRadius
    <2>2. f \in inside /\ f \notin inside'
          /\ \A g \in inside' : visit'[g] # 0 => g \in inside /\ visit'[g] = visit[g]
      BY DEF LeaveRadius
    <2>3. visit[f] # 0 =>
             /\ visit[f] \in DOMAIN events
             /\ events[visit[f]].kind = "entry" /\ events[visit[f]].flight = f
             /\ \A k \in DOMAIN events : events[k].flight = f => k <= visit[f]
      BY <2>2 DEF Visits, VisitOfFlight
    <2> QED BY <2>1, <2>2, <2>3, FireVisits
  <1>3. CASE LeaveWithoutId \/ \E kind \in Movement : AirportMovement(kind)
    <2>1. PICK kind : Fire(kind, NoFlight, 0) /\ UNCHANGED <<inside, visit>>
      BY <1>3 DEF LeaveWithoutId, AirportMovement
    <2>2. NoFlight \notin inside'
      BY <1>0, <2>1
    <2>3. \A g \in inside' : visit'[g] # 0 => g \in inside /\ visit'[g] = visit[g]
      BY <2>1
    <2> QED BY <2>1, <2>2, <2>3, FireVisits
  <1>4. CASE \E c \in bus.to : Hear(c)
    <2> PICK c \in bus.to : Hear(c)
      BY <1>4
    <2> DEFINE last == Len(events) + 1
    <2>1. Announce(bus.kind, bus.flight, bus.visit, c) /\ inside' = inside
      BY DEF Hear
    <2>2. /\ bus.to = {c}
          /\ bus.kind # "entry" => bus.flight \notin inside
          /\ (bus.kind = "exit" /\ bus.visit # 0) =>
                /\ bus.visit \in DOMAIN events
                /\ events[bus.visit].kind = "entry" /\ events[bus.visit].flight = bus.flight
                /\ \A k \in DOMAIN events : events[k].flight = bus.flight => k <= bus.visit
      BY DEF Visits, VisitOfBus
    <2>3. VisitOfBus'
      BY <2>2 DEF Hear, VisitOfBus, Silence
    <2>4. PromptInv' /\ VisitOfExit'
      BY <1>0, <2>1, <2>2, AnnouncedPrompt, AnnouncedExits DEF Visits
    <2>5. /\ DOMAIN events' = DOMAIN events \cup {last} /\ last \in Nat
          /\ \A k \in DOMAIN events : k \in Nat /\ k < last /\ events'[k] = events[k]
          /\ events'[last].kind = bus.kind /\ events'[last].flight = bus.flight
      BY <1>0, <2>1, Numbering
    <2>6. /\ visit' = IF bus.kind = "entry" THEN [visit EXCEPT ![bus.flight] = last] ELSE visit
          /\ \A g \in inside : g \in Flight
      BY <1>0 DEF Hear
    <2> HIDE DEF last
    <2>7. ASSUME NEW g \in inside, visit'[g] # 0
          PROVE  /\ visit'[g] \in DOMAIN events'
                 /\ events'[visit'[g]].kind = "entry" /\ events'[visit'[g]].flight = g
                 /\ \A k \in DOMAIN events' : events'[k].flight = g => k <= visit'[g]
      <3>1. CASE g = bus.flight
        <4>1. bus.kind = "entry"
          BY <2>2, <3>1
        <4>2. visit'[g] = last
          BY <1>0, <2>6, <3>1, <4>1
        <4> QED BY <2>5, <3>1, <4>1, <4>2
      <3>2. CASE g # bus.flight
        <4>1. visit'[g] = visit[g]
          BY <1>0, <2>6, <3>2
        <4> QED BY <2>5, <2>7, <3>2, <4>1 DEF Visits, VisitOfFlight
      <3> QED BY <3>1, <3>2
    <2>8. VisitOfFlight'
      BY <2>1, <2>7 DEF VisitOfFlight
    <2> QED BY <2>3, <2>4, <2>8 DEF Visits
  <1> QED BY <1>1, <1>2, <1>3, <1>4 DEF World

(* A job that settles stays settled, and no visit changes with it.         *)
LEMMA VisitsStay ==
  ASSUME Visits, VisitOfBus', UNCHANGED <<inside, visit, events>>,
         \A k \in DOMAIN events : stage[k] \in Final => stage'[k] = stage[k]
  PROVE  Visits'
  <1>1. Final' = Final
    BY DEF Final
  <1>2. PromptInv'
    BY <1>1 DEF Visits, PromptInv
  <1>3. VisitOfFlight' /\ VisitOfExit'
    BY DEF Visits, VisitOfFlight, VisitOfExit, FollowsEntry
  <1> QED BY <1>2, <1>3 DEF Visits

(* What is being delivered stays so, or is gone.                           *)
LEMMA BusStays ==
  ASSUME VisitOfBus, UNCHANGED <<inside, events>>, bus' = bus \/ bus'.to = {}
  PROVE  VisitOfBus'
  BY DEF VisitOfBus

(* Where nothing is stored, time may pass and events may come.             *)
LEMMA RowsStay ==
  ASSUME IInv, Visits, RowOfEntry, OwnVisits, UNCHANGED store, now' \in Nat, now' >= now,
         \A k \in DOMAIN events : /\ k \in DOMAIN events' /\ events'[k] = events[k]
                                  /\ stage'[k] = "stored" <=> stage[k] = "stored",
         \A k \in DOMAIN events' : k \in DOMAIN events \/ stage'[k] # "stored"
  PROVE  RowOfEntry' /\ OwnVisits'
  <1>1. \A f : AllPrompt(f)' => AllPrompt(f)
    BY DEF AllPrompt
  <1>2. now \in Nat /\ EntryTTL \in Nat /\ \A e \in DOMAIN events : events[e].time \in Nat
    BY RepositoryAssumption, AnEvent DEF IInv, TypeOK
  <1>3. ASSUME NEW row, NEW e \in DOMAIN events, TimeOrPruned(row, events[e].time, now)
        PROVE  TimeOrPruned(row, events'[e].time, now')
    <2>1. events'[e].time = events[e].time /\ events[e].time \in Nat
      BY <1>2
    <2> QED BY <1>2, <1>3, <2>1 DEF TimeOrPruned
  <1>4. RowOfEntry'
    <2> SUFFICES ASSUME NEW e \in DOMAIN events', events'[e].kind = "entry",
                        stage'[e] = "stored", AllPrompt(events[e].flight)', LastStored(e)'
                 PROVE  TimeOrPruned(store'.entries[events'[e].flight], events'[e].time, now')
      BY DEF RowOfEntry, TimeOrPruned, AllPrompt
    <2>1. e \in DOMAIN events /\ events'[e] = events[e] /\ stage[e] = "stored"
      OBVIOUS
    <2>2. AllPrompt(events[e].flight)
      BY <2>1 DEF AllPrompt
    <2>3. LastStored(e)
      BY <2>1 DEF LastStored
    <2>4. TimeOrPruned(store.entries[events[e].flight], events[e].time, now)
      BY <2>1, <2>2, <2>3 DEF RowOfEntry
    <2> QED BY <1>3, <2>1, <2>4
  <1>5. OwnVisits'
    <2> SUFFICES ASSUME NEW n \in DOMAIN store.sightings PROVE OwnTime(n)'
      BY DEF OwnVisits
    <2>1. PICK x \in DOMAIN events : store.sightings[n].event = events[x] /\ events[x].kind = "exit"
      BY ExitOfRow
    <2> DEFINE row == store.sightings[n]
               e   == row.event.visit
    <2>2. e # 0 => e \in DOMAIN events
      BY <2>1 DEF Visits, VisitOfExit, FollowsEntry
    <2>3. OwnTime(n)
      BY DEF OwnVisits
    <2>4. ASSUME AllPrompt(row.event.flight)', e # 0, stage'[e] = "stored"
          PROVE  TimeOrPruned(row.entry_time, events'[e].time, now')
      <3>1. AllPrompt(row.event.flight)
        BY <2>4 DEF AllPrompt
      <3>2. stage[e] = "stored"
        BY <2>2, <2>4
      <3>3. TimeOrPruned(row.entry_time, events[e].time, now)
        BY <2>3, <2>4, <3>1, <3>2 DEF OwnTime
      <3> QED BY <1>3, <2>2, <2>4, <3>3
    <2> QED BY <2>4 DEF OwnTime, TimeOrPruned, AllPrompt
  <1> QED BY <1>4, <1>5

(* record_entry leaves each row, its own included, unless it is too old.   *)
LEMMA EntriesPruned ==
  ASSUME NEW s \in StoreOf(EventType), NEW f \in Flight, NEW t \in Nat, NEW n \in Nat,
         NEW r, r = RecordEntry(s, f, t, n)
  PROVE  /\ TimeOrPruned(r.entries[f], t, n)
         /\ \A g \in Flight : g # f =>
               \/ r.entries[g] = s.entries[g]
               \/ r.entries[g] = NoTime /\ s.entries[g] # NoTime /\ s.entries[g] < n - EntryTTL
  <1> DEFINE a == InsertEntry(s, f, t)
  <1>1. \A g \in Flight : a.entries[g] = IF g = f THEN t ELSE s.entries[g]
    BY DEF InsertEntry, StoreOf
  <1>2. a \in StoreOf(EventType)
    BY InsertEntryType DEF MaybeTime
  <1>3. r = PruneStaleEntries(a, n)
    BY DEF RecordEntry
  <1> HIDE DEF a
  <1>4. \A g \in Flight :
           \/ r.entries[g] = a.entries[g]
           \/ r.entries[g] = NoTime /\ a.entries[g] # NoTime /\ a.entries[g] < n - EntryTTL
    BY <1>2, <1>3 DEF PruneStaleEntries, StoreOf
  <1> QED BY <1>1, <1>4 DEF TimeOrPruned

(* A unit of work of another flight leaves a row or prunes it.             *)
LEMMA OthersRow ==
  ASSUME IInv, NEW i \in DOMAIN events, store' = Unit(i),
         NEW g \in Flight, g # events[i].flight
  PROVE  \/ store'.entries[g] = store.entries[g]
         \/ /\ store'.entries[g] = NoTime
            /\ store.entries[g] # NoTime /\ store.entries[g] < now - EntryTTL
  <1>1. /\ store \in StoreOf(EventType) /\ now \in Nat
    BY DEF IInv, TypeOK
  <1>2. /\ events[i] \in EventType /\ events[i].time \in Nat
        /\ events[i].kind \in {"entry", "exit"} \cup Movement
        /\ events[i].kind = "entry" => events[i].flight \in Flight
    BY AnEvent DEF IInv, Numbered
  <1>3. CASE events[i].kind = "entry"
    <2>1. store' = RecordEntry(store, events[i].flight, events[i].time, now)
      BY <1>3 DEF Unit
    <2>2. ASSUME NEW f \in Flight, NEW t \in Nat, store' = RecordEntry(store, f, t, now), g # f
          PROVE  \/ store'.entries[g] = store.entries[g]
                 \/ /\ store'.entries[g] = NoTime
                    /\ store.entries[g] # NoTime /\ store.entries[g] < now - EntryTTL
      BY <1>1, <2>2, EntriesPruned
    <2>3. events[i].flight \in Flight /\ events[i].time \in Nat
      BY <1>2, <1>3
    <2> QED BY <2>1, <2>2, <2>3
  <1>4. CASE events[i].kind = "exit"
    <2>1. store' = RecordExit(store, events[i])
      BY <1>4 DEF Unit
    <2>2. store'.entries = DeleteEntry(store, events[i].flight).entries
      BY <1>1, <1>2, <2>1, EntriesAfterExit
    <2> QED BY <1>1, <2>2 DEF DeleteEntry, StoreOf
  <1>5. CASE events[i].kind \in Movement
    <2>1. store' = RecordMovement(store, events[i])
      BY <1>5, CoordinatorAssumption DEF Unit
    <2> QED BY <1>1, <2>1 DEF RecordMovement, InsertMovement, StoreOf
  <1> QED BY <1>2, <1>3, <1>4, <1>5

(* While a flight's events are prompt, its jobs run in their order.        *)
LEMMA InOrder ==
  ASSUME IInv, Visits, NEW i \in DOMAIN events, stage[i] = "queued",
         AllPrompt(events[i].flight), NEW k \in DOMAIN events,
         events[k].flight = events[i].flight
  PROVE  k <= i
  <1>1. i \in Nat /\ k \in Nat
    BY DEF IInv, TypeOK
  <1>2. "queued" \notin Final
    BY DEF Final
  <1>3. events[k].prompt
    BY DEF AllPrompt
  <1>4. ~(i < k)
    BY <1>2, <1>3 DEF Visits, PromptInv
  <1> QED BY <1>1, <1>4

(* The row of the last entry that was stored, after one more unit.         *)
LEMMA UnitRows ==
  ASSUME OInv, NEW i \in DOMAIN events, Run(i)
  PROVE  RowOfEntry'
  <1>1. /\ stage \in Seq(Stages) /\ Len(stage) = Len(events) /\ events \in Seq(EventType)
        /\ store \in StoreOf(EventType) /\ now \in Nat /\ EntryTTL \in Nat
        /\ IInv /\ Visits
    BY RepositoryAssumption DEF OInv, Owned, IInv, TypeOK
  <1>2. /\ store' = Unit(i) /\ events' = events /\ now' = now /\ stage[i] = "queued"
        /\ stage'[i] = "stored" /\ \A k \in DOMAIN events : k # i => stage'[k] = stage[k]
    BY <1>1 DEF Run, Advance
  <1> SUFFICES ASSUME NEW e \in DOMAIN events, events[e].kind = "entry",
                      stage'[e] = "stored", AllPrompt(events[e].flight), LastStored(e)'
               PROVE  TimeOrPruned(store'.entries[events[e].flight], events[e].time, now)
    BY <1>2 DEF RowOfEntry, TimeOrPruned, AllPrompt
  <1>3. events[e].flight \in Flight /\ events[e].time \in Nat
    BY <1>1, AnEvent DEF IInv, Numbered
  <1>4. CASE e = i
    <2>1. store' = RecordEntry(store, events[e].flight, events[e].time, now)
      BY <1>2, <1>4 DEF Unit
    <2>2. ASSUME NEW f \in Flight, NEW t \in Nat, store' = RecordEntry(store, f, t, now)
          PROVE  TimeOrPruned(store'.entries[f], t, now)
      BY <1>1, <2>2, EntriesPruned
    <2> QED BY <1>3, <2>1, <2>2
  <1>5. CASE e # i
    <2>1. stage[e] = "stored"
      BY <1>2, <1>5
    <2>2. events[i].flight # events[e].flight
      <3> SUFFICES ASSUME events[i].flight = events[e].flight PROVE FALSE
        OBVIOUS
      <3>1. e <= i
        BY <1>1, <1>2, InOrder
      <3>2. e < i
        BY <1>1, <1>5, <3>1
      <3> QED BY <1>2, <3>2 DEF LastStored
    <2>3. LastStored(e)
      BY <1>1, <1>2, <2>2 DEF LastStored
    <2>4. TimeOrPruned(store.entries[events[e].flight], events[e].time, now)
      BY <2>1, <2>3 DEF OInv, Owned, RowOfEntry
    <2>5. \/ store'.entries[events[e].flight] = store.entries[events[e].flight]
          \/ /\ store'.entries[events[e].flight] = NoTime
             /\ store.entries[events[e].flight] # NoTime
             /\ store.entries[events[e].flight] < now - EntryTTL
      BY <1>1, <1>2, <1>3, <2>2, OthersRow
    <2> QED BY <2>4, <2>5 DEF TimeOrPruned
  <1> QED BY <1>4, <1>5

(* The sighting of an exit takes the row of its own visit's entry.         *)
LEMMA UnitOwn ==
  ASSUME OInv, NEW i \in DOMAIN events, Run(i)
  PROVE  OwnVisits'
  <1>1. /\ stage \in Seq(Stages) /\ Len(stage) = Len(events) /\ events \in Seq(EventType)
        /\ store \in StoreOf(EventType) /\ now \in Nat /\ IInv /\ Visits
    BY DEF OInv, Owned, IInv, TypeOK
  <1>2. /\ store' = Unit(i) /\ events' = events /\ now' = now /\ stage[i] = "queued"
        /\ stage'[i] = "stored" /\ \A k \in DOMAIN events : k # i => stage'[k] = stage[k]
    BY <1>1 DEF Run, Advance
  <1>3. ASSUME NEW n \in DOMAIN store.sightings, n \in DOMAIN store'.sightings,
               store'.sightings[n] = store.sightings[n]
        PROVE  OwnTime(n)'
    <2> DEFINE row == store.sightings[n]
               e   == row.event.visit
    <2>1. PICK x \in DOMAIN events : row.event = events[x] /\ events[x].kind = "exit"
      BY <1>1, ExitOfRow
    <2>2. ASSUME AllPrompt(row.event.flight), e # 0, stage'[e] = "stored"
          PROVE  TimeOrPruned(row.entry_time, events[e].time, now)
      <3>1. e \in DOMAIN events /\ e < x /\ events[e].flight = events[x].flight
        BY <1>1, <2>1, <2>2 DEF Visits, VisitOfExit, FollowsEntry
      <3>2. e # i
        <4> SUFFICES ASSUME e = i PROVE FALSE
          OBVIOUS
        <4>1. AllPrompt(events[i].flight) /\ events[x].flight = events[i].flight
          BY <2>1, <2>2, <3>1
        <4>2. x <= i
          BY <1>1, <1>2, <4>1, InOrder
        <4>3. x \in Nat /\ i \in Nat
          BY <1>1
        <4> QED BY <3>1, <4>2, <4>3
      <3>3. stage[e] = "stored"
        BY <1>2, <2>2, <3>1, <3>2
      <3> QED BY <2>2, <3>3 DEF OInv, Owned, OwnVisits, OwnTime
    <2> QED BY <1>2, <1>3, <2>2 DEF OwnTime, TimeOrPruned, AllPrompt
  <1>4. CASE events[i].kind # "exit"
    <2>1. store'.sightings = store.sightings
      BY <1>1, <1>2, <1>4 DEF Unit, RecordEntry, PruneStaleEntries, InsertEntry,
                              RecordMovement, InsertMovement, StoreOf
    <2> QED BY <1>3, <2>1 DEF OwnVisits
  <1>5. CASE events[i].kind = "exit"
    <2> DEFINE new  == [event |-> events[i],
                        entry_time |-> SelectEntryTime(store, events[i].flight)]
               e    == events[i].visit
    <2>0. PICK last : last = Len(store.sightings) + 1
      OBVIOUS
    <2>1. events[i] \in EventType
      BY <1>1
    <2>2. store' = RecordExit(store, events[i])
      BY <1>2, <1>5 DEF Unit
    <2>3. store'.sightings = Append(store.sightings, new)
      BY <1>1, <2>1, <2>2, EntriesAfterExit
    <2>4. store.sightings \in Seq([event : EventType, entry_time : MaybeTime])
      BY <1>1 DEF StoreOf
    <2>5. /\ DOMAIN store'.sightings = DOMAIN store.sightings \cup {last}
          /\ store'.sightings[last] = new
          /\ \A n \in DOMAIN store.sightings : store'.sightings[n] = store.sightings[n]
      <3> HIDE DEF new
      <3> QED BY <2>0, <2>3, <2>4
    <2>6. ASSUME AllPrompt(events[i].flight), e # 0, stage'[e] = "stored"
          PROVE  TimeOrPruned(new.entry_time, events[e].time, now)
      <3>1. FollowsEntry(i, e)
        BY <1>1, <1>5, <2>6 DEF Visits, VisitOfExit
      <3>2. /\ e \in DOMAIN events /\ e \in Nat /\ i \in Nat /\ e < i
            /\ events[e].kind = "entry" /\ events[e].flight = events[i].flight
        BY <1>1, <3>1 DEF FollowsEntry
      <3>3. stage[e] = "stored"
        BY <1>2, <2>6, <3>2
      <3>4. LastStored(e)
        <4> SUFFICES ASSUME NEW k \in DOMAIN events, events[k].flight = events[e].flight, k > e
                     PROVE  stage[k] # "stored"
          BY DEF LastStored
        <4>1. k <= i
          BY <1>1, <1>2, <2>6, <3>2, InOrder
        <4>2. k >= i
          BY <1>1, <3>1, <3>2 DEF FollowsEntry
        <4>3. k = i
          BY <1>1, <4>1, <4>2
        <4> QED BY <1>2, <4>3
      <3>5. TimeOrPruned(store.entries[events[e].flight], events[e].time, now)
        BY <2>6, <3>2, <3>3, <3>4 DEF OInv, Owned, RowOfEntry
      <3>6. events[i].flight \in Flight
        BY <1>1, <3>2 DEF IInv, Numbered
      <3> QED BY <3>2, <3>5, <3>6 DEF SelectEntryTime
    <2>7. OwnTime(last)'
      <3>1. new.event = events[i]
        OBVIOUS
      <3> HIDE DEF new
      <3> QED BY <1>2, <2>5, <2>6, <3>1 DEF OwnTime, TimeOrPruned, AllPrompt
    <2> QED BY <1>3, <2>5, <2>7 DEF OwnVisits
  <1> QED BY <1>4, <1>5

(* Every step keeps visits, rows and sightings together, while there is    *)
(* one coordinator.                                                        *)
LEMMA StepOwn ==
  ASSUME IInv, alone => Owned, [Next]_vars
  PROVE  (alone => Owned)'
  <1> SUFFICES ASSUME alone' PROVE Owned'
    OBVIOUS
  <1>0. alone
    BY AloneBefore
  <1>1. /\ stage \in Seq(Stages) /\ Len(stage) = Len(events) /\ events \in Seq(EventType)
        /\ now \in Nat /\ OInv /\ Visits /\ RowOfEntry /\ OwnVisits
    BY <1>0 DEF OInv, Owned, IInv, TypeOK
  <1>2. ASSUME UNCHANGED store, now' \in Nat, now' >= now, UNCHANGED <<inside, visit, events>>,
               bus' = bus \/ bus'.to = {},
               \A k \in DOMAIN events : /\ stage[k] \in Final => stage'[k] = stage[k]
                                        /\ stage'[k] = "stored" => stage[k] = "stored"
        PROVE  Owned'
    <2>1. "stored" \in Final
      BY DEF Final
    <2>2. VisitOfBus'
      BY <1>1, <1>2, BusStays DEF Visits
    <2>3. Visits'
      BY <1>1, <1>2, <2>2, VisitsStay
    <2>4. RowOfEntry' /\ OwnVisits'
      BY <1>1, <1>2, <2>1, RowsStay
    <2> QED BY <2>3, <2>4 DEF Owned
  <1>3. CASE World
    <2>1. /\ UNCHANGED <<store, now>> /\ (UNCHANGED jobs \/ \E e \in EventType : NewEvent(e))
      BY <1>1, <1>3, WorldStep DEF IInv
    <2>2. /\ \A k \in DOMAIN events : /\ k \in DOMAIN events' /\ events'[k] = events[k]
                                      /\ stage'[k] = "stored" <=> stage[k] = "stored"
          /\ \A k \in DOMAIN events' : k \in DOMAIN events \/ stage'[k] # "stored"
      BY <1>1, <2>1 DEF NewEvent, jobs
    <2>3. RowOfEntry' /\ OwnVisits'
      BY <1>1, <2>1, <2>2, RowsStay
    <2> QED BY <1>0, <1>1, <1>3, <2>3, WorldVisits DEF Owned
  <1>4. CASE \E i \in DOMAIN events : JobStep(i)
    <2>1. PICK i \in DOMAIN events : JobStep(i)
      BY <1>4
    <2>2. /\ UNCHANGED <<inside, visit, bus, events, now>> /\ stage[i] \notin Final
          /\ \A k \in DOMAIN events : k # i => stage'[k] = stage[k]
      BY <1>1, <2>1 DEF JobStep, StartTask, Run, RunBesideAnother, Refuse, Raise, Advance, Final,
                        world
    <2>3. CASE Run(i)
      <3>1. VisitOfBus'
        BY <1>1, <2>2, BusStays DEF Visits
      <3>2. Visits'
        BY <1>1, <2>2, <3>1, VisitsStay
      <3> QED BY <1>1, <2>3, <3>2, UnitRows, UnitOwn DEF Owned
    <2>4. CASE StartTask(i) \/ Refuse(i) \/ Raise(i)
      <3>1. UNCHANGED store /\ stage'[i] # "stored"
        BY <1>1, <2>4 DEF StartTask, Refuse, Raise, Advance
      <3> QED BY <1>1, <1>2, <2>2, <3>1
    <2> QED BY <1>0, <2>1, <2>3, <2>4, OneConnection DEF JobStep
  <1>5. CASE Crash
    <2>1. UNCHANGED <<store, inside, visit, events, now>> /\ bus'.to = {}
      BY <1>5 DEF Crash, Silence
    <2>2. \A k \in DOMAIN events : /\ stage[k] \in Final => stage'[k] = stage[k]
                                   /\ stage'[k] = "stored" => stage[k] = "stored"
      BY <1>1, <1>5 DEF Crash, Final
    <2> QED BY <1>1, <1>2, <2>1, <2>2
  <1>6. CASE EntryStep \/ Tick \/ UNCHANGED vars
    <2>1. UNCHANGED <<world, jobs, store>> /\ now' \in Nat /\ now' >= now
      <3>1. CASE EntryStep \/ UNCHANGED vars
        <4>1. UNCHANGED <<world, jobs, store, now>>
          BY <3>1 DEF EntryStep, Setup, SetupReturns, SetupRaises, Unload, Close, vars
        <4> QED BY <1>1, <4>1
      <3>2. CASE Tick
        BY <1>1, <3>2 DEF Tick
      <3> QED BY <1>6, <3>1, <3>2
    <2> QED BY <1>2, <2>1 DEF jobs, world
  <1> QED BY <1>3, <1>4, <1>5, <1>6 DEF Next

(* A sighting has the time of its own visit's entry, never an earlier      *)
(* one's, if the jobs of its flight keep up and no two coordinators share  *)
(* the database: for any number of flights, visits, reloads, failures and  *)
(* crashes, and any TTL.                                                   *)
THEOREM OwnVisitJoined == Spec => []JoinsItsOwnVisit
  <1>1. Init => (alone => Owned)
    BY DEF Init, EmptyStore, Owned, Visits, PromptInv, VisitOfFlight, VisitOfExit, VisitOfBus,
           Silence, RowOfEntry, OwnVisits
  <1>2. IInv /\ (alone => Owned) /\ [Next]_vars => (alone => Owned)'
    BY StepOwn
  <1>3. (alone => Owned) => JoinsItsOwnVisit
    BY DEF Owned, OwnVisits, OwnTime, TimeOrPruned, AllPrompt, JoinsItsOwnVisit
  <1> QED BY <1>1, <1>2, <1>3, Invariance, PTL DEF Spec

-----------------------------------------------------------------------------
(* The fates and rows of the event log, as the coordinator has them.       *)
Fates == [i \in DOMAIN stage |-> Fate(stage[i])]

LogMapping ==
    /\ Log!vars = <<events, Fates, EventsOf(store.sightings), store.movements>>
    /\ Log!Pending = {i \in DOMAIN stage : stage[i] \in {"task", "queued"}}

(* The abstract variables, in terms of the concrete ones.                  *)
LEMMA LogFacts == ASSUME TypeOK PROVE LogMapping
  <1>1. \A i \in DOMAIN stage : Fate(stage[i]) = "pending" <=> stage[i] \in {"task", "queued"}
    BY DEF Fate
  <1>2. Log!Pending = {i \in DOMAIN stage : stage[i] \in {"task", "queued"}}
    BY <1>1 DEF Log!Pending
  <1> QED BY <1>2 DEF LogMapping, Log!vars, Fates, EventsOf

(* What is announced is appended to the log with its fate open.            *)
LEMMA WorldIsLogged ==
  ASSUME IInv, World PROVE [Log!Next]_(Log!vars)
  <1>1. /\ events \in Seq(EventType) /\ stage \in Seq(Stages) /\ Len(stage) = Len(events)
        /\ store' = store
        /\ UNCHANGED jobs \/ \E e \in EventType : NewEvent(e)
    BY WorldStep DEF IInv, TypeOK
  <1>2. CASE UNCHANGED jobs
    BY <1>1, <1>2 DEF jobs, Log!vars
  <1>3. CASE \E e \in EventType : NewEvent(e)
    <2> PICK e \in EventType : NewEvent(e)
      BY <1>3
    <2>1. events' = Append(events, e) /\ stage' = Append(stage, "task")
      BY DEF NewEvent
    <2>2. Len(events') = Len(events) + 1 /\ events'[Len(events) + 1] = e
      BY <1>1, <2>1
    <2>3. Fates' = Append(Fates, "pending")
      <3>1. /\ stage' \in Seq(Stages \cup {"task"})
            /\ DOMAIN stage' = 1 .. Len(stage) + 1 /\ DOMAIN stage = 1 .. Len(stage)
            /\ Len(stage) \in Nat
            /\ \A i \in 1 .. Len(stage) : stage'[i] = stage[i]
            /\ stage'[Len(stage) + 1] = "task"
        BY <1>1, <2>1
      <3>2. Fate("task") = "pending"
        BY DEF Fate
      <3>3. Fates = [i \in 1 .. Len(stage) |-> Fate(stage[i])]
        BY <3>1 DEF Fates
      <3>4. Fates' = [i \in 1 .. Len(stage) + 1 |-> Fate(stage'[i])]
        BY <3>1 DEF Fates
      <3> DEFINE F(i) == Fate(stage[i])
                 G(i) == Fate(stage'[i])
                 n == Len(stage)
      <3>5. /\ \A i \in 1 .. n : G(i) = F(i)
            /\ G(n + 1) = "pending" /\ n \in Nat
        BY <3>1, <3>2
      <3> HIDE DEF F, G, n
      <3>6. [i \in 1 .. n + 1 |-> G(i)] = Append([i \in 1 .. n |-> F(i)], "pending")
        BY <3>5
      <3> QED BY <3>3, <3>4, <3>6 DEF F, G, n
    <2>4. Log!Announce
      BY <1>1, <2>1, <2>2, <2>3 DEF Log!Announce, Fates
    <2> QED BY <2>4 DEF Log!Next
  <1> QED BY <1>1, <1>2, <1>3

(* A unit that commits settles its event and writes the event's row.       *)
LEMMA RunIsLogged ==
  ASSUME IInv, NEW i \in DOMAIN events, Run(i) PROVE Log!Next
  <1>1. /\ events \in Seq(EventType) /\ stage \in Seq(Stages) /\ DOMAIN stage = DOMAIN events
        /\ store \in StoreOf(EventType) /\ now \in Nat
        /\ events[i] \in EventType
        /\ events[i].kind \in {"entry", "exit"} \cup Movement
        /\ events[i].time \in Nat
        /\ events[i].kind = "entry" => events[i].flight \in Flight
    BY AnEvent DEF IInv, TypeOK, Numbered
  <1>2. /\ stage[i] = "queued" /\ stage' = [stage EXCEPT ![i] = "stored"]
        /\ store' = Unit(i) /\ events' = events
    BY DEF Run, Advance
  <1>3. i \in Log!Pending
    BY <1>1, <1>2, LogFacts DEF LogMapping, IInv
  <1>4. Fates' = [Fates EXCEPT ![i] = "stored"]
    BY <1>1, <1>2 DEF Fates, Fate
  <1>5. "entry" \notin Movement /\ "exit" \notin Movement
    BY CoordinatorAssumption
  <1>6. /\ EventsOf(store'.sightings) = Log!RowOf(EventsOf(store.sightings), {"exit"}, i)
        /\ store'.movements = Log!RowOf(store.movements, Movement, i)
    <2>1. CASE events[i].kind = "entry"
      <3>1. store' = RecordEntry(store, events[i].flight, events[i].time, now)
        BY <1>2, <2>1 DEF Unit
      <3>2. events[i].flight \in Flight /\ events[i].time \in Nat
        BY <1>1, <2>1
      <3>3. ASSUME NEW f \in Flight, NEW t \in Nat, store' = RecordEntry(store, f, t, now)
            PROVE  store'.sightings = store.sightings /\ store'.movements = store.movements
        <4>1. store \in StoreOf(EventType) /\ now \in Nat
          BY <1>1
        <4> QED BY <3>3, <4>1, UnitOfEntry
      <3>4. store'.sightings = store.sightings /\ store'.movements = store.movements
        BY <3>1, <3>2, <3>3
      <3> QED BY <1>5, <2>1, <3>4 DEF Log!RowOf
    <2>2. CASE events[i].kind = "exit"
      <3>1. store' = RecordExit(store, events[i])
        BY <1>2, <2>2 DEF Unit
      <3>2. /\ EventsOf(store'.sightings) = Append(EventsOf(store.sightings), events[i])
            /\ store'.movements = store.movements
        BY <1>1, <3>1, UnitOfExit
      <3> QED BY <1>5, <2>2, <3>2 DEF Log!RowOf
    <2>3. CASE events[i].kind \in Movement
      <3>1. store' = RecordMovement(store, events[i])
        BY <1>2, <1>5, <2>3 DEF Unit
      <3>2. /\ store'.sightings = store.sightings
            /\ store'.movements = Append(store.movements, events[i])
        BY <1>1, <3>1, UnitOfMovement
      <3> QED BY <1>5, <2>3, <3>2 DEF Log!RowOf
    <2> QED BY <1>1, <2>1, <2>2, <2>3
  <1>7. Log!Store(i)
    BY <1>2, <1>3, <1>4, <1>6 DEF Log!Store, Fates, EventsOf
  <1> QED BY <1>1, <1>7 DEF Log!Next

(* So does that of an exit beside another connection, whatever it joined.  *)
LEMMA LateExitIsLogged ==
  ASSUME IInv, NEW i \in DOMAIN events, RunBesideAnother(i) PROVE Log!Next
  <1>1. stage \in Seq(Stages) /\ DOMAIN stage = DOMAIN events
    BY DEF IInv, TypeOK
  <1>2. /\ stage[i] = "queued" /\ stage' = [stage EXCEPT ![i] = "stored"]
        /\ events' = events /\ events[i].kind = "exit" /\ events[i].kind \notin Movement
    BY CoordinatorAssumption DEF RunBesideAnother, Advance
  <1>3. i \in Log!Pending
    BY <1>1, <1>2, LogFacts DEF LogMapping, IInv
  <1>4. Fates' = [Fates EXCEPT ![i] = "stored"]
    BY <1>1, <1>2 DEF Fates, Fate
  <1>5. /\ EventsOf(store'.sightings) = Log!RowOf(EventsOf(store.sightings), {"exit"}, i)
        /\ store'.movements = Log!RowOf(store.movements, Movement, i)
    BY <1>2, LateExit DEF Log!RowOf
  <1>6. Log!Store(i)
    BY <1>2, <1>3, <1>4, <1>5 DEF Log!Store, Fates, EventsOf
  <1> QED BY <1>1, <1>6 DEF Log!Next

(* Every other step of a job leaves its event pending, or drops it.        *)
LEMMA JobIsLogged ==
  ASSUME IInv, NEW i \in DOMAIN events, JobStep(i) PROVE [Log!Next]_(Log!vars)
  <1>1. stage \in Seq(Stages) /\ DOMAIN stage = DOMAIN events /\ events \in Seq(EventType)
    BY DEF IInv, TypeOK
  <1>2. CASE Run(i)
    BY <1>2, RunIsLogged
  <1>4. CASE RunBesideAnother(i)
    BY <1>4, LateExitIsLogged
  <1>3. CASE StartTask(i) \/ Refuse(i) \/ Raise(i)
    <2>1. PICK to \in {"queued", "skipped", "refused", "raised"} :
             stage' = [stage EXCEPT ![i] = to]
      BY <1>3 DEF StartTask, Refuse, Raise, Advance
    <2>2. stage[i] \in {"task", "queued"} /\ UNCHANGED <<events, store>>
      BY <1>3 DEF StartTask, Refuse, Raise
    <2>3. CASE to = "queued"
      <3>1. Fates' = Fates
        BY <1>1, <2>1, <2>2, <2>3 DEF Fates, Fate
      <3> QED BY <2>2, <3>1 DEF Log!vars, Fates
    <2>4. CASE to # "queued"
      <3>1. Fates' = [j \in DOMAIN Fates |-> IF j \in {i} THEN "dropped" ELSE Fates[j]]
        BY <1>1, <2>1, <2>2, <2>4 DEF Fates, Fate
      <3>2. {i} \subseteq Log!Pending
        BY <1>1, <2>2, LogFacts DEF LogMapping, IInv
      <3>3. Log!Drop({i})
        BY <2>2, <3>1, <3>2 DEF Log!Drop, Fates
      <3> QED BY <1>1, <3>3 DEF Log!Next
    <2> QED BY <2>3, <2>4
  <1> QED BY <1>2, <1>3, <1>4 DEF JobStep

(* A crash drops what is pending.                                          *)
LEMMA CrashIsLogged ==
  ASSUME IInv, Crash PROVE Log!Next
  <1>1. DOMAIN stage = 1 .. Len(stage)
    BY DEF IInv, TypeOK
  <1>2. UNCHANGED <<events, store>>
    BY DEF Crash
  <1>3. /\ DOMAIN stage' = DOMAIN stage
        /\ \A i \in DOMAIN stage :
              stage'[i] = IF stage[i] \in {"task", "queued"} THEN "lost" ELSE stage[i]
    BY DEF Crash
  <1>4. Log!Pending = {i \in DOMAIN stage : stage[i] \in {"task", "queued"}}
    BY LogFacts DEF IInv, LogMapping
  <1>5. Fates' = [i \in DOMAIN Fates |-> IF i \in Log!Pending THEN "dropped" ELSE Fates[i]]
    BY <1>3, <1>4 DEF Fates, Fate
  <1>6. Log!Drop(Log!Pending)
    BY <1>2, <1>5 DEF Log!Drop, Fates
  <1> QED BY <1>6 DEF Log!Next

(* Tasks, jobs, setups that raise, reloads, failures and crashes implement *)
(* the event log.                                                          *)
THEOREM Refinement == Spec => RefinesEventLog
  <1>1. Init => Log!Init
    <2> SUFFICES ASSUME Init PROVE Log!Init
      OBVIOUS
    <2>1. events = << >> /\ stage = << >> /\ store.sightings = << >> /\ store.movements = << >>
      BY DEF Init, EmptyStore
    <2> QED BY <2>1 DEF Log!Init
  <1>2. IInv /\ [Next]_vars => [Log!Next]_(Log!vars)
    <2> SUFFICES ASSUME IInv, [Next]_vars PROVE [Log!Next]_(Log!vars)
      OBVIOUS
    <2>1. CASE EntryStep \/ Tick \/ UNCHANGED vars
      <3>1. UNCHANGED <<jobs, store>>
        BY <2>1 DEF EntryStep, Setup, SetupReturns, SetupRaises, Unload, Close, Tick, vars
      <3> QED BY <3>1 DEF jobs, Log!vars
    <2> QED BY <2>1, WorldIsLogged, JobIsLogged, CrashIsLogged DEF Next
  <1> QED BY <1>1, <1>2, Invariance, PTL DEF Spec, RefinesEventLog, Log!Spec
=================================================================================
