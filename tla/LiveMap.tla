-------------------------------- MODULE LiveMap --------------------------------
(***************************************************************************)
(* The way of an aircraft's position to the map: the source's live list,   *)
(* _capture_positions and its executor jobs, the flight_positions table,   *)
(* the GeoJSON view, which reads the list before its await and the trails  *)
(* after it, and the page, which asks again every REFRESH_MS whether or    *)
(* not it was answered.                                                    *)
(*                                                                         *)
(* A position is represented by the number of the source's poll it comes   *)
(* from.  A trail is the set of its points; ORDER BY ts ASC draws them in  *)
(* the order of ts, which is unique within a trail.                        *)
(***************************************************************************)
EXTENDS Repository, FiniteSets

CONSTANTS
    Lists,       \* what current_flights may return, see ListType
    MaxCaptures, \* bound: capture jobs in the executor at once
    MaxFetch,    \* bound: requests the page has not had answered, one in each slot
    MaxPolls,    \* bound: polls of the source
    MaxTime,     \* bound: clock
    MaxSetup,    \* bound: times the entry is set up
    Budgets      \* bound: how much of each a behaviour has, see BudgetType

(* Per flight id, and for an aircraft without any: away, in the list       *)
(* without a latitude or longitude, or with both.                          *)
ListType == [Flight \cup {NoFlight} -> {"away", "blind", "placed"}]

(* Requests at once, setups, and faults: setups and captures that raise,   *)
(* crashes, answers lost.                                                  *)
BudgetType == [fetches : 0 .. MaxFetch, setups : 0 .. MaxSetup, faults : Nat]

ASSUME LiveMapAssumption ==
    /\ Lists \subseteq ListType
    /\ {MaxCaptures, MaxFetch, MaxPolls, MaxTime, MaxSetup} \subseteq Nat
    /\ Budgets \subseteq BudgetType

VARIABLES
    clock,
    poll,      \* number of the source's last poll
    live,      \* current_flights()
    instance,  \* how many coordinators there have been
    stage,     \* how far the setup of the last one has got
    listed,    \* the coordinator in hass.data, or 0
    capturing, \* those subscribed to the source's polls, with a _db
    open,      \* those whose connection is open
    due,       \* per coordinator, _capture_positions tasks that have not started
    captures,  \* record_positions jobs in the executor
    store,     \* the database file
    requests,  \* the page's requests, by slot
    tracks,    \* the page's Map of tracks: what is drawn for each flight
    budget     \* ghost: what may still happen

source  == <<poll, live>>
entry   == <<instance, stage, listed, capturing, open>>
capture == <<due, captures>>
page    == <<requests, tracks>>
vars    == <<clock, source, entry, capture, store, page, budget>>

Slot == 1 .. MaxFetch
Setups == 1 .. MaxSetup

(* A capture and a view leave out who has no id or no position.            *)
Placed(list) == {f \in Flight : list[f] = "placed"}

NoTrack   == [marker |-> 0, trail |-> {}]
NoTrails  == [f \in Flight |-> {}]
NoRequest == [at |-> "none", instance |-> 0, poll |-> 0, placed |-> {},
              trails |-> NoTrails]

Init ==
    /\ clock = 0
    /\ poll = 1
    /\ live \in Lists
    /\ instance = 0
    /\ stage = "idle"
    /\ listed = 0
    /\ capturing = {}
    /\ open = {}
    /\ due = [i \in Setups |-> 0]
    /\ captures = {}
    /\ store = EmptyStore
    /\ requests = [s \in Slot |-> NoRequest]
    /\ tracks = [f \in Flight |-> NoTrack]
    /\ budget \in Budgets

-----------------------------------------------------------------------------
(* What fails takes from the budget.                                       *)
Fault == budget.faults > 0 /\ budget' = [budget EXCEPT !.faults = @ - 1]

(* async_setup up to the first refresh: the capture is subscribed, and one *)
(* is taken at startup.  (One that raises before does not capture.)        *)
Setup ==
    /\ stage = "idle"
    /\ instance < budget.setups
    /\ instance' = instance + 1
    /\ stage' = "refreshing"
    /\ capturing' = capturing \cup {instance'}
    /\ open' = open \cup {instance'}
    /\ due' = [due EXCEPT ![instance'] = 1]
    /\ UNCHANGED <<clock, source, listed, captures, store, page, budget>>

(* The first refresh, and hass.data right after it.                        *)
FirstRefresh ==
    /\ stage = "refreshing"
    /\ stage' = "loaded"
    /\ listed' = instance
    /\ UNCHANGED <<clock, source, instance, capturing, open, capture, store, page, budget>>

(* The first refresh raises, or what comes after it: nobody unloads this   *)
(* coordinator, which goes on capturing beside the next one.               *)
SetupRaises ==
    /\ stage = "refreshing"
    /\ Fault
    /\ stage' = "idle"
    /\ listed' \in {listed, instance}
    /\ UNCHANGED <<clock, source, instance, capturing, open, capture, store, page>>

(* async_unload: a capture task that starts now finds no _db and returns.  *)
Unload ==
    /\ stage = "loaded"
    /\ stage' = "closing"
    /\ listed' = 0
    /\ capturing' = capturing \ {instance}
    /\ due' = [due EXCEPT ![instance] = 0]
    /\ UNCHANGED <<clock, source, instance, open, captures, store, page, budget>>

Close ==
    /\ stage = "closing"
    /\ stage' = "idle"
    /\ open' = open \ {instance}
    /\ UNCHANGED <<clock, source, instance, listed, capturing, capture, store, page, budget>>

(* Home Assistant dies, and what it had in hand with it; the page stays    *)
(* open in the browser.                                                    *)
Crash ==
    /\ open # {}
    /\ Fault
    /\ stage' = "idle"
    /\ listed' = 0
    /\ capturing' = {}
    /\ open' = {}
    /\ due' = [i \in Setups |-> 0]
    /\ captures' = {}
    /\ requests' = [s \in Slot |-> IF requests[s].at = "reading"
                                   THEN [NoRequest EXCEPT !.at = "failed"] ELSE requests[s]]
    /\ UNCHANGED <<clock, source, instance, store, tracks>>

(* Every state change of the watched sensor is a new poll.                 *)
Poll(list) ==
    /\ poll < MaxPolls
    /\ poll' = poll + 1
    /\ live' = list
    /\ due' = [i \in Setups |-> IF i \in capturing THEN due[i] + 1 ELSE due[i]]
    /\ UNCHANGED <<clock, entry, captures, store, page, budget>>

(* _capture_positions: the list as it is now, not as it was when the task  *)
(* was made, with one time for all rows.                                   *)
Rows(list, of, now) == {[flight |-> f, ts |-> now, of |-> of] : f \in Placed(list)}

(* Jobs alike are still two jobs: the least number no other job has.       *)
NextNumber ==
    LET taken == {job.n : job \in captures}
    IN  {n \in 1 .. MaxCaptures : n \notin taken /\ 1 .. n - 1 \subseteq taken}

CapturePositions(i) ==
    /\ due[i] > 0 /\ Cardinality(captures) < MaxCaptures
    /\ due' = [due EXCEPT ![i] = @ - 1]
    /\ IF Placed(live) = {}
       THEN UNCHANGED captures
       ELSE \E n \in NextNumber :
              captures' = captures \cup
                 {[n |-> n, instance |-> i, rows |-> Rows(live, poll, clock)]}
    /\ UNCHANGED <<clock, source, entry, store, page, budget>>

(* A job that stamps its rows when it writes them, and one that leaves the *)
(* prune to somebody else.                                                 *)
RecordStamped(file, rows, now) ==
    RecordPositions(file, {[r EXCEPT !.ts = now] : r \in rows}, now)

RecordOnly(file, rows, now) == InsertPositions(file, rows)

Record(file, rows, now) == RecordPositions(file, rows, now)

(* Threads of the executor run the jobs in any order.  run() refuses those *)
(* of a connection that is closed, and rolls back one that raises, as when *)
(* the connection of another coordinator has the file locked.              *)
RunCapture(job) ==
    /\ captures' = captures \ {job}
    /\ IF job.instance \in open
       THEN \/ store' = Record(store, job.rows, clock) /\ UNCHANGED budget
            \/ Fault /\ UNCHANGED store
       ELSE UNCHANGED <<store, budget>>
    /\ UNCHANGED <<clock, source, entry, due, page>>

-----------------------------------------------------------------------------
(* tick() sends a request - setInterval does not look whether the last one *)
(* has come back - and get() runs up to its await.  A request on its way   *)
(* to the view has no effect on anything, so its delay is left out.  No    *)
(* coordinator, no features; else a feature for each placed aircraft, and  *)
(* the trails are fetched of those with an id.                             *)
Fetch(s) ==
    /\ s <= budget.fetches /\ requests[s].at = "none"
    /\ requests' = [requests EXCEPT ![s] =
          IF listed # 0 /\ Placed(live) # {}
          THEN [@ EXCEPT !.at = "reading", !.instance = listed,
                         !.poll = poll, !.placed = Placed(live)]
          ELSE [@ EXCEPT !.at = "answered", !.poll = poll]]
    /\ UNCHANGED <<clock, source, entry, capture, store, tracks, budget>>

(* fetch_trails: WHERE flight_id IN (...) ORDER BY ts ASC.                 *)
Points(f) == {[ts |-> p.ts, of |-> p.of] : p \in {q \in store.positions : q.flight = f}}

FetchTrails(ids) == [f \in Flight |-> IF f \in ids THEN Points(f) ELSE {}]

(* The executor job of the view, refused by a closed connection; then get  *)
(* answers with the trails of two points or more.                          *)
ReadTrails(s) ==
    /\ requests[s].at = "reading"
    /\ requests' = [requests EXCEPT ![s] =
          IF @.instance \in open
          THEN [@ EXCEPT !.at = "answered", !.instance = 0,
                         !.trails = FetchTrails(requests[s].placed)]
          ELSE [NoRequest EXCEPT !.at = "failed"]]
    /\ UNCHANGED <<clock, source, entry, capture, store, tracks, budget>>

TwoPoints(trail) == \E p, q \in trail : p # q

(* upsertAircraft, upsertTrail and pruneRemovedTracks: a line that is      *)
(* drawn stays until an answer has two points for it, or no aircraft; with *)
(* one that does not redraw the lines there are.                           *)
UpsertAircraft(drawn, answer) ==
    [f \in Flight |-> IF f \in answer.placed THEN [drawn[f] EXCEPT !.marker = answer.poll]
                                             ELSE drawn[f]]

UpsertNewTrails(drawn, answer) ==
    [f \in Flight |-> IF drawn[f].trail = {} /\ TwoPoints(answer.trails[f])
                      THEN [drawn[f] EXCEPT !.trail = answer.trails[f]]
                      ELSE drawn[f]]

UpsertTrails(drawn, answer) ==
    [f \in Flight |-> IF TwoPoints(answer.trails[f])
                      THEN [drawn[f] EXCEPT !.trail = answer.trails[f]]
                      ELSE drawn[f]]

(* No prune at all, and the one there is.                                  *)
PruneNothing(drawn, answer) == drawn

PruneRemovedTracks(drawn, answer) ==
    [f \in Flight |-> IF f \in answer.placed THEN drawn[f] ELSE NoTrack]

(* tick(), from the answer on.                                             *)
Draw(s) ==
    /\ requests[s].at = "answered"
    /\ LET answer == requests[s]
           drawn  == UpsertTrails(UpsertAircraft(tracks, answer), answer)
       IN  tracks' = PruneRemovedTracks(drawn, answer)
    /\ requests' = [requests EXCEPT ![s] = NoRequest]
    /\ UNCHANGED <<clock, source, entry, capture, store, budget>>

(* An HTTP error, or an answer that never comes: what is drawn stays.      *)
ShowError(s) ==
    /\ \/ requests[s].at = "failed" /\ UNCHANGED budget
       \/ requests[s].at # "none" /\ Fault
    /\ requests' = [requests EXCEPT ![s] = NoRequest]
    /\ UNCHANGED <<clock, source, entry, capture, store, tracks>>

Tick ==
    /\ clock < MaxTime
    /\ clock' = clock + 1
    /\ UNCHANGED <<source, entry, capture, store, page, budget>>

Next ==
    \/ Setup \/ FirstRefresh \/ SetupRaises \/ Unload \/ Close \/ Crash
    \/ \E list \in Lists : Poll(list)
    \/ \E i \in Setups : CapturePositions(i)
    \/ \E job \in captures : RunCapture(job)
    \/ \E s \in Slot : Fetch(s) \/ ReadTrails(s) \/ Draw(s) \/ ShowError(s)
    \/ Tick

Spec == Init /\ [][Next]_vars

(* The interval goes on for as long as the page is open, the event loop    *)
(* and the executor run what they are given, and an answer that is not     *)
(* lost arrives.  The source owes nobody a poll.                           *)
FairSpec ==
    /\ Spec
    /\ WF_vars(\E s \in Slot : Fetch(s))
    /\ \A s \in Slot : /\ WF_vars(ReadTrails(s))
                       /\ WF_vars(Draw(s) \/ ShowError(s))

-----------------------------------------------------------------------------
Row   == [flight : Flight, ts : Nat, of : Nat]
Point == [ts : Nat, of : Nat]

RequestType == [at : {"none", "reading", "answered", "failed"}, instance : Nat, poll : Nat,
                placed : SUBSET Flight, trails : [Flight -> SUBSET Point]]

(* Type invariant of the map's data path.                                  *)
TypeOK ==
    /\ {clock, poll} \subseteq Nat /\ budget \in BudgetType
    /\ live \in Lists
    /\ instance \in 0 .. MaxSetup /\ listed \in 0 .. MaxSetup
    /\ stage \in {"idle", "refreshing", "loaded", "closing"}
    /\ capturing \subseteq Setups /\ open \subseteq Setups
    /\ due \in [Setups -> Nat]
    /\ captures \subseteq [n : Nat, instance : Nat, rows : SUBSET Row]
    /\ store \in StoreOf(Nat)
    /\ requests \in [Slot -> RequestType]
    /\ tracks \in [Flight -> [marker : Nat, trail : SUBSET Point]]

(* A line on the map never joins two visits that are further apart than    *)
(* the retention, although nothing is pruned while the sky is empty and a  *)
(* flight id or call sign comes back: the first sample of the new visit    *)
(* prunes the old ones in the same unit of work.                           *)
LinesSpanRetention ==
    \A f \in Flight : \A p, q \in tracks[f].trail : p.ts - q.ts <= TrailRetention

(* A line runs through the source's polls in their order, although the     *)
(* jobs that store them run in any order, captures fall into one second,   *)
(* one may be written after an unload and a new setup, and a coordinator   *)
(* whose setup raised goes on capturing beside the next one.               *)
LinesRunForward ==
    \A f \in Flight : \A p, q \in tracks[f].trail : p.ts < q.ts => p.of <= q.of

(* Once the source is quiet and a coordinator stays in hass.data, the map  *)
(* shows exactly the aircraft of the live list, where the last poll has    *)
(* them, for good: overlapping requests whose answers come in the wrong    *)
(* order, errors, a crash and a reload before do not leave it behind.      *)
ListStays == <>[](listed # 0)

MapCatchesUp ==
    ListStays => <>[](\A f \in Flight :
                        tracks[f].marker = IF f \in Placed(live) THEN poll ELSE 0)

(* The lines follow, although they are read after the list and a capture   *)
(* is written when it may: as soon as two points of an aircraft are stored *)
(* its line is, for good, the one that is stored, and no older one stays   *)
(* beside the newer marker.                                                *)
LinesCatchUp ==
    ListStays => <>[](\A f \in Placed(live) :
                        TwoPoints(Points(f)) => tracks[f].trail = Points(f))
================================================================================
