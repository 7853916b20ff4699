----------------------------- MODULE LiveMapProofs -----------------------------
(***************************************************************************)
(* The safety properties of LiveMap for any flights, lists, retention and  *)
(* bounds.  The invariant follows a sample: no row is younger than the     *)
(* clock or of a poll to come; rows sampled in order are of polls in       *)
(* order, wherever they are; and what a job has pruned spans no more than  *)
(* the retention.                                                          *)
(***************************************************************************)
EXTENDS LiveMap, RepositoryLemmas

(* Rows and points up to now, in order, and within the retention.          *)
Past(S, now, last) == \A p \in S : p.ts <= now /\ p.of <= last
Forward(S, T)      == \A p \in S, q \in T : p.ts < q.ts => p.of <= q.of
Short(S)           == \A p, q \in S : p.ts - q.ts <= TrailRetention

Drawable(S) == Short(S) /\ Forward(S, S)

Sampled(job) ==
    /\ Past(job.rows, clock, poll)
    /\ Forward(job.rows, store.positions)
    /\ Forward(store.positions, job.rows)
    /\ \A other \in captures : Forward(job.rows, other.rows)

StoreOk ==
    /\ Past(store.positions, clock, poll)
    /\ Drawable(store.positions)

RequestOk(r) ==
    /\ r.at = "none" => r = NoRequest
    /\ \A f \in Flight : Drawable(r.trails[f])

PageOk ==
    /\ \A s \in Slot : RequestOk(requests[s])
    /\ \A f \in Flight : Drawable(tracks[f].trail)

IInv == TypeOK /\ StoreOk /\ (\A job \in captures : Sampled(job)) /\ PageOk

-----------------------------------------------------------------------------
(* An empty trail can be drawn, which is to say that nothing is.           *)
LEMMA EmptyDrawable == Drawable({})
  BY DEF Drawable, Short, Forward

(* A request that is not there, or failed, has the type of one.            *)
LEMMA NoRequestType ==
  /\ NoRequest \in RequestType
  /\ [NoRequest EXCEPT !.at = "failed"] \in RequestType
  BY DEF NoRequest, NoTrails, RequestType

(* Nor does it ask anything.                                               *)
LEMMA NoRequestOk ==
  RequestOk(NoRequest) /\ RequestOk([NoRequest EXCEPT !.at = "failed"])
  BY EmptyDrawable DEF RequestOk, NoRequest, NoTrails

(* The invariant holds at the start.                                       *)
LEMMA InitInvariant == Init => IInv
  <1> SUFFICES ASSUME Init PROVE IInv
    OBVIOUS
  <1>1. store.positions = {} /\ store \in StoreOf(Nat)
    BY EmptyStoreType DEF Init, EmptyStore
  <1>2. requests \in [Slot -> RequestType]
    BY NoRequestType DEF Init
  <1>3. tracks \in [Flight -> [marker : Nat, trail : SUBSET Point]]
    BY DEF Init, NoTrack
  <1>4. TypeOK
    <2>1. /\ instance \in 0 .. MaxSetup /\ listed \in 0 .. MaxSetup
          /\ stage \in {"idle", "refreshing", "loaded", "closing"}
          /\ capturing \subseteq Setups /\ open \subseteq Setups
          /\ due \in [Setups -> Nat]
      BY LiveMapAssumption DEF Init
    <2>2. {clock, poll} \subseteq Nat /\ budget \in BudgetType
      BY LiveMapAssumption DEF Init
    <2>3. live \in Lists /\ captures \subseteq [n : Nat, instance : Nat, rows : SUBSET Row]
      BY DEF Init
    <2> QED BY <1>1, <1>2, <1>3, <2>1, <2>2, <2>3, Zenon DEF TypeOK
  <1>5. StoreOk
    BY <1>1, EmptyDrawable DEF StoreOk, Past
  <1>6. PageOk
    <2>1. \A s \in Slot : RequestOk(requests[s])
      BY NoRequestOk DEF Init
    <2>2. \A f \in Flight : Drawable(tracks[f].trail)
      BY EmptyDrawable DEF Init, NoTrack
    <2> QED BY <2>1, <2>2 DEF PageOk
  <1> QED BY <1>4, <1>5, <1>6 DEF IInv, Init

-----------------------------------------------------------------------------
(* A step that leaves the samples and the page alone, and at most lets     *)
(* time or the source go on, or loses jobs.                                *)
LEMMA QuietStep ==
  ASSUME IInv, TypeOK', clock' \in {clock, clock + 1}, poll' \in {poll, poll + 1},
         captures' \subseteq captures, store' = store,
         tracks' = tracks,
         \A s \in Slot : \/ requests'[s] = requests[s]
                         \/ requests'[s] \in {NoRequest, [NoRequest EXCEPT !.at = "failed"]}
  PROVE  IInv'
  <1>1. StoreOk'
    BY DEF IInv, StoreOk, Past, TypeOK, StoreOf
  <1>2. ASSUME NEW job \in captures' PROVE Sampled(job)'
    BY <1>2 DEF IInv, Sampled, Past, TypeOK, Row
  <1>3. \A s \in Slot : RequestOk(requests'[s])
    BY NoRequestOk DEF IInv, PageOk
  <1>4. PageOk'
    BY <1>3 DEF IInv, PageOk, RequestOk
  <1> QED BY <1>1, <1>2, <1>4 DEF IInv

-----------------------------------------------------------------------------
(* What a capture samples is rows, up to now.                              *)
LEMMA RowsSampled ==
  ASSUME TypeOK
  PROVE  /\ Rows(live, poll, clock) \in SUBSET Row
         /\ \A p \in Rows(live, poll, clock) : p.ts = clock /\ p.of = poll
  BY DEF TypeOK, Rows, Placed, Row

(* What record_positions leaves was there or is new, is not older than the *)
(* retention, and is a database.                                           *)
LEMMA Recorded ==
  ASSUME TypeOK, NEW rows \in SUBSET Row
  PROVE  /\ Record(store, rows, clock) \in StoreOf(Nat)
         /\ Record(store, rows, clock).positions \subseteq store.positions \cup rows
         /\ \A p \in Record(store, rows, clock).positions : p.ts >= clock - TrailRetention
  <1>1. rows \in SUBSET [flight : Flight \cup {NoFlight}, ts : Nat, of : Nat]
    BY DEF Row
  <1>2. InsertPositions(store, rows) \in StoreOf(Nat)
    BY <1>1, InsertPositionsType DEF TypeOK
  <1>3. Record(store, rows, clock) \in StoreOf(Nat)
    BY <1>2, PruneOldPositionsType DEF Record, RecordPositions
  <1>4. InsertPositions(store, rows).positions \subseteq store.positions \cup rows
    BY DEF InsertPositions, TypeOK, StoreOf
  <1>5. Record(store, rows, clock).positions
          = {p \in InsertPositions(store, rows).positions : p.ts >= clock - TrailRetention}
    BY <1>2 DEF Record, RecordPositions, PruneOldPositions, StoreOf
  <1> QED BY <1>3, <1>4, <1>5

(* The points of a flight are points of rows in the table.                 *)
LEMMA PointsStored ==
  ASSUME TypeOK, NEW f \in Flight
  PROVE  /\ Points(f) \in SUBSET Point
         /\ \A p \in Points(f) : \E q \in store.positions : p.ts = q.ts /\ p.of = q.of
  <1>1. \A q \in store.positions : q.ts \in Nat /\ q.of \in Nat
    BY DEF TypeOK, StoreOf
  <1>2. \A p \in Points(f) : \E q \in store.positions : p = [ts |-> q.ts, of |-> q.of]
    BY DEF Points
  <1> QED BY <1>1, <1>2 DEF Point

(* tick() on an answer: a line is dropped, or is the answer's or the one   *)
(* there was.                                                              *)
LEMMA Drawn ==
  ASSUME TypeOK, NEW s \in Slot, Draw(s), NEW f \in Flight
  PROVE  /\ f \notin requests[s].placed => tracks'[f] = NoTrack
         /\ f \in requests[s].placed =>
               tracks'[f].trail \in {tracks[f].trail, requests[s].trails[f]}
         /\ tracks'[f] \in [marker : Nat, trail : SUBSET Point]
  <1> DEFINE answer == requests[s]
             up     == UpsertAircraft(tracks, answer)
             drawn  == UpsertTrails(up, answer)
  <1>1. answer \in RequestType /\ tracks[f] \in [marker : Nat, trail : SUBSET Point]
    BY DEF TypeOK
  <1>2. tracks'[f] = IF f \in answer.placed THEN drawn[f] ELSE NoTrack
    BY DEF Draw, PruneRemovedTracks
  <1>3. f \in answer.placed => up[f] = [tracks[f] EXCEPT !.marker = answer.poll]
    BY DEF UpsertAircraft
  <1>4. drawn[f] \in {up[f], [up[f] EXCEPT !.trail = answer.trails[f]]}
    BY DEF UpsertTrails
  <1>5. NoTrack \in [marker : Nat, trail : SUBSET Point]
    BY DEF NoTrack
  <1>6. answer.poll \in Nat /\ answer.trails[f] \in SUBSET Point
    BY <1>1 DEF RequestType
  <1> HIDE DEF answer, up, drawn
  <1>7. CASE f \notin answer.placed
    BY <1>2, <1>5, <1>7 DEF answer
  <1>8. CASE f \in answer.placed
    <2>1. up[f] \in [marker : Nat, trail : SUBSET Point] /\ up[f].marker = answer.poll
            /\ up[f].trail = tracks[f].trail
      BY <1>1, <1>3, <1>6, <1>8
    <2>2. /\ drawn[f] \in [marker : Nat, trail : SUBSET Point] /\ drawn[f].marker = answer.poll
          /\ drawn[f].trail \in {tracks[f].trail, answer.trails[f]}
      BY <1>4, <1>6, <2>1
    <2> QED BY <1>2, <1>8, <2>2 DEF answer
  <1> QED BY <1>7, <1>8

(* Every step keeps the types.                                             *)
LEMMA TypeStep == ASSUME TypeOK, [Next]_vars PROVE TypeOK'
  <1> USE DEF source, entry, capture, page, vars
  <1>1. CASE Setup \/ FirstRefresh \/ Unload \/ Close
    <2>1. CASE Setup
      <3>1. instance' \in Setups /\ budget.setups \in 0 .. MaxSetup
        BY <2>1, LiveMapAssumption DEF TypeOK, Setup, Setups, BudgetType
      <3>2. due' \in [Setups -> Nat]
        BY <2>1, <3>1 DEF TypeOK, Setup
      <3>3. instance' \in 0 .. MaxSetup
        BY <3>1, LiveMapAssumption DEF Setups
      <3> QED BY <2>1, <3>1, <3>2, <3>3 DEF TypeOK, Setup
    <2>2. CASE FirstRefresh
      BY <2>2 DEF TypeOK, FirstRefresh
    <2>3. CASE Unload
      <3>1. due' \in [Setups -> Nat]
        BY <2>3 DEF TypeOK, Unload
      <3>2. listed' \in 0 .. MaxSetup /\ stage' = "closing" /\ capturing' \subseteq Setups
        BY <2>3, LiveMapAssumption DEF TypeOK, Unload
      <3> QED BY <2>3, <3>1, <3>2 DEF TypeOK, Unload
    <2>4. CASE Close
      BY <2>4 DEF TypeOK, Close
    <2> QED BY <1>1, <2>1, <2>2, <2>3, <2>4
  <1>2. Fault => budget' \in BudgetType
    BY DEF TypeOK, Fault, BudgetType
  <1>3. CASE SetupRaises
    BY <1>2, <1>3 DEF TypeOK, SetupRaises
  <1>4. CASE Crash
    <2>1. requests' \in [Slot -> RequestType]
      BY <1>4, NoRequestType DEF TypeOK, Crash
    <2> QED BY <1>2, <1>4, <2>1, LiveMapAssumption DEF TypeOK, Crash
  <1>5. ASSUME NEW list \in Lists, Poll(list) PROVE TypeOK'
    BY <1>5 DEF TypeOK, Poll
  <1>6. ASSUME NEW i \in Setups, CapturePositions(i) PROVE TypeOK'
    <2>1. captures' \subseteq [n : Nat, instance : Nat, rows : SUBSET Row]
      <3>1. \A n \in NextNumber : [n |-> n, instance |-> i, rows |-> Rows(live, poll, clock)]
                                    \in [n : Nat, instance : Nat, rows : SUBSET Row]
        BY RowsSampled, LiveMapAssumption DEF TypeOK, NextNumber, Setups
      <3> QED BY <1>6, <3>1 DEF TypeOK, CapturePositions
    <2>2. due' \in [Setups -> Nat]
      BY <1>6 DEF TypeOK, CapturePositions
    <2> QED BY <1>6, <2>1, <2>2 DEF TypeOK, CapturePositions
  <1>7. ASSUME NEW job \in captures, RunCapture(job) PROVE TypeOK'
    <2>1. job.rows \in SUBSET Row
      BY DEF TypeOK
    <2>2. store' \in StoreOf(Nat)
      BY <1>7, <2>1, Recorded DEF TypeOK, RunCapture
    <2> QED BY <1>2, <1>7, <2>2 DEF TypeOK, RunCapture
  <1>8. ASSUME NEW s \in Slot, Fetch(s) PROVE TypeOK'
    <2>1. Placed(live) \in SUBSET Flight
      BY DEF Placed
    <2>2. requests[s] \in RequestType /\ {poll, listed} \subseteq Nat
      BY LiveMapAssumption DEF TypeOK
    <2> DEFINE asked == [requests[s] EXCEPT !.at = "reading", !.instance = listed,
                                            !.poll = poll, !.placed = Placed(live)]
               empty == [requests[s] EXCEPT !.at = "answered", !.poll = poll]
    <2>3. asked \in RequestType /\ empty \in RequestType
      BY <2>1, <2>2 DEF RequestType
    <2>4. requests' \in {[requests EXCEPT ![s] = asked], [requests EXCEPT ![s] = empty]}
      BY <1>8 DEF Fetch
    <2>5. requests' \in [Slot -> RequestType]
      BY <2>3, <2>4 DEF TypeOK
    <2> QED BY <1>8, <2>5 DEF TypeOK, Fetch
  <1>9. ASSUME NEW s \in Slot, ReadTrails(s) PROVE TypeOK'
    <2>1. FetchTrails(requests[s].placed) \in [Flight -> SUBSET Point]
      BY PointsStored DEF FetchTrails
    <2>2. requests' \in [Slot -> RequestType]
      BY <1>9, <2>1, NoRequestType DEF TypeOK, ReadTrails, RequestType
    <2> QED BY <1>9, <2>2 DEF TypeOK, ReadTrails
  <1>10. ASSUME NEW s \in Slot, Draw(s) PROVE TypeOK'
    <2>1. tracks' \in [Flight -> [marker : Nat, trail : SUBSET Point]]
      BY <1>10, Drawn DEF Draw, PruneRemovedTracks
    <2>2. requests' \in [Slot -> RequestType]
      BY <1>10, NoRequestType DEF TypeOK, Draw, RequestType
    <2> QED BY <1>10, <2>1, <2>2 DEF TypeOK, Draw
  <1>11. ASSUME NEW s \in Slot, ShowError(s) PROVE TypeOK'
    <2>1. requests' \in [Slot -> RequestType]
      BY <1>11, NoRequestType DEF TypeOK, ShowError
    <2> QED BY <1>2, <1>11, <2>1 DEF TypeOK, ShowError
  <1>12. CASE Tick
    BY <1>12 DEF TypeOK, Tick
  <1>13. CASE UNCHANGED vars
    BY <1>13 DEF TypeOK
  <1> QED BY <1>1, <1>2, <1>3, <1>4, <1>5, <1>6, <1>7, <1>8, <1>9, <1>10, <1>11, <1>12,
             <1>13 DEF Next

-----------------------------------------------------------------------------
(* Samples of the past, in order, and not older than the retention, can be *)
(* drawn.                                                                  *)
LEMMA RecentDrawable ==
  ASSUME TypeOK, NEW S \in SUBSET [flight : Flight \cup {NoFlight}, ts : Nat, of : Nat],
         Past(S, clock, poll), Forward(S, S), \A p \in S : p.ts >= clock - TrailRetention
  PROVE  Drawable(S)
  BY RepositoryAssumption DEF Drawable, Short, Past, TypeOK

(* Any part of what can be drawn can be drawn.                             *)
LEMMA PointsDrawable ==
  ASSUME TypeOK, Drawable(store.positions), NEW f \in Flight
  PROVE  Drawable(Points(f))
  BY PointsStored DEF Drawable, Short, Forward

(* Two sets of rows in order are, with those of a third in order with      *)
(* both.                                                                   *)
LEMMA ForwardUnion ==
  ASSUME NEW A, NEW B, NEW S \in SUBSET (A \cup B), NEW T,
         Forward(A, T), Forward(B, T), Forward(T, A), Forward(T, B)
  PROVE  Forward(S, T) /\ Forward(T, S)
  BY DEF Forward

(* Taking a sample: it is of now, and so in order with all that were       *)
(* taken before.                                                           *)
LEMMA CaptureStep ==
  ASSUME IInv, TypeOK', NEW i \in Setups, CapturePositions(i)
  PROVE  IInv'
  <1> USE DEF source, entry, capture, page
  <1>1. CASE captures' = captures
    BY <1>1, QuietStep DEF CapturePositions
  <1>2. CASE captures' # captures
    <2> DEFINE rows == Rows(live, poll, clock)
    <2>1. PICK n \in NextNumber :
            captures' = captures \cup {[n |-> n, instance |-> i, rows |-> rows]}
      BY <1>2 DEF CapturePositions
    <2>2. \A p \in rows : p.ts = clock /\ p.of = poll
      BY RowsSampled DEF IInv
    <2> HIDE DEF rows
    <2>3. UNCHANGED <<clock, poll, store>>
      BY DEF CapturePositions
    <2>4. ASSUME NEW S \in SUBSET [flight : Flight \cup {NoFlight}, ts : Nat, of : Nat],
                 Past(S, clock, poll)
          PROVE  Forward(S, rows) /\ Forward(rows, S)
      BY <2>2, <2>4 DEF Forward, Past, IInv, TypeOK
    <2>5. Past(rows, clock, poll) /\ Forward(rows, rows)
      BY <2>2 DEF Past, Forward, IInv, TypeOK
    <2>6. Forward(rows, store.positions) /\ Forward(store.positions, rows)
      BY <2>4 DEF IInv, TypeOK, StoreOf, StoreOk
    <2>7. ASSUME NEW job \in captures
          PROVE  Forward(rows, job.rows) /\ Forward(job.rows, rows)
      <3>1. job.rows \in SUBSET [flight : Flight \cup {NoFlight}, ts : Nat, of : Nat]
        BY DEF IInv, TypeOK, Row
      <3> QED BY <2>4, <3>1 DEF IInv, Sampled
    <2>8. ASSUME NEW job \in captures' PROVE Sampled(job)'
      <3>1. CASE job \in captures
        BY <2>1, <2>3, <2>7, <3>1 DEF IInv, Sampled
      <3>2. CASE job \notin captures
        <4>1. job.rows = rows
          BY <2>1, <3>2
        <4> QED BY <2>1, <2>3, <2>5, <2>6, <2>7, <4>1 DEF Sampled
      <3> QED BY <3>1, <3>2
    <2>9. StoreOk' /\ PageOk'
      BY <2>3 DEF CapturePositions, IInv, StoreOk, PageOk
    <2> QED BY <2>8, <2>9 DEF IInv
  <1> QED BY <1>1, <1>2

(* Writing a sample, in whatever order the jobs run.                       *)
LEMMA RecordStep ==
  ASSUME IInv, TypeOK', NEW job \in captures, RunCapture(job)
  PROVE  IInv'
  <1> USE DEF source, entry, capture, page
  <1>1. /\ captures' = captures \ {job}
        /\ UNCHANGED <<clock, poll, requests, tracks>>
    BY DEF RunCapture
  <1>2. CASE store' = store
    BY <1>1, <1>2, QuietStep DEF IInv, TypeOK
  <1>3. CASE store' = Record(store, job.rows, clock)
    <2>1. job.rows \in SUBSET Row /\ Sampled(job)
      BY DEF IInv, TypeOK
    <2>2. /\ store' \in StoreOf(Nat)
          /\ store'.positions \subseteq store.positions \cup job.rows
          /\ \A p \in store'.positions : p.ts >= clock - TrailRetention
      BY <1>3, <2>1, Recorded DEF IInv
    <2>3. Past(store'.positions, clock, poll)
      BY <2>1, <2>2 DEF IInv, StoreOk, Sampled, Past
    <2>4. Forward(store.positions, store.positions) /\ Forward(job.rows, job.rows)
      BY <2>1 DEF IInv, StoreOk, Drawable, Sampled
    <2>5. Forward(store'.positions, store'.positions)
      BY <2>1, <2>2, <2>4 DEF Sampled, Forward
    <2>6. StoreOk'
      BY <1>1, <2>2, <2>3, <2>5, RecentDrawable DEF IInv, StoreOk, StoreOf
    <2>7. ASSUME NEW other \in captures' PROVE Sampled(other)'
      <3>1. other \in captures /\ Sampled(other)
        BY <1>1 DEF IInv
      <3>2. /\ Forward(job.rows, other.rows) /\ Forward(other.rows, job.rows)
            /\ Forward(store.positions, other.rows) /\ Forward(other.rows, store.positions)
        BY <2>1, <3>1 DEF Sampled
      <3>3. Forward(store'.positions, other.rows) /\ Forward(other.rows, store'.positions)
        BY <2>2, <3>2, ForwardUnion
      <3> QED BY <1>1, <3>1, <3>3 DEF Sampled
    <2>8. PageOk'
      BY <1>1 DEF IInv, PageOk
    <2> QED BY <2>6, <2>7, <2>8 DEF IInv
  <1> QED BY <1>2, <1>3 DEF RunCapture

(* A step of the page keeps the invariant if it does so for requests and   *)
(* tracks.                                                                 *)
LEMMA PageStep ==
  ASSUME IInv, TypeOK', UNCHANGED <<clock, poll, captures, store>>,
         \A s \in Slot : RequestOk(requests'[s]),
         \A f \in Flight : Drawable(tracks'[f].trail)
  PROVE  IInv'
  <1>1. StoreOk' /\ \A job \in captures' : Sampled(job)'
    BY DEF IInv, StoreOk, Sampled
  <1>2. PageOk'
    BY DEF PageOk, RequestOk
  <1> QED BY <1>1, <1>2 DEF IInv

(* A new request has no trails yet.                                        *)
LEMMA FetchStep ==
  ASSUME IInv, TypeOK', NEW s \in Slot, Fetch(s)
  PROVE  IInv'
  <1> USE DEF source, entry, capture, page
  <1>1. UNCHANGED <<clock, poll, captures, store, tracks>>
    BY DEF Fetch
  <1>2. requests[s] \in RequestType /\ RequestOk(requests[s]) /\ requests[s].at = "none"
    BY DEF IInv, TypeOK, PageOk, Fetch
  <1>3. requests'[s].trails = requests[s].trails /\ requests'[s].at # "none"
    BY <1>2 DEF Fetch, RequestType, IInv, TypeOK
  <1>4. requests[s].trails = NoTrails
    BY <1>2 DEF RequestOk, NoRequest
  <1>5. RequestOk(requests'[s])
    BY <1>3, <1>4, EmptyDrawable DEF RequestOk, NoTrails
  <1>6. ASSUME NEW r \in Slot PROVE RequestOk(requests'[r])
    <2>1. RequestOk(requests[r])
      BY DEF IInv, PageOk
    <2>2. r # s => requests'[r] = requests[r]
      BY DEF Fetch, IInv, TypeOK
    <2> QED BY <1>5, <2>1, <2>2
  <1> QED BY <1>1, <1>6, PageStep DEF IInv, PageOk

(* The trails an answer gets can be drawn.                                 *)
LEMMA ReadTrailsStep ==
  ASSUME IInv, TypeOK', NEW s \in Slot, ReadTrails(s)
  PROVE  IInv'
  <1> USE DEF source, entry, capture, page
  <1> DEFINE read == FetchTrails(requests[s].placed)
             full == [requests[s] EXCEPT !.at = "answered", !.instance = 0, !.trails = read]
  <1>1. UNCHANGED <<clock, poll, captures, store, tracks>>
    BY DEF ReadTrails
  <1>2. requests[s] \in RequestType
    BY DEF IInv, TypeOK
  <1>3. \A f \in Flight : Drawable(read[f])
    BY EmptyDrawable, PointsDrawable DEF FetchTrails, IInv, StoreOk
  <1> HIDE DEF read
  <1>4. RequestOk(full)
    BY <1>2, <1>3 DEF RequestOk, RequestType
  <1>5. requests' \in {[requests EXCEPT ![s] = full],
                       [requests EXCEPT ![s] = [NoRequest EXCEPT !.at = "failed"]]}
    BY DEF ReadTrails, read
  <1>6. ASSUME NEW r \in Slot PROVE RequestOk(requests'[r])
    <2>1. RequestOk(requests[r])
      BY DEF IInv, PageOk
    <2>2. requests'[r] \in {requests[r], full, [NoRequest EXCEPT !.at = "failed"]}
      BY <1>5 DEF IInv, TypeOK
    <2> QED BY <1>4, <2>1, <2>2, NoRequestOk
  <1> QED BY <1>1, <1>6, PageStep DEF IInv, PageOk

(* Drawing an answer draws its lines, or leaves those there are.           *)
LEMMA DrawStep ==
  ASSUME IInv, TypeOK', NEW s \in Slot, Draw(s)
  PROVE  IInv'
  <1> USE DEF source, entry, capture, page
  <1>1. UNCHANGED <<clock, poll, captures, store>>
    BY DEF Draw
  <1>2. ASSUME NEW r \in Slot PROVE RequestOk(requests'[r])
    BY NoRequestOk DEF Draw, IInv, TypeOK, PageOk
  <1>3. ASSUME NEW f \in Flight PROVE Drawable(tracks'[f].trail)
    <2>1. Drawable(tracks[f].trail) /\ Drawable(requests[s].trails[f])
      BY DEF IInv, PageOk, RequestOk
    <2>2. CASE f \notin requests[s].placed
      <3>1. tracks'[f] = NoTrack
        BY <2>2, Drawn DEF IInv
      <3> QED BY <3>1, EmptyDrawable DEF NoTrack
    <2>3. CASE f \in requests[s].placed
      BY <2>1, <2>3, Drawn DEF IInv
    <2> QED BY <2>2, <2>3
  <1> QED BY <1>1, <1>2, <1>3, PageStep

-----------------------------------------------------------------------------
(* The inductive invariant: every step keeps what the samples, the         *)
(* requests and the tracks are.                                            *)
THEOREM Invariance == Spec => []IInv
  <1>1. ASSUME IInv, [Next]_vars PROVE IInv'
    <2> USE DEF source, entry, capture, page
    <2>1. TypeOK'
      BY <1>1, TypeStep DEF IInv
    <2>2. CASE Setup \/ FirstRefresh \/ SetupRaises \/ Unload \/ Close
      BY <1>1, <2>1, <2>2, QuietStep DEF Setup, FirstRefresh, SetupRaises, Unload, Close
    <2>3. CASE Crash
      <3>1. /\ clock' = clock /\ poll' = poll /\ captures' \subseteq captures
            /\ store' = store /\ tracks' = tracks
        BY <2>3 DEF Crash
      <3>2. \A s \in Slot : requests'[s] \in {requests[s], [NoRequest EXCEPT !.at = "failed"]}
        BY <2>3 DEF Crash
      <3> QED BY <1>1, <2>1, <3>1, <3>2, QuietStep
    <2>4. ASSUME NEW list \in Lists, Poll(list) PROVE IInv'
      BY <1>1, <2>1, <2>4, QuietStep DEF Poll
    <2>5. ASSUME NEW i \in Setups, CapturePositions(i) PROVE IInv'
      BY <1>1, <2>1, <2>5, CaptureStep
    <2>6. ASSUME NEW job \in captures, RunCapture(job) PROVE IInv'
      BY <1>1, <2>1, <2>6, RecordStep
    <2>7. ASSUME NEW s \in Slot, Fetch(s) PROVE IInv'
      BY <1>1, <2>1, <2>7, FetchStep
    <2>8. ASSUME NEW s \in Slot, ReadTrails(s) PROVE IInv'
      BY <1>1, <2>1, <2>8, ReadTrailsStep
    <2>9. ASSUME NEW s \in Slot, Draw(s) PROVE IInv'
      BY <1>1, <2>1, <2>9, DrawStep
    <2>10. ASSUME NEW s \in Slot, ShowError(s) PROVE IInv'
      <3>1. \A r \in Slot : requests'[r] \in {requests[r], NoRequest}
        BY <1>1, <2>10 DEF ShowError, IInv, TypeOK
      <3>2. UNCHANGED <<clock, poll, captures, store, tracks>>
        BY <2>10 DEF ShowError
      <3> QED BY <1>1, <2>1, <3>1, <3>2, QuietStep
    <2>11. CASE Tick
      BY <1>1, <2>1, <2>11, QuietStep DEF Tick
    <2>12. CASE UNCHANGED vars
      BY <1>1, <2>1, <2>12, QuietStep DEF vars
    <2> QED BY <1>1, <2>2, <2>3, <2>4, <2>5, <2>6, <2>7, <2>8, <2>9, <2>10, <2>11, <2>12
            DEF Next
  <1> QED BY <1>1, InitInvariant, PTL DEF Spec

(* Types are kept.                                                         *)
THEOREM TypeCorrect == Spec => []TypeOK
  <1>1. IInv => TypeOK
    BY DEF IInv
  <1> QED BY <1>1, Invariance, PTL

(* No line joins two points further apart than the retention.              *)
THEOREM LinesAreShort == Spec => []LinesSpanRetention
  <1>1. IInv => LinesSpanRetention
    BY DEF IInv, PageOk, Drawable, Short, LinesSpanRetention
  <1> QED BY <1>1, Invariance, PTL

(* Lines run through the polls in order, in whatever order samples were    *)
(* written.                                                                *)
THEOREM LinesAreInOrder == Spec => []LinesRunForward
  <1>1. IInv => LinesRunForward
    BY DEF IInv, PageOk, Drawable, Forward, LinesRunForward
  <1> QED BY <1>1, Invariance, PTL
================================================================================
