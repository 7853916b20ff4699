# Verification of ha-skywatch

TLA+ specifications, model-checking configurations and machine-checked proofs for
the `skywatch` custom integration of Home Assistant
(`src/custom_components/skywatch`).  Skywatch listens to a flight-radar source,
stores every aircraft that crosses a radius around home and every movement at a
tracked airport in SQLite, and shows the result as sensors, a map and bus events.

Paths below are relative to `src/custom_components/skywatch/`.

## 1. The system

### Components, their state and operations

| Component | Code | State | Operations |
|---|---|---|---|
| Source adapter | `backends/base.py`, `backends/fr24.py` | bus listeners, listener lists | setup (needs Flightradar24), teardown, four event handlers, `current_flights` |
| Coordinator | `coordinator.py` | `_db`, `_current_page`, `_current_search`, listeners, `data` | `async_setup`, `async_unload`, `_on_*`, `_async_persist_*`, `_capture_positions`, `async_set_page`, `async_set_search_term`, `_async_update_data` |
| Shared connection | `storage/connection.py` | `_lock`, `_closed`, the connection's one transaction | `open_db`, `run`, `close` |
| Tables | `storage/schema.py`, `storage/repository.py` | `entries`, `sightings`, `airport_movements`, `flight_positions` | statements, and the four units of work `record_*` |
| Migrations | `storage/migrations.py` | schema objects, columns, `user_version` | `run_migrations` |
| Read side | `storage/queries.py`, `data_builder.py` | none | `build_data` and the queries it runs |
| Watch list, flags | `classify.py` | the configured list | `match_watch`, `is_helicopter`, `is_military` |
| Entry life cycle | `__init__.py`, `config_flow.py` | `hass.data`, services, views | setup, retry, reload, unload, remove |
| Legacy import | `legacy_import.py`, `services.py`, `scripts/backfill-legacy-window.py` | a second connection, TEMP tables, the write lock | `import_legacy_window`; the one-shot `import_legacy_db` |
| HTTP and map page | `http.py`, `www/skywatch-map.html` | tracks and markers in the page | GeoJSON view, polling page |
| Entity platforms | `sensor.py`, `binary_sensor.py`, `number.py`, `text.py`, `button.py`, `switch.py` | the alerts switch | getters over `coordinator.data`, setters that call the coordinator |

### How they interact

The source's handlers run on Home Assistant's event loop.  Each one fires
`skywatch_sighting` on the bus and creates a task; the task hands a unit of work to
Home Assistant's executor, a pool of threads that run in parallel; a unit holds
the lock of `SerializedConnection` from its first statement to its commit.  When a
stored exit or movement comes back, its task asks for a refresh, a request that Home
Assistant's debouncer drops while a refresh is in progress; a refresh is one
more executor job, which runs all the queries of `build_data` under the same lock
and publishes one dict to the entities.  Users change the page or the search
term and ask for a refresh too.  The legacy import opens a connection of its own, so
what it shares with the rest is the database file and SQLite's write lock.
Unloading drops the listeners and `_db` at once and closes the connection in the
executor, while tasks and jobs of that coordinator may still be on their way.  A
setup that raises in its first refresh, or behind it, unloads nothing: its coordinator
goes on listening and storing beside the one of the retry.

### What is hard about it, and what correctness means

* *Connection.*  Threads in parallel on a connection with one transaction; units that
  raise in the middle; a close and a crash; an import that commits to the same file.
  Correct: units are atomic and isolated, nobody inherits an open transaction, nothing runs after the close,
  every job ends, rows match what callers were told.
* *Pipeline.*  Entry and exit of a flight are independent jobs; setups that raise,
  reload, failure and crash between the announcement and the row.  Correct: one row per
  stored event, no event dropped while its coordinator listens, and, with one coordinator
  at a time, an entry time joined once and to its own visit.
* *Refresh.*  Changes that come while a refresh is in progress, whose requests are
  dropped.  Correct: a quiet dashboard lacks nothing but those, and with the interval not
  even those; the last request wins, the page shown exists; the entities follow, and are
  unavailable exactly when the last refresh failed.
* *Queries.*  A build is many transactions, each with a clock reading of its own; days
  of 23 and 25 hours; texts compared as texts; limits.  Correct: the tiles of
  one build fit together, and today is the local day.
* *Map.*  Positions stored by jobs in any order; a list read before an await and trails
  after it; requests that overtake each other.  Correct: a line runs forward and is no
  longer than the retention, and markers and lines catch up with the list and the
  table.
* *Life cycle.*  Four places for a setup to fail; retries and reloads.  Correct: what
  is in `hass.data` is usable, an unloaded coordinator leaves nothing, and no event
  is taken twice but after a setup that raised.
* *Import.*  Concurrent imports, a live writer, a second logger, failures.  Correct: no
  duplicates between imports, all or nothing, nothing staged is lost.
* *Migrations.*  Statements that commit as they go, and a crash between any two.
  Correct: the version tells the truth, and the file can always be opened.
* *Watch list.*  One rule in Python and again in SQL, and so for the military codes; an
  event whose row comes later, or not at all.  Correct: they agree.

`PROJECT.json` lists each hazard at its line, with the properties that would catch
it going wrong.

## 2. Modules

| Module | Models | Composed of |
|---|---|---|
| `Repository` | every write statement and unit of work as a pure operator from store to store | |
| `UnitsOfWork` | the promise of the connection: jobs as atomic units | extends `Repository` |
| `SerializedConnection` | the connection at the grain of SQL statements | extends `Repository`, refines `UnitsOfWork` |
| `EventLog` | the promise of the pipeline: each event settled once, with its row | |
| `Coordinator` | events to tasks to jobs to rows, with the entry's unload and reload | extends `Repository`, refines `EventLog`; a unit is one step, which `SerializedConnection` justifies |
| `LiveMap` | polls to captures to positions to requests to what the page draws | extends `Repository` |
| `Refresh` | requests, refreshes, `build_data`, the data shown | |
| `Entities` | the states of the entities over that data, the boxes and the live list | extends `Refresh` |
| `Queries` | every statement of a build, over both tables, the clock and a time zone | |
| `WatchList` | the watch rule and the military codes in each of their places | |
| `Lifecycle` | setup, failure, retry, reload and removal of the entry | |
| `AtomicImport` | the promise of the import: its rows, of events without one, come at one instant | |
| `LegacyImport` | concurrent windowed imports on the live file | refines `AtomicImport` |
| `Migrations` | `open_db` and the ladder, statement by statement | |
| `RepositoryLemmas` | what the statements preserve | extends `Repository` |
| `SerializedConnectionProofs`, `CoordinatorProofs`, `LiveMapProofs`, `LegacyImportProofs` | theorems | each extends its module |
| `RefreshProofs` | theorems about `Refresh` and `Entities` | extends `Entities` |
| `SetupProofs` | theorems about `Lifecycle` and `Migrations` | extends both |
| `ReadSideProofs` | theorems about `WatchList` and `Queries` | extends both |

`MC*` modules give the model values; their `.cfg` files choose bounds and properties.

### Correspondence to the code

**Repository.**  A store is a record with one field per table.  `entries` has a primary
key and is a function; `sightings` and `airport_movements` may hold equal rows
and are sequences; `flight_positions` is a set keyed by `(flight, ts)`.  Times are
whole seconds, as `_iso` keeps them.  Payload columns are abstracted to the event
a row was written for.  `RecordEntry`, `RecordExit`, `RecordMovement` and
`RecordPositions` are the `record_*` functions.

**SerializedConnection.**  `pc[j]` is the next statement of job `j`.  `work` is what the
connection sees and `disk` the committed file; `inTx` is `conn.in_transaction`.
No statement's guard mentions the lock: that statements of two jobs do not mix is a
property, not an assumption.  `Acquire` is `with self._lock` (any waiting thread
may win), `Enter`/`Refuse` the check of `_closed`, `Raise` a failing statement
(with the implicit BEGIN done or not, or with SQLite's own rollback), `Unwind` the
`except BaseException` branch.  `Crash` is a restart on the same file.  `ImportCommit` is
the import's commit on its own connection (`services.py:71`), at any time but while a
transaction is open on this one; of its rows only the number is kept, as they touch no
row of the coordinator's.  A query sees the tables and that number.

**UnitsOfWork.**  State: committed tables, the outcome of each job, what each reading
job read.  `Apply(j)` does the whole of a unit in one step; `Raise`, `Refuse` and
`Close` leave no trace in the tables.  `Query` reads the tables of one moment, but an
earlier query of the build may have seen fewer imported rows than a later one.  A prune in a unit may use a clock reading
made before its commit, as in the code.

**Coordinator.**  `bus` is the event of the source that is being delivered: `Hear(c)` is
the handler of one coordinator, and every one that listens runs it before anything else
happens.  `Announce` is a `skywatch_sighting` with its task; `StartTask` the task up to its
await (`_db is None` gives up); `Run`, `Refuse`, `Raise` the executor job.  Tasks and jobs
run in any order, which covers both eager and scheduled starts of tasks.  A job is
tied to the coordinator that submitted it (`instance`), so one of before a reload meets
a closed connection.  `phase` is how far the entry has got, `live` the coordinators with
listeners and a `_db`, `open` those with an open connection.  `SetupRaises` is a first
refresh, or anything behind it, that raises: the coordinator stays in both, and the next
`Setup` comes beside it.  Then there are two connections, and the SELECT of
`take_entry_time`, which comes before the transaction of its DELETE, may find what the
other connection replaces or takes next (`RunBesideAnother`); the ghost `alone` says that
this has not come about.  `inside` and `visit` are the world: which aircraft is there,
and the event that announced it; the code has no such state.

**EventLog.**  A log of events, a fate for each, and the two tables with a row per event
of their kinds.  `Store` settles an event and writes its row in one step; `Drop` settles
it without one.  `Coordinator` maps tasks and queued jobs to "pending".

**LiveMap.**  `live` is `current_flights()` and `poll` numbers its versions; a position is
the number of the poll it is taken from, so that order can be told.  `listed` is the
coordinator in `hass.data`, which the view asks; `capturing` are those subscribed to the
source with a `_db`, from `Setup` on and also after `SetupRaises`; `open` those with an open
connection.  `CapturePositions` is `_capture_positions` up to its executor call (the list as
it is then, one time for all rows), `RunCapture` the job, in any order, refused by a
closed connection or rolled back when it raises.  `Fetch` is `get` of the GeoJSON view up
to its await, `ReadTrails` its executor job and the answer, `Draw` the page's `tick` from the
answer on: `upsertAircraft`, `upsertTrail`, `pruneRemovedTracks`.  `Fetch` does not wait for
earlier answers, as `setInterval` does not.  `budget` is what may still fail.

**Refresh.**  `wanted` is the debounced request; `refresh` the one in progress, with the
arguments `_build_data` read; `data` what the entities show.  Home Assistant's
`DataUpdateCoordinator` is external: one refresh at a time; requests between two
refreshes are folded into one, and a request while a refresh is in progress is dropped by
its debouncer (`RequestRefresh`); a timer starts one unasked; a build that raises keeps the
old data.  The first refresh, in `async_setup`, does not go through the debouncer and is
the initial state.  The ghost `missed` says of what kind the requests were that were
dropped after the build had read what they were about.  `CountRows` and `Query` are the two statements of
`query_recent`: a build holds the connection, but the import has one of its own and may
commit between them.

**Entities.**  A state is written when the coordinator tells its listeners: after each
success and after the first failure.  `States` is what the property getters return
at that moment, which is not the moment the refresh read its arguments.  `EntitiesNext`
runs the steps of `Refresh` and writes states with `Publish`.

**Queries.**  `Statements` are those of `build_data` in their order; `Result` says what each
returns, the tiles of the last hours with the aircraft in view added, which are counted
when `_build_data` is called.  Rows are numbered in the order they were inserted.  `Wall`, `Fold` and `Utc` are
`astimezone` with one change of the clocks, `LocalMidnight` is
`_local_midnight_utc_iso`, which keeps `fold` when it replaces the hour; `ThisWeek` is the
comparison of an ISO text with the text of SQLite's `datetime`.  The days of the
model's run are shorter (`Day`, `WeekDays`), the arithmetic is the same.  The live writer waits
while a build holds the connection; the import does not.

**Lifecycle.**  One step is what runs on the loop between two awaits that suspend.
Coordinators are numbered by attempt.  `registered` is `hass.data`, where a retry of the
entry overwrites what an attempt before it left.  `Forward` is all that comes after: the
platforms, the services, the views, and any of it may raise.  Home Assistant's config
entries are external: a setup that raised is tried again, setup and unload do not overlap, and
an entry is unloaded before it is taken off the list.

**LegacyImport.**  A row is `[table, key, time, photo, event, by]`: `key` stands for the
payload columns compared, `event` and `by` are ghosts that only properties read.
`Stage` is the COUNT and CREATE TEMP TABLE of each table, `Begin` takes the write
lock, `Copy` runs `commit_sql`, `Abandon` is the `except` branch.

**AtomicImport.**  The rows of the live tables and the imports that got to their end.  `Record`
is a row of the integration's own, once per event; `Merge` is a whole import in one step.
`LegacyImport` maps its committed tables and the imports that are "done"; windows,
stages, locks, the old logger, failures and crashes are hidden.

**Migrations.**  The 18 statements of `BASE_SCHEMA_SQL`, four ALTERs and two UPDATEs,
then `user_version` and the commit.  DDL is durable at once; the UPDATEs open the
transaction that `user_version` joins.

**WatchList.**  `Matches`/`match_watch` translate `classify.py`, `Where` the three WHERE
clauses of `query_watch_aircraft`.  A text is what it spells and its case.
`Listed` is `is_helicopter` and `is_military`, `WhereMilitary` the `IN` of `query_military`, which
folds the column and not the configured codes.  `Enter`, `Exit` and `Movement` announce an
event; the row of an exit is stored by its job later (`Store`), in any order, or lost with
it (`Lose`), and rows without an event come from the import.  `Military` and `Count` are what a
build's two queries find; they are stated for every moment, as a build may run at any.

## 3. What the runs check

Passing runs (2 workers, at most some three minutes each on a small machine):

| Run | States | Shows |
|---|---|---|
| `connection` | 286 k | three jobs of any kind: `OneUnitAtATime`, `EntryTimeAccountedFor` (a recorded entry's time is in its row or in a sighting, never lost half-way), `RowsMatchOutcome`, `ReadsDifferByImportsOnly` (the queries of a build see one commit of the coordinator's tables, and may see more imported rows than the one before); the statements implement `UnitsOfWork` (`RefinesUnitsOfWork`); `EveryJobEnds` |
| `pipeline` | 6.4 M | with setups that raise among its steps, the pipeline implements `EventLog` (`RefinesEventLog`); `DroppedOnlyByUnload`; and, unless two coordinators have shared the database, `EntryJoinedOnce` in any order of jobs, and `JoinsItsOwnVisit` for a flight whose events are further apart than its jobs take |
| `livemap` | 1.6 M | `LinesSpanRetention`, `LinesRunForward`, and the liveness properties `MapCatchesUp` (the markers are the live list's, where the last poll has them, whatever failed, was overtaken or reloaded before) and `LinesCatchUp` (the line of an aircraft with two points in the table is the table's) |
| `refresh` | 1.3 M | `QuietIsFresh` (at rest the sensors lack only what was asked for after the last build had read it), `ShownPageHasRows`, `CountsNeverGoBack`, and the liveness properties `LastPageIsShown` and `EveryRowIsCounted`; of the entities `BoxesShowTheLast` and the liveness property `EntitiesCatchUp` |
| `queries` | 7.3 M | `TypeOK` (no list is longer than its LIMIT, no count larger than its table, the aircraft in view aside), `TodayIsToday`, `WeekIsSevenToEightDays`, `WindowsNest` (the tiles of the last hours exceed the week's by the aircraft in view at most), `ListsMatchCounts` (among others, the movements counted are those of the local day up to the LIMIT), `HistogramHoldsToday` |
| `lifecycle` | 539 k | `UnloadLeavesNothing`, `TwiceOnlyAfterFailedSetup` (an event is taken twice only if a setup that raised left its coordinator listening) |
| `migrations` | 454 k | `VersionTellsTruth`, `RerunIsNoOp`, `AlwaysOpens` |
| `watches` | 1.2 M | `SensorAgreesWithMatcher`, `TaggedExitsAreCounted` (once its job has run), `MilitaryIsCounted` (never more than were flagged, and for upper-case codes all of them) |
| `import` | 1.7 M | `ImportsNeverRepeat`, `AllOrNothing`, and for events that have no event alike within reach `StagedIsKept`, `SkippedIsSameEvent`; the import implements `AtomicImport` (`RefinesAtomicImport`) |

The other type invariants, and some safety properties that are proved as well
(`CleanHandover`, `NoUseAfterClose`, `ExactlyOneRow`, `OrphansNeverAccumulate`,
`UnavailableIsFailed`, `RegisteredIsUsable`, and `SkipsWhatIsThere`, which `AtomicImport`
says as part of `Merge`), have no run: section 4 has them for
every value of the constants.

Runs that end in a violation are the places where the code does something else than
the repository says.  Each checks one property, taken from the quoted text:

| Run | The repository says | The code does |
|---|---|---|
| `watches_entry` | blueprint, lines 4-6: every event of a watched aircraft is tagged | entries carry no registration, so they are not |
| `lifecycle_twice` | `repository.py:209`: one call per source event | a failed first refresh leaves its coordinator listening |
| `lifecycle_services` | `__init__.py:87-88`: services and views go with the last unload | the entry is still listed while it is unloaded |

Smaller divergences, visible in the modules and without a run of their own:

* `coordinator.py:163` says `_async_db` returns None once the database is closed; a job that
  was submitted before the close runs after it and raises (`Refuse` in `Coordinator`; the
  event is lost, as `DroppedOnlyByUnload` allows for an unload).
* `number.py:49` says the coordinator clamps the page to `total_pages`; only the result is
  clamped (`ClampedPage` in `Refresh`), and the number entity shows the page asked for.
* `models.py:35-37` says `entry_time` is None only for rows from before entry capture; the
  prune takes the entry of any visit longer than the TTL, and its exit is stored
  with NULL (`JoinsItsOwnVisit` allows for it).
* `data_builder.py:65-68` takes the aircraft in the area and the recent exits for disjoint,
  and their sum for a distinct count; an aircraft that came back is counted twice
  (`active` in `Refresh`).
* `binary_sensor.py:3-5` says the live entities reflect the real-time state and not the
  refresh tick; their values are read when a refresh is announced, and at no other
  time (`TellListeners` in `Entities`).
* `_local_midnight_utc_iso` (`queries.py:66-69`) keeps `fold`: where clocks go back to
  midnight, as in Havana, the first hour of the day comes twice, and in its second run
  "today" begins an hour late.  `TodayIsToday` leaves out
  exactly these readings (`RepeatsMidnight`).
* `query_movements_today` and `query_search` (`queries.py:323`) count the rows they list, so
  that their counts end at the limit, 30 and 25 (`ListedMovements` in `Queries`).
* `is_military` folds the configured codes and `query_military` does not: a code in lower
  case, which `__init__.py:64` takes as it is written, flags events that the sensor leaves
  out (`MilitaryIsCounted` says so; the defaults of `const.py` are upper case).
* `query_watch_aircraft` strips the texts of a watch, `match_watch` does not; no flow of
  this version stores texts for which that makes a difference.
* `coordinator.py:333` asks for a refresh after every stored exit, and so do the page and
  search boxes; what is asked for while a refresh is in progress is dropped, and shows
  with the interval's next one (`missed` in `Refresh`).
* A tile of the last hours counts aircraft in view and the week's does not, so that
  "active in 24 h" may exceed "this week" (`WindowsNest` bounds by how much).
* `legacy_import.py:372` says a row is skipped when the target holds *the same event*; what
  is compared is the columns and a time window (`SameRow`), so an alike row of
  another event is skipped as well.  The properties speak of events without such a
  twin (`Lone`).

### Bounds

* *Jobs.*  Three jobs are a holder, a waiter and a latecomer; `MCWorkloads` has every choice
  of three of the six kinds of unit, each in one order, as jobs differ in their units
  alone.  Every place for a failure, a close, a crash and one import occurs.  The theorems
  are for any number.
* *Flights.*  Rows of different flights meet only in the two prunes, which look at
  times alone, and so one flight is enough; the theorems are for any number.
* *Time.*  A TTL of 0 or 1 and a clock of 1 or 2 put a row below, at and above the cutoff.
  `TrailRetention = 0` does the same for positions.
* *Events.*  Three events are a visit whose exit is lost and the entry of the next, or
  a whole visit and a movement between; the third can join, replace or prune what the
  first left behind.
* *Failures, crashes, instances.*  One failure and one crash at any point; in the pipeline
  (`MaxFault`) one of the two, and two coordinators, the second after an unload or beside
  the first; four setups in `Lifecycle`, which is two failures before and a
  reload after a good one; two interruptions of a migration, so that one falls into
  the repair of the other.
* *Pages.*  Page size 1 with two rows: an empty table, pages in the middle and at the end,
  requests beyond the end and below 1.  Pages that are not full need a larger page
  size; they are covered by the theorem, which is for all of them.
* *Requests.*  `MaxAsk` requests of the user, two, are one under way and one that
  overtakes it; rows, failures and the interval come at any time.
* *Map.*  One flight, which may lose its position, and an aircraft without an id; two
  polls in one second or two, retention 1.  `MCBudgets` shares out what makes the run
  large: a reload under two requests in flight; a fault (a setup or a capture that raises,
  a crash, an answer lost) and another setup; a fault under two requests.
* *Queries.*  Days of three hours and weeks of two days, so that a clock of nine hours
  passes midnights, the change of the clocks and the whole week; two rows and a limit of 1,
  so that lists are cut; one hour or one import between the statements of a build.
  The zones put their clocks forward from midnight, back to midnight, and back by two hours
  within a day; until the change they are zones that never change, and the theorems are for
  all zones.  No aircraft or one is in view.
* *Codes.*  Configured codes in upper and in lower case; a military aircraft whose type
  comes in lower case, and helicopters that are named and blocked.  Three events and one
  import leave, store and lose rows in any order.
* *Import.*  Two imports and two events over both tables, with the tolerance and the
  legacy logger's delay at 1; a window that cuts between them.

Deadlock is not checked where the bounds make the system stop; a system whose events
are all settled has nothing left to do.  `refresh` and `queries` check it.

### Fairness

Safety needs none.  `EveryJobEnds` assumes weak fairness of `Acquire` and of the steps
of each job: a thread that can run does.  Weak fairness is enough for the lock, although
`threading.Lock` is not first come, first served: each of finitely many jobs takes it once
and gives it back, so from some moment on it is free for the last one that waits.
`LastPageIsShown`, `EveryRowIsCounted` and `EntitiesCatchUp` assume that the refresh timer
fires and that the executor runs the build and its result is published; nothing is
assumed of users or aircraft, and nothing of requests, which may all be dropped.
`MapCatchesUp` and `LinesCatchUp` assume that the page goes on asking
(`setInterval` lives as long as the page), that the executor runs what it is given and
that an answer that is not lost arrives; faults of the network are bounded, the source
owes nobody a poll, and the properties speak of a coordinator that stays in `hass.data`,
whatever was unloaded, raised or died before.
`AlwaysOpens` assumes that whoever starts Home Assistant again does so; failures are
bounded.

## 4. What is proved

Seven modules hold theorems, each about every set of flights, jobs, imports or units and
every bound of its module, and `RepositoryLemmas` says what the statements return.  For
each specification a theorem or lemma `...Invariance` has the inductive invariant and the
others follow from it.

### `SerializedConnectionProofs`

| Theorem | Statement |
|---|---|
| `TypeCorrect` | `Spec => []TypeOK` |
| `MutualExclusion` | `Spec => []OneUnitAtATime` |
| `LockIsGivenBack` | `Spec => [](lock # NoJob => lock \in Job /\ pc[lock] \in Inside)` |
| `HandoverIsClean` | `Spec => []CleanHandover` |
| `ClosedIsClosed` | `Spec => []NoUseAfterClose` |
| `ReadsShareOneCommit` | `Spec => []ReadsDifferByImportsOnly` |
| `OutcomeTellsRows` | `Spec => []RowsMatchOutcome` |
| `NoEntryTimeIsLost` | `Spec => []EntryTimeAccountedFor` |
| `Refinement` | `Spec => RefinesUnitsOfWork` |

They rest on `RepositoryAssumption`, `JobAssumption` and `UnitsAssumption`: model values
are distinct, times are natural numbers, and units are well-formed.

*The argument.*  None of the invariants is inductive alone: that a commit leaves
`disk` consistent depends on nobody else having written to `work`, which depends on the
lock, which depends on where every job stands.  `IInv` (theorem `Invariance`) says: a
job inside `run` holds the lock, and only it; with no transaction open, `work = disk`; and
for the job inside, `Progress` says that `work` is exactly `disk` plus what the statements
it has executed so far do (`SoFar`, by label), the value it took from `entries`
included.  Each action has a lemma; the lemmas share three shapes, *execute a statement*,
*move on inside* and *leave* (`ExecuteStep`, `MoveStep`, `LeaveStep`).  `RepositoryLemmas`
supplies what the statements return.

*Reads.*  What a query of a build sees of the coordinator's tables is `disk`, and stays
`disk` while the build holds the lock, as only a holder commits; the import adds to
`imported` at any time, so no more can be said of its rows than that the first query saw
no more of them than the last.

*Refinement.*  `disk` maps to the abstract tables, the ended labels to outcomes, and what a
finished reader saw to its reading.  The step that maps to an abstract one is the last of
a job: the commit, the last query, the refusal, the close, the unwinding; all others are
hidden.  `SoFar` at the label `commit` says that what is committed is the effect of the
whole unit on the tables as committed before, at some clock reading up to now.

*What is in the file.*  The same fact gives `FileStep`: a step leaves the file as it is, or
it ends one job and the file becomes what the whole unit makes of it.  The two properties of
the file are then inductive over the file alone.  `RowsInv` says that the finished exits have
the rows of `sightings` one for one, and the finished movements those of
`airport_movements`; a row is added by the job that ends, so a pairing is only extended
(`RowAdded`).  `EntriesInv` says of each flight with finished entries that the time of one of
them (the last, but which one that is the state does not say) is accounted for: waiting in
`entries`, joined to a sighting, or old enough to be pruned.  Three lemmas say what an entry, an exit and the
other units do to that (`EntryAccounts`, `ExitAccounts`, `OthersAccount`), and what is old
enough stays so (`StaysPruned`).

### `CoordinatorProofs`

| Theorem | Statement |
|---|---|
| `TypeCorrect` | `Spec => []TypeOK` |
| `OneRowPerEvent` | `Spec => []ExactlyOneRow` |
| `OnlyUnloadDrops` | `Spec => []DroppedOnlyByUnload` |
| `OrphansPruned` | `Spec => OrphansNeverAccumulate` |
| `JoinedOnce` | `Spec => []EntryJoinedOnce` |
| `OwnVisitJoined` | `Spec => []JoinsItsOwnVisit` |
| `Refinement` | `Spec => RefinesEventLog` |

From `RepositoryAssumption` and `CoordinatorAssumption` (entries and exits are not
movements, bounds are numbers); setups may raise as often as they like.  *The argument.*
`ExactlyOneRow` counts rows, and counting
is not inductive: a row that is added could be the second.  `RowsInv` says instead of
either table that its rows are distinct, each of a stored event of its kinds, and that each
such event has one.  For a step to keep that, events must differ (`Numbered`), and for
`DroppedOnlyByUnload` every coordinator that listens must have an open connection
(`OpenWhileUp`): then a job that is refused is of one that was unloaded.

*Where an entry's time goes.*  `EntryJoinedOnce` counts too, so `Joins` gives every time held
by a row of either table a recorded entry as its source, no two of them the same; an exit that
takes the time deletes the row of `entries`, and the source passes to its sighting
(`SourcesStay`, `SourceAdded`, `SourceTaken`).  This is so while one connection is open
(`OneConnection`, from the last part of `OpenWhileUp`); with two, an exit may join what the
other connection has taken, so both properties are conditional on `alone`, which no step
makes true again (`AloneBefore`).  `JoinsItsOwnVisit` needs the order of events as well.
`OInv` says of a flight whose jobs keep up that its earlier jobs are settled (`PromptInv`);
that an open visit began with the flight's last event (`VisitOfFlight`), also one whose
exit the bus is delivering (`VisitOfBus`), and an exit comes next
after the entry of its visit (`VisitOfExit`); and that the last stored entry still has its row,
with its own time, or is older than the TTL (`RowOfEntry`).

*Refinement.*  "task" and
"queued" map to pending, every other end but "stored" to dropped; a unit of work is one
`Store`, a raise or a refusal one `Drop`, a crash drops all that is pending, and what the
world, the clock and the entry do is hidden.

### `LiveMapProofs`

| Theorem | Statement |
|---|---|
| `TypeCorrect` | `Spec => []TypeOK` |
| `LinesAreShort` | `Spec => []LinesSpanRetention` |
| `LinesAreInOrder` | `Spec => []LinesRunForward` |

From `RepositoryAssumption` and `LiveMapAssumption` (lists give a state to every flight,
bounds are numbers), for any number of setups that raise, unloads and crashes.
*The argument.*  A line is in order because its points were in order in the table, and
those because captures are stamped when they sample the list, although they are stored in
any order.  So `Sampled` relates each capture that waits to the table and to every other
that waits: of two rows, the later one is of the same poll or a later one (`Forward`).
`StoreOk` adds that what the prune leaves is `Short`, and `PageOk` carries both to the
answers and the tracks.

### `RefreshProofs`

The first part proves every safety property of `Refresh` that the run `refresh` checks, for
every page size, set of aircraft and search terms, and any number of rows and
failures, from `RefreshAssumption` (finitely many aircraft, a positive page size):

| Theorem | Statement |
|---|---|
| `TypeCorrect` | `Spec => []TypeOK` |
| `PagesHaveRows` | `Spec => []ShownPageHasRows` |
| `NoChangeIsLost` | `Spec => []QuietIsFresh` |
| `CountersNeverGoBack` | `Spec => CountsNeverGoBack` |

The second, about `Entities`, builds on it, from `EntitiesAssumption` (helicopters are aircraft) as well:

| Theorem | Statement |
|---|---|
| `EntitiesTypeCorrect` | `EntitiesSpec => []EntitiesTypeOK` |
| `AvailabilityIsHonest` | `EntitiesSpec => []UnavailableIsFailed` |
| `BoxesAreFollowed` | `EntitiesSpec => []BoxesShowTheLast` |

*The argument.*  `Paging` is the arithmetic of `query_recent`: division by the page size
(`Division`) and the number of rows on a page, with a table that may have grown since the
COUNT.  The invariant follows a build from its arguments to the sensors: `Pages` says
that what is built and shown has pages that exist; `Counts` that a count under way is
between the one shown and the table; `ForTheLast` that, unless another refresh is
wanted, the arguments of the build under way are the last ones asked for, or what was
asked since is in `missed`;
`NothingMissing` that, unless an exit has yet to ask, has asked or has asked in vain, the
rows a count lacks are those imported since.  `QuietIsFresh` alone is not inductive: it says
nothing while a build is under way.

Every step of `EntitiesSpec` is one of `Refresh`, so its invariant holds here too.  `EInv` adds
that entities that are available show the data there is and, at rest, boxes with what was
asked for last (`ShowsData`), that the page of the data is not
beyond the one asked for (`Clamped`), and that they are available exactly when the
last refresh succeeded; the last is needed for `ShowsData`, as a second failure
tells nobody.

### `SetupProofs`

Of the life cycle:

| Theorem | Statement |
|---|---|
| `TypeCorrect` | `Spec => []TypeOK` |
| `RegisteredWorks` | `Spec => []RegisteredIsUsable` |
| `NothingIsLeft` | `Spec => []UnloadLeavesNothing` |
| `TwiceOnlyThen` | `Spec => []TwiceOnlyAfterFailedSetup` |

From `LifecycleAssumption`.  *The argument.*  Only the last attempt is going on
(`OneAtATime`), and how far a coordinator has got says what it holds (`Holds`); of one
that failed, only that it holds everything if it is in `hass.data`.  If no failed one listens, at most the last one does, so an
event adds at most one copy.

Of the migrations, which a setup runs before anything else:

| Theorem | Statement |
|---|---|
| `VersionsTellTruth` | `MigrationsSpec => []VersionTellsTruth` |
| `RerunsAreNoOps` | `MigrationsSpec => []RerunIsNoOp` |
| `NoStatementIsRefused` | whenever an index is to be made, its table is there |

From `MigrationsAssumption`: an older file has some of the tables, indexes and columns of
the schema, each row is in one of the two tables with photos, and failures are bounded by
a number.  *The argument.*  `VersionTellsTruth` is about the file and not inductive: the
step that commits version 1 must know what the ladder has made before.  `MigrationsInv`
says what each stage has behind it.  `OneTransaction`: the connection and the file differ
in photos and version only, and not before the UPDATEs begin.  `MadeSoFar`: the statements
up to `step` have made their objects and columns, whoever made them, this attempt or an
earlier one.  `PhotosSoFar`: in a file at version 0 the photos are those it was
found with, and the open transaction has cleaned the tables it has been through, which is
why an UPDATE is never applied to its own result.  `Done`: a file at version 1 is the
original with everything made and cleaned, but for the rows stored since.
`NoStatementIsRefused` is the safety half of `AlwaysOpens`.

### `LegacyImportProofs`

| Theorem | Statement |
|---|---|
| `TypeCorrect` | `Spec => []TypeOK` |
| `SafeToRerun` | `Spec => []ImportsNeverRepeat` |
| `BothTablesOrNone` | `Spec => []AllOrNothing` |
| `CommitsOnlyNewEvents` | `Spec => SkipsWhatIsThere` |
| `NothingFallsThrough` | `Spec => StagedIsKept` |
| `SkippedHasARow` | `Spec => SkippedIsSameEvent` |
| `Refinement` | `Spec => RefinesAtomicImport` |

From `ImportAssumption`, `FactsAssumption` and `DelayAssumption`: the old logger stamps a row
no later than the tolerance allows.  *The argument.*  Rows of one event are alike (`Rows`):
same table and columns, times no further apart than the tolerance, so the re-check
under the write lock finds any that is there, and what is copied is of events without a row
(`Fresh`).  That stays true until the commit because nobody else writes (`Exclusive`).
Conversely, a row that the re-check finds for an event that is `Lone` is of that
event, so that after each table's statement what was staged of it has a row (`Kept`).

For the refinement `Commit` is the one step of an import that shows (`CommitIsMerge`): by `Fresh`
what it adds is of events without a row, and `OneCopyOfAnEvent` makes it one of each.
`LiveWrite` is `Record`, which needs one fact that is not in the invariant, `Recorded`: an
event with a row of the integration's own has been taken by it, so it takes no event
twice.  An event may still have two rows, an import's and then the integration's:
`record_exit` does not look, and `Record` says so.  All other steps stutter (`RestIsHidden`).

### `ReadSideProofs`

Of the watch list, for any lists, codes, aircraft and number of events:

| Theorem | Statement |
|---|---|
| `SensorsAgree` | `WatchSpec => []SensorAgreesWithMatcher` |
| `TaggedAreCounted` | `WatchSpec => []TaggedExitsAreCounted` |
| `MilitaryAreCounted` | `WatchSpec => []MilitaryIsCounted` |

From `WatchAssumption` (slugs are unique within a list and not empty, as `from_dict` and the
dictionary of results have it); of the codes nothing is assumed.  *The argument.*  That SQL
and Python agree on one row is `WhereIsMatches` and `WhereMilitaryIsListed`, the latter in one
direction unless the codes are upper case.  That they agree on numbers needs rows and events
to correspond, and a count of pairs is no invariant: `EverySettledIsStored` says for *every*
set of aircraft that as many rows of the integration's own as settled exits are of that set,
in whatever order the jobs run (`PlacesOfAppend`), and `RowsOfSome` adds the imported ones;
`ExitsAreClassified` says that an exit carries what the
matcher says of its aircraft.  An event names the first entry that matches, so its slug's
count is that of an entry that matches (`MatchOfList`).

Of the queries, for any rows, zones, lengths of day and week, LIMIT and number of
imports:

| Theorem | Statement |
|---|---|
| `QueriesTypes` | `Spec => []TypeOK` |
| `TodaysAreCounted` | `Spec => []TodayIsToday` |
| `WeeksAreSevenToEightDays` | `Spec => []WeekIsSevenToEightDays` |
| `CountsCoverLists` | `Spec => []ListsMatchCounts` |
| `WindowsAreNested` | `Spec => []WindowsNest` |
| `HistogramIsWhole` | `Spec => []HistogramHoldsToday` |

From `QueriesAssumption`: a week has more than one day, a build takes less than one day, and
zones move their clocks by at most two hours, with no midnight strictly inside the hours
that are skipped or repeated.  The change of date of Samoa, which skipped a day in 2011,
is not covered: there "today" does begin at an instant that is not of today.  A build that
takes a day would let `WindowsNest` compare windows that do not meet; it takes
milliseconds to seconds.

*The argument.*  Three lemmas are about the arithmetic.  `MidnightIsWhereTodayBegins`: in any
zone, unless it repeats midnight's hour, the instants up to now from `LocalMidnight` on
are those whose wall clock shows today's date; the cases are those of `Fold` and of the side
of the change.  `MidnightIsRecent`: it is never longer ago than a week's days allow.
`WeekFacts`: comparing texts of different shape lets in less than a day too much.
`NewestList` says that a list in descending order with a LIMIT exists, which the `CHOOSE` of
`Newest` needs.  The invariant then keeps, for each statement of the build under way,
what it returned: `Answered` gives it in terms of the
prefix of the table that the statement saw, which appending rows does not change.
`AskedInOrder` says that later statements saw no smaller prefix and no earlier clock, and
`AskedLately` that none is longer ago than the build; two answers are compared by comparing
sets of rows (`SeenCount`, `SinceCounts`), and the tiles of the last hours after taking off
the aircraft in view, the same number for both.

The histogram's total is a fold over its buckets, which adds one bucket at a time in an
order left to `CHOOSE`.  `SumOfBuckets` says that, over any set of buckets, it is the
number of rows that fall into one of them: those numbers solve the fold's equation, and a
smallest set of buckets on which the two differed would have a smaller one.  All buckets
hold all rows, as a wall clock has an hour (`BucketFacts`); the buckets up to the present
hour hold what `today` counts, as an instant since midnight shows no later hour
(`TodayIsNotAhead`).  The last needs that no clock goes back by more than an hour: where one
does, as at Troll in Antarctica, an hour of today is ahead of the present one, and the run
has such a zone for which the second half of the property fails without its condition.

### Only model-checked

Liveness under fairness, out of the prover's reach as is ENABLED: `EveryJobEnds`,
`AlwaysOpens`, `LastPageIsShown`, `EveryRowIsCounted`, `EntitiesCatchUp`, `MapCatchesUp`,
`LinesCatchUp`.  The safety halves of the
first two are theorems, `LockIsGivenBack` and `NoStatementIsRefused`.  Every invariant and
every other action property that a run checks is a theorem.

Facts about data that need induction are proved where a least counterexample does
(`LeastExists`, from the well-foundedness of finite sets under inclusion), as for the lists
in `NewestList` and the fold in `SumOfBuckets`; the library's induction theorems cannot be
used with these provers.

## 5. What is not modelled

* The one-shot `import_legacy_db`: the service of that name runs `import_legacy_window`,
  only tests call it, and the comment below it says that running it twice doubles every row.
  The summary's numbers (candidates, inserted, skipped), which are logged and nothing else.
* The alerts switch, one flag that Home Assistant restores and no code of the
  integration reads; the layout of attributes; `const.py`, `_device.py`, the normalizers
  but `normalize_photo_url`: constants, getters and pure conversions.
* The view of the static page; popups, icons and colours of the map.
* Decoration of rows (`_decorate`, `queries.py:42`): local times, dwell time, links.
* Payload columns, wording and formatting, except where a property is about them (photo
  URLs, case and absence of texts, times as texts).
* The watch list and the codes come from stored entry options; there is no options flow in
  this version of `config_flow.py`, so they are constants.
* Shell scripts, blueprints, dashboards, translations.

## 6. Plan

Order: what can lose or double data first, then what can show something wrong.

1. *Done:* the connection, the pipeline, the map, the refresh path with its entities, the
   life cycle, the import, the migrations, the watch list and the queries, each with runs
   and proofs.  Three abstract specifications: `UnitsOfWork`, `EventLog` and `AtomicImport`.
2. *Next, theorems:* what texts with blanks around them would do to the agreement of
   `Where` with `Matches`.
3. *Next, models:* the numbers of the import's summary; two flights on the map, for which
   the run is too large today and the theorems stand; which coordinator an entry's time
   goes to when two share the database, of which the properties say nothing now.
4. *Next, abstract specification:* a register that `Refresh` implements: the sensors show
   a past state of the tables and move forward only.

## 7. Running it

    tlc -config MCSerializedConnection.cfg MCSerializedConnection
    tlapm SerializedConnectionProofs.tla

and so for every `MC*.cfg` with its module and for `CoordinatorProofs`, `LiveMapProofs`,
`RefreshProofs`, `SetupProofs`, `ReadSideProofs`, `LegacyImportProofs`, `RepositoryLemmas`.

`PROJECT.json` names every run with its module and configuration, maps each definition to
the lines it models, and gives for every property a mutation of a mapped definition that
breaks it.
