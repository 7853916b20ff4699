-------------------------------- MODULE Queries --------------------------------
(***************************************************************************)
(* The read side: the statements of storage/queries.py over the two        *)
(* tables, and build_data, which runs one after the other.  Each is a      *)
(* transaction of its own and asks the clock for itself: between two of    *)
(* them time passes, and the legacy import, on a connection of its own,    *)
(* may commit.  The aircraft in view, which two tiles add, are counted     *)
(* before the first.  Paging is in Refresh, the watches are in WatchList.  *)
(*                                                                         *)
(* Time is in hours of UTC.  The days of this model have Day hours and its *)
(* weeks WeekDays days, so that a short clock sees several of them.  A     *)
(* time zone has one offset before an instant and one from it on.          *)
(***************************************************************************)
EXTENDS Integers, Sequences, FiniteSets, FiniteSetsExt

AtMost(a, b)  == IF a <= b THEN a ELSE b
AtLeast(a, b) == IF a >= b THEN a ELSE b
Inside(a, b) == IF a <= b THEN a + 1 .. b - 1 ELSE b + 1 .. a - 1

CONSTANTS
    NoName,      \* NULL or ''
    Kind,        \* what a sighting may be, see KindType
    Zones,       \* time zones, see ZoneType
    Day,         \* hours of a day: 24
    WeekDays,    \* days of a week: 7
    Limit,       \* LIMIT of the lists
    MaxRows,     \* bound: rows of both tables
    MaxInView,   \* bound: aircraft in view
    MaxTime,     \* bound: clock
    MaxBuild     \* bound: hours and imports that come between the statements of a build

(* airline, model and route are names or NoName; the rest is whether a row *)
(* meets the condition of query_overhead, has one of the military codes,   *)
(* and matches the search term.                                            *)
Conditions == {"overhead", "military", "search"}
KindType == [airline : STRING, model : STRING, route : STRING, meets : SUBSET Conditions]
ZoneType == [before : Int, after : Int, transition : Int]
Direction == {"landed", "took_off"}

(* No clock is moved by more than two hours, and no midnight is in the     *)
(* midst of the hours skipped or repeated; a week has more than one day,   *)
(* and a build takes less than one.                                        *)
ASSUME QueriesAssumption ==
    /\ Kind \subseteq KindType
    /\ Zones \subseteq ZoneType
    /\ {Day, Limit} \subseteq Nat \ {0}
    /\ \A zone \in Zones :
          /\ zone.after - zone.before \in -2 .. 2
          /\ \A wall \in Inside(zone.transition + zone.before, zone.transition + zone.after) :
                wall \div Day = (wall - 1) \div Day
    /\ WeekDays \in Nat \ {0, 1}
    /\ {MaxRows, MaxInView, MaxTime} \subseteq Nat
    /\ MaxBuild \in 0 .. Day - 1

VARIABLES
    tz,          \* the coordinator's time zone
    now,         \* the clock
    sightings,   \* rows: [time, is]
    movements,   \* rows: [time, direction]
    build,       \* how many statements this build has run, or -1 without one
    inView,      \* currently_in_area_count of this build
    between,     \* ghost: hours and imports since it began
    data         \* what they returned, and ghosts of when they ran

tables == <<sightings, movements>>
vars   == <<tz, now, tables, build, inView, between, data>>

-----------------------------------------------------------------------------
(* astimezone(tz): wall-clock hours, with fold set when the wall shows     *)
(* this hour for the second time.                                          *)
Wall(t) == t + (IF t < tz.transition THEN tz.before ELSE tz.after)
Fold(t) == t >= tz.transition /\ Wall(t) < tz.transition + tz.before
Date(t) == Wall(t) \div Day

(* astimezone(UTC): fold picks one of the two instants of an hour that the *)
(* wall shows twice; an hour it skips has the offset from before.          *)
Utc(wall, fold) ==
    LET known == IF fold THEN AtMost(tz.before, tz.after) ELSE AtLeast(tz.before, tz.after)
    IN  IF wall < tz.transition + known THEN wall - tz.before ELSE wall - tz.after

(* Midnight with the offset that holds now, and _local_midnight_utc_iso:   *)
(* replace(hour=0) changes the hour and keeps the fold.                    *)
MidnightOfNow(t) == Date(t) * Day - (Wall(t) - t)

LocalMidnight(t) == Utc(Date(t) * Day, Fold(t))

(* Rows from a time on, by index.                                          *)
Since(rows, t) == {i \in DOMAIN rows : rows[i].time >= t}

(* exit_time >= datetime('now','-7 days') compares the texts               *)
(* 'YYYY-MM-DDTHH:MM:SS+00:00' and 'YYYY-MM-DD HH:MM:SS': on the day of    *)
(* the cutoff 'T' is greater than ' ' and the hours are not looked at.  (A *)
(* day of now's would forget the seven.)                                   *)
ThisDay(t) == t \div Day

WeekBefore(t) == (t - WeekDays * Day) \div Day

(* With > for >=, and as it is.                                            *)
SinceTheDayAfter(rows, t) == {i \in DOMAIN rows : rows[i].time \div Day > WeekBefore(t)}

ThisWeek(rows, t) == {i \in DOMAIN rows : rows[i].time \div Day >= WeekBefore(t)}

(* ORDER BY time DESC, without and with its LIMIT.                         *)
AllOf(rows, among) == among

Newest(rows, among) ==
    CHOOSE list \in SUBSET among :
        /\ Cardinality(list) = AtMost(Limit, Cardinality(among))
        /\ \A i \in list, j \in among \ list : rows[i].time >= rows[j].time

(* GROUP BY a column with COUNT as n, NULL and '' left in, and left out.   *)
GroupsOfAll(rows, column) ==
    {[name |-> x, n |-> Cardinality({i \in DOMAIN rows : rows[i].is[column] = x})] :
        x \in {rows[i].is[column] : i \in DOMAIN rows}}

Groups(rows, column) == {g \in GroupsOfAll(rows, column) : g.name # NoName}

(* ORDER BY n DESC LIMIT; and the rare ones, HAVING n <= 2 ORDER BY n ASC. *)
Top(groups) ==
    CHOOSE list \in SUBSET groups :
        /\ Cardinality(list) = AtMost(Limit, Cardinality(groups))
        /\ \A g \in list, h \in groups \ list : g.n >= h.n

Rare(groups) ==
    LET few == {g \in groups : g.n <= 2}
    IN  CHOOSE list \in SUBSET few :
            /\ Cardinality(list) = AtMost(Limit, Cardinality(few))
            /\ \A g \in list, h \in few \ list : g.n <= h.n

Meeting(rows, condition) == {i \in DOMAIN rows : condition \in rows[i].is.meets}

(* A bucket for the hour of UTC, and the one of query_hour_histogram.      *)
BucketUtc(t) == t % Day

Bucket(t) == Wall(t) % Day

Histogram(rows) ==
    [h \in 0 .. Day - 1 |-> Cardinality({i \in DOMAIN rows : Bucket(rows[i].time) = h})]

-----------------------------------------------------------------------------
(* The statements of one build in their order.  query_overhead counts      *)
(* before it lists and query_military after; query_movements_today and     *)
(* query_search run one statement and count what it lists.                 *)
Statements == <<
    "today",
    "stats.count", "stats.today", "stats.this_week", "stats.top_airlines",
    "stats.top_aircraft", "stats.rare_aircraft",
    "overhead.count", "overhead.list",
    "military.list", "military.count",
    "top_routes", "hour_histogram", "movements_today",
    "active_1h", "active_24h",
    "search.list">>

(* query_movements_today that looks for its limit after it has counted.    *)
CountedMovements(rows, t) == [list  |-> Newest(rows, Since(rows, t)),
                              among |-> Since(rows, t)]

ListedMovements(rows, t) == [list  |-> Newest(rows, Since(rows, t)),
                             among |-> Newest(rows, Since(rows, t))]

MovementsToday(t) ==
    LET got == ListedMovements(movements, LocalMidnight(t))
        Of(direction) == Cardinality({i \in got.among : movements[i].direction = direction})
    IN  [list |-> got.list, count |-> Cardinality(got.among),
         landed |-> Of("landed"), took_off |-> Of("took_off")]

(* What a statement returns: rows by index, groups, buckets or a count.    *)
Result(name, t) ==
    CASE name \in {"today", "stats.today"} -> Cardinality(Since(sightings, LocalMidnight(t)))
      [] name = "stats.count"         -> Len(sightings)
      [] name = "stats.this_week"     -> Cardinality(ThisWeek(sightings, t))
      [] name = "stats.top_airlines"  -> Top(Groups(sightings, "airline"))
      [] name = "stats.top_aircraft"  -> Top(Groups(sightings, "model"))
      [] name = "stats.rare_aircraft" -> Rare(Groups(sightings, "model"))
      [] name = "overhead.count"      -> Cardinality(Meeting(sightings, "overhead"))
      [] name = "overhead.list"       -> Newest(sightings, Meeting(sightings, "overhead"))
      [] name = "military.list"       -> Newest(sightings, Meeting(sightings, "military"))
      [] name = "military.count"      -> Cardinality(Meeting(sightings, "military"))
      [] name = "top_routes"          -> Top(Groups(sightings, "route"))
      [] name = "hour_histogram"      -> Histogram(sightings)
      [] name = "movements_today"     -> MovementsToday(t)
      [] name = "active_1h"           -> Cardinality(Since(sightings, t - 1)) + inView
      [] name = "active_24h"          -> Cardinality(Since(sightings, t - Day)) + inView
      [] name = "search.list"         -> Newest(sightings, Meeting(sightings, "search"))

(* With the ghosts: when it was asked, and how many rows its table had.    *)
Table(name) == IF name = "movements_today" THEN movements ELSE sightings

Answer(name, t) == [result |-> Result(name, t), at |-> t, rows |-> Len(Table(name))]

NoData == [name \in {} |-> 0]

Init ==
    /\ tz \in Zones
    /\ now \in 0 .. MaxTime
    /\ sightings = << >>
    /\ movements = << >>
    /\ build = -1
    /\ inView = 0
    /\ between = 0
    /\ data = NoData

(* The live writer stores what happens now; it waits while a build holds   *)
(* the shared connection.                                                  *)
Free == Len(sightings) + Len(movements) < MaxRows

StoreSighting(kind) ==
    /\ build = -1
    /\ Free
    /\ sightings' = Append(sightings, [time |-> now, is |-> kind])
    /\ UNCHANGED <<tz, now, movements, build, inView, between, data>>

StoreMovement(direction) ==
    /\ build = -1
    /\ Free
    /\ movements' = Append(movements, [time |-> now, direction |-> direction])
    /\ UNCHANGED <<tz, now, sightings, build, inView, between, data>>

(* What happens during a build, up to the bound.                           *)
Between ==
    IF build = -1 THEN UNCHANGED between
    ELSE between < MaxBuild /\ between' = between + 1

(* The import commits a row of any earlier time, at any time.              *)
ImportSighting(t, kind) ==
    /\ Free
    /\ Between
    /\ sightings' = Append(sightings, [time |-> t, is |-> kind])
    /\ UNCHANGED <<tz, now, movements, build, inView, data>>

ImportMovement(t, direction) ==
    /\ Free
    /\ Between
    /\ movements' = Append(movements, [time |-> t, direction |-> direction])
    /\ UNCHANGED <<tz, now, sightings, build, inView, data>>

(* len(source.current_flights()), whatever is in view by now: an argument  *)
(* of build_data, so it is read before the first statement.                *)
StartBuild(flights) ==
    /\ build = -1
    /\ build' = 0
    /\ inView' = flights
    /\ between' = 0
    /\ UNCHANGED <<tz, now, tables, data>>

RunStatement ==
    /\ build \in 0 .. Len(Statements) - 1
    /\ build' = build + 1
    /\ data' = [name \in DOMAIN data \cup {Statements[build + 1]} |->
                  IF name = Statements[build + 1] THEN Answer(name, now) ELSE data[name]]
    /\ UNCHANGED <<tz, now, tables, inView, between>>

(* The sensors show the data, until those of the next build.               *)
EndBuild ==
    /\ build = Len(Statements)
    /\ build' = -1
    /\ inView' = 0
    /\ between' = 0
    /\ data' = NoData
    /\ UNCHANGED <<tz, now, tables>>

Tick ==
    /\ now < MaxTime
    /\ Between
    /\ now' = now + 1
    /\ UNCHANGED <<tz, tables, build, inView, data>>

Next ==
    \/ \E kind \in Kind : StoreSighting(kind)
    \/ \E kind \in Kind, t \in 0 .. now : ImportSighting(t, kind)
    \/ \E direction \in Direction : StoreMovement(direction)
    \/ \E direction \in Direction, t \in 0 .. now : ImportMovement(t, direction)
    \/ \E flights \in 0 .. MaxInView : StartBuild(flights)
    \/ RunStatement
    \/ EndBuild
    \/ Tick

Spec == Init /\ [][Next]_vars

-----------------------------------------------------------------------------
RowLists == {"overhead.list", "military.list", "search.list"}
Counts   == {"today", "stats.count", "stats.today", "stats.this_week",
             "overhead.count", "military.count"}
Tiles    == {"active_1h", "active_24h"}

(* The types of the state: no clock runs backwards, no row is of the       *)
(* future, and no statement returns more rows than its LIMIT or counts     *)
(* more rows than there were, but for the aircraft in view.                *)
TypeOK ==
    /\ tz \in Zones
    /\ now \in 0 .. MaxTime
    /\ sightings \in Seq([time : 0 .. now, is : Kind])
    /\ movements \in Seq([time : 0 .. now, direction : Direction])
    /\ build \in -1 .. Len(Statements)
    /\ inView \in 0 .. MaxInView
    /\ between \in 0 .. MaxBuild
    /\ DOMAIN data = {Statements[i] : i \in 1 .. build}
    /\ \A name \in DOMAIN data :
          /\ data[name].at \in 0 .. now
          /\ data[name].rows \in 0 .. Len(Table(name))
          /\ name \in Counts => data[name].result \in 0 .. data[name].rows
          /\ name \in Tiles => data[name].result \in inView .. data[name].rows + inView
          /\ name \in RowLists => /\ data[name].result \subseteq 1 .. data[name].rows
                                 /\ Cardinality(data[name].result) <= Limit

Asked(names) == names \subseteq DOMAIN data
Got(name)    == data[name].result

(* The rows its table had when a statement ran: rows are only appended.    *)
Then(name) == 1 .. data[name].rows

(* The wall clock shows the hour of this day's midnight for the second     *)
(* time: midnight is then taken to be an hour later.                       *)
RepeatsMidnight(t) == Fold(t) /\ Date(t) * Day >= tz.transition + tz.after

(* "Sightings today" counts the rows whose local date is today's, on days  *)
(* of 23 and 25 hours too (_local_midnight_utc_iso).                       *)
TodayIsToday ==
    \A name \in DOMAIN data \cap {"today", "stats.today"} :
        LET t == data[name].at
        IN  RepeatsMidnight(t) \/
            Got(name) = Cardinality({i \in Then(name) : Date(sightings[i].time) = Date(t)})

(* "Sightings this week" counts every row of the last seven days and none  *)
(* that is older than eight, whatever the texts it compares look like.     *)
WeekIsSevenToEightDays ==
    Asked({"stats.this_week"}) =>
        LET t == data["stats.this_week"].at
            From(from) == Cardinality({i \in Then("stats.this_week") : sightings[i].time >= from})
        IN  Got("stats.this_week") \in From(t - WeekDays * Day) .. From(t - (WeekDays + 1) * Day + 1)

(* The tiles of one build fit together although each asks the clock and    *)
(* the tables for itself: a wider window counts no less than a narrower    *)
(* one asked before it, and exceeds one asked after it by no more than     *)
(* what an import has committed in between.  The two of the last hours     *)
(* also count the aircraft in view, who have no row yet: they exceed the   *)
(* week's, which has rows only, by as many at most.                        *)
WindowsNest ==
    LET Grown(a, b) == data[b].rows - data[a].rows
    IN  /\ Asked({"stats.this_week"}) => Got("stats.today") <= Got("stats.this_week")
        /\ Asked({"stats.today"}) /\ data["today"].at = data["stats.today"].at =>
              Got("stats.today") \in Got("today") .. Got("today") + Grown("today", "stats.today")
        /\ Asked({"active_24h"}) =>
              /\ Got("active_1h") <= Got("active_24h")
              /\ Got("active_24h") <= Got("stats.this_week") + inView
                                         + Grown("stats.this_week", "active_24h")

(* The count beside a list covers the list: query_military's always,       *)
(* because it is taken after it, and query_overhead's up to what was       *)
(* imported since.  query_movements_today's is no count of the day: it is  *)
(* the movements of the local day up to the LIMIT and then stands still,   *)
(* and so do those of each direction, which are of the newest of the day.  *)
ListsMatchCounts ==
    /\ Asked({"military.count"}) =>
          Cardinality(Got("military.list")) <= Got("military.count")
    /\ Asked({"overhead.list"}) =>
          Cardinality(Got("overhead.list")) - Got("overhead.count")
             <= data["overhead.list"].rows - data["overhead.count"].rows
    /\ Asked({"movements_today"}) /\ ~RepeatsMidnight(data["movements_today"].at) =>
          LET got == Got("movements_today")
              OfToday == {i \in Then("movements_today") :
                            Date(movements[i].time) = Date(data["movements_today"].at)}
          IN  /\ got.list \subseteq OfToday
              /\ got.count = AtMost(Limit, Cardinality(OfToday))
              /\ got.landed + got.took_off = got.count

(* The histogram has every row once, and those of today in the hours up to *)
(* the present one, though it is computed from wall clocks and `today'     *)
(* from instants: unless clocks are put back by more than an hour, for     *)
(* then hours of today are ahead of the present one.                       *)
HistogramHoldsToday ==
    Asked({"hour_histogram"}) =>
        LET hist == Got("hour_histogram")
            In(hours) == MapThenSumSet(LAMBDA h : hist[h], hours)
        IN  /\ In(0 .. Day - 1) = data["hour_histogram"].rows
            /\ tz.before - tz.after <= 1 =>
                  Got("stats.today") <= In(0 .. Wall(data["stats.today"].at) % Day)
=============================================================================
