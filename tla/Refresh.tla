-------------------------------- MODULE Refresh --------------------------------
(***************************************************************************)
(* The way from the stored rows and the user's requests to the sensors:    *)
(* set_page and set_search_term, the tail of _async_persist_exit, the      *)
(* refresh that runs build_data in the executor, and the data it leaves.   *)
(*                                                                         *)
(* Home Assistant's DataUpdateCoordinator is external.  Its debouncer      *)
(* folds the requests that come between two refreshes into one `wanted'    *)
(* flag, and drops a request that comes while a refresh is in progress;    *)
(* refreshes run one at a time, and the interval starts one unasked.       *)
(* The coordinator's own writers wait while a build holds the connection   *)
(* (SerializedConnection); the legacy import, on a connection of its own,  *)
(* does not - a read does not block it in WAL mode - and asks for no       *)
(* refresh.                                                                *)
(***************************************************************************)
EXTENDS Integers, Sequences, FiniteSets

CONSTANTS
    Flight,      \* aircraft
    Term,        \* search terms; NoTerm is the empty string
    NoTerm,
    PageSize,    \* DEFAULT_RECENT_PAGE_SIZE
    MaxPage,     \* bound: the highest page anyone asks for
    MaxRows,     \* bound: rows in the sightings table
    MaxFail,     \* bound: builds that raise
    MaxAsk       \* bound: requests for a page or a search

ASSUME RefreshAssumption ==
    /\ IsFiniteSet(Flight)
    /\ NoTerm \in Term
    /\ PageSize \in Nat \ {0}
    /\ {MaxPage, MaxRows, MaxFail, MaxAsk} \subseteq Nat

VARIABLES
    inside,    \* the source's live list of flights in the area
    exiting,   \* exits whose unit of work has not run, per flight
    rows,      \* the sightings table: the flight of each row
    owed,      \* stored exits whose task has not yet asked for a refresh
    page,      \* _current_page, shown by the number entity
    search,    \* _current_search
    wanted,    \* a refresh has been requested and not started
    refresh,   \* the refresh in progress
    data,      \* coordinator.data and last_update_success
    late,      \* ghost: rows imported since the last build read the table
    missed,    \* ghost: what was dropped since the last build read its data
    db,        \* _db is not None
    closed,    \* its connection is closed
    fails,
    asks

sky     == <<inside, exiting>>
asked   == <<page, search>>
screen  == <<wanted, refresh, data>>
life    == <<db, closed>>
ghosts  == <<late, missed>>
bounds  == <<fails, asks>>
vars    == <<sky, rows, owed, asked, screen, ghosts, life, bounds>>

AtLeast(a, b) == IF a >= b THEN a ELSE b
AtMost(a, b)  == IF a <= b THEN a ELSE b

(* A page too many whenever the last one is full.                          *)
TotalPagesOneMore(total) == 1 + total \div PageSize

(* query_recent: the page is clamped for the result only.                  *)
TotalPages(total) == AtLeast(1, (total + PageSize - 1) \div PageSize)
ClampedPage(p, total) == AtMost(AtLeast(1, p), TotalPages(total))
PageRows(p, total) == AtLeast(0, AtMost(PageSize, total - (p - 1) * PageSize))

(* The rows from the page on where the rows of the table are meant.        *)
BuildDataFromPage(args, total, now) ==
    LET shown == ClampedPage(args.page, total) IN
    [asked  |-> args.page, search |-> args.search,
     page   |-> shown, pages |-> TotalPages(total), count |-> PageRows(shown, now),
     total  |-> total - (shown - 1) * PageSize, active |-> now + args.live]

(* build_data: what its queries yield for the arguments read before, when  *)
(* the table had `total' rows for the COUNT and has `now' rows for the     *)
(* rest.  The rows are all within the window of the active counts.         *)
BuildData(args, total, now) ==
    LET shown == ClampedPage(args.page, total) IN
    [asked  |-> args.page, search |-> args.search,
     page   |-> shown, pages |-> TotalPages(total), count |-> PageRows(shown, now),
     total  |-> total, active |-> now + args.live]

(* What a coordinator that was unloaded publishes.                         *)
Empty == [asked |-> 0, search |-> NoTerm, page |-> 0, pages |-> 0, count |-> 0,
          total |-> 0, active |-> 0]

(* The data of the first refresh, on a table without rows.                 *)
FirstData(list) == [asked |-> 1, search |-> NoTerm, page |-> 1, pages |-> 1, count |-> 0,
                    total |-> 0, active |-> Cardinality(list)]

(* async_setup has returned: its first refresh, which is not under the     *)
(* debouncer, is done.                                                     *)
Init ==
    /\ inside \in SUBSET Flight
    /\ exiting = [f \in Flight |-> 0]
    /\ rows = << >>
    /\ owed = 0
    /\ page = 1
    /\ search = NoTerm
    /\ wanted = FALSE
    /\ refresh = [at |-> "idle"]
    /\ data = [ok |-> TRUE, built |-> FirstData(inside)]
    /\ late = 0
    /\ missed = {}
    /\ db = TRUE
    /\ closed = FALSE
    /\ fails = 0
    /\ asks = 0

-----------------------------------------------------------------------------
EnterArea(f) ==
    /\ f \notin inside
    /\ inside' = inside \cup {f}
    /\ UNCHANGED <<exiting, rows, owed, asked, screen, ghosts, life, bounds>>

LeaveArea(f) ==
    /\ f \in inside
    /\ db
    /\ exiting[f] + Len(rows) < MaxRows
    /\ inside' = inside \ {f}
    /\ exiting' = [exiting EXCEPT ![f] = @ + 1]
    /\ UNCHANGED <<rows, owed, asked, screen, ghosts, life, bounds>>

(* A build holds the connection.                                           *)
Building == refresh.at \in {"querying", "counted"}

(* record_exit in the executor; it waits for a build to release the lock.  *)
StoreExit(f) ==
    /\ exiting[f] > 0
    /\ ~closed
    /\ ~Building
    /\ Len(rows) < MaxRows
    /\ exiting' = [exiting EXCEPT ![f] = @ - 1]
    /\ rows' = Append(rows, f)
    /\ owed' = owed + 1
    /\ UNCHANGED <<inside, asked, screen, ghosts, life, bounds>>

(* async_request_refresh: one that comes during a refresh is dropped, also *)
(* when the build has read what it is about.                               *)
RequestRefresh == wanted' = (wanted \/ refresh.at = "idle")

(* What the request is about came too late for the refresh in progress.    *)
Misses(what, stages) ==
    missed' = IF refresh.at \in stages THEN missed \cup {what} ELSE missed

(* A stored exit that brings nothing to the sensors.                       *)
ForgetAfterExit ==
    /\ owed > 0
    /\ owed' = owed - 1
    /\ UNCHANGED <<sky, rows, asked, screen, ghosts, life, bounds>>

(* _async_persist_exit, after its await: ask for a refresh.  A build that  *)
(* is reading has the row, as none is stored while it holds the lock.      *)
AskAfterExit ==
    /\ owed > 0
    /\ owed' = owed - 1
    /\ RequestRefresh
    /\ Misses("rows", {"built"})
    /\ UNCHANGED <<sky, rows, asked, refresh, data, late, life, bounds>>

(* The import service inserts a row and asks for nothing.                  *)
Import(f) ==
    /\ Len(rows) < MaxRows
    /\ rows' = Append(rows, f)
    /\ late' = late + 1
    /\ UNCHANGED <<inside, exiting, owed, asked, screen, missed, life, bounds>>

(* number entity and set_page service, text and button entities and        *)
(* set_search_term service.                                                *)
SetPage(p) ==
    /\ db /\ asks < MaxAsk
    /\ asks' = asks + 1
    /\ page' = AtLeast(1, p)
    /\ RequestRefresh
    /\ Misses("page", {"querying", "counted", "built"})
    /\ UNCHANGED <<sky, rows, owed, search, refresh, data, late, life, fails>>

(* A search term that waits for the interval.                              *)
SetSearchTermOnly(t) ==
    /\ db /\ asks < MaxAsk
    /\ asks' = asks + 1
    /\ search' = t
    /\ UNCHANGED <<sky, rows, owed, page, screen, ghosts, life, fails>>

SetSearchTerm(t) ==
    /\ db /\ asks < MaxAsk
    /\ asks' = asks + 1
    /\ search' = t
    /\ RequestRefresh
    /\ Misses("search", {"querying", "counted", "built"})
    /\ UNCHANGED <<sky, rows, owed, page, refresh, data, late, life, fails>>

-----------------------------------------------------------------------------
(* A coordinator without update_interval.                                  *)
StartRefreshOnRequest ==
    /\ refresh.at = "idle"
    /\ wanted
    /\ wanted' = FALSE
    /\ refresh' = IF db THEN [at |-> "queued"] ELSE [at |-> "built", built |-> Empty]
    /\ missed' = {}
    /\ UNCHANGED <<sky, rows, owed, asked, data, late, life, bounds>>

(* A requested refresh or one of the interval: _async_update_data.         *)
StartRefresh ==
    /\ refresh.at = "idle"
    /\ wanted' = FALSE
    /\ refresh' = IF db THEN [at |-> "queued"] ELSE [at |-> "built", built |-> Empty]
    /\ missed' = {}
    /\ UNCHANGED <<sky, rows, owed, asked, data, late, life, bounds>>

(* _build_data, with the lock: page, search term and live flights are read *)
(* here and not when the refresh was asked for.                            *)
ReadArguments ==
    /\ refresh.at = "queued"
    /\ ~closed
    /\ refresh' = [at |-> "querying", page |-> page, search |-> search,
                   live |-> Cardinality(inside)]
    /\ UNCHANGED <<sky, rows, owed, asked, wanted, data, ghosts, life, bounds>>

(* query_recent's COUNT and its SELECT are two statements: no writer of    *)
(* the coordinator comes between them, but a commit of the import may.     *)
CountRows ==
    /\ refresh.at = "querying"
    /\ refresh' = [at |-> "counted", args |-> refresh, total |-> Len(rows)]
    /\ late' = 0
    /\ UNCHANGED <<sky, rows, owed, asked, wanted, data, missed, life, bounds>>

Query ==
    /\ refresh.at = "counted"
    /\ refresh' = [at |-> "built",
                   built |-> BuildData(refresh.args, refresh.total, Len(rows))]
    /\ UNCHANGED <<sky, rows, owed, asked, wanted, data, ghosts, life, bounds>>

(* The connection was closed first, or a query raises.                     *)
FailBuild ==
    /\ \/ refresh.at = "queued" /\ closed /\ UNCHANGED fails
       \/ Building /\ fails < MaxFail /\ fails' = fails + 1
    /\ refresh' = [at |-> "failed"]
    /\ UNCHANGED <<sky, rows, owed, asked, wanted, data, ghosts, life, asks>>

(* A failed update keeps the old data and clears last_update_success.      *)
Publish ==
    /\ refresh.at \in {"built", "failed"}
    /\ data' = IF refresh.at = "built" THEN [ok |-> TRUE, built |-> refresh.built]
                                       ELSE [data EXCEPT !.ok = FALSE]
    /\ refresh' = [at |-> "idle"]
    /\ UNCHANGED <<sky, rows, owed, asked, wanted, ghosts, life, bounds>>

Unload ==
    /\ db
    /\ db' = FALSE
    /\ UNCHANGED <<sky, rows, owed, asked, screen, ghosts, closed, bounds>>

(* db.close waits for the lock, which a build holds until it has read.     *)
Close ==
    /\ ~db /\ ~closed
    /\ ~Building
    /\ closed' = TRUE
    /\ UNCHANGED <<sky, rows, owed, asked, screen, ghosts, db, bounds>>

Next ==
    \/ \E f \in Flight : EnterArea(f) \/ LeaveArea(f) \/ StoreExit(f) \/ Import(f)
    \/ AskAfterExit
    \/ \E p \in 0 .. MaxPage : SetPage(p)
    \/ \E t \in Term : SetSearchTerm(t)
    \/ StartRefresh \/ ReadArguments \/ CountRows \/ Query \/ FailBuild \/ Publish
    \/ Unload \/ Close

Spec == Init /\ [][Next]_vars

(* The interval timer is set again after every refresh, and the executor   *)
(* runs what it is given; that users or aircraft do anything is not        *)
(* assumed.                                                                *)
FairSpec ==
    /\ Spec
    /\ WF_vars(StartRefresh)
    /\ WF_vars(ReadArguments)
    /\ WF_vars(CountRows \/ Query \/ FailBuild)
    /\ WF_vars(Publish)

-----------------------------------------------------------------------------
Built == [asked : Nat, search : Term, page : Nat, pages : Nat, count : Nat,
          total : Nat, active : Nat]

Arguments == [at : {"querying"}, page : Nat, search : Term, live : Nat]

(* Type invariant of the refresh path.                                     *)
TypeOK ==
    /\ inside \in SUBSET Flight
    /\ exiting \in [Flight -> Nat]
    /\ rows \in Seq(Flight)
    /\ owed \in Nat
    /\ page \in Nat \ {0}
    /\ search \in Term
    /\ wanted \in BOOLEAN
    /\ refresh \in [at : {"idle", "queued", "failed"}] \cup [at : {"built"}, built : Built]
                   \cup Arguments
                   \cup [at : {"counted"}, args : Arguments, total : Nat]
    /\ data \in [ok : BOOLEAN, built : Built]
    /\ late \in Nat
    /\ missed \subseteq {"page", "search", "rows"}
    /\ {db, closed} \subseteq BOOLEAN
    /\ {fails, asks} \subseteq Nat

(* Once no refresh is wanted or under way and every stored exit has asked, *)
(* the sensors of a loaded entry show the last requested page and search   *)
(* term and every row but those imported since.  The one exception is what *)
(* was asked for after the last build read it and before that build was    *)
(* published: of that the debouncer drops the request, and the sensors are *)
(* behind by just that much until the interval's next refresh starts.      *)
QuietIsFresh ==
    (db /\ ~wanted /\ refresh.at = "idle" /\ owed = 0 /\ data.ok) =>
        /\ data.built.asked = page \/ "page" \in missed
        /\ data.built.search = search \/ "search" \in missed
        /\ data.built.total + late = Len(rows) \/ "rows" \in missed

(* The page that is shown exists and has rows, unless there are none, and  *)
(* every row counted is on one of the pages: the page count and the clamp  *)
(* of query_recent have no off-by-one at a full last page, and an import   *)
(* that commits between its two statements does not empty the page.        *)
ShownPageHasRows ==
    data.built.pages > 0 =>
        /\ data.built.page \in 1 .. data.built.pages
        /\ data.built.count = 0 => data.built.total = 0
        /\ data.built.pages * PageSize >= data.built.total
        /\ data.built.page < data.built.pages => data.built.count = PageSize

(* The counters on the dashboard never go back while the entry is loaded:  *)
(* an older build is not published over a newer one.                       *)
CountsNeverGoBack ==
    [][(db /\ data.built.pages > 0 /\ data'.built.pages > 0)
          => data'.built.total >= data.built.total]_vars

(* The page somebody asked for last is eventually the one that was read    *)
(* for the sensors, for good, even if builds raised meanwhile.             *)
LastPageIsShown ==
    \A p \in 1 .. MaxPage :
        <>[](db /\ page = p) => <>[](data.ok /\ data.built.asked = p)

(* Every row, one that was imported or whose request for a refresh was     *)
(* dropped included, is counted in the end.                                *)
EveryRowIsCounted ==
    \A n \in 1 .. MaxRows :
        <>[](db /\ Len(rows) >= n) => <>[](data.ok /\ data.built.total >= n)

================================================================================
