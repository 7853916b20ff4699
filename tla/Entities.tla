------------------------------- MODULE Entities -------------------------------
(***************************************************************************)
(* What Home Assistant shows of the integration, on top of Refresh: the    *)
(* states of the sensor, binary_sensor, number and text entities.  They    *)
(* are CoordinatorEntities: a state is written when the coordinator tells  *)
(* its listeners of a refresh, and at no other time.  The value is asked   *)
(* of the property getter at that moment: from coordinator.data, from the  *)
(* coordinator's page and search term, or from the source's live list,     *)
(* which may all have moved on since the refresh read them.                *)
(***************************************************************************)
EXTENDS Refresh

CONSTANT Helo     \* the aircraft whose type is in helo_codes

ASSUME EntitiesAssumption == Helo \subseteq Flight

VARIABLE shown    \* the entities' states, see StateType

entityVars == <<vars, shown>>

(* current_flights() as the getters of flights_in_area, has_aircraft and   *)
(* helicopter_overhead turn it into states.                                *)
FlightsInArea(list)      == Cardinality(list)
HasAircraft(list)        == list # {}

HelicopterOverhead(list) == list \cap Helo # {}

(* An entity is unavailable after a refresh that failed.                   *)
States(success, built) ==
    [available |-> success,
     recent    |-> built.page,
     term      |-> built.search,
     number    |-> page,
     text      |-> search,
     area      |-> FlightsInArea(inside),
     present   |-> HasAircraft(inside),
     helo      |-> HelicopterOverhead(inside)]

NoStates == [available |-> FALSE, recent |-> 0, term |-> NoTerm, number |-> 1,
             text |-> NoTerm, area |-> 0, present |-> FALSE, helo |-> FALSE]

(* The platforms are set up after the first refresh.                       *)
EntitiesInit == Init /\ shown = States(data.ok, data.built)

(* DataUpdateCoordinator tells its listeners of every success and of the   *)
(* first failure after one; an unloaded entry has no listeners.            *)
TellListeners ==
    shown' = CASE refresh.at = "built"             -> States(TRUE, data'.built)
               [] refresh.at = "failed" /\ data.ok -> States(FALSE, data'.built)
               [] OTHER                            -> shown

(* The platforms, and their entities, go when the entry is unloaded.       *)
EntitiesNext ==
    \/ Publish /\ db /\ TellListeners
    \/ Unload /\ shown' = NoStates
    \/ Next /\ ~(db /\ Publish) /\ ~Unload /\ UNCHANGED shown

EntitiesSpec ==
    /\ EntitiesInit /\ [][EntitiesNext]_entityVars
    /\ WF_vars(StartRefresh)
    /\ WF_vars(ReadArguments)
    /\ WF_vars(CountRows \/ Query \/ FailBuild)
    /\ WF_vars(Publish)

-----------------------------------------------------------------------------
StateType == [available : BOOLEAN, recent : Nat, term : Term, number : Nat \ {0},
              text : Term, area : Nat, present : BOOLEAN, helo : BOOLEAN]

(* Type invariant of the entities; no helicopter is overhead without an    *)
(* aircraft, and none is present when none is counted.                     *)
EntitiesTypeOK ==
    /\ shown \in StateType
    /\ shown.helo => shown.present
    /\ shown.present <=> shown.area > 0

(* Once no refresh is wanted or under way, the number and text boxes show  *)
(* what was asked for last, also when its request was dropped: they are    *)
(* read when a refresh is published, the lists beside them when its build  *)
(* begins.  The lists are of that page and term too, unless those were     *)
(* asked for between the two, when the boxes are ahead until the interval. *)
BoxesShowTheLast ==
    (db /\ shown.available /\ ~wanted /\ refresh.at = "idle") =>
        /\ shown.text = search
        /\ shown.number = page
        /\ shown.term = shown.text \/ "search" \in missed
        /\ shown.recent <= shown.number \/ "page" \in missed

(* An entity is unavailable exactly when the last refresh failed, however  *)
(* many failed before it.                                                  *)
UnavailableIsFailed == db => shown.available = data.ok

(* Once the sky and the user are quiet, the entities show the live list    *)
(* and what was asked for, for good: nothing but the interval brings the   *)
(* live entities up to date, and it does.                                  *)
EntitiesCatchUp ==
    \A list \in SUBSET Flight :
        <>[](db /\ inside = list) =>
            <>[](/\ shown.available
                 /\ shown.area = FlightsInArea(list)
                 /\ shown.helo = HelicopterOverhead(list))
===============================================================================
