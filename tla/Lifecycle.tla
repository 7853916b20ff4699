------------------------------- MODULE Lifecycle -------------------------------
(***************************************************************************)
(* __init__.py with the two ends of coordinator.py: a config entry is set  *)
(* up, fails to set up and is tried again, is reloaded, and is removed,    *)
(* while the source goes on reporting events.  Each attempt has a          *)
(* coordinator of its own, numbered by the order of the attempts.          *)
(*                                                                         *)
(* A step is what runs on the event loop between two awaits that suspend.  *)
(* Home Assistant's config entries are external: a setup that raised is    *)
(* tried again, by its timer or by the user; setups and unloads of an      *)
(* entry do not overlap; only an entry that is loaded is unloaded, and it  *)
(* is before it is taken off the list.                                     *)
(***************************************************************************)
EXTENDS Integers, FiniteSets, Sequences

CONSTANTS
    MaxSetup,      \* bound: attempts to set the entry up
    MaxEvents      \* bound: events of the source

ASSUME LifecycleAssumption == {MaxSetup, MaxEvents} \subseteq Nat

VARIABLES
    listed,      \* the entry is in hass.config_entries.async_entries(DOMAIN)
    fr24,        \* the Flightradar24 integration has a config entry
    stage,       \* how far each coordinator has got, in order of attempts
    connected,   \* coordinators whose database connection is open
    listening,   \* coordinators whose listeners are on the bus
    registered,  \* the coordinators in hass.data[DOMAIN], by entry id
    first,       \* the first attempt of the entry that was added last
    services,    \* skywatch.* services are registered
    copies       \* per event of the source, how many coordinators took it

vars == <<listed, fr24, stage, connected, listening, registered, first, services, copies>>

Coordinator == DOMAIN stage
Stages == {"opening", "opened", "refreshing", "forwarding", "loaded", "closing",
           "closed", "failed"}
Idle == \A i \in Coordinator : stage[i] \in {"closed", "failed"}

Init ==
    /\ listed = FALSE
    /\ fr24 \in BOOLEAN
    /\ stage = << >>
    /\ connected = {}
    /\ listening = {}
    /\ registered = {}
    /\ first = 1
    /\ services = FALSE
    /\ copies = << >>

Advance(i, to) == stage' = [stage EXCEPT ![i] = to]

-----------------------------------------------------------------------------
(* config_flow: the entry can be added once, and needs Flightradar24.  Its *)
(* id is a new one.                                                        *)
AddEntry ==
    /\ ~listed /\ fr24
    /\ listed' = TRUE
    /\ first' = Len(stage) + 1
    /\ UNCHANGED <<fr24, stage, connected, listening, registered, services, copies>>

RemoveEntry ==
    /\ listed /\ Idle
    /\ listed' = FALSE
    /\ UNCHANGED <<fr24, stage, connected, listening, registered, first, services, copies>>

Flightradar24ComesOrGoes ==
    /\ fr24' = ~fr24
    /\ UNCHANGED <<listed, stage, connected, listening, registered, first, services, copies>>

(* async_setup_entry: first try, retry or reload, with a new coordinator.  *)
SetupEntry ==
    /\ listed /\ Idle
    /\ Len(stage) < MaxSetup
    /\ stage' = Append(stage, "opening")
    /\ UNCHANGED <<listed, fr24, connected, listening, registered, first, services, copies>>

(* mkdir and open_db in the executor, or one of them raises.               *)
OpenDb(i) ==
    /\ stage[i] = "opening"
    /\ \/ connected' = connected \cup {i} /\ Advance(i, "opened")
       \/ UNCHANGED connected /\ Advance(i, "failed")
    /\ UNCHANGED <<listed, fr24, listening, registered, first, services, copies>>

(* source.async_setup raises ConfigEntryNotReady without Flightradar24;    *)
(* with it, every listener is registered before the next suspension.       *)
Subscribe(i) ==
    /\ stage[i] = "opened"
    /\ IF fr24
       THEN listening' = listening \cup {i} /\ Advance(i, "refreshing")
       ELSE UNCHANGED listening /\ Advance(i, "failed")
    /\ UNCHANGED <<listed, fr24, connected, registered, first, services, copies>>

(* async_config_entry_first_refresh, and hass.data right after it, where   *)
(* an earlier attempt of the entry may stand.  When the refresh raises,    *)
(* async_setup and async_setup_entry raise with it.                        *)
FirstRefresh(i) ==
    /\ stage[i] = "refreshing"
    /\ \/ registered' = {j \in registered : j < first} \cup {i} /\ Advance(i, "forwarding")
       \/ UNCHANGED registered /\ Advance(i, "failed")
    /\ UNCHANGED <<listed, fr24, connected, listening, first, services, copies>>

(* The platforms are set up; the only entry registers the services and     *)
(* then the views.  Any of it may raise, and async_setup_entry with it:    *)
(* the coordinator stays in hass.data and on the bus.                      *)
Forward(i) ==
    /\ stage[i] = "forwarding"
    /\ \/ services' = TRUE /\ Advance(i, "loaded")
       \/ services' \in {services, TRUE} /\ Advance(i, "failed")
    /\ UNCHANGED <<listed, fr24, connected, listening, registered, first, copies>>

(* An unload that keeps the listeners, and one that keeps the coordinator  *)
(* in hass.data until it is closed.                                        *)
UnloadListening(i) ==
    /\ stage[i] = "loaded"
    /\ registered' = registered \ {i}
    /\ Advance(i, "closing")
    /\ UNCHANGED <<listed, fr24, connected, listening, first, services, copies>>

(* async_unload_entry up to the executor's close: options changed, the     *)
(* user reloads, disables or removes the entry.                            *)
Unload(i) ==
    /\ stage[i] = "loaded"
    /\ registered' = registered \ {i}
    /\ listening' = listening \ {i}
    /\ Advance(i, "closing")
    /\ UNCHANGED <<listed, fr24, connected, first, services, copies>>

(* db.close; the services go if no entry is listed any more.               *)
Close(i) ==
    /\ stage[i] = "closing"
    /\ connected' = connected \ {i}
    /\ services' = (services /\ listed)
    /\ Advance(i, "closed")
    /\ UNCHANGED <<listed, fr24, listening, registered, first, copies>>

(* The source fires an event: every coordinator that listens announces it  *)
(* on the bus and stores it.                                               *)
SourceEvent ==
    /\ fr24
    /\ Len(copies) < MaxEvents
    /\ copies' = Append(copies, Cardinality(listening))
    /\ UNCHANGED <<listed, fr24, stage, connected, listening, registered, first, services>>

Step(i) == OpenDb(i) \/ Subscribe(i) \/ FirstRefresh(i) \/ Forward(i) \/ Unload(i) \/ Close(i)

Next ==
    \/ AddEntry \/ RemoveEntry \/ Flightradar24ComesOrGoes
    \/ SetupEntry
    \/ \E i \in Coordinator : Step(i)
    \/ SourceEvent

Spec == Init /\ [][Next]_vars

-----------------------------------------------------------------------------
(* Type invariant of the entry's life.                                     *)
TypeOK ==
    /\ listed \in BOOLEAN /\ fr24 \in BOOLEAN /\ services \in BOOLEAN
    /\ stage \in Seq(Stages)
    /\ connected \subseteq Coordinator
    /\ listening \subseteq connected
    /\ registered \subseteq Coordinator
    /\ first \in Nat \ {0}
    /\ copies \in Seq(Nat)

(* Whoever finds a coordinator in hass.data - a service call, the GeoJSON  *)
(* view - finds one with its database open and its listeners on the bus,   *)
(* and never one that is being closed: the one that is set up or, after a  *)
(* setup that raised behind the first refresh, the one it left there.      *)
RegisteredIsUsable ==
    \A i \in registered :
        /\ i \in connected \cap listening
        /\ stage[i] \in {"forwarding", "loaded", "failed"}
        /\ stage[i] # "failed" => i = Len(stage)

(* A coordinator that was unloaded has left nothing behind: no listener on *)
(* the bus and no open connection, whatever came before and after it.      *)
UnloadLeavesNothing ==
    \A i \in Coordinator : stage[i] = "closed" => i \notin connected \cup listening

(* Over all the retries, reloads and removals of the entry, an event is    *)
(* announced and stored by two coordinators only if one of them was left   *)
(* listening by a setup that raised, in its first refresh or behind it; an *)
(* event that comes while one coordinator is closed and the next set up is *)
(* taken once or not at all.                                               *)
TwiceOnlyAfterFailedSetup ==
    (\A i \in Coordinator : stage[i] = "failed" => i \notin listening)
        => \A n \in DOMAIN copies : copies[n] <= 1

(* repository.py:209, of the units of work: "One call per source event."   *)
(* Then no event would be announced and stored by two coordinators.        *)
OneCallPerEvent == \A n \in DOMAIN copies : copies[n] <= 1

(* __init__.py:87-88, of the services and views: "both are removed on      *)
(* last-unload below".  Then no service would outlive the last entry.      *)
ServicesEndWithTheEntry == services => listed
=================================================================================
