------------------------------- MODULE WatchList -------------------------------
(***************************************************************************)
(* The watch list, in the three places that apply it: match_watch on the   *)
(* skywatch_sighting events, match_watch again on the features of the map, *)
(* and the SQL of query_watch_aircraft behind the watch sensors; and the   *)
(* lists of type codes, by which is_helicopter and is_military flag the    *)
(* events and the SQL of query_military selects rows.                      *)
(*                                                                         *)
(* A text is [is, case]: what it spells, and in which case.  NoText is an  *)
(* absent value, which the source adapter and the tables keep as None and  *)
(* NULL.  Configured texts have no blanks around them.                     *)
(***************************************************************************)
EXTENDS Integers, Sequences, FiniteSets

CONSTANTS
    NoText,      \* None, '' or NULL
    Lists,       \* the watch lists that may be configured
    Aircraft,    \* [registration, code, callsign]
    HeloCodes,   \* helo_codes
    CodeSets,    \* the military_codes that may be configured
    Skies,       \* the live lists there may be when the entry is set up
    MaxEvents,   \* bound: events announced
    MaxImports   \* bound: rows imported

Text  == [is : STRING, case : {"upper", "lower", "mixed"}]
Maybe == Text \cup {NoText}

EntryType == [slug : STRING, registration : Maybe, code : Maybe, match_blocked : BOOLEAN]
CraftType == [registration : Maybe, code : Maybe, callsign : STRING]

(* WatchEntry.from_dict insists on a slug; codes are taken as they are     *)
(* written (__init__.py:63-64).                                            *)
ASSUME WatchAssumption ==
    /\ MaxEvents \in Nat /\ MaxImports \in Nat
    /\ NoText \notin Text
    /\ Aircraft \subseteq CraftType /\ Skies \subseteq SUBSET Aircraft
    /\ HeloCodes \subseteq Text /\ CodeSets \subseteq SUBSET Text
    /\ Lists \subseteq Seq(EntryType)
    /\ \A list \in Lists : \A i, j \in DOMAIN list :
          /\ list[i].slug # NoText
          /\ list[i].slug = list[j].slug => i = j

VARIABLES
    watch_list,      \* the configured entries, in their order
    military_codes,  \* the configured codes
    inArea,          \* the source's live list
    announced,       \* the skywatch_sighting events: [kind, aircraft, watch,
                     \* helo, military]
    waiting,         \* the exits whose job has not run, by their place in announced
    lost,            \* the exits whose job found no database, was refused or raised
    stored           \* the rows of sightings: [aircraft, imported]

config    == <<watch_list, military_codes>>
jobs      == <<waiting, lost>>
watchVars == <<config, inArea, announced, jobs, stored>>

Kinds == {"entry", "exit", "landed", "took_off"}

(* .upper() on both sides, and UPPER(IFNULL(column,'')) = ? in SQL, where  *)
(* the parameter is upper case and not empty.                              *)
Upper(text) == IF text = NoText THEN NoText ELSE [text EXCEPT !.case = "upper"]
Same(a, b)  == a # NoText /\ b # NoText /\ Upper(a) = Upper(b)

(* A matcher that forgets the registration in the fingerprint, and one     *)
(* that compares as written.                                               *)
MatchesAnyBlocked(entry, flight) ==
    \/ Same(entry.registration, flight.registration)
    \/ entry.match_blocked /\ Same(entry.code, flight.code) /\ flight.callsign = "Blocked"

Matches(entry, flight) ==
    \/ Same(entry.registration, flight.registration)
    \/ /\ entry.match_blocked
       /\ Same(entry.code, flight.code)
       /\ flight.callsign = "Blocked"
       /\ flight.registration = NoText

(* match_watch: the first entry that matches, or None.                     *)
match_watch(flight) ==
    LET hits == {i \in DOMAIN watch_list : Matches(watch_list[i], flight)}
    IN  IF hits = {} THEN NoText
        ELSE watch_list[CHOOSE i \in hits : \A j \in hits : i <= j].slug

(* The fingerprint passed whether or not match_blocked is set.             *)
WhereAnyFingerprint(entry, row) ==
    \/ Same(entry.registration, row.registration)
    \/ /\ Same(entry.code, row.code)
       /\ row.callsign = "Blocked"
       /\ row.registration = NoText

(* The WHERE clause of query_watch_aircraft with the arguments build_data  *)
(* passes: the fingerprint only for entries with match_blocked.            *)
Where(entry, row) ==
    LET reg == entry.registration
        fp  == IF entry.match_blocked THEN entry.code ELSE NoText
        byReg == Same(reg, row.registration)
        byFp  == Same(fp, row.code) /\ row.callsign = "Blocked" /\ row.registration = NoText
    IN  CASE reg = NoText /\ fp = NoText -> FALSE
          [] reg # NoText /\ fp # NoText -> byReg \/ byFp
          [] reg = NoText -> byFp
          [] OTHER -> byReg

(* is_helicopter and is_military fold the case on both sides,              *)
Listed(code, codes) == \E c \in codes : Same(c, code)

(* A query that compares the column as it was written.                     *)
AsWritten(row) == row.code \in military_codes

(* the WHERE clause of query_military that of the column only.             *)
WhereMilitary(row) == row.code # NoText /\ Upper(row.code) \in military_codes

(* What build_data finds for the two sensors.  It runs the queries one by  *)
(* one, and an import may commit between them; each is one SELECT.         *)
Military == Cardinality({i \in DOMAIN stored : WhereMilitary(stored[i].aircraft)})

Count(entry) == Cardinality({i \in DOMAIN stored : Where(entry, stored[i].aircraft)})

WatchInit ==
    /\ watch_list \in Lists
    /\ military_codes \in CodeSets
    /\ inArea \in Skies
    /\ announced = << >>
    /\ waiting = {} /\ lost = {}
    /\ stored = << >>

-----------------------------------------------------------------------------
(* _fire_skywatch_event with the aircraft as its handler knows it.         *)
Fire(kind, a, known) ==
    /\ Len(announced) < MaxEvents
    /\ announced' = Append(announced,
                           [kind |-> kind, aircraft |-> a, watch |-> match_watch(known),
                            helo |-> Listed(known.code, HeloCodes),
                            military |-> Listed(known.code, military_codes)])

(* _on_entry: an Entry has no registration, so None is passed.             *)
Enter(a) ==
    /\ a \notin inArea
    /\ Fire("entry", a, [a EXCEPT !.registration = NoText])
    /\ inArea' = inArea \cup {a}
    /\ UNCHANGED <<config, jobs, stored>>

(* _on_exit announces, and leaves the row to a task and a job.             *)
Exit(a) ==
    /\ a \in inArea
    /\ Fire("exit", a, a)
    /\ inArea' = inArea \ {a}
    /\ waiting' = waiting \cup {Len(announced) + 1}
    /\ UNCHANGED <<config, lost, stored>>

(* _on_landing, _on_takeoff                                                *)
Movement(kind, a) ==
    /\ Fire(kind, a, a)
    /\ UNCHANGED <<config, inArea, jobs, stored>>

(* record_exit, in whatever order the executor runs the jobs.              *)
Store(n) ==
    /\ n \in waiting
    /\ waiting' = waiting \ {n}
    /\ stored' = Append(stored, [aircraft |-> announced[n].aircraft, imported |-> FALSE])
    /\ UNCHANGED <<config, inArea, announced, lost>>

(* The entry was unloaded first, or the unit of work raised.               *)
Lose(n) ==
    /\ n \in waiting
    /\ waiting' = waiting \ {n}
    /\ lost' = lost \cup {n}
    /\ UNCHANGED <<config, inArea, announced, stored>>

Imported == {i \in DOMAIN stored : stored[i].imported}

(* A row of the legacy import, of which no event tells.                    *)
Import(a) ==
    /\ Cardinality(Imported) < MaxImports
    /\ stored' = Append(stored, [aircraft |-> a, imported |-> TRUE])
    /\ UNCHANGED <<config, inArea, announced, jobs>>

WatchNext ==
    \/ \E a \in Aircraft : \/ Enter(a) \/ Exit(a) \/ Import(a)
                           \/ \E kind \in {"landed", "took_off"} : Movement(kind, a)
    \/ \E n \in DOMAIN announced : Store(n) \/ Lose(n)

WatchSpec == WatchInit /\ [][WatchNext]_watchVars

-----------------------------------------------------------------------------
(* The exits that ran to their end.                                        *)
Settled == {n \in DOMAIN announced : announced[n].kind = "exit" /\ n \notin waiting \cup lost}

(* What the SQL counts is what the matcher matches: for every watch, the   *)
(* count is that of the settled exits for which an event of that watch     *)
(* alone would have been tagged, and of the imported rows it matches (the  *)
(* Python of classify.py:81-91 and the SQL of queries.py:351-369 are two   *)
(* translations of one rule, case, absent values and fingerprints          *)
(* included).                                                              *)
SensorAgreesWithMatcher ==
    \A i \in DOMAIN watch_list :
        Count(watch_list[i]) =
            Cardinality({n \in Settled : Matches(watch_list[i], announced[n].aircraft)})
            + Cardinality({k \in Imported : Matches(watch_list[i], stored[k].aircraft)})

(* An exit that an automation was told belongs to a watch is on that       *)
(* watch's sensor in every query from its job on, unless the job was lost, *)
(* although the event carries the first matching entry only and each       *)
(* sensor asks for its own.                                                *)
TaggedExitsAreCounted ==
    \A i \in DOMAIN watch_list :
        Count(watch_list[i]) >=
            Cardinality({n \in Settled : announced[n].watch = watch_list[i].slug})

(* No query counts a row of an aircraft that is_military would not flag,   *)
(* and, if the codes are configured in upper case, as the defaults of      *)
(* const.py are, it counts every one that it would: each exit announced as *)
(* military once its job has run, and the imported rows.  The flag folds   *)
(* the case of the list and of the code, the SQL that of the code only     *)
(* (classify.py:28-32 and queries.py:259-272), so a code in lower case     *)
(* flags events that the sensor leaves out.                                *)
MilitaryIsCounted ==
    LET flagged == Cardinality({n \in Settled : announced[n].military})
            + Cardinality({k \in Imported : Listed(stored[k].aircraft.code, military_codes)})
    IN  /\ Military <= flagged
        /\ (\A code \in military_codes : code.case = "upper") => Military = flagged

(* blueprints/automation/skywatch/watch-list-match-alert.yaml:4-6: "Notify *)
(* when one of your watch-list aircraft is observed. The integration tags  *)
(* each event with `watch_slug` and `watch_label` when a watch entry       *)
(* matches".  Then the entry of an aircraft is tagged as its exit is.      *)
EveryEventIsTagged ==
    \A m, n \in DOMAIN announced :
        announced[m].aircraft = announced[n].aircraft =>
            announced[m].watch = announced[n].watch
=================================================================================
