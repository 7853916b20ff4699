----------------------------- MODULE ReadSideProofs -----------------------------
(***************************************************************************)
(* Theorems about what is read back from the tables.                       *)
(*                                                                         *)
(* WatchList, for any lists, codes, aircraft and number of events: what    *)
(* the SQL counts is what the Python told the automations.                 *)
(*                                                                         *)
(* Queries, for any rows, time zones, lengths of day and week and LIMIT:   *)
(* the windows hold what their names say, and the answers of one build fit *)
(* together although the clock and the tables move between them.           *)
(***************************************************************************)
EXTENDS Queries, WatchList, FiniteSetTheorems, TLAPS

(* A non-empty set of numbers from 0 on has a least one.                   *)
LEMMA LeastExists ==
  ASSUME NEW S, S \subseteq Nat, S # {} PROVE \E x \in S : \A y \in S : x <= y
  <1> DEFINE below == {0 .. x : x \in S}
             order == StrictSubsetOrdering(Nat)
  <1>1. below \subseteq FiniteSubsetsOf(Nat) /\ below # {}
    <2>1. \A x \in S : 0 .. x \subseteq Nat /\ IsFiniteSet(0 .. x)
      BY FS_Interval
    <2> QED BY <2>1 DEF FiniteSubsetsOf
  <1>2. IsWellFoundedOn(order, FiniteSubsetsOf(Nat))
    BY FS_StrictSubsetOrderingWellFounded
  <1> HIDE DEF order
  <1>3. PICK least \in below : \A other \in below : <<other, least>> \notin order
    <2> HIDE DEF below
    <2> QED BY <1>1, <1>2, WFMin
  <1>4. PICK x \in S : least = 0 .. x
    BY <1>3
  <1>5. ASSUME NEW y \in S, y < x PROVE FALSE
    <2>1. <<0 .. y, 0 .. x>> \in order
      BY <1>5 DEF order, StrictSubsetOrdering
    <2> QED BY <1>3, <1>4, <2>1
  <1> QED BY <1>5

(* The places of a list whose element is in a set can be counted, and      *)
(* appending an element adds its own, if it is in the set.                 *)
LEMMA PlacesCount ==
  ASSUME NEW T, NEW s \in Seq(T), NEW P
  PROVE  /\ IsFiniteSet({i \in DOMAIN s : s[i] \in P})
         /\ Cardinality({i \in DOMAIN s : s[i] \in P}) \in Nat
  <1>1. DOMAIN s = 1 .. Len(s) /\ Len(s) \in Nat
    OBVIOUS
  <1>2. IsFiniteSet(DOMAIN s)
    BY <1>1, FS_Interval
  <1>3. IsFiniteSet({i \in DOMAIN s : s[i] \in P})
    BY <1>2, FS_Subset
  <1> QED BY <1>3, FS_CardinalityType

LEMMA PlacesOfAppend ==
  ASSUME NEW T, NEW s \in Seq(T), NEW e \in T, NEW P
  PROVE  Cardinality({i \in DOMAIN Append(s, e) : Append(s, e)[i] \in P}) =
            Cardinality({i \in DOMAIN s : s[i] \in P}) + (IF e \in P THEN 1 ELSE 0)
  <1> DEFINE old == {i \in DOMAIN s : s[i] \in P}
             new == {i \in DOMAIN Append(s, e) : Append(s, e)[i] \in P}
             n   == Len(s) + 1
  <1>1. /\ DOMAIN s = 1 .. Len(s) /\ DOMAIN Append(s, e) = 1 .. n /\ Len(s) \in Nat
        /\ Append(s, e)[n] = e /\ \A i \in DOMAIN s : Append(s, e)[i] = s[i]
    OBVIOUS
  <1>2. IsFiniteSet(old) /\ Cardinality(old) \in Nat /\ n \notin old
    <2> HIDE DEF n
    <2>1. IsFiniteSet(old) /\ Cardinality(old) \in Nat
      BY PlacesCount
    <2> QED BY <1>1, <2>1 DEF n
  <1>3. CASE e \in P
    <2>1. new = old \cup {n}
      BY <1>1, <1>3
    <2> HIDE DEF old, new, n
    <2> QED BY <1>2, <1>3, <2>1, FS_AddElement DEF old, new
  <1>4. CASE e \notin P
    <2>1. new = old
      BY <1>1, <1>4
    <2>2. Cardinality(new) = Cardinality(old) + 0
      <3> HIDE DEF old, new
      <3> QED BY <1>2, <2>1
    <2> QED BY <1>4, <2>2
  <1> QED BY <1>3, <1>4

-----------------------------------------------------------------------------
(* WatchList.                                                              *)

(* The SQL of query_watch_aircraft selects what the matcher matches.       *)
LEMMA WhereIsMatches ==
  ASSUME NEW e \in EntryType, NEW a \in CraftType PROVE Where(e, a) <=> Matches(e, a)
  BY DEF Where, Matches, Same, EntryType, CraftType

(* The SQL of query_military selects only what is_military flags, and all  *)
(* of it if the codes are configured in upper case.                        *)
LEMMA WhereMilitaryIsListed ==
  ASSUME military_codes \subseteq Text, NEW a \in CraftType
  PROVE  /\ WhereMilitary(a) => Listed(a.code, military_codes)
         /\ (\A code \in military_codes : code.case = "upper") =>
               (Listed(a.code, military_codes) => WhereMilitary(a))
  <1>1. \A c \in military_codes : c \in Text /\ c # NoText
    BY WatchAssumption
  <1>2. ASSUME WhereMilitary(a) PROVE Listed(a.code, military_codes)
    <2>1. a.code \in Text /\ Upper(a.code) \in military_codes /\ a.code # NoText
      BY <1>2 DEF WhereMilitary, CraftType, Maybe
    <2>2. Upper(Upper(a.code)) = Upper(a.code)
      BY <1>1, <2>1 DEF Upper, Text
    <2> QED BY <1>1, <2>1, <2>2 DEF Listed, Same
  <1>3. ASSUME \A code \in military_codes : code.case = "upper", Listed(a.code, military_codes)
        PROVE  WhereMilitary(a)
    <2>1. PICK c \in military_codes : Same(c, a.code)
      BY <1>3 DEF Listed
    <2>2. Upper(c) = c
      BY <1>1, <1>3 DEF Upper, Text
    <2> QED BY <2>1, <2>2 DEF WhereMilitary, Same
  <1> QED BY <1>2, <1>3

(* The slug of match_watch is one of an entry that matches.                *)
LEMMA MatchOfList ==
  ASSUME watch_list \in Lists, NEW flight
  PROVE  /\ match_watch(flight) \in STRING \cup {NoText}
         /\ match_watch(flight) # NoText =>
              \E i \in DOMAIN watch_list : /\ Matches(watch_list[i], flight)
                                          /\ watch_list[i].slug = match_watch(flight)
  <1> DEFINE hits == {i \in DOMAIN watch_list : Matches(watch_list[i], flight)}
             first == CHOOSE i \in hits : \A j \in hits : i <= j
  <1>1. watch_list \in Seq(EntryType)
    BY WatchAssumption
  <1>2. CASE hits = {}
    BY <1>2 DEF match_watch
  <1>3. CASE hits # {}
    <2>1. hits \subseteq Nat
      BY <1>1
    <2>2. \E i \in hits : \A j \in hits : i <= j
      BY <1>3, <2>1, LeastExists
    <2>3. first \in hits
      BY <2>2
    <2>4. match_watch(flight) = watch_list[first].slug
      BY <1>3 DEF match_watch
    <2>5. watch_list[first].slug \in STRING
      <3> HIDE DEF first
      <3>1. watch_list[first] \in EntryType
        BY <1>1, <2>3
      <3> QED BY <3>1 DEF EntryType
    <2> QED BY <2>3, <2>4, <2>5
  <1> QED BY <1>2, <1>3

EventType == [kind : Kinds, aircraft : Aircraft, watch : STRING \cup {NoText},
              helo : BOOLEAN, military : BOOLEAN]

RowType == [aircraft : Aircraft, imported : BOOLEAN]

WatchTypeOK ==
    /\ watch_list \in Lists /\ military_codes \in CodeSets
    /\ inArea \subseteq Aircraft
    /\ announced \in Seq(EventType)
    /\ waiting \subseteq DOMAIN announced /\ lost \subseteq DOMAIN announced
    /\ stored \in Seq(RowType)

(* A job is waiting or over, not both, and it is that of an exit.          *)
JobsAreOfExits ==
    /\ waiting \cap lost = {}
    /\ \A n \in waiting \cup lost : announced[n].kind = "exit"

(* The settled exits of some aircraft, and their rows.                     *)
RowOf(some) == {row \in RowType : row.aircraft \in some /\ ~row.imported}
RowsOf(some) == {i \in DOMAIN stored : stored[i] \in RowOf(some)}
SettledOf(some) == {n \in Settled : announced[n].aircraft \in some}

(* Every settled exit has its row, whichever aircraft one asks for.        *)
EverySettledIsStored ==
    \A some \in SUBSET Aircraft : Cardinality(RowsOf(some)) = Cardinality(SettledOf(some))

(* An exit was announced with what the matcher says of the whole aircraft. *)
ExitsAreClassified ==
    \A n \in DOMAIN announced :
        announced[n].kind = "exit" =>
            /\ announced[n].watch = match_watch(announced[n].aircraft)
            /\ announced[n].military = Listed(announced[n].aircraft.code, military_codes)

(* The inductive invariant.                                                *)
WatchInv == WatchTypeOK /\ JobsAreOfExits /\ EverySettledIsStored /\ ExitsAreClassified

(* An event of an aircraft is announced as its handler knows it.           *)
LEMMA FireFacts ==
  ASSUME WatchInv, NEW kind \in Kinds, NEW a \in Aircraft, NEW known, Fire(kind, a, known)
  PROVE  \E event \in EventType :
            /\ event.kind = kind /\ event.aircraft = a
            /\ event.watch = match_watch(known)
            /\ event.military = Listed(known.code, military_codes)
            /\ announced' = Append(announced, event)
  <1> DEFINE event == [kind |-> kind, aircraft |-> a, watch |-> match_watch(known),
                       helo |-> Listed(known.code, HeloCodes),
                       military |-> Listed(known.code, military_codes)]
  <1>1. match_watch(known) \in STRING \cup {NoText}
    BY MatchOfList DEF WatchInv, WatchTypeOK
  <1>2. Listed(known.code, HeloCodes) \in BOOLEAN /\ Listed(known.code, military_codes) \in BOOLEAN
    BY DEF Listed
  <1>3. event \in EventType
    BY <1>1, <1>2 DEF EventType
  <1> QED BY <1>3 DEF Fire

(* Appending an event keeps what was said of the earlier ones.             *)
LEMMA AnnouncedKeeps ==
  ASSUME WatchInv, UNCHANGED config, NEW event \in EventType,
         announced' = Append(announced, event),
         event.kind = "exit" => /\ event.watch = match_watch(event.aircraft)
                                /\ event.military = Listed(event.aircraft.code, military_codes)
  PROVE  /\ announced' \in Seq(EventType) /\ ExitsAreClassified'
         /\ DOMAIN announced' = DOMAIN announced \cup {Len(announced) + 1}
         /\ Len(announced) + 1 \notin DOMAIN announced
         /\ announced'[Len(announced) + 1] = event
         /\ \A n \in DOMAIN announced : announced'[n] = announced[n]
  <1>1. announced \in Seq(EventType) /\ watch_list' = watch_list
        /\ military_codes' = military_codes
    BY DEF WatchInv, WatchTypeOK, config
  <1>2. \A flight : match_watch(flight)' = match_watch(flight)
    BY <1>1 DEF match_watch
  <1>3. /\ DOMAIN announced' = DOMAIN announced \cup {Len(announced) + 1}
        /\ Len(announced) + 1 \notin DOMAIN announced
        /\ announced'[Len(announced) + 1] = event
        /\ \A n \in DOMAIN announced : announced'[n] = announced[n]
    BY <1>1
  <1>4. ASSUME NEW n \in DOMAIN announced', announced'[n].kind = "exit"
        PROVE  /\ announced'[n].watch = match_watch(announced'[n].aircraft)
               /\ announced'[n].military = Listed(announced'[n].aircraft.code, military_codes)
    BY <1>3, <1>4 DEF WatchInv, ExitsAreClassified
  <1>5. ExitsAreClassified'
    BY <1>1, <1>2, <1>4, SMTT(30) DEF ExitsAreClassified
  <1> QED BY <1>1, <1>3, <1>5

(* An event whose job waits, or that is no exit, settles nothing yet.      *)
LEMMA AnnounceKeeps ==
  ASSUME WatchInv, UNCHANGED <<config, stored, lost>>, inArea' \subseteq Aircraft,
         NEW event \in EventType, announced' = Append(announced, event),
         \/ event.kind # "exit" /\ waiting' = waiting
         \/ /\ event.kind = "exit" /\ waiting' = waiting \cup {Len(announced) + 1}
            /\ event.watch = match_watch(event.aircraft)
            /\ event.military = Listed(event.aircraft.code, military_codes)
  PROVE  WatchInv'
  <1> USE DEF WatchInv
  <1>1. /\ announced' \in Seq(EventType) /\ ExitsAreClassified'
        /\ DOMAIN announced' = DOMAIN announced \cup {Len(announced) + 1}
        /\ Len(announced) + 1 \notin DOMAIN announced
        /\ announced'[Len(announced) + 1] = event
        /\ \A n \in DOMAIN announced : announced'[n] = announced[n]
    BY AnnouncedKeeps
  <1>2. WatchTypeOK'
    BY <1>1 DEF WatchTypeOK, config
  <1>3. JobsAreOfExits'
    BY <1>1 DEF JobsAreOfExits, WatchTypeOK
  <1>4. Settled' = Settled
    BY <1>1 DEF Settled, WatchTypeOK
  <1>5. ASSUME NEW some \in SUBSET Aircraft
        PROVE  SettledOf(some)' = SettledOf(some) /\ RowsOf(some)' = RowsOf(some)
    BY <1>1, <1>4 DEF SettledOf, RowsOf, Settled
  <1>6. EverySettledIsStored'
    BY <1>5 DEF EverySettledIsStored
  <1> QED BY <1>1, <1>2, <1>3, <1>6

LEMMA EnterKeeps == ASSUME WatchInv, NEW a \in Aircraft, Enter(a) PROVE WatchInv'
  <1>1. UNCHANGED <<config, stored, lost>> /\ waiting' = waiting
        /\ inArea' = inArea \cup {a}
    BY DEF Enter, jobs
  <1>2. PICK event \in EventType : event.kind = "entry" /\ announced' = Append(announced, event)
    BY FireFacts DEF Enter, Kinds
  <1> QED BY <1>1, <1>2, AnnounceKeeps DEF WatchInv, WatchTypeOK

LEMMA MovementKeeps ==
  ASSUME WatchInv, NEW a \in Aircraft, NEW kind \in {"landed", "took_off"}, Movement(kind, a)
  PROVE  WatchInv'
  <1>1. UNCHANGED <<config, stored, lost>> /\ waiting' = waiting /\ inArea' = inArea
    BY DEF Movement, jobs
  <1>2. PICK event \in EventType : event.kind = kind /\ announced' = Append(announced, event)
    BY FireFacts DEF Movement, Kinds
  <1> QED BY <1>1, <1>2, AnnounceKeeps DEF WatchInv, WatchTypeOK

LEMMA ExitKeeps == ASSUME WatchInv, NEW a \in Aircraft, Exit(a) PROVE WatchInv'
  <1>1. /\ UNCHANGED <<config, stored, lost>> /\ inArea' = inArea \ {a}
        /\ waiting' = waiting \cup {Len(announced) + 1}
    BY DEF Exit
  <1>2. PICK event \in EventType :
           /\ event.kind = "exit" /\ event.aircraft = a
           /\ event.watch = match_watch(a) /\ event.military = Listed(a.code, military_codes)
           /\ announced' = Append(announced, event)
    BY FireFacts DEF Exit, Kinds
  <1> QED BY <1>1, <1>2, AnnounceKeeps DEF WatchInv, WatchTypeOK

(* What was announced stays as it was.                                     *)
LEMMA ClassifiedKeeps ==
  ASSUME WatchInv, UNCHANGED <<config, announced>>
  PROVE  ExitsAreClassified'
  BY DEF WatchInv, ExitsAreClassified, match_watch, config

(* A job that runs settles one exit and adds its row.                      *)
LEMMA StoreKeeps == ASSUME WatchInv, NEW n \in DOMAIN announced, Store(n) PROVE WatchInv'
  <1> USE DEF WatchInv
  <1> DEFINE row == [aircraft |-> announced[n].aircraft, imported |-> FALSE]
  <1>1. /\ n \in waiting /\ waiting' = waiting \ {n} /\ lost' = lost
        /\ stored' = Append(stored, row)
        /\ UNCHANGED <<config, inArea, announced>>
    BY DEF Store
  <1>2. announced[n] \in EventType /\ announced[n].kind = "exit" /\ n \notin lost
    BY <1>1 DEF WatchTypeOK, JobsAreOfExits
  <1>3. row \in RowType /\ announced[n].aircraft \in Aircraft
    BY <1>2 DEF RowType, EventType
  <1>4. WatchTypeOK' /\ JobsAreOfExits'
    BY <1>1, <1>3 DEF WatchTypeOK, JobsAreOfExits, config
  <1>5. Settled' = Settled \cup {n} /\ n \notin Settled
    BY <1>1, <1>2 DEF Settled
  <1>6. ASSUME NEW some \in SUBSET Aircraft
        PROVE  Cardinality(RowsOf(some))' = Cardinality(SettledOf(some))'
    <2> DEFINE one == IF announced[n].aircraft \in some THEN 1 ELSE 0
    <2>1. row \in RowOf(some) <=> announced[n].aircraft \in some
      BY <1>3 DEF RowOf
    <2>2. Cardinality(RowsOf(some))' = Cardinality(RowsOf(some)) + one
      <3> HIDE DEF row, one
      <3>1. stored \in Seq(RowType) /\ stored' = Append(stored, row) /\ row \in RowType
        BY <1>1, <1>3 DEF WatchTypeOK
      <3>2. one = IF row \in RowOf(some) THEN 1 ELSE 0
        BY <2>1 DEF one
      <3> QED BY <3>1, <3>2, PlacesOfAppend DEF RowsOf
    <2>3. IsFiniteSet(SettledOf(some)) /\ Cardinality(SettledOf(some)) \in Nat
      <3>1. IsFiniteSet(DOMAIN announced)
        BY FS_Interval DEF WatchTypeOK
      <3>2. SettledOf(some) \subseteq DOMAIN announced
        BY DEF SettledOf, Settled
      <3> QED BY <3>1, <3>2, FS_Subset, FS_CardinalityType
    <2>4. SettledOf(some)' = IF announced[n].aircraft \in some
                             THEN SettledOf(some) \cup {n} ELSE SettledOf(some)
      BY <1>1, <1>5 DEF SettledOf
    <2>5. n \notin SettledOf(some)
      BY <1>5 DEF SettledOf
    <2>6. Cardinality(SettledOf(some))' = Cardinality(SettledOf(some)) + one
      <3>1. CASE announced[n].aircraft \in some
        BY <2>3, <2>4, <2>5, <3>1, FS_AddElement
      <3>2. CASE announced[n].aircraft \notin some
        BY <2>3, <2>4, <3>2
      <3> QED BY <3>1, <3>2
    <2> QED BY <2>2, <2>6 DEF EverySettledIsStored
  <1>7. EverySettledIsStored'
    BY <1>6 DEF EverySettledIsStored
  <1> QED BY <1>1, <1>4, <1>7, ClassifiedKeeps

(* A job that is lost settles nothing.                                     *)
LEMMA LoseKeeps == ASSUME WatchInv, NEW n \in DOMAIN announced, Lose(n) PROVE WatchInv'
  <1> USE DEF WatchInv
  <1>1. /\ n \in waiting /\ waiting' = waiting \ {n} /\ lost' = lost \cup {n}
        /\ UNCHANGED <<config, inArea, announced, stored>>
    BY DEF Lose
  <1>2. WatchTypeOK' /\ JobsAreOfExits'
    BY <1>1 DEF WatchTypeOK, JobsAreOfExits, config
  <1>3. Settled' = Settled
    BY <1>1 DEF Settled
  <1>4. EverySettledIsStored'
    BY <1>1, <1>3 DEF EverySettledIsStored, SettledOf, RowsOf
  <1> QED BY <1>1, <1>2, <1>4, ClassifiedKeeps

(* An imported row is no exit's.                                           *)
LEMMA ImportKeeps == ASSUME WatchInv, NEW a \in Aircraft, Import(a) PROVE WatchInv'
  <1> USE DEF WatchInv
  <1> DEFINE row == [aircraft |-> a, imported |-> TRUE]
  <1>1. stored' = Append(stored, row) /\ UNCHANGED <<config, inArea, announced, waiting, lost>>
    BY DEF Import, jobs
  <1>2. row \in RowType
    BY DEF RowType
  <1>3. WatchTypeOK' /\ JobsAreOfExits'
    BY <1>1, <1>2 DEF WatchTypeOK, JobsAreOfExits, config
  <1>4. ASSUME NEW some \in SUBSET Aircraft
        PROVE  Cardinality(RowsOf(some))' = Cardinality(SettledOf(some))'
    <2>1. row \notin RowOf(some)
      BY DEF RowOf
    <2>2. Cardinality(RowsOf(some))' = Cardinality(RowsOf(some)) + 0
      <3> HIDE DEF row
      <3>1. stored \in Seq(RowType) /\ stored' = Append(stored, row)
        BY <1>1 DEF WatchTypeOK
      <3> QED BY <1>2, <2>1, <3>1, PlacesOfAppend DEF RowsOf
    <2>3. Cardinality(RowsOf(some)) \in Nat
      BY PlacesCount DEF RowsOf, WatchTypeOK
    <2>4. SettledOf(some)' = SettledOf(some)
      BY <1>1 DEF SettledOf, Settled
    <2> QED BY <2>2, <2>3, <2>4 DEF EverySettledIsStored
  <1>5. EverySettledIsStored'
    BY <1>4 DEF EverySettledIsStored
  <1> QED BY <1>1, <1>3, <1>5, ClassifiedKeeps

(* The invariant holds in every reachable state.                           *)
LEMMA WatchInvariance == WatchSpec => []WatchInv
  <1>1. WatchInit => WatchInv
    <2> SUFFICES ASSUME WatchInit PROVE WatchInv
      OBVIOUS
    <2>1. WatchTypeOK
      BY WatchAssumption DEF WatchInit, WatchTypeOK
    <2>2. \A some \in SUBSET Aircraft : RowsOf(some) = {} /\ SettledOf(some) = {}
      BY DEF WatchInit, RowsOf, SettledOf, Settled
    <2>3. EverySettledIsStored
      BY <2>2 DEF EverySettledIsStored
    <2> QED BY <2>1, <2>3 DEF WatchInit, WatchInv, ExitsAreClassified, JobsAreOfExits
  <1>2. WatchInv /\ [WatchNext]_watchVars => WatchInv'
    <2> SUFFICES ASSUME WatchInv, [WatchNext]_watchVars PROVE WatchInv'
      OBVIOUS
    <2>1. CASE UNCHANGED watchVars
      <3>1. UNCHANGED <<config, inArea, announced, waiting, lost, stored>>
        BY <2>1 DEF watchVars, jobs
      <3>2. WatchTypeOK' /\ JobsAreOfExits' /\ EverySettledIsStored'
        BY <3>1 DEF WatchInv, WatchTypeOK, JobsAreOfExits, EverySettledIsStored, RowsOf,
                    SettledOf, Settled, config
      <3> QED BY <3>1, <3>2, ClassifiedKeeps DEF WatchInv
    <2> QED BY <2>1, EnterKeeps, ExitKeeps, MovementKeeps, StoreKeeps, LoseKeeps, ImportKeeps
            DEF WatchNext
  <1> QED BY <1>1, <1>2, PTL DEF WatchSpec

(* The rows of some aircraft are those of its settled exits and the        *)
(* imported ones.                                                          *)
LEMMA RowsOfSome ==
  ASSUME WatchInv, NEW some \in SUBSET Aircraft
  PROVE  /\ Cardinality({i \in DOMAIN stored : stored[i].aircraft \in some}) =
               Cardinality({n \in Settled : announced[n].aircraft \in some})
               + Cardinality({k \in Imported : stored[k].aircraft \in some})
         /\ IsFiniteSet(Settled) /\ IsFiniteSet(DOMAIN stored)
         /\ Cardinality({n \in Settled : announced[n].aircraft \in some}) \in Nat
         /\ Cardinality({k \in Imported : stored[k].aircraft \in some}) \in Nat
  <1> DEFINE all == {i \in DOMAIN stored : stored[i].aircraft \in some}
             imp == {k \in Imported : stored[k].aircraft \in some}
  <1>1. stored \in Seq(RowType) /\ announced \in Seq(EventType)
    BY DEF WatchInv, WatchTypeOK
  <1>2. IsFiniteSet(DOMAIN stored) /\ IsFiniteSet(DOMAIN announced)
    BY <1>1, FS_Interval
  <1>3. all = RowsOf(some) \cup imp /\ RowsOf(some) \cap imp = {}
    <2>1. \A i \in DOMAIN stored : stored[i] \in RowType
      BY <1>1
    <2> QED BY <2>1 DEF RowsOf, RowOf, Imported, RowType
  <1>4. IsFiniteSet(RowsOf(some)) /\ IsFiniteSet(imp) /\ IsFiniteSet(Settled)
    <2>1. RowsOf(some) \subseteq DOMAIN stored /\ imp \subseteq DOMAIN stored
          /\ Settled \subseteq DOMAIN announced
      BY DEF RowsOf, Imported, Settled
    <2> QED BY <1>2, <2>1, FS_Subset
  <1>5. {n \in Settled : announced[n].aircraft \in some} = SettledOf(some)
    BY DEF SettledOf
  <1>6. IsFiniteSet(SettledOf(some))
    <2>1. SettledOf(some) \subseteq Settled
      BY DEF SettledOf
    <2> QED BY <1>4, <2>1, FS_Subset
  <1>7. Cardinality(all) = Cardinality(RowsOf(some)) + Cardinality(imp)
    <2> HIDE DEF all, imp
    <2>1. Cardinality(RowsOf(some) \cup imp) = Cardinality(RowsOf(some)) + Cardinality(imp)
                - Cardinality(RowsOf(some) \cap imp)
      BY <1>4, FS_Union
    <2>2. Cardinality(RowsOf(some) \cap imp) = 0
      BY <1>3, FS_EmptySet
    <2>3. Cardinality(RowsOf(some)) \in Nat /\ Cardinality(imp) \in Nat
      BY <1>4, FS_CardinalityType
    <2> QED BY <1>3, <2>1, <2>2, <2>3
  <1>8. Cardinality(RowsOf(some)) = Cardinality(SettledOf(some))
    BY DEF WatchInv, EverySettledIsStored
  <1>9. Cardinality(SettledOf(some)) \in Nat /\ Cardinality(imp) \in Nat
    BY <1>4, <1>6, FS_CardinalityType
  <1> QED BY <1>2, <1>4, <1>5, <1>7, <1>8, <1>9

(* For every entry of the list, its query counts what it matches.          *)
LEMMA CountIsMatches ==
  ASSUME WatchInv, NEW i \in DOMAIN watch_list
  PROVE  LET settled  == {n \in Settled : Matches(watch_list[i], announced[n].aircraft)}
             imported == {k \in Imported : Matches(watch_list[i], stored[k].aircraft)}
         IN  /\ Count(watch_list[i]) = Cardinality(settled) + Cardinality(imported)
             /\ IsFiniteSet(settled)
             /\ Cardinality(settled) \in Nat /\ Cardinality(imported) \in Nat
  <1> DEFINE entry == watch_list[i]
             some == {a \in Aircraft : Matches(entry, a)}
             settled  == {n \in Settled : Matches(entry, announced[n].aircraft)}
             imported == {k \in Imported : Matches(entry, stored[k].aircraft)}
  <1>1. /\ entry \in EntryType /\ Aircraft \subseteq CraftType
        /\ stored \in Seq(RowType) /\ announced \in Seq(EventType)
    BY WatchAssumption DEF WatchInv, WatchTypeOK
  <1> HIDE DEF entry
  <1>2. /\ \A k \in DOMAIN stored : stored[k].aircraft \in Aircraft
        /\ \A n \in DOMAIN announced : announced[n].aircraft \in Aircraft
    <2>1. /\ \A k \in DOMAIN stored : stored[k] \in RowType
          /\ \A n \in DOMAIN announced : announced[n] \in EventType
      BY <1>1
    <2> QED BY <2>1 DEF RowType, EventType
  <1>3. {k \in DOMAIN stored : Where(entry, stored[k].aircraft)} =
           {k \in DOMAIN stored : stored[k].aircraft \in some}
    BY <1>1, <1>2, WhereIsMatches
  <1>4. settled = {n \in Settled : announced[n].aircraft \in some}
    BY <1>2 DEF Settled
  <1>5. imported = {k \in Imported : stored[k].aircraft \in some}
    BY <1>2 DEF Imported
  <1>6. IsFiniteSet(settled)
    <2>1. IsFiniteSet(Settled)
      BY RowsOfSome
    <2>2. settled \subseteq Settled
      OBVIOUS
    <2> QED BY <2>1, <2>2, FS_Subset
  <1>7. /\ Cardinality({k \in DOMAIN stored : Where(entry, stored[k].aircraft)}) =
             Cardinality(settled) + Cardinality(imported)
        /\ Cardinality(settled) \in Nat /\ Cardinality(imported) \in Nat
    <2> HIDE DEF settled, imported
    <2>1. some \in SUBSET Aircraft
      OBVIOUS
    <2> HIDE DEF some
    <2> QED BY <1>3, <1>4, <1>5, <2>1, RowsOfSome
  <1> QED BY <1>6, <1>7 DEF Count, entry

(* For every watch, the query counts the settled exits an event for that   *)
(* watch alone would have been tagged for, and the imported rows.          *)
THEOREM SensorsAgree == WatchSpec => []SensorAgreesWithMatcher
  <1>1. WatchInv => SensorAgreesWithMatcher
    BY CountIsMatches DEF SensorAgreesWithMatcher
  <1> QED BY <1>1, WatchInvariance, PTL

(* An exit that was tagged for a watch is counted by its sensor once its   *)
(* job has run, for any order of the jobs.                                 *)
THEOREM TaggedAreCounted == WatchSpec => []TaggedExitsAreCounted
  <1> DEFINE tagged(slug) == {n \in Settled : announced[n].watch = slug}
  <1>1. ASSUME WatchInv, NEW i \in DOMAIN watch_list
        PROVE  Count(watch_list[i]) >= Cardinality(tagged(watch_list[i].slug))
    <2> DEFINE entry == watch_list[i]
               matched == {n \in Settled : Matches(entry, announced[n].aircraft)}
               imported == {k \in Imported : Matches(entry, stored[k].aircraft)}
    <2>1. /\ Count(entry) = Cardinality(matched) + Cardinality(imported)
          /\ IsFiniteSet(matched)
          /\ Cardinality(matched) \in Nat /\ Cardinality(imported) \in Nat
      BY <1>1, CountIsMatches
    <2>2. tagged(entry.slug) \subseteq matched
      <3> SUFFICES ASSUME NEW n \in Settled, announced[n].watch = entry.slug
                   PROVE  Matches(entry, announced[n].aircraft)
        OBVIOUS
      <3>1. watch_list \in Lists /\ match_watch(announced[n].aircraft) = entry.slug
        BY <1>1 DEF WatchInv, WatchTypeOK, ExitsAreClassified, Settled
      <3>2. \A j, k \in DOMAIN watch_list :
               watch_list[j].slug # NoText /\ (watch_list[j].slug = watch_list[k].slug => j = k)
        BY <3>1, WatchAssumption
      <3>3. PICK j \in DOMAIN watch_list : /\ Matches(watch_list[j], announced[n].aircraft)
                                           /\ watch_list[j].slug = entry.slug
        BY <3>1, <3>2, MatchOfList
      <3>4. j = i
        BY <3>2, <3>3
      <3> QED BY <3>3, <3>4
    <2>3. Cardinality(tagged(entry.slug)) \in Nat
          /\ Cardinality(tagged(entry.slug)) <= Cardinality(matched)
      <3> HIDE DEF tagged, matched
      <3> QED BY <2>1, <2>2, FS_Subset, FS_CardinalityType
    <2> HIDE DEF tagged, matched, imported
    <2> QED BY <2>1, <2>3
  <1>2. WatchInv => TaggedExitsAreCounted
    BY <1>1 DEF TaggedExitsAreCounted
  <1> QED BY <1>2, WatchInvariance, PTL

(* The sensor counts only exits an automation was told are military and    *)
(* imported rows that are; with codes in upper case, all of both.          *)
THEOREM MilitaryAreCounted == WatchSpec => []MilitaryIsCounted
  <1> DEFINE told == {n \in Settled : announced[n].military}
             imported == {k \in Imported : Listed(stored[k].aircraft.code, military_codes)}
             flagged == Cardinality(told) + Cardinality(imported)
             upper == \A code \in military_codes : code.case = "upper"
  <1>1. ASSUME WatchInv
        PROVE  Military <= flagged /\ (upper => Military = flagged)
    <2> DEFINE some == {a \in Aircraft : Listed(a.code, military_codes)}
               rows == {i \in DOMAIN stored : stored[i].aircraft \in some}
               found == {i \in DOMAIN stored : WhereMilitary(stored[i].aircraft)}
    <2>1. /\ Aircraft \subseteq CraftType /\ military_codes \subseteq Text
          /\ stored \in Seq(RowType) /\ announced \in Seq(EventType)
      BY <1>1, WatchAssumption DEF WatchInv, WatchTypeOK
    <2>2. /\ \A k \in DOMAIN stored : stored[k].aircraft \in Aircraft
          /\ \A n \in DOMAIN announced : announced[n].aircraft \in Aircraft
      <3>1. /\ \A k \in DOMAIN stored : stored[k] \in RowType
            /\ \A n \in DOMAIN announced : announced[n] \in EventType
        BY <2>1
      <3> QED BY <3>1 DEF RowType, EventType
    <2>3. told = {n \in Settled : announced[n].aircraft \in some}
      BY <1>1, <2>2 DEF WatchInv, ExitsAreClassified, Settled
    <2>4. imported = {k \in Imported : stored[k].aircraft \in some}
      BY <2>2 DEF Imported
    <2>5. found \subseteq rows /\ (upper => found = rows)
      BY <2>1, <2>2, WhereMilitaryIsListed
    <2>6. /\ Cardinality(rows) = flagged /\ IsFiniteSet(DOMAIN stored)
      <3>1. some \in SUBSET Aircraft
        OBVIOUS
      <3> HIDE DEF some, told, imported
      <3> QED BY <1>1, <2>3, <2>4, <3>1, RowsOfSome
    <2>7. IsFiniteSet(rows)
      <3>1. rows \subseteq DOMAIN stored
        OBVIOUS
      <3> QED BY <2>6, <3>1, FS_Subset
    <2>8. Military = Cardinality(found)
      BY DEF Military
    <2>9. Cardinality(found) <= Cardinality(rows) /\ (upper => Cardinality(found) = Cardinality(rows))
      <3> HIDE DEF found, rows, upper
      <3> QED BY <2>5, <2>7, FS_Subset
    <2> HIDE DEF found, rows, upper, flagged
    <2> QED BY <2>6, <2>8, <2>9
  <1>2. WatchInv => MilitaryIsCounted
    BY <1>1 DEF MilitaryIsCounted
  <1> QED BY <1>2, WatchInvariance, PTL
-----------------------------------------------------------------------------
(* Queries: the arithmetic of hours and days.                              *)

LEMMA Div ==
  ASSUME NEW d \in Nat \ {0}, NEW a \in Int
  PROVE  a \div d \in Int /\ d * (a \div d) <= a /\ a < d * (a \div d) + d
  OBVIOUS

LEMMA DivFrom ==
  ASSUME NEW d \in Nat \ {0}, NEW a \in Int, NEW k \in Int
  PROVE  a \div d >= k <=> a >= d * k
  BY Div

LEMMA DivIs ==
  ASSUME NEW d \in Nat \ {0}, NEW a \in Int, NEW k \in Int
  PROVE  a \div d = k <=> (d * k <= a /\ a < d * k + d)
  <1>1. a \div d \in Int
    BY Div
  <1>2. a \div d >= k <=> a >= d * k
    BY DivFrom
  <1>3. a \div d >= k + 1 <=> a >= d * (k + 1)
    BY DivFrom
  <1>4. d * (k + 1) = d * k + d
    OBVIOUS
  <1> QED BY <1>1, <1>2, <1>3, <1>4

LEMMA Mod ==
  ASSUME NEW d \in Nat \ {0}, NEW a \in Int
  PROVE  a % d \in 0 .. d - 1 /\ a % d = a - d * (a \div d)
  <1>1. a % d \in 0 .. d - 1
    OBVIOUS
  <1>2. a % d = a - d * (a \div d)
    OBVIOUS
  <1> QED BY <1>1, <1>2

(* What the zones and the clock are.                                       *)
LEMMA ZoneFacts ==
  ASSUME tz \in Zones
  PROVE  /\ tz.before \in Int /\ tz.after \in Int /\ tz.transition \in Int
         /\ tz.after - tz.before \in -2 .. 2
         /\ Day \in Nat \ {0}
  BY QueriesAssumption DEF ZoneType

(* A midnight is not in the midst of the hours skipped or repeated.        *)
LEMMA MidnightIsNotInside ==
  ASSUME tz \in Zones, NEW k \in Int
  PROVE  k * Day \notin Inside(tz.transition + tz.before, tz.transition + tz.after)
  <1> DEFINE m == k * Day
  <1>1. Day \in Nat \ {0} /\ m \in Int /\ m = Day * k
    BY ZoneFacts
  <1>2. m \div Day = k
    BY <1>1, DivIs
  <1>3. (m - 1) \div Day = k - 1
    <2>1. Day * (k - 1) = m - Day
      BY <1>1
    <2> HIDE DEF m
    <2> QED BY <1>1, <2>1, DivIs
  <1> HIDE DEF m
  <1>4. m \div Day # (m - 1) \div Day
    BY <1>2, <1>3
  <1>5. m \notin Inside(tz.transition + tz.before, tz.transition + tz.after)
    BY <1>4, QueriesAssumption
  <1> QED BY <1>5 DEF m

LEMMA WallFacts ==
  ASSUME tz \in Zones, NEW t \in Int
  PROVE  /\ Wall(t) \in Int /\ Date(t) \in Int /\ Date(t) * Day \in Int
         /\ Date(t) * Day <= Wall(t) /\ Wall(t) < Date(t) * Day + Day
         /\ LocalMidnight(t) \in Int
  <1>1. Wall(t) \in Int
    BY ZoneFacts DEF Wall
  <1>2. /\ Date(t) \in Int /\ Day * Date(t) <= Wall(t) /\ Wall(t) < Day * Date(t) + Day
    BY <1>1, ZoneFacts, Div DEF Date
  <1>3. Day * Date(t) = Date(t) * Day /\ Date(t) * Day \in Int
    BY <1>2, ZoneFacts
  <1> DEFINE midnight == Date(t) * Day
  <1>4. LocalMidnight(t) = Utc(midnight, Fold(t))
    BY DEF LocalMidnight
  <1> HIDE DEF midnight
  <1>5. Utc(midnight, Fold(t)) \in Int
    BY <1>3, ZoneFacts DEF Utc, midnight
  <1> QED BY <1>1, <1>2, <1>3, <1>4, <1>5

(* The rows from _local_midnight_utc_iso on are those of today's date.     *)
LEMMA MidnightIsWhereTodayBegins ==
  ASSUME tz \in Zones, NEW t \in Int, NEW u \in Int, u <= t, ~RepeatsMidnight(t)
  PROVE  u >= LocalMidnight(t) <=> Date(u) = Date(t)
  <1> DEFINE m == Date(t) * Day
             b == tz.before
             a == tz.after
             change == tz.transition
  <1>1. /\ a \in Int /\ b \in Int /\ change \in Int /\ a - b \in -2 .. 2
        /\ m \in Int /\ Day \in Nat \ {0}
        /\ m <= Wall(t) /\ Wall(t) < m + Day
    BY ZoneFacts, WallFacts
  <1>2. Date(u) = Date(t) <=> (m <= Wall(u) /\ Wall(u) < m + Day)
    <2>1. Date(t) \in Int /\ Wall(u) \in Int
      BY WallFacts
    <2>2. Wall(u) \div Day = Date(t) <=> (Day * Date(t) <= Wall(u) /\ Wall(u) < Day * Date(t) + Day)
      BY <2>1, <1>1, DivIs
    <2>3. Day * Date(t) = Date(t) * Day
      BY <2>1, <1>1
    <2> QED BY <2>2, <2>3 DEF Date
  <1>3. LocalMidnight(t) = Utc(m, Fold(t))
    BY DEF LocalMidnight
  <1>4. /\ Fold(t) <=> t >= change /\ Wall(t) < change + b
        /\ ~(Fold(t) /\ m >= change + a)
    BY DEF Fold, RepeatsMidnight
  <1> DEFINE Aside(n) == \/ n <= change + a /\ n <= change + b
                         \/ n >= change + a /\ n >= change + b
  <1>0. Aside(m) /\ Aside(m + Day)
    <2>1. m \notin Inside(change + b, change + a)
      BY WallFacts, MidnightIsNotInside
    <2>2. Date(t) + 1 \in Int /\ (Date(t) + 1) * Day = m + Day
      BY WallFacts, ZoneFacts
    <2>3. m + Day \notin Inside(change + b, change + a)
      BY <2>2, MidnightIsNotInside
    <2> DEFINE x == change + b
               y == change + a
    <2>4. x \in Int /\ y \in Int /\ m \in Int /\ m + Day \in Int
      BY <1>1
    <2>5. m \notin Inside(x, y) /\ m + Day \notin Inside(x, y)
      BY <2>1, <2>3
    <2> HIDE DEF m, x, y
    <2>6. ASSUME NEW n \in Int, n \notin Inside(x, y)
          PROVE  (n <= y /\ n <= x) \/ (n >= y /\ n >= x)
      BY <2>4, <2>6 DEF Inside
    <2> QED BY <2>4, <2>5, <2>6 DEF x, y
  <1>5. /\ Wall(t) = t + (IF t < change THEN b ELSE a)
        /\ Wall(u) = u + (IF u < change THEN b ELSE a)
    BY DEF Wall
  <1> HIDE DEF m
  <1>6. CASE Fold(t)
    <2>1. t >= change /\ t + a < change + b /\ m < change + a
      BY <1>1, <1>4, <1>5, <1>6
    <2>2. Utc(m, Fold(t)) = m - b
      BY <1>1, <1>6, <2>1 DEF Utc, AtMost
    <2> QED BY <1>0, <1>1, <1>2, <1>3, <1>5, <2>1, <2>2
  <1>7. CASE ~Fold(t) /\ t < change
    <2>1. Utc(m, Fold(t)) = m - b
      BY <1>1, <1>5, <1>7 DEF Utc, AtLeast
    <2> QED BY <1>1, <1>2, <1>3, <1>5, <1>7, <2>1
  <1>8. CASE ~Fold(t) /\ t >= change
    <2>1. t + a >= change + b
      BY <1>1, <1>4, <1>5, <1>8
    <2>2. Utc(m, Fold(t)) = IF m < change + (IF a <= b THEN b ELSE a) THEN m - b ELSE m - a
      BY <1>1, <1>8 DEF Utc, AtLeast
    <2>3. CASE m < change + (IF a <= b THEN b ELSE a)
      <3>1. LocalMidnight(t) = m - b
        BY <1>3, <2>2, <2>3
      <3>2. CASE u < change
        BY <1>0, <1>1, <1>2, <1>5, <1>8, <2>1, <2>3, <3>1, <3>2
      <3>3. CASE u >= change
        BY <1>0, <1>1, <1>2, <1>5, <1>8, <2>1, <2>3, <3>1, <3>3
      <3> QED BY <1>1, <3>2, <3>3
    <2>4. CASE m >= change + (IF a <= b THEN b ELSE a)
      <3>1. LocalMidnight(t) = m - a
        BY <1>1, <1>3, <2>2, <2>4
      <3> QED BY <1>1, <1>2, <1>5, <1>8, <2>1, <2>4, <3>1
    <2> QED BY <1>1, <2>3, <2>4
  <1>9. t < change \/ t >= change
    BY <1>1
  <1> QED BY <1>6, <1>7, <1>8, <1>9

(* The hour of a day that the wall shows.                                  *)
LEMMA BucketFacts ==
  ASSUME tz \in Zones, NEW t \in Int
  PROVE  /\ Bucket(t) \in 0 .. Day - 1
         /\ Bucket(t) = Wall(t) - Date(t) * Day
  <1>1. Wall(t) \in Int /\ Date(t) \in Int /\ Day \in Nat \ {0}
    BY WallFacts, ZoneFacts
  <1> DEFINE wall == Wall(t)
  <1>2. wall % Day \in 0 .. Day - 1 /\ wall % Day = wall - Day * (wall \div Day)
    <2> HIDE DEF wall
    <2>1. wall \in Int
      BY <1>1 DEF wall
    <2> QED BY <1>1, <2>1, Mod
  <1>3. Date(t) = wall \div Day /\ Bucket(t) = wall % Day
    BY DEF Date, Bucket
  <1>4. Day * Date(t) = Date(t) * Day
    BY <1>1
  <1> QED BY <1>2, <1>3, <1>4

(* Unless clocks are put back by more than an hour, what is counted from   *)
(* midnight on is of today, and of an hour up to the present one.          *)
LEMMA TodayIsNotAhead ==
  ASSUME tz \in Zones, tz.before - tz.after <= 1,
         NEW t \in Int, NEW u \in Int, u <= t, u >= LocalMidnight(t)
  PROVE  Bucket(u) \in 0 .. Wall(t) % Day
  <1> DEFINE m == Date(t) * Day
             b == tz.before
             a == tz.after
             change == tz.transition
  <1>1. /\ a \in Int /\ b \in Int /\ change \in Int /\ b - a <= 1
        /\ m \in Int /\ Day \in Nat \ {0}
        /\ m <= Wall(t) /\ Wall(t) < m + Day /\ Wall(t) \in Int
    BY ZoneFacts, WallFacts
  <1>2. /\ Wall(t) = t + (IF t < change THEN b ELSE a)
        /\ Wall(u) = u + (IF u < change THEN b ELSE a)
    BY DEF Wall
  <1>3. Wall(u) <= Wall(t) /\ Wall(u) \in Int
    BY <1>1, <1>2
  <1>4. Date(u) = Date(t)
    <2>1. CASE ~RepeatsMidnight(t)
      BY <2>1, MidnightIsWhereTodayBegins
    <2>2. CASE RepeatsMidnight(t)
      <3>1. /\ t >= change /\ Wall(t) < change + b /\ m >= change + a
            /\ LocalMidnight(t) = Utc(m, Fold(t)) /\ Fold(t)
        BY <2>2 DEF RepeatsMidnight, Fold, LocalMidnight
      <3> HIDE DEF m
      <3>2. LocalMidnight(t) = m - a
        BY <1>1, <3>1 DEF Utc, AtMost
      <3>3. m <= Wall(u) /\ Wall(u) < m + Day
        <4>1. u >= m - a
          BY <3>2
        <4>2. u >= change /\ Wall(u) = u + a
          BY <1>1, <1>2, <3>1, <4>1
        <4> QED BY <1>1, <1>3, <4>1, <4>2
      <3>4. Date(t) \in Int /\ m = Day * Date(t)
        BY <1>1, WallFacts DEF m
      <3>5. Wall(u) \div Day = Date(t)
        BY <1>1, <1>3, <3>3, <3>4, DivIs
      <3> QED BY <3>5 DEF Date
    <2> QED BY <2>1, <2>2
  <1>5. /\ Bucket(u) \in 0 .. Day - 1 /\ Bucket(u) = Wall(u) - m
        /\ Bucket(t) \in 0 .. Day - 1 /\ Bucket(t) = Wall(t) - m
    BY <1>4, BucketFacts
  <1> HIDE DEF m
  <1>6. Bucket(u) <= Bucket(t)
    BY <1>1, <1>3, <1>5
  <1> QED BY <1>1, <1>5, <1>6 DEF Bucket

(* Midnight is at most a day of 26 hours ago.                              *)
LEMMA MidnightIsRecent ==
  ASSUME tz \in Zones, NEW t \in Int PROVE LocalMidnight(t) >= t - Day - 1
  <1> DEFINE m == Date(t) * Day
             b == tz.before
             a == tz.after
             change == tz.transition
  <1>1. /\ a \in Int /\ b \in Int /\ change \in Int /\ a - b \in -2 .. 2
        /\ m \in Int /\ Day \in Nat \ {0} /\ Wall(t) < m + Day
    BY ZoneFacts, WallFacts
  <1>2. LocalMidnight(t) = Utc(m, Fold(t))
    BY DEF LocalMidnight
  <1>3. Wall(t) = t + (IF t < change THEN b ELSE a)
    BY DEF Wall
  <1>4. Utc(m, Fold(t)) \in {m - b, m - a}
    BY DEF Utc
  <1> HIDE DEF m
  <1> QED BY <1>1, <1>2, <1>3, <1>4

-----------------------------------------------------------------------------
(* Queries: counting rows.                                                 *)

(* Of a longer prefix of a table one counts no fewer rows, and no more     *)
(* than it is longer.                                                      *)
LEMMA PrefixCount ==
  ASSUME NEW m \in Nat, NEW n \in Nat, m <= n, NEW S
  PROVE  LET Of(k) == {i \in 1 .. k : i \in S}
         IN  /\ IsFiniteSet(Of(n)) /\ Cardinality(Of(n)) \in 0 .. n
             /\ Cardinality(Of(m)) \in Nat
             /\ Cardinality(Of(m)) <= Cardinality(Of(n))
             /\ Cardinality(Of(n)) <= Cardinality(Of(m)) + (n - m)
  <1> DEFINE some == {i \in 1 .. m : i \in S}
             all  == {i \in 1 .. n : i \in S}
             rest == (m + 1) .. n
  <1>1. /\ IsFiniteSet(1 .. n) /\ Cardinality(1 .. n) = n
        /\ IsFiniteSet(rest) /\ Cardinality(rest) = n - m
    BY FS_Interval
  <1>2. all \subseteq 1 .. n /\ some \subseteq all /\ all \subseteq some \cup rest
    OBVIOUS
  <1> HIDE DEF some, all, rest
  <1>3. IsFiniteSet(all) /\ Cardinality(all) \in Nat /\ Cardinality(all) <= n
    BY <1>1, <1>2, FS_Subset, FS_CardinalityType
  <1>4. IsFiniteSet(some) /\ Cardinality(some) \in Nat /\ Cardinality(some) <= Cardinality(all)
    BY <1>2, <1>3, FS_Subset, FS_CardinalityType
  <1>5. Cardinality(all) <= Cardinality(some) + (n - m)
    <2>1. /\ IsFiniteSet(some \cup rest)
          /\ Cardinality(some \cup rest) =
                Cardinality(some) + Cardinality(rest) - Cardinality(some \cap rest)
      BY <1>1, <1>4, FS_Union
    <2>2. Cardinality(some \cap rest) \in Nat
      BY <1>4, FS_Intersection, FS_CardinalityType
    <2>3. Cardinality(all) <= Cardinality(some \cup rest)
      BY <1>2, <2>1, FS_Subset
    <2> QED BY <1>1, <1>3, <1>4, <2>1, <2>2, <2>3
  <1> QED BY <1>3, <1>4, <1>5 DEF some, all

(* A subset of a finite set counts no more.                                *)
LEMMA SubsetCount ==
  ASSUME NEW S, IsFiniteSet(S), NEW T, T \subseteq S
  PROVE  /\ IsFiniteSet(T) /\ Cardinality(T) \in Nat /\ Cardinality(S) \in Nat
         /\ Cardinality(T) <= Cardinality(S)
  BY FS_Subset, FS_CardinalityType

(* What MapThenSumSet adds up, one element at a time; which one is next is *)
(* left to CHOOSE.                                                         *)
Picked(s) == CHOOSE x \in s : TRUE

SumUp(f, hist, S) ==
    [s \in SUBSET S |-> IF s = {} THEN 0 ELSE hist[Picked(s)] + f[s \ {Picked(s)}]]

SumOver(hist, S) == (CHOOSE f : f = SumUp(f, hist, S))[S]

Held(D, bucketOf, s) == {i \in D : bucketOf[i] \in s}

(* A histogram holds, over any set of its buckets, everything that falls   *)
(* into one of them, and once.                                             *)
LEMMA SumOfBuckets ==
  ASSUME NEW S, IsFiniteSet(S), NEW D, IsFiniteSet(D), NEW bucketOf, NEW hist,
         \A h \in S : hist[h] = Cardinality(Held(D, bucketOf, {h}))
  PROVE  SumOver(hist, S) = Cardinality(Held(D, bucketOf, S))
  <1> DEFINE Within(s) == Held(D, bucketOf, s)
             sums == CHOOSE f : f = SumUp(f, hist, S)
  <1>1. SumOver(hist, S) = sums[S]
    BY DEF SumOver
  <1>2. \A s \in SUBSET S : IsFiniteSet(Within(s)) /\ Cardinality(Within(s)) \in Nat
    BY SubsetCount DEF Held
  <1>3. Cardinality(Within({})) = 0
    <2>1. Within({}) = {}
      BY DEF Held
    <2> QED BY <2>1, FS_EmptySet
  <1>4. ASSUME NEW s \in SUBSET S, s # {}
        PROVE  /\ Picked(s) \in s
               /\ Cardinality(Within(s)) = hist[Picked(s)] + Cardinality(Within(s \ {Picked(s)}))
    <2>1. Picked(s) \in s
      BY <1>4 DEF Picked
    <2>2. PICK x \in s : x = Picked(s)
      BY <2>1
    <2> DEFINE one  == Within({x})
               rest == Within(s \ {x})
    <2>3. Within(s) = one \cup rest /\ one \cap rest = {}
      BY DEF Held
    <2>4. IsFiniteSet(one) /\ Cardinality(one) \in Nat
      BY <1>2
    <2>5. IsFiniteSet(rest) /\ Cardinality(rest) \in Nat
      BY <1>2
    <2>6. hist[x] = Cardinality(one)
      OBVIOUS
    <2> HIDE DEF Within, one, rest
    <2>7. Cardinality(one \cup rest) =
             Cardinality(one) + Cardinality(rest) - Cardinality(one \cap rest)
      BY <2>4, <2>5, FS_Union
    <2>8. Cardinality(one \cap rest) = 0
      BY <2>3, FS_EmptySet
    <2>9. Cardinality(Within(s)) = hist[x] + Cardinality(rest)
      BY <2>3, <2>4, <2>5, <2>6, <2>7, <2>8
    <2> QED BY <2>1, <2>2, <2>9 DEF rest
  <1> DEFINE count == [s \in SUBSET S |-> Cardinality(Within(s))]
  <1> HIDE DEF Within
  <1>5. count = SumUp(count, hist, S)
    <2> SUFFICES ASSUME NEW s \in SUBSET S
                 PROVE  Cardinality(Within(s)) =
                           IF s = {} THEN 0 ELSE hist[Picked(s)] + count[s \ {Picked(s)}]
      BY DEF SumUp
    <2>1. CASE s = {}
      BY <1>3, <2>1
    <2>2. CASE s # {}
      BY <1>4, <2>2
    <2> QED BY <2>1, <2>2
  <1>6. sums = SumUp(sums, hist, S)
    <2> HIDE DEF count
    <2> QED BY <1>5
  <1> DEFINE wrong == {n \in Nat : \E s \in SUBSET S : Cardinality(s) = n /\ sums[s] # count[s]}
  <1> HIDE DEF sums
  <1>7. wrong = {}
    <2> SUFFICES ASSUME wrong # {} PROVE FALSE
      OBVIOUS
    <2>1. PICK n \in wrong : \A m \in wrong : n <= m
      BY LeastExists
    <2>2. PICK s \in SUBSET S : Cardinality(s) = n /\ sums[s] # count[s]
      OBVIOUS
    <2>3. sums[s] = IF s = {} THEN 0 ELSE hist[Picked(s)] + sums[s \ {Picked(s)}]
      BY <1>6 DEF SumUp
    <2>4. CASE s = {}
      BY <1>3, <2>2, <2>3, <2>4
    <2>5. CASE s # {}
      <3>1. Picked(s) \in s /\ s \ {Picked(s)} \in SUBSET S
        BY <1>4, <2>5
      <3>2. IsFiniteSet(s) /\ n \in Nat
        BY <2>2, FS_Subset
      <3>3. Cardinality(s \ {Picked(s)}) = n - 1 /\ n - 1 \in Nat
        <4>1. Cardinality(s \ {Picked(s)}) = n - 1
          BY <2>2, <3>1, <3>2, FS_RemoveElement
        <4>2. IsFiniteSet(s \ {Picked(s)})
          BY <3>2, FS_Subset
        <4> QED BY <4>1, <4>2, FS_CardinalityType
      <3>4. n - 1 \notin wrong
        <4> HIDE DEF wrong
        <4> QED BY <2>1, <3>2
      <3>5. sums[s \ {Picked(s)}] = count[s \ {Picked(s)}]
        BY <3>1, <3>3, <3>4
      <3> QED BY <1>4, <2>2, <2>3, <2>5, <3>1, <3>5
    <2> QED BY <2>4, <2>5
  <1>8. sums[S] = count[S]
    <2>1. IsFiniteSet(S) /\ Cardinality(S) \in Nat
      BY FS_CardinalityType
    <2> QED BY <1>7, <2>1
  <1> QED BY <1>1, <1>8 DEF Within

(* ORDER BY time DESC LIMIT: there is such a list, of rows that are asked  *)
(* for, and of LIMIT of them or all.                                       *)
LEMMA NewestList ==
  ASSUME NEW rows, NEW among, IsFiniteSet(among), NEW last \in Nat,
         \A i \in among : rows[i].time \in 0 .. last
  PROVE  /\ Newest(rows, among) \subseteq among
         /\ Cardinality(Newest(rows, among)) = AtMost(Limit, Cardinality(among))
  <1> DEFINE Latest(list, k) ==
               /\ Cardinality(list) = k
               /\ \A i \in list, j \in among \ list : rows[i].time >= rows[j].time
             c == Cardinality(among)
             missing == {k \in 0 .. c : \A list \in SUBSET among : ~Latest(list, k)}
  <1>1. c \in Nat
    BY FS_CardinalityType
  <1>2. ASSUME NEW k \in missing, \A l \in missing : k <= l PROVE FALSE
    <2>1. k # 0
      BY <1>2, FS_EmptySet
    <2>2. k - 1 \in 0 .. c /\ k - 1 \notin missing
      BY <1>1, <1>2, <2>1
    <2>3. PICK list \in SUBSET among : Latest(list, k - 1)
      BY <2>2
    <2> DEFINE others == among \ list
               ages == {last - rows[j].time : j \in others}
    <2>4. IsFiniteSet(list) /\ Cardinality(list) = k - 1
      BY <2>3, FS_Subset
    <2>5. others # {}
      <3>1. list # among
        BY <1>1, <1>2, <2>4
      <3> QED BY <3>1
    <2>6. ages \subseteq Nat /\ ages # {}
      BY <2>5
    <2> HIDE DEF ages
    <2>7. PICK age \in ages : \A other \in ages : age <= other
      BY <2>6, LeastExists
    <2>8. PICK x \in others : \A j \in others : rows[x].time >= rows[j].time
      <3>1. PICK x \in others : age = last - rows[x].time
        BY DEF ages
      <3>2. \A j \in others : last - rows[x].time <= last - rows[j].time
        BY <2>7, <3>1 DEF ages
      <3> QED BY <3>2
    <2>9. Cardinality(list \cup {x}) = k
      <3>1. x \notin list /\ k \in Nat
        BY <1>1
      <3>2. Cardinality(list \cup {x}) = Cardinality(list) + 1
        BY <2>4, <3>1, FS_AddElement
      <3> QED BY <2>4, <3>1, <3>2
    <2>10. \A i \in list \cup {x}, j \in among \ (list \cup {x}) : rows[i].time >= rows[j].time
      BY <2>3, <2>8
    <2>11. list \cup {x} \in SUBSET among /\ Latest(list \cup {x}, k)
      BY <2>9, <2>10
    <2> QED BY <1>2, <2>11
  <1>3. missing = {}
    <2>1. missing \subseteq Nat
      BY <1>1
    <2> HIDE DEF missing
    <2> QED BY <1>2, <2>1, LeastExists
  <1>4. AtMost(Limit, c) \in 0 .. c
    BY <1>1, QueriesAssumption DEF AtMost
  <1>5. \E list \in SUBSET among : Latest(list, AtMost(Limit, c))
    BY <1>3, <1>4
  <1> QED BY <1>5 DEF Newest

-----------------------------------------------------------------------------
(* Queries: the invariant.                                                 *)

SightingType(t) == [time : 0 .. t, is : Kind]
MovementType(t) == [time : 0 .. t, direction : Direction]

QueriesTypeOK ==
    /\ tz \in Zones
    /\ now \in 0 .. MaxTime
    /\ sightings \in Seq(SightingType(now))
    /\ movements \in Seq(MovementType(now))
    /\ build \in -1 .. 17
    /\ inView \in 0 .. MaxInView
    /\ between \in 0 .. MaxBuild
    /\ DOMAIN data = {Statements[i] : i \in 1 .. build}

(* The statements were asked since the build began, of tables without rows *)
(* of the future, and one after the other.                                 *)
AskedLately ==
    \A name \in DOMAIN data :
        /\ data[name].at \in 0 .. now /\ now - data[name].at <= between
        /\ data[name].rows \in 0 .. Len(Table(name))
        /\ \A i \in Then(name) : Table(name)[i].time <= data[name].at

AskedInOrder ==
    \A i, j \in 1 .. build : i <= j =>
        /\ data[Statements[i]].at <= data[Statements[j]].at
        /\ 14 \notin {i, j} => data[Statements[i]].rows <= data[Statements[j]].rows

(* The rows a statement saw, of those that are there now.                  *)
SeenSince(name, t)      == {i \in Then(name) : sightings[i].time >= t}
SeenThisWeek(name)      == {i \in Then(name) :
                               sightings[i].time \div Day >= WeekBefore(data[name].at)}
SeenMeeting(name, what) == {i \in Then(name) : what \in sightings[i].is.meets}
SeenInHour(name, h)     == {i \in Then(name) : Bucket(sightings[i].time) = h}
SeenMovements(name, t)  == {i \in Then(name) : movements[i].time >= t}

ListOf(name, what) ==
    /\ Got(name) \subseteq SeenMeeting(name, what)
    /\ Cardinality(Got(name)) <= Limit

(* Each answer is what the table says, as far as it went then.             *)
Answered(name) ==
    /\ name \in {"today", "stats.today"} =>
          Got(name) = Cardinality(SeenSince(name, LocalMidnight(data[name].at)))
    /\ name = "stats.count" => Got(name) = data[name].rows
    /\ name = "stats.this_week" => Got(name) = Cardinality(SeenThisWeek(name))
    /\ name = "active_1h" =>
          Got(name) = Cardinality(SeenSince(name, data[name].at - 1)) + inView
    /\ name = "active_24h" =>
          Got(name) = Cardinality(SeenSince(name, data[name].at - Day)) + inView
    /\ name = "overhead.count" => Got(name) = Cardinality(SeenMeeting(name, "overhead"))
    /\ name = "military.count" => Got(name) = Cardinality(SeenMeeting(name, "military"))
    /\ name = "overhead.list" => ListOf(name, "overhead")
    /\ name = "military.list" => ListOf(name, "military")
    /\ name = "search.list" => ListOf(name, "search")
    /\ name = "movements_today" =>
          LET seen == SeenMovements(name, LocalMidnight(data[name].at))
          IN  /\ Got(name).list \subseteq seen
              /\ Got(name).count = AtMost(Limit, Cardinality(seen))
              /\ Got(name).landed + Got(name).took_off = Got(name).count
    /\ name = "hour_histogram" =>
          Got(name) = [h \in 0 .. Day - 1 |-> Cardinality(SeenInHour(name, h))]

(* The inductive invariant.                                                *)
QueriesInv ==
    /\ QueriesTypeOK
    /\ AskedLately
    /\ AskedInOrder
    /\ \A name \in DOMAIN data : Answered(name)

LEMMA StatementsAre ==
  /\ Len(Statements) = 17 /\ DOMAIN Statements = 1 .. 17
  /\ \A i, j \in 1 .. 17 : Statements[i] = Statements[j] => i = j
  /\ Statements[1] = "today" /\ Statements[3] = "stats.today"
  /\ Statements[4] = "stats.this_week"
  /\ Statements[8] = "overhead.count" /\ Statements[9] = "overhead.list"
  /\ Statements[10] = "military.list" /\ Statements[11] = "military.count"
  /\ Statements[13] = "hour_histogram" /\ Statements[14] = "movements_today"
  /\ Statements[15] = "active_1h" /\ Statements[16] = "active_24h"
  <1>1. Len(Statements) = 17 /\ DOMAIN Statements = 1 .. 17
    BY DEF Statements
  <1>2. \A i, j \in 1 .. 17 : Statements[i] = Statements[j] => i = j
    BY DEF Statements
  <1>3. /\ Statements[1] = "today" /\ Statements[3] = "stats.today"
        /\ Statements[4] = "stats.this_week"
    BY DEF Statements
  <1>4. /\ Statements[8] = "overhead.count" /\ Statements[9] = "overhead.list"
        /\ Statements[10] = "military.list" /\ Statements[11] = "military.count"
    BY DEF Statements
  <1>5. /\ Statements[13] = "hour_histogram" /\ Statements[14] = "movements_today"
        /\ Statements[15] = "active_1h" /\ Statements[16] = "active_24h"
    BY DEF Statements
  <1> QED BY <1>1, <1>2, <1>3, <1>4, <1>5

(* A step that leaves the build alone may append rows and let time pass,   *)
(* and counts that.                                                        *)
LEMMA QuietKeeps ==
  ASSUME QueriesInv, QueriesTypeOK', UNCHANGED <<tz, build, inView, data>>, now' >= now,
         build # -1 => now' - between' <= now - between,
         Len(sightings') >= Len(sightings),
         \A i \in 1 .. Len(sightings) : sightings'[i] = sightings[i],
         Len(movements') >= Len(movements),
         \A i \in 1 .. Len(movements) : movements'[i] = movements[i]
  PROVE  QueriesInv'
  <1>1. now \in Nat /\ now' \in Nat /\ between \in Nat /\ between' \in Nat
        /\ Len(sightings) \in Nat /\ Len(sightings') \in Nat
        /\ Len(movements) \in Nat /\ Len(movements') \in Nat
    BY QueriesAssumption DEF QueriesInv, QueriesTypeOK
  <1>2. build = -1 => DOMAIN data = {}
    BY DEF QueriesInv, QueriesTypeOK
  <1>3. ASSUME NEW name \in DOMAIN data
        PROVE  /\ data[name].at \in 0 .. now /\ now - data[name].at <= between
               /\ data[name].rows \in 0 .. Len(Table(name)) /\ data[name].rows \in Nat
               /\ data[name].rows <= Len(Table(name)')
               /\ \A i \in Then(name) : Table(name)[i].time <= data[name].at
               /\ Then(name)' = Then(name) /\ Got(name)' = Got(name)
               /\ \A i \in Then(name) : Table(name)'[i] = Table(name)[i]
    <2>1. /\ Len(Table(name)) \in Nat /\ Len(Table(name)') \in Nat
          /\ Len(Table(name)) <= Len(Table(name)')
          /\ \A i \in 1 .. Len(Table(name)) : Table(name)'[i] = Table(name)[i]
      BY <1>1 DEF Table
    <2>2. /\ data[name].at \in 0 .. now /\ now - data[name].at <= between
          /\ data[name].rows \in 0 .. Len(Table(name))
          /\ \A i \in Then(name) : Table(name)[i].time <= data[name].at
      BY DEF QueriesInv, AskedLately
    <2>3. Then(name)' = Then(name) /\ Got(name)' = Got(name) /\ Then(name) = 1 .. data[name].rows
      BY DEF Then, Got
    <2>4. data[name].rows \in Nat /\ data[name].rows <= Len(Table(name))
      BY <2>1, <2>2
    <2>5. data[name].rows <= Len(Table(name)')
      BY <2>1, <2>4
    <2>6. \A i \in Then(name) : Table(name)'[i] = Table(name)[i]
      <3>1. Then(name) \subseteq 1 .. Len(Table(name))
        BY <2>1, <2>3, <2>4
      <3> QED BY <2>1, <3>1
    <2> QED BY <2>2, <2>3, <2>4, <2>5, <2>6
  <1>4. AskedLately'
    <2> SUFFICES ASSUME NEW name \in DOMAIN data
                 PROVE  /\ data[name].at \in 0 .. now' /\ now' - data[name].at <= between'
                        /\ data[name].rows \in 0 .. Len(Table(name)')
                        /\ \A i \in Then(name)' : Table(name)'[i].time <= data[name].at
      BY DEF AskedLately
    <2>1. now' - between' <= now - between
      BY <1>2
    <2>2. data[name].at \in Nat /\ data[name].rows \in Nat
      BY <1>1, <1>3
    <2>3. data[name].at \in 0 .. now' /\ data[name].rows \in 0 .. Len(Table(name)')
      <3>1. Len(Table(name)') \in Nat
        BY <1>1 DEF Table
      <3> QED BY <1>1, <1>3, <2>2, <3>1
    <2>4. now' - data[name].at <= between'
      <3>1. now - data[name].at <= between
        BY <1>3
      <3> QED BY <1>1, <2>1, <2>2, <3>1
    <2> QED BY <1>3, <2>3, <2>4
  <1>5. AskedInOrder'
    BY DEF QueriesInv, AskedInOrder
  <1>6. ASSUME NEW name \in DOMAIN data PROVE Answered(name)'
    <2>1. /\ Answered(name) /\ data' = data /\ Got(name)' = Got(name)
          /\ LocalMidnight(data[name].at)' = LocalMidnight(data[name].at)
      BY <1>3 DEF QueriesInv, LocalMidnight, Utc, Date, Fold, Wall
    <2>2. CASE name = "movements_today"
      <3>1. \A t : SeenMovements(name, t)' = SeenMovements(name, t)
        BY <1>3, <2>2 DEF SeenMovements, Table
      <3> QED BY <2>1, <2>2, <3>1 DEF Answered
    <2>3. CASE name # "movements_today"
      <3>1. \A i \in Then(name) : sightings'[i] = sightings[i]
        BY <1>3, <2>3 DEF Table
      <3>2. \A t : SeenSince(name, t)' = SeenSince(name, t)
        BY <1>3, <3>1 DEF SeenSince
      <3>3. SeenThisWeek(name)' = SeenThisWeek(name)
        BY <1>3, <3>1 DEF SeenThisWeek
      <3>4. \A what : SeenMeeting(name, what)' = SeenMeeting(name, what)
        BY <1>3, <3>1 DEF SeenMeeting
      <3>5. \A h : SeenInHour(name, h)' = SeenInHour(name, h)
        BY <1>3, <3>1 DEF SeenInHour, Bucket, Wall
      <3> QED BY <2>1, <2>3, <3>2, <3>3, <3>4, <3>5 DEF Answered, ListOf
    <2> QED BY <2>2, <2>3
  <1> QED BY <1>4, <1>5, <1>6 DEF QueriesInv

(* The rows of both tables.                                                *)
LEMMA RowFacts ==
  ASSUME QueriesTypeOK
  PROVE  /\ now \in Nat /\ Len(sightings) \in Nat /\ DOMAIN sightings = 1 .. Len(sightings)
         /\ \A i \in DOMAIN sightings : sightings[i].time \in 0 .. now
         /\ IsFiniteSet(DOMAIN sightings)
         /\ Len(movements) \in Nat /\ DOMAIN movements = 1 .. Len(movements)
         /\ \A i \in DOMAIN movements : /\ movements[i].time \in 0 .. now
                                        /\ movements[i].direction \in Direction
         /\ IsFiniteSet(DOMAIN movements)
  <1>1. now \in Nat
    BY QueriesAssumption DEF QueriesTypeOK
  <1>2. /\ Len(sightings) \in Nat /\ DOMAIN sightings = 1 .. Len(sightings)
        /\ \A i \in DOMAIN sightings : sightings[i] \in SightingType(now)
        /\ Len(movements) \in Nat /\ DOMAIN movements = 1 .. Len(movements)
        /\ \A i \in DOMAIN movements : movements[i] \in MovementType(now)
    BY DEF QueriesTypeOK
  <1>3. IsFiniteSet(DOMAIN sightings) /\ IsFiniteSet(DOMAIN movements)
    BY <1>2, FS_Interval
  <1> QED BY <1>1, <1>2, <1>3 DEF SightingType, MovementType

(* Time passing widens the types of the tables.                            *)
LEMMA WiderTypes ==
  ASSUME QueriesTypeOK, now' \in Nat, now' >= now
  PROVE  /\ sightings \in Seq(SightingType(now')) /\ movements \in Seq(MovementType(now'))
  <1>1. now \in Nat
    BY RowFacts
  <1>2. 0 .. now \subseteq 0 .. now'
    BY <1>1
  <1>3. SightingType(now) \subseteq SightingType(now') /\ MovementType(now) \subseteq MovementType(now')
    BY <1>2 DEF SightingType, MovementType
  <1> QED BY <1>3 DEF QueriesTypeOK

(* What comes between the statements of a build is counted.                *)
LEMMA BetweenFacts ==
  ASSUME between \in 0 .. MaxBuild, MaxBuild \in Nat, Between
  PROVE  /\ between' \in 0 .. MaxBuild
         /\ build # -1 => between' = between + 1
         /\ build = -1 => between' = between
  <1>1. CASE build = -1
    BY <1>1 DEF Between
  <1>2. CASE build # -1
    BY <1>2 DEF Between
  <1> QED BY <1>1, <1>2

(* Rows are appended, and time passes.                                     *)
LEMMA TablesKeep ==
  ASSUME QueriesInv,
         \/ \E kind \in Kind : StoreSighting(kind)
         \/ \E kind \in Kind, t \in 0 .. now : ImportSighting(t, kind)
         \/ \E direction \in Direction : StoreMovement(direction)
         \/ \E direction \in Direction, t \in 0 .. now : ImportMovement(t, direction)
         \/ Tick
         \/ UNCHANGED vars
  PROVE  QueriesInv'
  <1> USE DEF QueriesInv
  <1>1. now \in Nat /\ now \in 0 .. MaxTime /\ between \in 0 .. MaxBuild /\ MaxBuild \in Nat
        /\ MaxTime \in Nat
    BY RowFacts, QueriesAssumption DEF QueriesTypeOK
  <1>2. UNCHANGED <<tz, build, inView, data>>
    BY DEF StoreSighting, ImportSighting, StoreMovement, ImportMovement, Tick, vars
  <1>3. /\ now' \in 0 .. MaxTime /\ now' >= now /\ between' \in 0 .. MaxBuild
        /\ build # -1 => now' - between' <= now - between
        /\ \/ sightings' = sightings
           \/ \E row \in SightingType(now) : sightings' = Append(sightings, row) /\ now' = now
        /\ \/ movements' = movements
           \/ \E row \in MovementType(now) : movements' = Append(movements, row) /\ now' = now
    <2>1. CASE \E kind \in Kind : StoreSighting(kind)
      <3>1. PICK kind \in Kind : StoreSighting(kind)
        BY <2>1
      <3>2. /\ UNCHANGED <<now, movements, between>>
            /\ sightings' = Append(sightings, [time |-> now, is |-> kind])
        BY <3>1 DEF StoreSighting
      <3>3. [time |-> now, is |-> kind] \in SightingType(now)
        BY <1>1 DEF SightingType
      <3> QED BY <1>1, <3>2, <3>3
    <2>2. CASE \E kind \in Kind, t \in 0 .. now : ImportSighting(t, kind)
      <3>1. PICK kind \in Kind, t \in 0 .. now : ImportSighting(t, kind)
        BY <2>2
      <3>2. /\ UNCHANGED <<now, movements>>
            /\ sightings' = Append(sightings, [time |-> t, is |-> kind])
        BY <3>1 DEF ImportSighting
      <3>3. [time |-> t, is |-> kind] \in SightingType(now)
        BY <1>1 DEF SightingType
      <3>4. between' \in 0 .. MaxBuild /\ (build # -1 => now - between' <= now - between)
        <4>1. Between
          BY <3>1 DEF ImportSighting, ImportMovement
        <4> QED BY <1>1, <4>1, BetweenFacts
      <3>5. now' = now /\ now' \in 0 .. MaxTime /\ now' >= now
        BY <1>1, <3>2
      <3>6. build # -1 => now' - between' <= now - between
        BY <3>4, <3>5
      <3> QED BY <3>2, <3>3, <3>4, <3>5, <3>6
    <2>3. CASE \E direction \in Direction : StoreMovement(direction)
      <3>1. PICK direction \in Direction : StoreMovement(direction)
        BY <2>3
      <3>2. /\ UNCHANGED <<now, sightings, between>>
            /\ movements' = Append(movements, [time |-> now, direction |-> direction])
        BY <3>1 DEF StoreMovement
      <3>3. [time |-> now, direction |-> direction] \in MovementType(now)
        BY <1>1 DEF MovementType
      <3> QED BY <1>1, <3>2, <3>3
    <2>4. CASE \E direction \in Direction, t \in 0 .. now : ImportMovement(t, direction)
      <3>1. PICK direction \in Direction, t \in 0 .. now : ImportMovement(t, direction)
        BY <2>4
      <3>2. /\ UNCHANGED <<now, sightings>>
            /\ movements' = Append(movements, [time |-> t, direction |-> direction])
        BY <3>1 DEF ImportMovement
      <3>3. [time |-> t, direction |-> direction] \in MovementType(now)
        BY <1>1 DEF MovementType
      <3>4. between' \in 0 .. MaxBuild /\ (build # -1 => now - between' <= now - between)
        <4>1. Between
          BY <3>1 DEF ImportSighting, ImportMovement
        <4> QED BY <1>1, <4>1, BetweenFacts
      <3>5. now' = now /\ now' \in 0 .. MaxTime /\ now' >= now
        BY <1>1, <3>2
      <3>6. build # -1 => now' - between' <= now - between
        BY <3>4, <3>5
      <3> QED BY <3>2, <3>3, <3>4, <3>5, <3>6
    <2>5. CASE Tick
      <3>1. UNCHANGED <<sightings, movements>> /\ now < MaxTime /\ now' = now + 1
        BY <2>5 DEF Tick, tables
      <3>2. between' \in 0 .. MaxBuild /\ (build # -1 => between' = between + 1)
        <4>1. Between
          BY <2>5 DEF Tick
        <4> QED BY <1>1, <4>1, BetweenFacts
      <3>3. now' \in 0 .. MaxTime /\ now' >= now
        BY <1>1, <3>1
      <3>4. build # -1 => now' - between' <= now - between
        BY <1>1, <3>1, <3>2
      <3> QED BY <3>1, <3>2, <3>3, <3>4
    <2>6. CASE UNCHANGED vars
      <3>1. UNCHANGED <<now, sightings, movements, between>>
        BY <2>6 DEF vars, tables
      <3> QED BY <1>1, <3>1
    <2> QED BY <2>1, <2>2, <2>3, <2>4, <2>5, <2>6
  <1>4. /\ sightings' \in Seq(SightingType(now')) /\ movements' \in Seq(MovementType(now'))
        /\ Len(sightings') >= Len(sightings)
        /\ \A i \in 1 .. Len(sightings) : sightings'[i] = sightings[i]
        /\ Len(movements') >= Len(movements)
        /\ \A i \in 1 .. Len(movements) : movements'[i] = movements[i]
    <2>1. /\ sightings \in Seq(SightingType(now')) /\ movements \in Seq(MovementType(now'))
      BY <1>1, <1>3, WiderTypes
    <2>2. CASE sightings' = sightings
      <3>1. \/ movements' = movements
            \/ \E row \in MovementType(now') : movements' = Append(movements, row)
        BY <1>3
      <3> QED BY <2>1, <2>2, <3>1
    <2>3. CASE \E row \in SightingType(now) : sightings' = Append(sightings, row) /\ now' = now
      <3>1. PICK row \in SightingType(now') : sightings' = Append(sightings, row)
        BY <2>3
      <3>2. \/ movements' = movements
            \/ \E other \in MovementType(now') : movements' = Append(movements, other)
        BY <1>3
      <3>3. /\ sightings' \in Seq(SightingType(now')) /\ Len(sightings') >= Len(sightings)
            /\ \A i \in 1 .. Len(sightings) : sightings'[i] = sightings[i]
        BY <2>1, <3>1
      <3>4. /\ movements' \in Seq(MovementType(now')) /\ Len(movements') >= Len(movements)
            /\ \A i \in 1 .. Len(movements) : movements'[i] = movements[i]
        BY <2>1, <3>2
      <3> QED BY <3>3, <3>4
    <2> QED BY <1>3, <2>2, <2>3
  <1>5. QueriesTypeOK'
    BY <1>2, <1>3, <1>4 DEF QueriesTypeOK
  <1> QED BY <1>2, <1>3, <1>4, <1>5, QuietKeeps

(* A build begins and ends without answers.                                *)
LEMMA BuildKeeps ==
  ASSUME QueriesInv, (\E flights \in 0 .. MaxInView : StartBuild(flights)) \/ EndBuild
  PROVE  QueriesInv'
  <1>1. /\ UNCHANGED <<tz, now, sightings, movements>>
        /\ between' = 0 /\ build' \in {-1, 0} /\ inView' \in 0 .. MaxInView
    BY QueriesAssumption DEF StartBuild, EndBuild, tables
  <1>2. DOMAIN data' = {}
    <2>1. CASE \E flights \in 0 .. MaxInView : StartBuild(flights)
      <3>1. build = -1 /\ data' = data
        BY <2>1 DEF StartBuild
      <3>2. 1 .. build = {}
        BY <3>1
      <3> QED BY <3>1, <3>2 DEF QueriesInv, QueriesTypeOK
    <2>2. CASE EndBuild
      BY <2>2 DEF EndBuild, NoData
    <2> QED BY <2>1, <2>2
  <1>3. QueriesTypeOK'
    BY <1>1, <1>2, QueriesAssumption DEF QueriesInv, QueriesTypeOK
  <1> QED BY <1>1, <1>2, <1>3 DEF QueriesInv, AskedLately, AskedInOrder

(* The lists of the tables, and what they count.                           *)
LEMMA ListFacts ==
  ASSUME QueriesTypeOK, NEW what
  PROVE  LET list == Newest(sightings, Meeting(sightings, what))
         IN  list \subseteq Meeting(sightings, what) /\ Cardinality(list) <= Limit
  <1> DEFINE among == Meeting(sightings, what)
             list  == Newest(sightings, among)
  <1>1. among \subseteq DOMAIN sightings
    BY DEF Meeting
  <1>2. IsFiniteSet(among) /\ Cardinality(among) \in Nat
    BY <1>1, RowFacts, SubsetCount
  <1>3. now \in Nat /\ \A i \in among : sightings[i].time \in 0 .. now
    BY <1>1, RowFacts
  <1> HIDE DEF among
  <1>4. list \subseteq among /\ Cardinality(list) = AtMost(Limit, Cardinality(among))
    BY <1>2, <1>3, NewestList
  <1>5. AtMost(Limit, Cardinality(among)) <= Limit
    BY <1>2, QueriesAssumption DEF AtMost
  <1> QED BY <1>4, <1>5 DEF among

(* query_movements_today lists movements since midnight, counts up to its  *)
(* LIMIT of them, and each in one direction.                               *)
LEMMA MovementsFacts ==
  ASSUME QueriesTypeOK, NEW t
  PROVE  LET seen == Since(movements, LocalMidnight(t))
         IN  /\ MovementsToday(t).list \subseteq seen
             /\ MovementsToday(t).count = AtMost(Limit, Cardinality(seen))
             /\ MovementsToday(t).landed + MovementsToday(t).took_off = MovementsToday(t).count
  <1> DEFINE among == Since(movements, LocalMidnight(t))
             list  == Newest(movements, among)
             Of(direction) == {i \in list : movements[i].direction = direction}
  <1>1. among \subseteq DOMAIN movements
    BY DEF Since
  <1>2. IsFiniteSet(among)
    BY <1>1, RowFacts, SubsetCount
  <1>3. now \in Nat /\ \A i \in among : movements[i].time \in 0 .. now
    BY <1>1, RowFacts
  <1> HIDE DEF among
  <1>4. list \subseteq among /\ Cardinality(list) = AtMost(Limit, Cardinality(among))
    BY <1>2, <1>3, NewestList
  <1>5. IsFiniteSet(list)
    BY <1>2, <1>4, SubsetCount
  <1>6. \A i \in list : movements[i].direction \in {"landed", "took_off"}
    BY <1>1, <1>4, RowFacts DEF Direction
  <1> HIDE DEF list
  <1>7. Of("landed") \cup Of("took_off") = list /\ Of("landed") \cap Of("took_off") = {}
    BY <1>6
  <1>8. /\ IsFiniteSet(Of("landed")) /\ Cardinality(Of("landed")) \in Nat
        /\ IsFiniteSet(Of("took_off")) /\ Cardinality(Of("took_off")) \in Nat
    BY <1>5, SubsetCount
  <1>9. Cardinality(list) = Cardinality(Of("landed")) + Cardinality(Of("took_off"))
    <2> DEFINE landed   == Of("landed")
               took_off == Of("took_off")
    <2> HIDE DEF Of
    <2>1. Cardinality(landed \cup took_off) =
            Cardinality(landed) + Cardinality(took_off) - Cardinality(landed \cap took_off)
      BY <1>8, FS_Union
    <2>2. Cardinality(landed \cap took_off) = 0
      <3>1. landed \cap took_off = {}
        BY <1>7
      <3> QED BY <3>1, FS_EmptySet
    <2>3. landed \cup took_off = list /\ Cardinality(landed) \in Nat /\ Cardinality(took_off) \in Nat
      BY <1>7, <1>8
    <2>4. Cardinality(list) = Cardinality(landed) + Cardinality(took_off)
      <3> HIDE DEF landed, took_off
      <3>1. Cardinality(landed \cup took_off) = Cardinality(landed) + Cardinality(took_off)
        BY <2>1, <2>2, <2>3
      <3> QED BY <2>3, <3>1
    <2> QED BY <2>4
  <1>10. MovementsToday(t) = [list |-> list, count |-> Cardinality(list),
                              landed |-> Cardinality(Of("landed")),
                              took_off |-> Cardinality(Of("took_off"))]
    BY DEF MovementsToday, ListedMovements, among, list
  <1> HIDE DEF Of
  <1> QED BY <1>4, <1>9, <1>10 DEF among

(* The next statement is answered from the tables and the clock of now.    *)
LEMMA RunAnswers ==
  ASSUME QueriesInv, RunStatement
  PROVE  LET name == Statements[build + 1]
         IN  /\ build \in 0 .. 16 /\ build' = build + 1
             /\ name \notin DOMAIN data /\ DOMAIN data' = DOMAIN data \cup {name}
             /\ \A other \in DOMAIN data : data'[other] = data[other]
             /\ data'[name].at = now /\ data'[name].rows = Len(Table(name))
             /\ data'[name].result = Result(name, now)
             /\ UNCHANGED <<tz, now, sightings, movements, inView, between>>
  <1> DEFINE name == Statements[build + 1]
  <1>1. build \in 0 .. 16 /\ build' = build + 1
    BY StatementsAre DEF RunStatement
  <1>2. data' = [other \in DOMAIN data \cup {name} |->
                   IF other = name THEN Answer(other, now) ELSE data[other]]
    BY DEF RunStatement
  <1>3. name \notin DOMAIN data
    <2>1. \A i \in 1 .. build : Statements[i] # Statements[build + 1]
      BY <1>1, StatementsAre
    <2> QED BY <2>1 DEF QueriesInv, QueriesTypeOK
  <1> HIDE DEF name
  <1>4. data'[name] = [result |-> Result(name, now), at |-> now, rows |-> Len(Table(name))]
    BY <1>2 DEF Answer
  <1>5. UNCHANGED <<tz, now, sightings, movements, inView, between>>
    BY DEF RunStatement, tables
  <1> QED BY <1>1, <1>2, <1>3, <1>4, <1>5 DEF name

LEMMA RunKeeps == ASSUME QueriesInv, RunStatement PROVE QueriesInv'
  <1>0. PICK name : name = Statements[build + 1]
    OBVIOUS
  <1>1. /\ build \in 0 .. 16 /\ build' = build + 1
        /\ name \notin DOMAIN data /\ DOMAIN data' = DOMAIN data \cup {name}
        /\ \A other \in DOMAIN data : data'[other] = data[other]
        /\ data'[name].at = now /\ data'[name].rows = Len(Table(name))
        /\ data'[name].result = Result(name, now)
        /\ UNCHANGED <<tz, now, sightings, movements, inView, between>>
    BY <1>0, RunAnswers
  <1>2. QueriesTypeOK /\ DOMAIN data = {Statements[i] : i \in 1 .. build} /\ build \in Int
    BY DEF QueriesInv, QueriesTypeOK
  <1>3. QueriesTypeOK'
    <2>1. {Statements[i] : i \in 1 .. build + 1} = {Statements[i] : i \in 1 .. build} \cup {name}
      BY <1>0, <1>1
    <2>2. DOMAIN data' = {Statements[i] : i \in 1 .. build'}
      BY <1>1, <1>2, <2>1
    <2>3. build' \in -1 .. 17
      BY <1>1
    <2>4. UNCHANGED <<tz, now, sightings, movements, inView, between>>
      BY <1>1
    <2> QED BY <1>2, <2>2, <2>3, <2>4 DEF QueriesTypeOK
  <1>4. /\ now \in Nat /\ between \in Nat
        /\ Len(sightings) \in Nat /\ DOMAIN sightings = 1 .. Len(sightings)
        /\ \A i \in 1 .. Len(sightings) : sightings[i].time <= now
        /\ Len(movements) \in Nat /\ DOMAIN movements = 1 .. Len(movements)
        /\ \A i \in 1 .. Len(movements) : movements[i].time <= now
        /\ \A other : Table(other)' = Table(other)
    <2>1. between \in Nat
      BY <1>2, QueriesAssumption DEF QueriesTypeOK
    <2>2. \A other : Table(other)' = Table(other)
      BY <1>1 DEF Table
    <2> QED BY <1>2, <2>1, <2>2, RowFacts
  <1>5. AskedLately'
    <2> SUFFICES ASSUME NEW other \in DOMAIN data'
                 PROVE  /\ data'[other].at \in 0 .. now /\ now - data'[other].at <= between
                        /\ data'[other].rows \in 0 .. Len(Table(other))
                        /\ \A i \in 1 .. data'[other].rows :
                              Table(other)[i].time <= data'[other].at
      BY <1>1, <1>4 DEF AskedLately, Then
    <2>1. CASE other = name
      <3>1. /\ Len(Table(name)) \in Nat
            /\ \A i \in 1 .. Len(Table(name)) : Table(name)[i].time <= now
        BY <1>4 DEF Table
      <3> QED BY <1>1, <1>4, <2>1, <3>1
    <2>2. CASE other \in DOMAIN data
      BY <1>1, <2>2 DEF QueriesInv, AskedLately, Then
    <2> QED BY <1>1, <2>1, <2>2
  <1>6. AskedInOrder'
    <2> SUFFICES ASSUME NEW i \in 1 .. build + 1, NEW j \in 1 .. build + 1, i <= j
                 PROVE  /\ data'[Statements[i]].at <= data'[Statements[j]].at
                        /\ 14 \notin {i, j} =>
                              data'[Statements[i]].rows <= data'[Statements[j]].rows
      BY <1>1 DEF AskedInOrder
    <2>1. \A k \in 1 .. build : /\ Statements[k] \in DOMAIN data
                                /\ data'[Statements[k]] = data[Statements[k]]
      BY <1>1, <1>2
    <2>2. CASE j # build + 1
      <3>1. i \in 1 .. build /\ j \in 1 .. build
        BY <1>2, <2>2
      <3> QED BY <2>1, <3>1 DEF QueriesInv, AskedInOrder
    <2>3. CASE j = build + 1 /\ i # build + 1
      <3>1. i \in 1 .. build
        BY <1>2, <2>3
      <3>2. /\ data[Statements[i]].at \in 0 .. now
            /\ data[Statements[i]].rows \in 0 .. Len(Table(Statements[i]))
        BY <2>1, <3>1 DEF QueriesInv, AskedLately
      <3>3. 14 \notin {i, j} => Table(Statements[i]) = sightings /\ Table(name) = sightings
        <4>1. ASSUME NEW k \in 1 .. 17, k # 14 PROVE Statements[k] # "movements_today"
          <5>1. Statements[k] # Statements[14]
            BY <4>1, StatementsAre
          <5> QED BY <5>1, StatementsAre
        <4>2. i \in 1 .. 17 /\ j \in 1 .. 17 /\ name = Statements[j]
          BY <1>0, <1>1, <2>3, <3>1
        <4> QED BY <4>1, <4>2 DEF Table
      <3> QED BY <1>0, <1>1, <1>4, <2>1, <2>3, <3>1, <3>2, <3>3
    <2>4. CASE i = build + 1 /\ j = build + 1
      <3>1. Len(Table(name)) \in Nat
        BY <1>4 DEF Table
      <3> QED BY <1>0, <1>1, <1>4, <2>4, <3>1
    <2> QED BY <2>2, <2>3, <2>4
  <1>7. ASSUME NEW other \in DOMAIN data PROVE Answered(other)'
    <2>1. /\ Answered(other) /\ data'[other] = data[other]
      BY <1>1, <1>7 DEF QueriesInv
    <2>2. /\ Got(other)' = Got(other) /\ Then(other)' = Then(other)
          /\ data[other].at' = data[other].at
          /\ LocalMidnight(data[other].at)' = LocalMidnight(data[other].at)
      BY <1>1, <2>1 DEF Got, Then, LocalMidnight, Utc, Date, Fold, Wall
    <2>3. \A t : SeenSince(other, t)' = SeenSince(other, t)
      BY <1>1, <2>2 DEF SeenSince
    <2>4. SeenThisWeek(other)' = SeenThisWeek(other)
      BY <1>1, <2>1, <2>2 DEF SeenThisWeek
    <2>5. \A what : SeenMeeting(other, what)' = SeenMeeting(other, what)
      BY <1>1, <2>2 DEF SeenMeeting
    <2>6. \A h : SeenInHour(other, h)' = SeenInHour(other, h)
      BY <1>1, <2>2 DEF SeenInHour, Bucket, Wall
    <2>7. \A t : SeenMovements(other, t)' = SeenMovements(other, t)
      BY <1>1, <2>2 DEF SeenMovements
    <2>8. inView' = inView
      BY <1>1
    <2> QED BY <2>1, <2>2, <2>3, <2>4, <2>5, <2>6, <2>7, <2>8 DEF Answered, ListOf
  <1>8. Answered(name)'
    <2>1. /\ Got(name)' = Result(name, now) /\ Then(name)' = 1 .. Len(Table(name))
          /\ data[name].at' = now /\ data[name].rows' = Len(Table(name)) /\ inView' = inView
          /\ LocalMidnight(data[name].at)' = LocalMidnight(now)
      <3>1. Got(name)' = Result(name, now) /\ Then(name)' = 1 .. Len(Table(name))
        BY <1>1, <1>4 DEF Got, Then
      <3>2. LocalMidnight(data[name].at)' = LocalMidnight(now)
        BY <1>1 DEF LocalMidnight, Utc, Date, Fold, Wall
      <3> QED BY <1>1, <3>1, <3>2
    <2>2. CASE name = "movements_today"
      <3>1. Result(name, now) = MovementsToday(now)
        BY <2>2 DEF Result
      <3>2. Table(name) = movements
        BY <2>2 DEF Table
      <3>3. \A t : SeenMovements(name, t)' = Since(movements, t)
        BY <1>1, <1>4, <2>1, <3>2 DEF SeenMovements, Since
      <3>4. LET seen == Since(movements, LocalMidnight(now))
            IN  /\ MovementsToday(now).list \subseteq seen
                /\ MovementsToday(now).count = AtMost(Limit, Cardinality(seen))
                /\ MovementsToday(now).landed + MovementsToday(now).took_off
                      = MovementsToday(now).count
        BY <1>2, MovementsFacts
      <3> QED BY <2>1, <2>2, <3>1, <3>3, <3>4 DEF Answered
    <2>3. CASE name # "movements_today"
      <3>0. Table(name) = sightings /\ Then(name)' = DOMAIN sightings
        BY <1>4, <2>1, <2>3 DEF Table
      <3>1. \A t : SeenSince(name, t)' = Since(sightings, t)
        BY <1>1, <3>0 DEF SeenSince, Since
      <3>2. SeenThisWeek(name)' = ThisWeek(sightings, now)
        BY <1>1, <2>1, <3>0 DEF SeenThisWeek, ThisWeek
      <3>3. \A what : SeenMeeting(name, what)' = Meeting(sightings, what)
        BY <1>1, <3>0 DEF SeenMeeting, Meeting
      <3>4. name \in {"today", "stats.today"} =>
               Result(name, now) = Cardinality(Since(sightings, LocalMidnight(now)))
        BY DEF Result
      <3>5. /\ name = "stats.count" => Result(name, now) = Len(sightings)
            /\ name = "stats.this_week" => Result(name, now) = Cardinality(ThisWeek(sightings, now))
        BY DEF Result
      <3>6. /\ name = "active_1h" =>
                  Result(name, now) = Cardinality(Since(sightings, now - 1)) + inView
            /\ name = "active_24h" =>
                  Result(name, now) = Cardinality(Since(sightings, now - Day)) + inView
        BY DEF Result
      <3>7. /\ name = "overhead.count" =>
                  Result(name, now) = Cardinality(Meeting(sightings, "overhead"))
            /\ name = "military.count" =>
                  Result(name, now) = Cardinality(Meeting(sightings, "military"))
        BY DEF Result
      <3>8. /\ name = "overhead.list" =>
                  Result(name, now) = Newest(sightings, Meeting(sightings, "overhead"))
            /\ name = "military.list" =>
                  Result(name, now) = Newest(sightings, Meeting(sightings, "military"))
            /\ name = "search.list" =>
                  Result(name, now) = Newest(sightings, Meeting(sightings, "search"))
        BY DEF Result
      <3>9. /\ name = "overhead.list" => ListOf(name, "overhead")'
            /\ name = "military.list" => ListOf(name, "military")'
            /\ name = "search.list" => ListOf(name, "search")'
        BY <1>2, <2>1, <3>3, <3>8, ListFacts DEF ListOf
      <3>10. name = "hour_histogram" =>
                Got(name)' = [h \in 0 .. Day - 1 |-> Cardinality(SeenInHour(name, h)')]
        <4>1. name = "hour_histogram" => Result(name, now) = Histogram(sightings)
          BY DEF Result
        <4>2. \A h : SeenInHour(name, h)' =
                        {i \in DOMAIN sightings : Bucket(sightings[i].time) = h}
          BY <1>1, <3>0 DEF SeenInHour, Bucket, Wall
        <4> QED BY <2>1, <4>1, <4>2 DEF Histogram
      <3> QED BY <2>1, <2>3, <3>0, <3>1, <3>2, <3>3, <3>4, <3>5, <3>6, <3>7, <3>9, <3>10
              DEF Answered
    <2> QED BY <2>2, <2>3
  <1> QED BY <1>1, <1>3, <1>5, <1>6, <1>7, <1>8 DEF QueriesInv

(* The invariant holds in every reachable state.                           *)
LEMMA QueriesInvariance == Spec => []QueriesInv
  <1>1. Init => QueriesInv
    <2> SUFFICES ASSUME Init PROVE QueriesInv
      OBVIOUS
    <2>1. DOMAIN data = {} /\ build = -1 /\ 1 .. build = {}
      BY DEF Init, NoData
    <2>2. QueriesTypeOK
      BY <2>1, QueriesAssumption DEF Init, QueriesTypeOK
    <2> QED BY <2>1, <2>2 DEF QueriesInv, AskedLately, AskedInOrder
  <1>2. QueriesInv /\ [Next]_vars => QueriesInv'
    <2> SUFFICES ASSUME QueriesInv, [Next]_vars PROVE QueriesInv'
      OBVIOUS
    <2>1. CASE (\E flights \in 0 .. MaxInView : StartBuild(flights)) \/ EndBuild
      BY <2>1, BuildKeeps
    <2>2. CASE RunStatement
      BY <2>2, RunKeeps
    <2> QED BY <2>1, <2>2, TablesKeep DEF Next
  <1> QED BY <1>1, <1>2, PTL DEF Spec

-----------------------------------------------------------------------------
(* Queries: what the invariant says.                                       *)

(* Rows a statement saw can be counted, and are no more than it saw.       *)
LEMMA SeenCount ==
  ASSUME QueriesInv, NEW name \in DOMAIN data, NEW S, S \subseteq Then(name)
  PROVE  IsFiniteSet(S) /\ Cardinality(S) \in 0 .. data[name].rows
  <1>1. data[name].rows \in Nat
    <2>1. Len(Table(name)) \in Nat
      BY RowFacts DEF QueriesInv, Table
    <2> QED BY <2>1 DEF QueriesInv, AskedLately
  <1>2. IsFiniteSet(Then(name)) /\ Cardinality(Then(name)) = data[name].rows
    BY <1>1, FS_Interval DEF Then
  <1>3. IsFiniteSet(S) /\ Cardinality(S) \in Nat /\ Cardinality(S) <= Cardinality(Then(name))
    BY <1>2, SubsetCount
  <1> QED BY <1>1, <1>2, <1>3

(* When a statement has been asked, so have those before it, not long ago  *)
(* and of no more rows.                                                    *)
Before(a, b) ==
    b \in DOMAIN data =>
        /\ a \in DOMAIN data
        /\ data[a].at \in Nat /\ data[b].at \in Nat
        /\ data[a].rows \in Nat /\ data[b].rows \in Nat
        /\ data[a].at <= data[b].at /\ data[b].at - data[a].at < Day
        /\ data[a].rows <= data[b].rows /\ data[b].rows <= Len(sightings)

LEMMA AskedBefore ==
  ASSUME QueriesInv, NEW i \in 1 .. 17, NEW j \in 1 .. 17, i <= j, 14 \notin {i, j}
  PROVE  Before(Statements[i], Statements[j])
  <1> DEFINE a == Statements[i]
             b == Statements[j]
  <1> SUFFICES ASSUME b \in DOMAIN data PROVE Before(a, b)
    BY DEF Before
  <1>1. DOMAIN data = {Statements[k] : k \in 1 .. build} /\ build \in -1 .. 17
    BY DEF QueriesInv, QueriesTypeOK
  <1>2. j \in 1 .. build
    BY <1>1, StatementsAre
  <1>3. i \in 1 .. build /\ a \in DOMAIN data /\ b \in DOMAIN data
    BY <1>1, <1>2
  <1>4. data[a].at <= data[b].at /\ data[a].rows <= data[b].rows
    BY <1>2, <1>3 DEF QueriesInv, AskedInOrder
  <1> HIDE DEF a, b
  <1>5. /\ now \in Nat /\ Len(sightings) \in Nat /\ between \in Nat /\ between < Day /\ Day \in Nat
    BY RowFacts, QueriesAssumption DEF QueriesInv, QueriesTypeOK
  <1>6. /\ data[a].at \in 0 .. now /\ data[b].at \in 0 .. now /\ now - data[a].at <= between
        /\ data[a].rows \in 0 .. Len(sightings) /\ data[b].rows \in 0 .. Len(sightings)
    <2>1. Statements[i] # Statements[14] /\ Statements[j] # Statements[14]
      BY StatementsAre
    <2>2. Table(a) = sightings /\ Table(b) = sightings
      BY <2>1, StatementsAre DEF Table, a, b
    <2> QED BY <1>3, <2>2 DEF QueriesInv, AskedLately
  <1> QED BY <1>3, <1>4, <1>5, <1>6 DEF Before

LEMMA InOrder ==
  ASSUME QueriesInv
  PROVE  /\ Before("today", "stats.today") /\ Before("stats.today", "stats.this_week")
         /\ Before("stats.this_week", "active_24h") /\ Before("active_1h", "active_24h")
         /\ Before("overhead.count", "overhead.list")
         /\ Before("military.list", "military.count")
         /\ Before("stats.today", "hour_histogram")
  <1>1. /\ Before(Statements[1], Statements[3]) /\ Before(Statements[3], Statements[4])
        /\ Before(Statements[4], Statements[16]) /\ Before(Statements[15], Statements[16])
        /\ Before(Statements[8], Statements[9]) /\ Before(Statements[10], Statements[11])
        /\ Before(Statements[3], Statements[13])
    BY AskedBefore
  <1> QED BY <1>1, StatementsAre

(* The rows a statement saw happened at known times, none in its future.   *)
LEMMA SeenTimes ==
  ASSUME QueriesInv, NEW name \in DOMAIN data, name # "movements_today"
  PROVE  /\ data[name].at \in Nat /\ data[name].rows \in Nat
         /\ \A i \in Then(name) : /\ i \in DOMAIN sightings
                                 /\ sightings[i].time \in Nat
                                 /\ sightings[i].time <= data[name].at
  <1>1. /\ now \in Nat /\ Len(sightings) \in Nat /\ DOMAIN sightings = 1 .. Len(sightings)
        /\ \A i \in DOMAIN sightings : sightings[i].time \in 0 .. now
    BY RowFacts DEF QueriesInv
  <1>2. /\ data[name].at \in 0 .. now /\ data[name].rows \in 0 .. Len(sightings)
        /\ \A i \in Then(name) : sightings[i].time <= data[name].at
    BY DEF QueriesInv, AskedLately, Table
  <1>3. Then(name) = 1 .. data[name].rows
    BY DEF Then
  <1> QED BY <1>1, <1>2, <1>3

LEMMA SeenMovementTimes ==
  ASSUME QueriesInv, NEW name \in DOMAIN data, name = "movements_today"
  PROVE  /\ data[name].at \in Nat
         /\ \A i \in Then(name) : movements[i].time \in Nat /\ movements[i].time <= data[name].at
  <1>1. /\ now \in Nat /\ Len(movements) \in Nat /\ DOMAIN movements = 1 .. Len(movements)
        /\ \A i \in DOMAIN movements : movements[i].time \in 0 .. now
    BY RowFacts DEF QueriesInv
  <1>2. /\ data[name].at \in 0 .. now /\ data[name].rows \in 0 .. Len(movements)
        /\ \A i \in Then(name) : movements[i].time <= data[name].at
    BY DEF QueriesInv, AskedLately, Table
  <1>3. Then(name) = 1 .. data[name].rows
    BY DEF Then
  <1> QED BY <1>1, <1>2, <1>3

(* No row is of the future, no statement returns more rows than its LIMIT  *)
(* or counts more rows than there were.                                    *)
THEOREM QueriesTypes == Spec => []TypeOK
  <1>1. ASSUME QueriesInv PROVE TypeOK
    <2>1. QueriesTypeOK /\ Len(Statements) = 17
      BY <1>1, StatementsAre DEF QueriesInv
    <2>2. ASSUME NEW name \in DOMAIN data
          PROVE  /\ data[name].at \in 0 .. now /\ data[name].rows \in 0 .. Len(Table(name))
                 /\ name \in Tiles => data[name].result \in inView .. data[name].rows + inView
                 /\ name \in Counts => data[name].result \in 0 .. data[name].rows
                 /\ name \in RowLists => /\ data[name].result \subseteq 1 .. data[name].rows
                                        /\ Cardinality(data[name].result) <= Limit
      <3>1. /\ data[name].at \in 0 .. now /\ data[name].rows \in 0 .. Len(Table(name))
            /\ Answered(name)
        BY <1>1 DEF QueriesInv, AskedLately
      <3>2. data[name].rows \in Nat /\ inView \in Nat
        <4>1. Len(Table(name)) \in Nat
          BY <1>1, RowFacts DEF QueriesInv, Table
        <4>2. inView \in Nat
          BY <2>1, QueriesAssumption DEF QueriesTypeOK
        <4> QED BY <3>1, <4>1, <4>2
      <3>3. /\ \A t : Cardinality(SeenSince(name, t)) \in 0 .. data[name].rows
            /\ \A what : Cardinality(SeenMeeting(name, what)) \in 0 .. data[name].rows
            /\ Cardinality(SeenThisWeek(name)) \in 0 .. data[name].rows
        <4>1. /\ \A t : SeenSince(name, t) \subseteq Then(name)
              /\ \A what : SeenMeeting(name, what) \subseteq Then(name)
              /\ SeenThisWeek(name) \subseteq Then(name)
          BY DEF SeenSince, SeenMeeting, SeenThisWeek
        <4> QED BY <1>1, <4>1, SeenCount
      <3>4. name \in Counts => data[name].result \in 0 .. data[name].rows
        BY <3>1, <3>2, <3>3 DEF Counts, Answered, Got
      <3>5. name \in RowLists => /\ data[name].result \subseteq 1 .. data[name].rows
                                /\ Cardinality(data[name].result) <= Limit
        BY <3>1 DEF RowLists, Answered, ListOf, Got, SeenMeeting, Then
      <3>6. name \in Tiles => data[name].result \in inView .. data[name].rows + inView
        <4>1. name \in Tiles => \E t : data[name].result = Cardinality(SeenSince(name, t)) + inView
          BY <3>1 DEF Tiles, Answered, Got
        <4> QED BY <3>2, <3>3, <4>1
      <3> QED BY <3>1, <3>4, <3>5, <3>6
    <2> QED BY <2>1, <2>2 DEF TypeOK, QueriesTypeOK, SightingType, MovementType
  <1> QED BY <1>1, QueriesInvariance, PTL

(* "Sightings today" counts the rows of today's local date, on days of 23  *)
(* and 25 hours too.                                                       *)
THEOREM TodaysAreCounted == Spec => []TodayIsToday
  <1>1. ASSUME QueriesInv PROVE TodayIsToday
    <2> SUFFICES ASSUME NEW name \in DOMAIN data, name \in {"today", "stats.today"},
                        ~RepeatsMidnight(data[name].at)
                 PROVE  Got(name) = Cardinality({i \in Then(name) :
                                        Date(sightings[i].time) = Date(data[name].at)})
      BY DEF TodayIsToday
    <2>1. tz \in Zones /\ Answered(name)
      BY <1>1 DEF QueriesInv, QueriesTypeOK
    <2>2. ASSUME NEW i \in Then(name)
          PROVE  sightings[i].time >= LocalMidnight(data[name].at) <=>
                    Date(sightings[i].time) = Date(data[name].at)
      BY <1>1, <2>1, SeenTimes, MidnightIsWhereTodayBegins
    <2>3. SeenSince(name, LocalMidnight(data[name].at)) =
             {i \in Then(name) : Date(sightings[i].time) = Date(data[name].at)}
      BY <2>2 DEF SeenSince
    <2> QED BY <2>1, <2>3 DEF Answered
  <1> QED BY <1>1, QueriesInvariance, PTL

(* The day of the cutoff begins at most a day before it.                   *)
LEMMA WeekFacts ==
  ASSUME NEW t \in Int, NEW u \in Int
  PROVE  /\ u >= t - WeekDays * Day => u \div Day >= WeekBefore(t)
         /\ u \div Day >= WeekBefore(t) => u >= t - (WeekDays + 1) * Day + 1
  <1> DEFINE cutoff == t - WeekDays * Day
  <1>1. Day \in Nat \ {0} /\ WeekDays \in Nat /\ WeekDays * Day \in Int
    BY QueriesAssumption
  <1>2. cutoff \in Int /\ (WeekDays + 1) * Day = WeekDays * Day + Day
    BY <1>1
  <1>3. WeekBefore(t) = cutoff \div Day
    BY DEF WeekBefore
  <1> HIDE DEF cutoff
  <1>4. /\ cutoff \div Day \in Int /\ Day * (cutoff \div Day) <= cutoff
        /\ cutoff < Day * (cutoff \div Day) + Day /\ Day * (cutoff \div Day) \in Int
    BY <1>1, <1>2, Div
  <1>5. u \div Day >= cutoff \div Day <=> u >= Day * (cutoff \div Day)
    BY <1>1, <1>4, DivFrom
  <1>6. t - (WeekDays + 1) * Day + 1 = cutoff - Day + 1
    BY <1>1, <1>2 DEF cutoff
  <1> QED BY <1>1, <1>2, <1>3, <1>4, <1>5, <1>6 DEF cutoff

(* "Sightings this week" counts every row of the last seven days and none  *)
(* that is older than eight.                                               *)
THEOREM WeeksAreSevenToEightDays == Spec => []WeekIsSevenToEightDays
  <1>1. ASSUME QueriesInv PROVE WeekIsSevenToEightDays
    <2> DEFINE name == "stats.this_week"
               t    == data[name].at
               inner == SeenSince(name, t - WeekDays * Day)
               outer == SeenSince(name, t - (WeekDays + 1) * Day + 1)
    <2> SUFFICES ASSUME name \in DOMAIN data
                 PROVE  Got(name) \in Cardinality(inner) .. Cardinality(outer)
      BY DEF WeekIsSevenToEightDays, Asked, SeenSince
    <2>1. Got(name) = Cardinality(SeenThisWeek(name))
      BY <1>1 DEF QueriesInv, Answered
    <2>2. \A i \in Then(name) :
             /\ sightings[i].time >= t - WeekDays * Day =>
                   sightings[i].time \div Day >= WeekBefore(t)
             /\ sightings[i].time \div Day >= WeekBefore(t) =>
                   sightings[i].time >= t - (WeekDays + 1) * Day + 1
      BY <1>1, SeenTimes, WeekFacts
    <2>3. inner \subseteq SeenThisWeek(name) /\ SeenThisWeek(name) \subseteq outer
      BY <2>2 DEF SeenSince, SeenThisWeek
    <2>4. outer \subseteq Then(name)
      BY DEF SeenSince
    <2> HIDE DEF name, inner, outer
    <2>5. IsFiniteSet(outer)
      BY <1>1, <2>4, SeenCount
    <2>6. IsFiniteSet(SeenThisWeek(name))
      BY <2>3, <2>5, SubsetCount
    <2>7. /\ Cardinality(inner) <= Cardinality(SeenThisWeek(name))
          /\ Cardinality(SeenThisWeek(name)) <= Cardinality(outer)
          /\ Cardinality(inner) \in Nat /\ Cardinality(outer) \in Nat
          /\ Cardinality(SeenThisWeek(name)) \in Nat
      BY <2>3, <2>5, <2>6, SubsetCount
    <2> QED BY <2>1, <2>7
  <1> QED BY <1>1, QueriesInvariance, PTL

(* The rows that meet a condition, of two prefixes of the table.           *)
LEMMA MeetingCounts ==
  ASSUME QueriesInv, NEW a \in DOMAIN data, NEW b \in DOMAIN data, NEW what,
         data[a].rows <= data[b].rows, "movements_today" \notin {a, b}
  PROVE  /\ IsFiniteSet(SeenMeeting(a, what)) /\ IsFiniteSet(SeenMeeting(b, what))
         /\ SeenMeeting(a, what) \subseteq SeenMeeting(b, what)
         /\ Cardinality(SeenMeeting(a, what)) \in Nat /\ Cardinality(SeenMeeting(b, what)) \in Nat
         /\ Cardinality(SeenMeeting(b, what)) <=
               Cardinality(SeenMeeting(a, what)) + (data[b].rows - data[a].rows)
  <1> DEFINE S == {i \in DOMAIN sightings : what \in sightings[i].is.meets}
             m == data[a].rows
             n == data[b].rows
  <1>1. m \in Nat /\ n \in Nat
    BY SeenTimes
  <1>2. /\ SeenMeeting(a, what) = {i \in 1 .. m : i \in S}
        /\ SeenMeeting(b, what) = {i \in 1 .. n : i \in S}
    BY SeenTimes DEF SeenMeeting, Then
  <1> HIDE DEF S, m, n
  <1>3. /\ Cardinality({i \in 1 .. n : i \in S}) <=
              Cardinality({i \in 1 .. m : i \in S}) + (n - m)
        /\ Cardinality({i \in 1 .. m : i \in S}) \in Nat
        /\ IsFiniteSet({i \in 1 .. n : i \in S})
        /\ Cardinality({i \in 1 .. n : i \in S}) \in 0 .. n
    BY <1>1, PrefixCount DEF m, n
  <1>4. {i \in 1 .. m : i \in S} \subseteq {i \in 1 .. n : i \in S}
    BY <1>1 DEF m, n
  <1>5. IsFiniteSet({i \in 1 .. m : i \in S})
    BY <1>3, <1>4, SubsetCount
  <1> QED BY <1>1, <1>2, <1>3, <1>4, <1>5 DEF m, n

(* The count beside a list covers the list, and that of query_movements_   *)
(* today is the movements of the local day up to the LIMIT.                *)
THEOREM CountsCoverLists == Spec => []ListsMatchCounts
  <1>1. ASSUME QueriesInv PROVE ListsMatchCounts
    <2>1. ASSUME "military.count" \in DOMAIN data
          PROVE  Cardinality(Got("military.list")) <= Got("military.count")
      <3>1. /\ "military.list" \in DOMAIN data
            /\ data["military.list"].rows <= data["military.count"].rows
        BY <1>1, <2>1, InOrder DEF Before
      <3>2. /\ Got("military.list") \subseteq SeenMeeting("military.list", "military")
            /\ Got("military.count") = Cardinality(SeenMeeting("military.count", "military"))
        BY <1>1, <2>1, <3>1 DEF QueriesInv, Answered, ListOf
      <3>3. /\ IsFiniteSet(SeenMeeting("military.count", "military"))
            /\ Got("military.list") \subseteq SeenMeeting("military.count", "military")
        BY <1>1, <2>1, <3>1, <3>2, MeetingCounts
      <3> QED BY <3>2, <3>3, SubsetCount
    <2>2. ASSUME "overhead.list" \in DOMAIN data
          PROVE  Cardinality(Got("overhead.list")) - Got("overhead.count")
                    <= data["overhead.list"].rows - data["overhead.count"].rows
      <3> DEFINE a == "overhead.count"
                 b == "overhead.list"
      <3>1. /\ a \in DOMAIN data /\ data[a].rows <= data[b].rows
            /\ data[a].rows \in Nat /\ data[b].rows \in Nat
        BY <1>1, <2>2, InOrder DEF Before
      <3>2. /\ Got(b) \subseteq SeenMeeting(b, "overhead")
            /\ Got(a) = Cardinality(SeenMeeting(a, "overhead"))
        BY <1>1, <2>2, <3>1 DEF QueriesInv, Answered, ListOf
      <3>3. /\ IsFiniteSet(SeenMeeting(b, "overhead"))
            /\ Cardinality(SeenMeeting(a, "overhead")) \in Nat
            /\ Cardinality(SeenMeeting(b, "overhead")) \in Nat
            /\ Cardinality(SeenMeeting(b, "overhead")) <=
                  Cardinality(SeenMeeting(a, "overhead")) + (data[b].rows - data[a].rows)
        BY <1>1, <2>2, <3>1, MeetingCounts
      <3>4. /\ Cardinality(Got(b)) <= Cardinality(SeenMeeting(b, "overhead"))
            /\ Cardinality(Got(b)) \in Nat
        BY <3>2, <3>3, SubsetCount
      <3> HIDE DEF a, b
      <3>5. Cardinality(Got(b)) - Got(a) <= data[b].rows - data[a].rows
        BY <3>1, <3>2, <3>3, <3>4
      <3> QED BY <3>5 DEF a, b
    <2>3. ASSUME "movements_today" \in DOMAIN data,
                 ~RepeatsMidnight(data["movements_today"].at)
          PROVE  LET got == Got("movements_today")
                     OfToday == {i \in Then("movements_today") :
                                   Date(movements[i].time) = Date(data["movements_today"].at)}
                 IN  /\ got.list \subseteq OfToday
                     /\ got.count = AtMost(Limit, Cardinality(OfToday))
                     /\ got.landed + got.took_off = got.count
      <3> DEFINE t == data["movements_today"].at
      <3>1. tz \in Zones /\ Answered("movements_today")
        BY <1>1, <2>3 DEF QueriesInv, QueriesTypeOK
      <3>2. \A i \in Then("movements_today") :
               movements[i].time >= LocalMidnight(t) <=> Date(movements[i].time) = Date(t)
        BY <1>1, <2>3, <3>1, SeenMovementTimes, MidnightIsWhereTodayBegins
      <3>3. SeenMovements("movements_today", LocalMidnight(t)) =
               {i \in Then("movements_today") : Date(movements[i].time) = Date(t)}
        BY <3>2 DEF SeenMovements
      <3> QED BY <3>1, <3>3 DEF Answered
    <2> QED BY <2>1, <2>2, <2>3 DEF ListsMatchCounts, Asked
  <1> QED BY <1>1, QueriesInvariance, PTL

(* The rows from a time on, of two prefixes of the table.                  *)
LEMMA SinceCounts ==
  ASSUME QueriesInv, NEW a \in DOMAIN data, NEW b \in DOMAIN data, NEW t,
         data[a].rows <= data[b].rows, "movements_today" \notin {a, b}
  PROVE  /\ Cardinality(SeenSince(a, t)) \in Nat /\ Cardinality(SeenSince(b, t)) \in Nat
         /\ Cardinality(SeenSince(a, t)) <= Cardinality(SeenSince(b, t))
         /\ Cardinality(SeenSince(b, t)) <=
               Cardinality(SeenSince(a, t)) + (data[b].rows - data[a].rows)
  <1> DEFINE S == {i \in DOMAIN sightings : sightings[i].time >= t}
             m == data[a].rows
             n == data[b].rows
  <1>1. m \in Nat /\ n \in Nat
    BY SeenTimes
  <1>2. /\ SeenSince(a, t) = {i \in 1 .. m : i \in S}
        /\ SeenSince(b, t) = {i \in 1 .. n : i \in S}
    BY SeenTimes DEF SeenSince, Then
  <1> HIDE DEF S, m, n
  <1>3. /\ Cardinality({i \in 1 .. n : i \in S}) <=
              Cardinality({i \in 1 .. m : i \in S}) + (n - m)
        /\ Cardinality({i \in 1 .. m : i \in S}) \in Nat
        /\ Cardinality({i \in 1 .. m : i \in S}) <= Cardinality({i \in 1 .. n : i \in S})
        /\ Cardinality({i \in 1 .. n : i \in S}) \in 0 .. n
    BY <1>1, PrefixCount DEF m, n
  <1> QED BY <1>1, <1>2, <1>3 DEF m, n

(* The tiles of one build fit together: a wider window counts no less than *)
(* a narrower one asked before it, and no more than one asked after it but *)
(* for what was imported in between and, where only one of the two counts  *)
(* them, the aircraft in view.                                             *)
THEOREM WindowsAreNested == Spec => []WindowsNest
  <1>1. ASSUME QueriesInv PROVE WindowsNest
    <2> DEFINE today  == "stats.today"
               week   == "stats.this_week"
               hour   == "active_1h"
               day    == "active_24h"
    <2>1. Day \in Nat \ {0} /\ WeekDays * Day \in Nat /\ WeekDays * Day >= 2 * Day
      <3>1. Day \in Nat \ {0} /\ WeekDays \in Nat /\ WeekDays >= 2
        BY QueriesAssumption
      <3> QED BY <3>1
    <2>2. tz \in Zones /\ inView \in Nat /\ \A name \in DOMAIN data : Answered(name)
      BY <1>1, QueriesAssumption DEF QueriesInv, QueriesTypeOK
    <2>3. ASSUME week \in DOMAIN data PROVE Got(today) <= Got(week)
      <3>1. /\ today \in DOMAIN data /\ data[today].rows <= data[week].rows
            /\ data[today].at \in Nat /\ data[week].at \in Nat
            /\ data[week].at - data[today].at < Day
            /\ data[today].rows \in Nat /\ data[week].rows \in Nat
        BY <1>1, <2>3, InOrder DEF Before
      <3> DEFINE midnight == LocalMidnight(data[today].at)
      <3>2. /\ Got(today) = Cardinality(SeenSince(today, midnight))
            /\ Got(week) = Cardinality(SeenThisWeek(week))
        BY <2>2, <2>3, <3>1 DEF Answered
      <3>3. midnight \in Int /\ midnight >= data[today].at - Day - 1
        BY <2>2, <3>1, WallFacts, MidnightIsRecent
      <3> HIDE DEF midnight
      <3>4. midnight >= data[week].at - WeekDays * Day
        BY <2>1, <3>1, <3>3
      <3>5. ASSUME NEW i \in Then(today), sightings[i].time >= midnight
            PROVE  i \in Then(week) /\ sightings[i].time \div Day >= WeekBefore(data[week].at)
        <4>1. i \in Then(week)
          BY <3>1 DEF Then
        <4>2. sightings[i].time \in Nat
          BY <1>1, <3>1, SeenTimes
        <4>3. sightings[i].time >= data[week].at - WeekDays * Day
          BY <2>1, <3>1, <3>3, <3>4, <3>5, <4>2
        <4> QED BY <3>1, <4>1, <4>2, <4>3, WeekFacts
      <3>6. SeenSince(today, midnight) \subseteq SeenThisWeek(week)
        BY <3>5 DEF SeenSince, SeenThisWeek
      <3>7. IsFiniteSet(SeenThisWeek(week))
        BY <1>1, <2>3, SeenCount DEF SeenThisWeek
      <3> QED BY <3>2, <3>6, <3>7, SubsetCount
    <2>4. ASSUME today \in DOMAIN data, data["today"].at = data[today].at
          PROVE  Got(today) \in Got("today") ..
                    Got("today") + (data[today].rows - data["today"].rows)
      <3>1. /\ "today" \in DOMAIN data /\ data["today"].rows <= data[today].rows
            /\ data["today"].rows \in Nat /\ data[today].rows \in Nat
        BY <1>1, <2>4, InOrder DEF Before
      <3> DEFINE midnight == LocalMidnight(data[today].at)
      <3>2. /\ Got(today) = Cardinality(SeenSince(today, midnight))
            /\ Got("today") = Cardinality(SeenSince("today", midnight))
        BY <2>2, <2>4, <3>1 DEF Answered
      <3>0. today # "movements_today" /\ "today" # "movements_today"
        OBVIOUS
      <3> HIDE DEF midnight, today
      <3>3. /\ Got("today") \in Nat /\ Got(today) \in Nat /\ Got("today") <= Got(today)
            /\ Got(today) <= Got("today") + (data[today].rows - data["today"].rows)
        BY <1>1, <2>4, <3>0, <3>1, <3>2, SinceCounts
      <3> QED BY <3>1, <3>3
    <2>5. ASSUME day \in DOMAIN data PROVE Got(hour) <= Got(day)
      <3>1. /\ hour \in DOMAIN data /\ data[hour].rows <= data[day].rows
            /\ data[hour].at \in Nat /\ data[day].at \in Nat
            /\ data[day].at - data[hour].at < Day
            /\ data[hour].rows \in Nat /\ data[day].rows \in Nat
        BY <1>1, <2>5, InOrder DEF Before
      <3>2. /\ Got(hour) = Cardinality(SeenSince(hour, data[hour].at - 1)) + inView
            /\ Got(day) = Cardinality(SeenSince(day, data[day].at - Day)) + inView
        BY <2>2, <2>5, <3>1 DEF Answered
      <3>3. ASSUME NEW i \in Then(hour), sightings[i].time >= data[hour].at - 1
            PROVE  i \in Then(day) /\ sightings[i].time >= data[day].at - Day
        <4>1. sightings[i].time \in Nat
          BY <1>1, <3>1, SeenTimes
        <4>2. i \in Then(day)
          BY <3>1 DEF Then
        <4> QED BY <2>1, <3>1, <3>3, <4>1, <4>2
      <3>4. SeenSince(hour, data[hour].at - 1) \subseteq SeenSince(day, data[day].at - Day)
        BY <3>3 DEF SeenSince
      <3>5. IsFiniteSet(SeenSince(day, data[day].at - Day))
        BY <1>1, <2>5, SeenCount DEF SeenSince
      <3>6. /\ Cardinality(SeenSince(hour, data[hour].at - 1))
                  <= Cardinality(SeenSince(day, data[day].at - Day))
            /\ Cardinality(SeenSince(hour, data[hour].at - 1)) \in Nat
            /\ Cardinality(SeenSince(day, data[day].at - Day)) \in Nat
        BY <3>4, <3>5, SubsetCount
      <3> QED BY <2>2, <3>2, <3>6
    <2>6. ASSUME day \in DOMAIN data
          PROVE  Got(day) <= Got(week) + inView + (data[day].rows - data[week].rows)
      <3>1. /\ week \in DOMAIN data /\ data[week].rows <= data[day].rows
            /\ data[week].at \in Nat /\ data[day].at \in Nat /\ data[week].at <= data[day].at
            /\ data[week].rows \in Nat /\ data[day].rows \in Nat
        BY <1>1, <2>6, InOrder DEF Before
      <3> DEFINE from == data[day].at - Day
      <3>2. /\ Got(day) = Cardinality(SeenSince(day, from)) + inView
            /\ Got(week) = Cardinality(SeenThisWeek(week))
        BY <2>2, <2>6, <3>1 DEF Answered
      <3>3. from \in Int /\ from >= data[week].at - WeekDays * Day
        BY <2>1, <3>1
      <3> HIDE DEF from
      <3>4. ASSUME NEW i \in Then(week), sightings[i].time >= from
            PROVE  sightings[i].time \div Day >= WeekBefore(data[week].at)
        <4>1. sightings[i].time \in Nat
          BY <1>1, <3>1, SeenTimes
        <4>2. sightings[i].time >= data[week].at - WeekDays * Day
          BY <2>1, <3>1, <3>3, <3>4, <4>1
        <4> QED BY <3>1, <4>1, <4>2, WeekFacts
      <3>5. SeenSince(week, from) \subseteq SeenThisWeek(week)
        BY <3>4 DEF SeenSince, SeenThisWeek
      <3>6. IsFiniteSet(SeenThisWeek(week))
        BY <1>1, <3>1, SeenCount DEF SeenThisWeek
      <3>7. /\ Cardinality(SeenSince(week, from)) <= Got(week)
            /\ Cardinality(SeenSince(week, from)) \in Nat /\ Got(week) \in Nat
        BY <3>2, <3>5, <3>6, SubsetCount
      <3>8. /\ Cardinality(SeenSince(day, from)) <=
                  Cardinality(SeenSince(week, from)) + (data[day].rows - data[week].rows)
            /\ Cardinality(SeenSince(day, from)) \in Nat
        BY <1>1, <2>6, <3>1, SinceCounts
      <3> HIDE DEF week, day
      <3> QED BY <2>2, <3>1, <3>2, <3>7, <3>8
    <2> QED BY <2>3, <2>4, <2>5, <2>6 DEF WindowsNest, Asked
  <1> QED BY <1>1, QueriesInvariance, PTL

(* The histogram has every row once, and those of today in the hours up to *)
(* the present one, unless clocks are put back by more than an hour.       *)
THEOREM HistogramIsWhole == Spec => []HistogramHoldsToday
  <1>1. ASSUME QueriesInv PROVE HistogramHoldsToday
    <2> DEFINE name  == "hour_histogram"
               today == "stats.today"
               hist  == Got(name)
               t     == data[today].at
               hours == 0 .. Wall(t) % Day
               hourOf == [i \in Then(name) |-> Bucket(sightings[i].time)]
    <2> SUFFICES ASSUME name \in DOMAIN data
                 PROVE  /\ MapThenSumSet(LAMBDA h : hist[h], 0 .. Day - 1) = data[name].rows
                        /\ tz.before - tz.after <= 1 =>
                              Got(today) <= MapThenSumSet(LAMBDA h : hist[h], hours)
      BY DEF HistogramHoldsToday, Asked
    <2>1. /\ tz \in Zones /\ Day \in Nat \ {0}
          /\ today \in DOMAIN data /\ t \in Nat /\ data[today].rows <= data[name].rows
          /\ data[today].rows \in Nat /\ data[name].rows \in Nat
      BY <1>1, ZoneFacts, InOrder DEF Before, QueriesInv, QueriesTypeOK
    <2>2. /\ hist = [h \in 0 .. Day - 1 |-> Cardinality(SeenInHour(name, h))]
          /\ Got(today) = Cardinality(SeenSince(today, LocalMidnight(t)))
      BY <1>1, <2>1 DEF QueriesInv, Answered
    <2>3. IsFiniteSet(Then(name)) /\ Cardinality(Then(name)) = data[name].rows
      BY <2>1, FS_Interval DEF Then
    <2>4. /\ Then(today) \subseteq Then(name)
          /\ \A i \in Then(name) : sightings[i].time \in Nat /\ hourOf[i] \in 0 .. Day - 1
          /\ \A i \in Then(today) : sightings[i].time <= t
      <3>1. Then(today) \subseteq Then(name)
        BY <2>1 DEF Then
      <3>2. \A i \in Then(name) : sightings[i].time \in Nat
        BY <1>1, SeenTimes
      <3>3. \A i \in Then(name) : Bucket(sightings[i].time) \in 0 .. Day - 1
        BY <2>1, <3>2, BucketFacts
      <3> QED BY <1>1, <2>1, <3>1, <3>2, <3>3, SeenTimes
    <2>5. \A h \in 0 .. Day - 1 : hist[h] = Cardinality(Held(Then(name), hourOf, {h}))
      <3>1. \A h : Held(Then(name), hourOf, {h}) = SeenInHour(name, h)
        BY DEF Held, SeenInHour
      <3> QED BY <2>2, <3>1
    <2> HIDE DEF hist, hours
    <2>6. ASSUME NEW S \in SUBSET (0 .. Day - 1)
          PROVE  /\ SumOver(hist, S) = Cardinality(Held(Then(name), hourOf, S))
                 /\ MapThenSumSet(LAMBDA h : hist[h], S) = SumOver(hist, S)
      <3>1. IsFiniteSet(S)
        <4>1. IsFiniteSet(0 .. Day - 1)
          BY <2>1, FS_Interval
        <4> QED BY <4>1, FS_Subset
      <3>2. \A h \in S : hist[h] = Cardinality(Held(Then(name), hourOf, {h}))
        BY <2>5
      <3> HIDE DEF hourOf, name
      <3>3. SumOver(hist, S) = Cardinality(Held(Then(name), hourOf, S))
        BY <2>3, <3>1, <3>2, SumOfBuckets
      <3>4. MapThenSumSet(LAMBDA h : hist[h], S) = SumOver(hist, S)
        BY DEF MapThenSumSet, MapThenFoldSet, SumOver, SumUp, Picked
      <3> QED BY <3>3, <3>4
    <2>7. MapThenSumSet(LAMBDA h : hist[h], 0 .. Day - 1) = data[name].rows
      <3>1. Held(Then(name), hourOf, 0 .. Day - 1) = Then(name)
        BY <2>4 DEF Held
      <3>2. SumOver(hist, 0 .. Day - 1) = data[name].rows
        BY <2>3, <2>6, <3>1
      <3> QED BY <3>2 DEF MapThenSumSet, MapThenFoldSet, SumOver, SumUp, Picked
    <2>8. ASSUME tz.before - tz.after <= 1
          PROVE  Got(today) <= MapThenSumSet(LAMBDA h : hist[h], hours)
      <3>1. Bucket(t) \in 0 .. Day - 1 /\ Bucket(t) = Wall(t) % Day
        BY <2>1, BucketFacts DEF Bucket
      <3>2. hours \in SUBSET (0 .. Day - 1)
        BY <2>1, <3>1 DEF hours
      <3>3. ASSUME NEW i \in Then(today), sightings[i].time >= LocalMidnight(t)
            PROVE  i \in Then(name) /\ hourOf[i] \in hours
        <4>1. i \in Then(name) /\ sightings[i].time \in Nat /\ sightings[i].time <= t
          BY <2>4
        <4>2. Bucket(sightings[i].time) \in 0 .. Wall(t) % Day
          BY <2>1, <2>8, <3>3, <4>1, TodayIsNotAhead
        <4> QED BY <4>1, <4>2 DEF hours
      <3>4. SeenSince(today, LocalMidnight(t)) \subseteq Held(Then(name), hourOf, hours)
        BY <3>3 DEF SeenSince, Held
      <3>5. IsFiniteSet(Held(Then(name), hourOf, hours))
        BY <2>3, FS_Subset DEF Held
      <3>6. Got(today) <= Cardinality(Held(Then(name), hourOf, hours))
        BY <2>2, <3>4, <3>5, SubsetCount
      <3>7. SumOver(hist, hours) = Cardinality(Held(Then(name), hourOf, hours))
        BY <2>6, <3>2
      <3>8. Got(today) <= SumOver(hist, hours)
        BY <3>6, <3>7
      <3> QED BY <3>8 DEF MapThenSumSet, MapThenFoldSet, SumOver, SumUp, Picked
    <2> QED BY <2>7, <2>8
  <1> QED BY <1>1, QueriesInvariance, PTL

=================================================================================
