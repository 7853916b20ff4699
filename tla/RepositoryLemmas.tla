---------------------------- MODULE RepositoryLemmas ----------------------------
(* What the statements of storage/repository.py preserve, for any events.   *)
EXTENDS Repository, TLAPS

(* The empty tables are a store.                                            *)
LEMMA EmptyStoreType == ASSUME NEW E PROVE EmptyStore \in StoreOf(E)
  BY DEF EmptyStore, StoreOf, MaybeTime

(* INSERT OR REPLACE INTO entries keeps the tables well-formed.             *)
LEMMA InsertEntryType ==
  ASSUME NEW E, NEW s \in StoreOf(E), NEW f \in Flight, NEW t \in MaybeTime
  PROVE  InsertEntry(s, f, t) \in StoreOf(E)
  BY DEF InsertEntry, StoreOf

(* Pruning stale entries keeps the tables well-formed.                      *)
LEMMA PruneStaleEntriesType ==
  ASSUME NEW E, NEW s \in StoreOf(E), NEW n
  PROVE  PruneStaleEntries(s, n) \in StoreOf(E)
  BY DEF PruneStaleEntries, StoreOf, MaybeTime

(* take_entry_time yields a time or NULL.                                   *)
LEMMA SelectEntryTimeType ==
  ASSUME NEW E, NEW s \in StoreOf(E), NEW f
  PROVE  SelectEntryTime(s, f) \in MaybeTime
  BY DEF SelectEntryTime, StoreOf, MaybeTime

(* take_entry_time's DELETE keeps the tables well-formed.                   *)
LEMMA DeleteEntryType ==
  ASSUME NEW E, NEW s \in StoreOf(E), NEW f
  PROVE  DeleteEntry(s, f) \in StoreOf(E)
  BY DEF DeleteEntry, StoreOf, MaybeTime

(* Deleting the entry of a flight that has none changes nothing, so it does *)
(* not matter that take_entry_time skips the DELETE then.                   *)
LEMMA DeleteNoEntry ==
  ASSUME NEW E, NEW s \in StoreOf(E), NEW f, SelectEntryTime(s, f) = NoTime
  PROVE  DeleteEntry(s, f) = s
  BY DEF DeleteEntry, SelectEntryTime, StoreOf, MaybeTime

(* INSERT INTO sightings appends a row.                                     *)
LEMMA InsertSightingType ==
  ASSUME NEW E, NEW s \in StoreOf(E), NEW e \in E, NEW t \in MaybeTime
  PROVE  InsertSighting(s, e, t) \in StoreOf(E)
  <1>1. [event |-> e, entry_time |-> t] \in [event : E, entry_time : MaybeTime]
    OBVIOUS
  <1>2. Append(s.sightings, [event |-> e, entry_time |-> t])
          \in Seq([event : E, entry_time : MaybeTime])
    BY <1>1 DEF StoreOf
  <1> QED BY <1>2 DEF InsertSighting, StoreOf

(* INSERT INTO airport_movements appends a row.                             *)
LEMMA InsertMovementType ==
  ASSUME NEW E, NEW s \in StoreOf(E), NEW e \in E
  PROVE  InsertMovement(s, e) \in StoreOf(E)
  <1>1. Append(s.movements, e) \in Seq(E)
    BY DEF StoreOf
  <1> QED BY <1>1 DEF InsertMovement, StoreOf

(* INSERT OR IGNORE INTO flight_positions keeps the tables well-formed.     *)
LEMMA InsertPositionsType ==
  ASSUME NEW E, NEW s \in StoreOf(E),
         NEW rows \in SUBSET [flight : Flight \cup {NoFlight}, ts : Nat, of : E]
  PROVE  InsertPositions(s, rows) \in StoreOf(E)
  BY DEF InsertPositions, StoreOf

(* Pruning positions keeps the tables well-formed.                          *)
LEMMA PruneOldPositionsType ==
  ASSUME NEW E, NEW s \in StoreOf(E), NEW n
  PROVE  PruneOldPositions(s, n) \in StoreOf(E)
  BY DEF PruneOldPositions, StoreOf
=================================================================================
