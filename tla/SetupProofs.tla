------------------------------- MODULE SetupProofs -------------------------------
(***************************************************************************)
(* Theorems about what async_setup_entry starts.                           *)
(*                                                                         *)
(* Lifecycle, for any number of attempts and events: what is registered    *)
(* works, an unload leaves nothing, and an event is taken twice only after *)
(* a setup that raised.                                                    *)
(*                                                                         *)
(* Migrations, for any rows, any older files and any number of failures:   *)
(* the version of a file tells the truth, and an interrupted migration     *)
(* ends where an uninterrupted one would have.                             *)
(***************************************************************************)
EXTENDS Lifecycle, Migrations, FiniteSetTheorems, TLAPS

(* Only the last attempt is still going on.                                *)
OneAtATime ==
    \A i \in Coordinator : i # Len(stage) => stage[i] \in {"closed", "failed"}

(* What a coordinator holds, by how far it has got.  One that failed and   *)
(* is in hass.data holds all there is.                                     *)
Holds ==
    \A i \in Coordinator :
        /\ stage[i] \in {"opened", "refreshing", "forwarding", "loaded", "closing"}
              => i \in connected
        /\ stage[i] \in {"refreshing", "forwarding", "loaded"} => i \in listening
        /\ stage[i] \in {"opening", "opened", "closing", "closed"} => i \notin listening
        /\ stage[i] \in {"opening", "closed"} => i \notin connected
        /\ stage[i] \in {"forwarding", "loaded"} => i \in registered
        /\ i \in registered => /\ i \in connected /\ i \in listening
                               /\ stage[i] \in {"forwarding", "loaded", "failed"}

(* The inductive invariant.                                                *)
IInv == TypeOK /\ OneAtATime /\ Holds /\ TwiceOnlyAfterFailedSetup

-----------------------------------------------------------------------------
(* A set with at most one element counts at most one.                      *)
LEMMA AtMostOne ==
  ASSUME NEW S, NEW x, S \subseteq {x} PROVE Cardinality(S) <= 1
  <1>1. CASE S = {}
    <2>1. Cardinality(S) = 0
      BY <1>1, FS_EmptySet
    <2> QED BY <2>1
  <1>2. CASE S = {x}
    <2>1. Cardinality(S) = 1
      BY <1>2, FS_Singleton
    <2> QED BY <2>1
  <1> QED BY <1>1, <1>2

(* The listeners can be counted.                                           *)
LEMMA ListenersCount == ASSUME TypeOK PROVE Cardinality(listening) \in Nat
  <1>1. listening \subseteq 1 .. Len(stage) /\ Len(stage) \in Nat
    BY DEF TypeOK, Coordinator
  <1>2. IsFiniteSet(1 .. Len(stage))
    BY <1>1, FS_Interval
  <1>3. IsFiniteSet(listening)
    BY <1>1, <1>2, FS_Subset
  <1> QED BY <1>3, FS_CardinalityType

(* What a step of one attempt changes: its stage, and what it holds itself *)
(* - the source's events are not concerned.                                *)
LEMMA StepFacts ==
  ASSUME IInv, NEW i \in Coordinator, Step(i)
  PROVE  /\ i = Len(stage) /\ stage[i] \notin {"closed", "failed"}
         /\ \E to \in Stages : stage' = [stage EXCEPT ![i] = to]
         /\ stage' \in Seq(Stages) /\ Len(stage') = Len(stage) /\ Coordinator' = Coordinator
         /\ \A j \in Coordinator : j # i =>
               /\ stage'[j] = stage[j]
               /\ (j \in connected' <=> j \in connected)
               /\ (j \in listening' <=> j \in listening)
               /\ j \in registered' => j \in registered
         /\ UNCHANGED copies
  <1> USE DEF IInv
  <1>1. stage \in Seq(Stages)
    BY DEF TypeOK
  <1>2. /\ stage[i] \notin {"closed", "failed"}
        /\ \E to \in Stages : stage' = [stage EXCEPT ![i] = to]
    BY DEF Step, OpenDb, Subscribe, FirstRefresh, Forward, Unload, Close, Advance, Stages
  <1>3. /\ stage' \in Seq(Stages) /\ Len(stage') = Len(stage) /\ DOMAIN stage' = DOMAIN stage
        /\ \A j \in Coordinator : j # i => stage'[j] = stage[j]
    BY <1>1, <1>2 DEF Coordinator
  <1>4. /\ \A j \in Coordinator : j # i =>
               /\ (j \in connected' <=> j \in connected)
               /\ (j \in listening' <=> j \in listening)
               /\ j \in registered' => j \in registered
        /\ UNCHANGED copies
    BY DEF Step, OpenDb, Subscribe, FirstRefresh, Forward, Unload, Close, TypeOK, Coordinator
  <1>5. i = Len(stage)
    BY <1>2 DEF OneAtATime
  <1> QED BY <1>2, <1>3, <1>4, <1>5 DEF Coordinator

(* The attempt under way keeps the invariant.                              *)
LEMMA StepKeeps == ASSUME IInv, NEW i \in Coordinator, Step(i) PROVE IInv'
  <1> USE DEF IInv
  <1>1. /\ i = Len(stage) /\ stage[i] \notin {"closed", "failed"}
        /\ stage' \in Seq(Stages) /\ Len(stage') = Len(stage) /\ Coordinator' = Coordinator
        /\ \A j \in Coordinator : j # i =>
              /\ stage'[j] = stage[j]
              /\ (j \in connected' <=> j \in connected)
              /\ (j \in listening' <=> j \in listening)
              /\ j \in registered' => j \in registered
        /\ UNCHANGED copies
    BY StepFacts
  <1>2. stage \in Seq(Stages) /\ DOMAIN stage = Coordinator /\ 0 \notin Coordinator
    BY DEF TypeOK, Coordinator
  <1>3. TypeOK'
    <2>1. stage' \in Seq(Stages) /\ copies' \in Seq(Nat)
      BY <1>1 DEF TypeOK
    <2>2. listed' \in BOOLEAN /\ fr24' \in BOOLEAN /\ services' \in BOOLEAN
      BY DEF TypeOK, Step, OpenDb, Subscribe, FirstRefresh, Forward, Unload, Close
    <2>3. /\ connected' \subseteq Coordinator
          /\ registered' \subseteq Coordinator
          /\ first' \in Nat \ {0}
      BY DEF TypeOK, Step, OpenDb, Subscribe, FirstRefresh, Forward, Unload, Close
    <2>4. listening' \subseteq connected'
      BY DEF TypeOK, Holds, Step, OpenDb, Subscribe, FirstRefresh, Forward, Unload, Close
    <2> QED BY <1>1, <2>1, <2>2, <2>3, <2>4 DEF TypeOK
  <1>4. OneAtATime'
    BY <1>1 DEF OneAtATime
  <1>5. Holds'
    <2>3. /\ stage'[i] \in {"opened", "refreshing", "forwarding", "loaded", "closing"}
                => i \in connected'
          /\ stage'[i] \in {"refreshing", "forwarding", "loaded"} => i \in listening'
          /\ stage'[i] \in {"opening", "opened", "closing", "closed"} => i \notin listening'
          /\ stage'[i] \in {"opening", "closed"} => i \notin connected'
          /\ stage'[i] \in {"forwarding", "loaded"} => i \in registered'
          /\ i \in registered' => /\ i \in connected' /\ i \in listening'
                                  /\ stage'[i] \in {"forwarding", "loaded", "failed"}
      BY <1>2 DEF Holds, Step, OpenDb, Subscribe, FirstRefresh, Forward, Unload, Close, Advance
    <2> QED BY <1>1, <2>3 DEF Holds, OneAtATime
  <1>6. TwiceOnlyAfterFailedSetup'
    <2> SUFFICES ASSUME \A j \in Coordinator : stage'[j] = "failed" => j \notin listening'
                 PROVE  \A n \in DOMAIN copies : copies[n] <= 1
      BY <1>1 DEF TwiceOnlyAfterFailedSetup
    <2>1. \A j \in Coordinator : stage[j] = "failed" => j \notin listening
      BY <1>1
    <2> QED BY <2>1 DEF TwiceOnlyAfterFailedSetup
  <1> QED BY <1>3, <1>4, <1>5, <1>6

(* A new attempt holds nothing yet.                                        *)
LEMMA SetupKeeps == ASSUME IInv, SetupEntry PROVE IInv'
  <1> USE DEF IInv
  <1> DEFINE n == Len(stage) + 1
  <1>1. stage \in Seq(Stages) /\ "opening" \in Stages
    BY DEF TypeOK, Stages
  <1>2. /\ stage' \in Seq(Stages) /\ Len(stage') = n
        /\ Coordinator' = Coordinator \cup {n} /\ n \notin Coordinator /\ n # 0
        /\ \A j \in Coordinator : stage'[j] = stage[j]
        /\ stage'[n] = "opening"
    BY <1>1 DEF SetupEntry, Coordinator
  <1>3. UNCHANGED <<listed, fr24, connected, listening, registered, first, services, copies>>
    BY DEF SetupEntry
  <1>4. n \notin connected /\ n \notin listening /\ n \notin registered
    BY <1>2 DEF TypeOK
  <1> HIDE DEF n
  <1>5. TypeOK'
    BY <1>2, <1>3 DEF TypeOK
  <1>6. OneAtATime'
    BY <1>2 DEF OneAtATime, SetupEntry, Idle
  <1>7. Holds'
    BY <1>2, <1>3, <1>4 DEF Holds
  <1>8. TwiceOnlyAfterFailedSetup'
    BY <1>2, <1>3, <1>4 DEF TwiceOnlyAfterFailedSetup
  <1> QED BY <1>5, <1>6, <1>7, <1>8

(* The source's event goes to those who listen: with no failed coordinator *)
(* among them there is at most one.                                        *)
LEMMA EventKeeps == ASSUME IInv, SourceEvent PROVE IInv'
  <1> USE DEF IInv
  <1> DEFINE c == Cardinality(listening)
  <1>1. c \in Nat
    BY ListenersCount
  <1>2. /\ UNCHANGED <<listed, fr24, stage, connected, listening, registered, first, services>>
        /\ copies' = Append(copies, c)
    BY DEF SourceEvent
  <1>3. copies \in Seq(Nat)
    BY DEF TypeOK
  <1>4. (\A i \in Coordinator : stage[i] = "failed" => i \notin listening) => c <= 1
    <2> SUFFICES ASSUME \A i \in Coordinator : stage[i] = "failed" => i \notin listening
                 PROVE  c <= 1
      OBVIOUS
    <2>1. listening \subseteq {Len(stage)}
      BY DEF TypeOK, OneAtATime, Holds
    <2>2. Cardinality(listening) <= 1
      BY <2>1, AtMostOne, Zenon
    <2> QED BY <2>2
  <1> HIDE DEF c
  <1>5. /\ copies' \in Seq(Nat)
        /\ \A n \in DOMAIN copies' : copies'[n] = c \/ (n \in DOMAIN copies /\ copies'[n] = copies[n])
    BY <1>1, <1>2, <1>3
  <1>6. TypeOK'
    BY <1>2, <1>5 DEF TypeOK, Coordinator
  <1>7. OneAtATime' /\ Holds'
    BY <1>2 DEF OneAtATime, Holds, Coordinator
  <1>8. TwiceOnlyAfterFailedSetup'
    BY <1>2, <1>4, <1>5 DEF TwiceOnlyAfterFailedSetup, Coordinator
  <1> QED BY <1>6, <1>7, <1>8

(* The list of entries and Flightradar24 come and go around it.            *)
LEMMA OthersKeep ==
  ASSUME IInv, AddEntry \/ RemoveEntry \/ Flightradar24ComesOrGoes \/ UNCHANGED vars
  PROVE  IInv'
  <1>1. /\ UNCHANGED <<stage, connected, listening, registered, services, copies>>
        /\ listed' \in BOOLEAN /\ fr24' \in BOOLEAN
    BY DEF IInv, TypeOK, AddEntry, RemoveEntry, Flightradar24ComesOrGoes, vars
  <1>4. first' \in Nat \ {0}
    <2>1. Len(stage) + 1 \in Nat \ {0}
      BY DEF IInv, TypeOK
    <2> QED BY <2>1 DEF IInv, TypeOK, AddEntry, RemoveEntry, Flightradar24ComesOrGoes, vars
  <1>2. TypeOK'
    BY <1>1, <1>4 DEF IInv, TypeOK, Coordinator
  <1>3. OneAtATime' /\ Holds' /\ TwiceOnlyAfterFailedSetup'
    BY <1>1 DEF IInv, OneAtATime, Holds, TwiceOnlyAfterFailedSetup, Coordinator
  <1> QED BY <1>2, <1>3 DEF IInv

-----------------------------------------------------------------------------
(* The invariant holds in every reachable state.                           *)
THEOREM Invariance == Spec => []IInv
  <1>1. Init => IInv
    <2> SUFFICES ASSUME Init PROVE IInv
      OBVIOUS
    <2>1. stage \in Seq(Stages) /\ copies \in Seq(Nat)
      BY DEF Init
    <2>2. Coordinator = {} /\ DOMAIN copies = {}
      BY DEF Init, Coordinator
    <2>4. first \in Nat \ {0} /\ connected = {} /\ listening = {} /\ registered = {}
      BY DEF Init
    <2>5. listed \in BOOLEAN /\ fr24 \in BOOLEAN /\ services \in BOOLEAN
      BY DEF Init
    <2>3. TypeOK
      BY <2>1, <2>4, <2>5 DEF TypeOK
    <2> QED BY <2>2, <2>3, <2>4 DEF IInv, OneAtATime, Holds, TwiceOnlyAfterFailedSetup
  <1>2. IInv /\ [Next]_vars => IInv'
    BY StepKeeps, SetupKeeps, EventKeeps, OthersKeep DEF Next
  <1> QED BY <1>1, <1>2, PTL DEF Spec

(* Every variable keeps its type.                                          *)
THEOREM TypeCorrect == Spec => []TypeOK
  <1>1. IInv => TypeOK
    BY DEF IInv
  <1> QED BY <1>1, Invariance, PTL

(* A coordinator in hass.data is connected and listening, and the one that *)
(* is set up unless its setup raised behind the first refresh.             *)
THEOREM RegisteredWorks == Spec => []RegisteredIsUsable
  <1>1. IInv => RegisteredIsUsable
    BY DEF IInv, TypeOK, Holds, OneAtATime, RegisteredIsUsable
  <1> QED BY <1>1, Invariance, PTL

(* An unloaded coordinator has neither listeners nor a connection.         *)
THEOREM NothingIsLeft == Spec => []UnloadLeavesNothing
  <1>1. IInv => UnloadLeavesNothing
    BY DEF IInv, Holds, UnloadLeavesNothing
  <1> QED BY <1>1, Invariance, PTL

(* Only a setup that raised makes an event be taken twice.                 *)
THEOREM TwiceOnlyThen == Spec => []TwiceOnlyAfterFailedSetup
  <1>1. IInv => TwiceOnlyAfterFailedSetup
    BY DEF IInv
  <1> QED BY <1>1, Invariance, PTL
-----------------------------------------------------------------------------
(* Migrations.                                                             *)

(* A file holds some of the schema, and is at version 0 or 1.              *)
File == [objects : SUBSET Schema, columns : SUBSET Columns,
         photos : [Row -> Photo], version : {0, 1}]

Stage == [closed |-> 1, script |-> Len(BASE_SCHEMA_SQL), columns |-> Len(AddedColumns),
          photos |-> Len(PhotoTables), version |-> 1, commit |-> 1, ready |-> 1]

MigrationsTypeOK ==
    /\ disk \in File /\ work \in File /\ original \in File
    /\ pc \in DOMAIN Stage
    /\ step \in 1 .. Stage[pc]
    /\ fails \in 0 .. MaxFail

(* Only the UPDATEs and user_version are held back from the disk.          *)
OneTransaction ==
    /\ work.objects = disk.objects /\ work.columns = disk.columns
    /\ pc \in {"closed", "script", "columns", "ready"} => work = disk
    /\ pc \notin {"closed", "ready"} => disk.version = 0
    /\ pc \in {"photos", "version"} => work.version = 0
    /\ pc = "commit" => work.version = 1
    /\ pc = "ready" => disk.version = 1

(* What this attempt has made so far.                                      *)
MadeSoFar ==
    /\ pc = "script" => \A i \in 1 .. step - 1 : BASE_SCHEMA_SQL[i] \in work.objects
    /\ pc \in {"columns", "photos", "version", "commit"} => work.objects = Schema
    /\ pc = "columns" => \A i \in 1 .. step - 1 : AddedColumns[i] \in work.columns
    /\ pc \in {"photos", "version", "commit"} => work.columns = Columns

(* The photo of a row as it was found, and as the ladder leaves it.        *)
Cleaned(r) == IF original.photos[r] = "doubled" THEN "clean" ELSE original.photos[r]

(* The photos of a file at version 0 are those it was found with, and the  *)
(* transaction has cleaned the tables it has been through.                 *)
PhotosSoFar ==
    /\ \A r \in Row : original.photos[r] # "broken"
    /\ disk.version = 0 => disk.photos = original.photos
    /\ pc = "photos" => \A r \in Row :
          work.photos[r] = IF step = 2 /\ TableOf[r] = PhotoTables[1]
                           THEN Cleaned(r) ELSE original.photos[r]
    /\ pc \in {"version", "commit"} => \A r \in Row : work.photos[r] = Cleaned(r)

(* A file at version 1 is what an uninterrupted migration would have made  *)
(* of it, but for the rows stored since.                                   *)
Done ==
    disk.version = 1 =>
        /\ disk.objects = Schema /\ disk.columns = Columns
        /\ \A r \in Row : IF original.photos[r] = "absent"
                          THEN disk.photos[r] \in {"absent", "null", "clean"}
                          ELSE disk.photos[r] = Cleaned(r)

MigrationsInv == MigrationsTypeOK /\ OneTransaction /\ MadeSoFar /\ PhotosSoFar /\ Done

-----------------------------------------------------------------------------
(* The statements of the stages.                                           *)
LEMMA Statements ==
  /\ Len(BASE_SCHEMA_SQL) = 18 /\ DOMAIN BASE_SCHEMA_SQL = 1 .. 18
  /\ Len(AddedColumns) = 4 /\ DOMAIN AddedColumns = 1 .. 4
  /\ Len(PhotoTables) = 2 /\ DOMAIN PhotoTables = 1 .. 2
  /\ DOMAIN Stage = {"closed", "script", "columns", "photos", "version", "commit", "ready"}
  /\ Stage.script = 18 /\ Stage.columns = 4 /\ Stage.photos = 2
  /\ Stage.closed = 1 /\ Stage.version = 1 /\ Stage.commit = 1 /\ Stage.ready = 1
  <1>1. Len(BASE_SCHEMA_SQL) = 18 /\ DOMAIN BASE_SCHEMA_SQL = 1 .. 18
    BY DEF BASE_SCHEMA_SQL
  <1>2. Len(AddedColumns) = 4 /\ DOMAIN AddedColumns = 1 .. 4
    BY DEF AddedColumns
  <1>3. Len(PhotoTables) = 2 /\ DOMAIN PhotoTables = 1 .. 2
    BY DEF PhotoTables
  <1> QED BY <1>1, <1>2, <1>3 DEF Stage

(* A file and its parts.                                                   *)
LEMMA FileParts ==
  ASSUME NEW file \in File
  PROVE  /\ file.objects \subseteq Schema /\ file.columns \subseteq Columns
         /\ file.photos \in [Row -> Photo] /\ file.version \in {0, 1}
         /\ file = [objects |-> file.objects, columns |-> file.columns,
                    photos |-> file.photos, version |-> file.version]
  BY DEF File

(* The file is found.                                                      *)
LEMMA FoundInv == MigrationsInit => MigrationsInv
  <1> SUFFICES ASSUME MigrationsInit PROVE MigrationsInv
    OBVIOUS
  <1>1. PICK shape \in OldShapes \cup {FreshFile}, photos \in [Row -> Photo \ {"broken"}] :
           disk = [objects |-> shape.objects, columns |-> shape.columns,
                   photos |-> photos, version |-> 0]
    BY DEF MigrationsInit
  <1>2. shape.objects \subseteq Schema /\ shape.columns \subseteq Columns
    BY MigrationsAssumption DEF FreshFile
  <1>3. disk \in File
    BY <1>1, <1>2 DEF File
  <1>4. /\ work = disk /\ original = disk /\ pc = "closed" /\ step = 1 /\ fails = 0
        /\ disk.version = 0 /\ disk.photos = photos
    BY <1>1 DEF MigrationsInit
  <1>5. MigrationsTypeOK
    BY <1>3, <1>4, Statements, MigrationsAssumption DEF MigrationsTypeOK
  <1> QED BY <1>4, <1>5 DEF MigrationsInv, OneTransaction, MadeSoFar, PhotosSoFar, Done

LEMMA OpenKeeps == ASSUME MigrationsInv, Open PROVE MigrationsInv'
  <1> USE DEF MigrationsInv
  <1>1. /\ pc = "closed" /\ step' = 1 /\ UNCHANGED <<disk, work, fails, original>>
        /\ pc' = IF disk.version < 1 THEN "script" ELSE "ready"
    BY DEF Open, Goto, SCHEMA_VERSION
  <1>2. disk \in File /\ work = disk /\ disk.version \in {0, 1}
    BY <1>1, FileParts DEF MigrationsTypeOK, OneTransaction
  <1>3. pc' = IF disk.version = 0 THEN "script" ELSE "ready"
    BY <1>1, <1>2
  <1>4. MigrationsTypeOK'
    BY <1>1, <1>3, Statements DEF MigrationsTypeOK
  <1>5. OneTransaction'
    BY <1>1, <1>2, <1>3 DEF OneTransaction
  <1>6. MadeSoFar' /\ PhotosSoFar' /\ Done'
    BY <1>1, <1>3 DEF MadeSoFar, PhotosSoFar, Done, Cleaned
  <1> QED BY <1>4, <1>5, <1>6

(* A statement that commits itself leaves photos and version alone.        *)
LEMMA CreateKeeps == ASSUME MigrationsInv, Create PROVE MigrationsInv'
  <1> USE DEF MigrationsInv
  <1> DEFINE object == BASE_SCHEMA_SQL[step]
  <1>1. /\ pc = "script" /\ UNCHANGED <<fails, original>>
        /\ \E columns \in {Columns, work.columns} :
              work' = [work EXCEPT !.objects = @ \cup {object}, !.columns = columns]
        /\ disk' = work'
        /\ IF step < 18 THEN step' = step + 1 /\ pc' = pc ELSE pc' = "columns" /\ step' = 1
    BY Statements DEF Create, AutoCommit, NextStatement, Goto
  <1>2. /\ work \in File /\ work = disk /\ disk.version = 0 /\ step \in 1 .. 18
    BY <1>1, Statements DEF MigrationsTypeOK, OneTransaction
  <1>3. object \in Schema
    BY <1>2, Statements DEF Schema
  <1>4. /\ work'.objects = work.objects \cup {object}
        /\ work'.photos = work.photos /\ work'.version = work.version
        /\ work' \in File
    <2>1. work.objects \cup {object} \subseteq Schema
      BY <1>2, <1>3, FileParts
    <2> HIDE DEF object
    <2>2. PICK columns \in {Columns, work.columns} :
             work' = [work EXCEPT !.objects = @ \cup {object}, !.columns = columns]
      BY <1>1
    <2>3. columns \subseteq Columns
      BY <1>2, FileParts
    <2> QED BY <1>2, <2>1, <2>2, <2>3 DEF File
  <1>5. MigrationsTypeOK'
    BY <1>1, <1>2, <1>4, Statements DEF MigrationsTypeOK
  <1>6. OneTransaction'
    BY <1>1, <1>2, <1>4 DEF OneTransaction
  <1>7. MadeSoFar'
    <2>1. \A i \in 1 .. step : BASE_SCHEMA_SQL[i] \in work'.objects
      BY <1>1, <1>2, <1>4 DEF MadeSoFar
    <2>2. CASE step < 18
      BY <2>1, <2>2, <1>1, <1>2 DEF MadeSoFar
    <2>3. CASE step = 18
      <3>1. Schema \subseteq work'.objects
        BY <2>1, <2>3, Statements DEF Schema
      <3>2. work'.objects = Schema
        BY <3>1, <1>4, FileParts
      <3> QED BY <2>3, <3>2, <1>1 DEF MadeSoFar
    <2> QED BY <2>2, <2>3, <1>2
  <1>8. PhotosSoFar' /\ Done'
    BY <1>1, <1>2, <1>4 DEF PhotosSoFar, Done, Cleaned
  <1> QED BY <1>5, <1>6, <1>7, <1>8

LEMMA AddColumnKeeps == ASSUME MigrationsInv, AddColumn PROVE MigrationsInv'
  <1> USE DEF MigrationsInv
  <1> DEFINE column == AddedColumns[step]
  <1>1. /\ pc = "columns" /\ UNCHANGED <<fails, original>>
        /\ work' = [work EXCEPT !.columns = @ \cup {column}]
        /\ disk' = work'
        /\ IF step < 4 THEN step' = step + 1 /\ pc' = pc ELSE pc' = "photos" /\ step' = 1
    BY Statements DEF AddColumn, AutoCommit, NextStatement, Goto
  <1>2. /\ work \in File /\ work = disk /\ disk.version = 0 /\ step \in 1 .. 4
    BY <1>1, Statements DEF MigrationsTypeOK, OneTransaction
  <1>3. column \in Columns
    BY <1>2, Statements DEF Columns
  <1>4. /\ work'.columns = work.columns \cup {column} /\ work'.objects = work.objects
        /\ work'.photos = work.photos /\ work'.version = work.version
        /\ work' \in File
    <2>1. work.columns \cup {column} \subseteq Columns
      BY <1>2, <1>3, FileParts
    <2> HIDE DEF column
    <2> QED BY <1>1, <1>2, <2>1 DEF File
  <1>5. MigrationsTypeOK'
    BY <1>1, <1>2, <1>4, Statements DEF MigrationsTypeOK
  <1>6. OneTransaction'
    BY <1>1, <1>2, <1>4 DEF OneTransaction
  <1>7. MadeSoFar'
    <2>1. \A i \in 1 .. step : AddedColumns[i] \in work'.columns
      BY <1>1, <1>2, <1>4 DEF MadeSoFar
    <2>2. work'.objects = Schema
      BY <1>1, <1>4 DEF MadeSoFar
    <2>3. CASE step < 4
      BY <2>1, <2>2, <2>3, <1>1, <1>2 DEF MadeSoFar
    <2>4. CASE step = 4
      <3>1. Columns \subseteq work'.columns
        BY <2>1, <2>4, Statements DEF Columns
      <3>2. work'.columns = Columns
        BY <3>1, <1>4, FileParts
      <3> QED BY <2>2, <2>4, <3>2, <1>1 DEF MadeSoFar
    <2> QED BY <2>3, <2>4, <1>2
  <1>8. PhotosSoFar' /\ Done'
    BY <1>1, <1>2, <1>4 DEF PhotosSoFar, Done, Cleaned
  <1> QED BY <1>5, <1>6, <1>7, <1>8

(* An UPDATE cleans the photos of its table, once.                         *)
LEMMA UpdateKeeps == ASSUME MigrationsInv, UpdatePhotos PROVE MigrationsInv'
  <1> USE DEF MigrationsInv
  <1> DEFINE fixed == FixPhotos(work.photos, PhotoTables[step])
  <1>1. /\ pc = "photos" /\ UNCHANGED <<disk, fails, original>>
        /\ work' = [work EXCEPT !.photos = fixed]
        /\ IF step < 2 THEN step' = step + 1 /\ pc' = pc ELSE pc' = "version" /\ step' = 1
    BY Statements DEF UpdatePhotos, NextStatement, Goto
  <1>2. /\ work \in File /\ original \in File /\ disk.version = 0 /\ step \in 1 .. 2
        /\ work.photos \in [Row -> Photo] /\ original.photos \in [Row -> Photo]
    BY <1>1, Statements, FileParts DEF MigrationsTypeOK, OneTransaction
  <1>3. /\ fixed \in [Row -> Photo]
        /\ \A r \in Row : fixed[r] = IF TableOf[r] = PhotoTables[step] /\ work.photos[r] = "doubled"
                                     THEN "clean" ELSE work.photos[r]
    BY <1>2 DEF FixPhotos, CutSix, Photo
  <1> HIDE DEF fixed
  <1>4. /\ work'.photos = fixed /\ work'.objects = work.objects
        /\ work'.columns = work.columns /\ work'.version = work.version
        /\ work' \in File
    BY <1>1, <1>2, <1>3 DEF File
  <1>5. MigrationsTypeOK'
    BY <1>1, <1>2, <1>4, Statements DEF MigrationsTypeOK
  <1>6. OneTransaction' /\ MadeSoFar' /\ Done'
    BY <1>1, <1>2, <1>4 DEF OneTransaction, MadeSoFar, Done
  <1>7. PhotosSoFar'
    <2>1. \A r \in Row : TableOf[r] \in {PhotoTables[1], PhotoTables[2]}
      BY MigrationsAssumption, Statements
    <2>2. PhotoTables[1] # PhotoTables[2]
      BY DEF PhotoTables
    <2>3. CASE step = 1
      <3>1. \A r \in Row : work.photos[r] = original.photos[r]
        BY <1>1, <2>3 DEF PhotosSoFar
      <3>2. \A r \in Row : work'.photos[r] = IF TableOf[r] = PhotoTables[1]
                                            THEN Cleaned(r) ELSE original.photos[r]
        BY <3>1, <2>3, <1>3, <1>4 DEF Cleaned
      <3>3. /\ \A r \in Row : original'.photos[r] # "broken"
            /\ disk'.version = 0 => disk'.photos = original'.photos
            /\ pc' = "photos" /\ step' = 2 /\ original' = original
        BY <1>1, <2>3 DEF PhotosSoFar
      <3> QED BY <3>2, <3>3 DEF PhotosSoFar, Cleaned
    <2>4. CASE step = 2
      <3>1. \A r \in Row : work.photos[r] = IF TableOf[r] = PhotoTables[1]
                                           THEN Cleaned(r) ELSE original.photos[r]
        BY <1>1, <2>4 DEF PhotosSoFar
      <3>2. \A r \in Row : work'.photos[r] = Cleaned(r)
        BY <3>1, <2>1, <2>2, <2>4, <1>3, <1>4 DEF Cleaned
      <3>3. /\ \A r \in Row : original'.photos[r] # "broken"
            /\ disk'.version = 0 => disk'.photos = original'.photos
            /\ pc' = "version" /\ original' = original
        BY <1>1, <2>4 DEF PhotosSoFar
      <3> QED BY <3>2, <3>3 DEF PhotosSoFar, Cleaned
    <2> QED BY <2>3, <2>4, <1>2
  <1> QED BY <1>5, <1>6, <1>7

LEMMA SetVersionKeeps == ASSUME MigrationsInv, SetVersion PROVE MigrationsInv'
  <1> USE DEF MigrationsInv
  <1>1. /\ pc = "version" /\ pc' = "commit" /\ step' = 1 /\ UNCHANGED <<disk, fails, original>>
        /\ work' = [work EXCEPT !.version = @ + 1]
    BY DEF SetVersion, Goto
  <1>2. work \in File /\ work.version = 0
    BY <1>1 DEF MigrationsTypeOK, OneTransaction
  <1>3. /\ work'.version = 1 /\ work'.photos = work.photos
        /\ work'.objects = work.objects /\ work'.columns = work.columns
        /\ work' \in File
    BY <1>1, <1>2 DEF File
  <1>4. MigrationsTypeOK'
    BY <1>1, <1>3, Statements DEF MigrationsTypeOK
  <1>5. OneTransaction' /\ MadeSoFar'
    BY <1>1, <1>3 DEF OneTransaction, MadeSoFar
  <1>6. PhotosSoFar' /\ Done'
    BY <1>1, <1>3 DEF PhotosSoFar, Done, Cleaned
  <1> QED BY <1>4, <1>5, <1>6

(* The commit puts a finished file on the disk.                            *)
LEMMA CommitKeeps == ASSUME MigrationsInv, Commit PROVE MigrationsInv'
  <1> USE DEF MigrationsInv
  <1>1. /\ pc = "commit" /\ disk' = work /\ step' = 1 /\ UNCHANGED <<work, fails, original>>
        /\ pc' = IF work.version < 1 THEN "script" ELSE "ready"
    BY DEF Commit, Goto, SCHEMA_VERSION
  <1>2. work.version = 1
    BY <1>1 DEF OneTransaction
  <1>3. pc' = "ready"
    BY <1>1, <1>2
  <1>4. MigrationsTypeOK'
    BY <1>1, <1>3, Statements DEF MigrationsTypeOK
  <1>5. OneTransaction' /\ MadeSoFar'
    BY <1>1, <1>2, <1>3 DEF OneTransaction, MadeSoFar
  <1>6. PhotosSoFar'
    BY <1>1, <1>2, <1>3 DEF PhotosSoFar
  <1>7. Done'
    <2>1. work.objects = Schema /\ work.columns = Columns
      BY <1>1 DEF MadeSoFar
    <2>2. \A r \in Row : work.photos[r] = Cleaned(r) /\ Cleaned(r)' = Cleaned(r)
      BY <1>1 DEF PhotosSoFar, Cleaned
    <2> QED BY <2>1, <2>2, <1>1 DEF Done, Cleaned
  <1> QED BY <1>4, <1>5, <1>6, <1>7

(* The live writer stores clean photos.                                    *)
LEMMA InsertKeeps ==
  ASSUME MigrationsInv, NEW r \in Row, Insert(r) PROVE MigrationsInv'
  <1> USE DEF MigrationsInv
  <1>1. PICK reported \in {"null", "clean", "doubled"} :
           work' = [work EXCEPT !.photos[r] = normalize_photo_url(reported)]
    BY DEF Insert, AutoCommit
  <1>2. /\ pc = "ready" /\ disk.photos[r] = "absent" /\ disk' = work'
        /\ UNCHANGED <<pc, step, fails, original>>
    BY DEF Insert, AutoCommit
  <1> DEFINE photo == normalize_photo_url(reported)
  <1>3. photo \in {"null", "clean"}
    BY DEF normalize_photo_url
  <1> HIDE DEF photo
  <1>4. work \in File /\ work = disk /\ disk.version = 1 /\ work.photos \in [Row -> Photo]
    BY <1>2, FileParts DEF MigrationsTypeOK, OneTransaction
  <1>5. work' = [work EXCEPT !.photos = [work.photos EXCEPT ![r] = photo]]
    BY <1>1 DEF photo
  <1>6. [work.photos EXCEPT ![r] = photo] \in [Row -> Photo]
    BY <1>3, <1>4 DEF Photo
  <1>7. /\ work'.photos = [work.photos EXCEPT ![r] = photo]
        /\ work'.objects = work.objects /\ work'.columns = work.columns
        /\ work'.version = work.version /\ work' \in File
    BY <1>4, <1>5, <1>6 DEF File
  <1>8. MigrationsTypeOK'
    BY <1>2, <1>7 DEF MigrationsTypeOK
  <1>9. OneTransaction' /\ MadeSoFar' /\ PhotosSoFar'
    BY <1>2, <1>4, <1>7 DEF OneTransaction, MadeSoFar, PhotosSoFar
  <1>10. Done'
    <2>1. disk.objects = Schema /\ disk.columns = Columns
      BY <1>4 DEF Done
    <2>2. ASSUME NEW q \in Row
          PROVE  IF original.photos[q] = "absent"
                 THEN disk'.photos[q] \in {"absent", "null", "clean"}
                 ELSE disk'.photos[q] = Cleaned(q)
      <3>1. CASE q = r
        <4>1. original.photos[r] = "absent"
          BY <1>2, <1>4 DEF Done, Cleaned
        <4>2. disk'.photos[r] = photo
          BY <1>2, <1>4, <1>7
        <4> QED BY <3>1, <4>1, <4>2, <1>3
      <3>2. CASE q # r
        <4>1. disk'.photos[q] = disk.photos[q]
          BY <3>2, <1>2, <1>4, <1>7
        <4> QED BY <4>1, <1>4 DEF Done
      <3> QED BY <3>1, <3>2
    <2> QED BY <2>1, <2>2, <1>2, <1>4, <1>7 DEF Done, Cleaned
  <1> QED BY <1>8, <1>9, <1>10

(* What was not committed is gone.                                         *)
LEMMA FailKeeps == ASSUME MigrationsInv, Fail PROVE MigrationsInv'
  <1> USE DEF MigrationsInv
  <1>1. /\ pc' = "closed" /\ step' = 1 /\ work' = disk /\ UNCHANGED <<disk, original>>
        /\ fails < MaxFail /\ fails' = fails + 1
    BY DEF Fail, Goto
  <1>2. MigrationsTypeOK'
    BY <1>1, Statements, MigrationsAssumption DEF MigrationsTypeOK
  <1>3. OneTransaction' /\ MadeSoFar' /\ PhotosSoFar' /\ Done'
    BY <1>1 DEF OneTransaction, MadeSoFar, PhotosSoFar, Done, Cleaned
  <1> QED BY <1>2, <1>3

LEMMA MigrationsInvariance == MigrationsSpec => []MigrationsInv
  <1>1. MigrationsInv /\ [MigrationsNext]_migrationsVars => MigrationsInv'
    <2> SUFFICES ASSUME MigrationsInv, [MigrationsNext]_migrationsVars PROVE MigrationsInv'
      OBVIOUS
    <2>1. CASE UNCHANGED migrationsVars
      BY <2>1 DEF migrationsVars, MigrationsInv, MigrationsTypeOK, OneTransaction, MadeSoFar,
                  PhotosSoFar, Done, Cleaned
    <2>2. CASE MigrationsNext
      BY <2>2, OpenKeeps, CreateKeeps, AddColumnKeeps, UpdateKeeps, SetVersionKeeps,
         CommitKeeps, InsertKeeps, FailKeeps DEF MigrationsNext, Migrate
    <2> QED BY <2>1, <2>2
  <1> QED BY <1>1, FoundInv, PTL DEF MigrationsSpec

(* An index comes after its table in the script, so no statement of the    *)
(* script is refused, whatever tables and indexes are there already: the   *)
(* one guard that could keep a file from ever being opened always holds.   *)
THEOREM NoStatementIsRefused ==
  MigrationsSpec =>
    [](pc = "script" =>
         LET object == BASE_SCHEMA_SQL[step]
         IN  object = Table(object.on) \/ Table(object.on) \in work.objects)
  <1>1. \A n \in 1 .. 18 : \/ BASE_SCHEMA_SQL[n] = Table(BASE_SCHEMA_SQL[n].on)
                          \/ \E i \in 1 .. n - 1 :
                                BASE_SCHEMA_SQL[i] = Table(BASE_SCHEMA_SQL[n].on)
    <2>1. /\ BASE_SCHEMA_SQL[1] = Table("sightings")
          /\ BASE_SCHEMA_SQL[10] = Table("entries")
          /\ BASE_SCHEMA_SQL[12] = Table("airport_movements")
          /\ BASE_SCHEMA_SQL[16] = Table("flight_positions")
      BY DEF BASE_SCHEMA_SQL
    <2>2. /\ \A n \in 1 .. 9 : BASE_SCHEMA_SQL[n].on = "sightings"
          /\ \A n \in 10 .. 11 : BASE_SCHEMA_SQL[n].on = "entries"
          /\ \A n \in 12 .. 15 : BASE_SCHEMA_SQL[n].on = "airport_movements"
          /\ \A n \in 16 .. 18 : BASE_SCHEMA_SQL[n].on = "flight_positions"
      BY DEF BASE_SCHEMA_SQL, Table, Index
    <2> QED BY <2>1, <2>2
  <1>2. ASSUME MigrationsInv, pc = "script"
        PROVE  LET object == BASE_SCHEMA_SQL[step]
               IN  object = Table(object.on) \/ Table(object.on) \in work.objects
    <2>1. step \in 1 .. 18 /\ \A i \in 1 .. step - 1 : BASE_SCHEMA_SQL[i] \in work.objects
      BY <1>2, Statements DEF MigrationsInv, MigrationsTypeOK, MadeSoFar
    <2> QED BY <1>1, <2>1
  <1>3. MigrationsInv => (pc = "script" =>
          LET object == BASE_SCHEMA_SQL[step]
          IN  object = Table(object.on) \/ Table(object.on) \in work.objects)
    BY <1>2
  <1> QED BY <1>3, MigrationsInvariance, PTL

(* Wherever the process died, a file at version 1 is complete: the ladder  *)
(* never skips the rest of a half-done step.                               *)
THEOREM VersionsTellTruth == MigrationsSpec => []VersionTellsTruth
  <1>1. ASSUME MigrationsInv PROVE VersionTellsTruth
    <2>1. disk \in File /\ disk.version \in {0, 1} /\ original.photos \in [Row -> Photo]
      BY <1>1, FileParts DEF MigrationsInv, MigrationsTypeOK
    <2>2. \A r \in Row : Cleaned(r) \notin {"doubled", "broken"}
      BY <1>1 DEF MigrationsInv, PhotosSoFar, Cleaned
    <2>3. disk.version = 1 => Finished(disk)
      BY <1>1, <2>2 DEF MigrationsInv, Done, Finished
    <2> QED BY <2>1, <2>3 DEF VersionTellsTruth, SCHEMA_VERSION
  <1> QED BY <1>1, MigrationsInvariance, PTL

(* After any number of interrupted attempts the file is what one attempt   *)
(* would have made it.                                                     *)
THEOREM RerunsAreNoOps == MigrationsSpec => []RerunIsNoOp
  <1>1. ASSUME MigrationsInv PROVE RerunIsNoOp
    <2> SUFFICES ASSUME pc = "ready"
                 PROVE  /\ Finished(disk)
                        /\ \A r \in Row :
                              IF original.photos[r] = "absent"
                              THEN disk.photos[r] \in {"absent", "null", "clean"}
                              ELSE disk.photos[r] = Cleaned(r)
      BY DEF RerunIsNoOp, Cleaned
    <2>1. disk.version = 1
      BY <1>1 DEF MigrationsInv, OneTransaction
    <2>2. \A r \in Row : Cleaned(r) \notin {"doubled", "broken"}
      BY <1>1 DEF MigrationsInv, PhotosSoFar, Cleaned
    <2> QED BY <1>1, <2>1, <2>2 DEF MigrationsInv, Done, Finished
  <1> QED BY <1>1, MigrationsInvariance, PTL

=================================================================================
