------------------------------- MODULE Migrations -------------------------------
(***************************************************************************)
(* open_db and the migration ladder: the file is brought from any older    *)
(* shape to the schema of schema.py, one statement at a time, while        *)
(* statements fail and the process dies between any two of them.           *)
(*                                                                         *)
(* executescript and ALTER TABLE run in autocommit, each durable as it     *)
(* ends; the first UPDATE opens the transaction that the photo fixup and   *)
(* user_version share with the commit.                                     *)
(***************************************************************************)
EXTENDS Integers, Sequences

CONSTANTS
    Row,         \* rows of sightings and airport_movements
    TableOf,     \* [Row -> Tables]: the table a row is in, or would be
    OldShapes,   \* [objects, columns]: what an unversioned file may hold
    MaxFail      \* bound: statements that raise, and crashes

VARIABLES
    disk,        \* the committed file
    work,        \* the file as the connection sees it
    pc,          \* where run_migrations is
    step,        \* the statement of a stage
    fails,
    original     \* history: the file as it was found the first time

migrationsVars == <<disk, work, pc, step, fails, original>>

SCHEMA_VERSION == 1

(* BASE_SCHEMA_SQL, in its order: a table, then the indexes on it.         *)
Table(name)     == [name |-> name, on |-> name]
Index(name, on) == [name |-> name, on |-> on]

BASE_SCHEMA_SQL ==
    << Table("sightings"),
       Index("exit_time", "sightings"), Index("callsign", "sightings"),
       Index("airline_iata", "sightings"), Index("aircraft_code", "sightings"),
       Index("altitude_closest", "sightings"), Index("origin", "sightings"),
       Index("destination", "sightings"), Index("registration", "sightings"),
       Table("entries"), Index("entry_time", "entries"),
       Table("airport_movements"),
       Index("event_time", "airport_movements"), Index("airport", "airport_movements"),
       Index("direction", "airport_movements"),
       Table("flight_positions"),
       Index("ts", "flight_positions"), Index("flight", "flight_positions") >>

Schema == {BASE_SCHEMA_SQL[i] : i \in DOMAIN BASE_SCHEMA_SQL}

(* The columns of sightings that older files lack, in _migrate_0_to_1's    *)
(* order, and the tables whose photos it cleans.                           *)
AddedColumns == <<"entry_time", "heading", "vertical_speed", "on_ground">>
Columns      == {AddedColumns[i] : i \in DOMAIN AddedColumns}
PhotoTables  == <<"sightings", "airport_movements">>

(* A row that is not there, a NULL photo, 'https://', 'https:https://', and *)
(* what is left when six characters of a good URL are cut off.              *)
Photo == {"absent", "null", "clean", "doubled", "broken"}

(* substr(aircraft_photo, 7) *)
CutSix(photo) == CASE photo = "doubled" -> "clean"
                   [] photo \in {"clean", "broken"} -> "broken"
                   [] OTHER -> photo

(* UPDATE ... SET substr(...) with no WHERE                                *)
CutPhotos(photos, table) ==
    [r \in Row |-> IF TableOf[r] = table THEN CutSix(photos[r]) ELSE photos[r]]

(* UPDATE ... SET substr(...) WHERE aircraft_photo LIKE 'https:https://%'  *)
FixPhotos(photos, table) ==
    [r \in Row |-> IF TableOf[r] = table /\ photos[r] = "doubled"
                   THEN CutSix(photos[r]) ELSE photos[r]]

FreshFile == [objects |-> {}, columns |-> {}]

(* Of an older file, what the ladder looks at is of the schema.            *)
ASSUME MigrationsAssumption ==
    /\ TableOf \in [Row -> {PhotoTables[i] : i \in DOMAIN PhotoTables}]
    /\ OldShapes \subseteq [objects : SUBSET Schema, columns : SUBSET Columns]
    /\ MaxFail \in Nat

(* The file is new, or an older one without a version, whose sightings and *)
(* movements may hold rows.                                                *)
MigrationsInit ==
    /\ \E shape \in OldShapes \cup {FreshFile} :
       \E photos \in [Row -> Photo \ {"broken"}] :
          /\ \A r \in Row : Table(TableOf[r]) \notin shape.objects => photos[r] = "absent"
          /\ disk = [objects |-> shape.objects, columns |-> shape.columns,
                     photos |-> photos, version |-> 0]
    /\ work = disk
    /\ original = disk
    /\ pc = "closed"
    /\ step = 1
    /\ fails = 0

-----------------------------------------------------------------------------
Goto(stage) == pc' = stage /\ step' = 1

(* A statement of a stage ends: on to the next statement or the next stage. *)
NextStatement(last, next) ==
    IF step < last THEN step' = step + 1 /\ UNCHANGED pc ELSE Goto(next)

AutoCommit(file) == work' = file /\ disk' = file

(* open_db, and the loop condition of run_migrations.                      *)
Open ==
    /\ pc = "closed"
    /\ Goto(IF disk.version < SCHEMA_VERSION THEN "script" ELSE "ready")
    /\ UNCHANGED <<disk, work, fails, original>>

(* CREATE ... IF NOT EXISTS.  A new sightings table has every column; an   *)
(* index needs its table.                                                  *)
Create ==
    LET object == BASE_SCHEMA_SQL[step]
    IN  /\ pc = "script"
        /\ \/ object \in work.objects
           \/ object = Table(object.on)
           \/ Table(object.on) \in work.objects
        /\ AutoCommit([work EXCEPT
              !.objects = @ \cup {object},
              !.columns = IF object = Table("sightings") /\ object \notin work.objects
                          THEN Columns ELSE @])
        /\ NextStatement(Len(BASE_SCHEMA_SQL), "columns")
        /\ UNCHANGED <<fails, original>>

(* ALTER TABLE without looking first.                                      *)
AddColumnUnchecked ==
    /\ pc = "columns"
    /\ AddedColumns[step] \notin work.columns
    /\ AutoCommit([work EXCEPT !.columns = @ \cup {AddedColumns[step]}])
    /\ NextStatement(Len(AddedColumns), "photos")
    /\ UNCHANGED <<fails, original>>

(* _add_column_if_missing: ALTER TABLE refuses a column that is there.     *)
AddColumn ==
    /\ pc = "columns"
    /\ AutoCommit([work EXCEPT !.columns = @ \cup {AddedColumns[step]}])
    /\ NextStatement(Len(AddedColumns), "photos")
    /\ UNCHANGED <<fails, original>>

(* The UPDATEs are in a transaction: the disk does not see them yet.       *)
UpdatePhotos ==
    /\ pc = "photos"
    /\ work' = [work EXCEPT !.photos = FixPhotos(@, PhotoTables[step])]
    /\ NextStatement(Len(PhotoTables), "version")
    /\ UNCHANGED <<disk, fails, original>>

(* user_version set outside the transaction of the UPDATEs.                *)
SetVersionAtOnce ==
    /\ pc = "version"
    /\ work' = [work EXCEPT !.version = @ + 1]
    /\ disk' = [disk EXCEPT !.version = @ + 1]
    /\ Goto("commit")
    /\ UNCHANGED <<fails, original>>

(* PRAGMA user_version = N, in the same transaction.                       *)
SetVersion ==
    /\ pc = "version"
    /\ work' = [work EXCEPT !.version = @ + 1]
    /\ Goto("commit")
    /\ UNCHANGED <<disk, fails, original>>

Commit ==
    /\ pc = "commit"
    /\ disk' = work
    /\ Goto(IF work.version < SCHEMA_VERSION THEN "script" ELSE "ready")
    /\ UNCHANGED <<work, fails, original>>

(* The running integration stores a row: normalize_photo_url cleans what   *)
(* the source reported.                                                    *)
normalize_photo_url(value) == IF value = "doubled" THEN "clean" ELSE value

Insert(r) ==
    /\ pc = "ready"
    /\ disk.photos[r] = "absent"
    /\ \E reported \in {"null", "clean", "doubled"} :
          AutoCommit([work EXCEPT !.photos[r] = normalize_photo_url(reported)])
    /\ UNCHANGED <<pc, step, fails, original>>

(* A statement raises or the process dies: what was not committed is gone, *)
(* and the next open starts over.                                          *)
Fail ==
    /\ pc # "closed"
    /\ fails < MaxFail
    /\ fails' = fails + 1
    /\ work' = disk
    /\ Goto("closed")
    /\ UNCHANGED <<disk, original>>

Migrate == Open \/ Create \/ AddColumn \/ UpdatePhotos \/ SetVersion \/ Commit

MigrationsNext == Migrate \/ (\E r \in Row : Insert(r)) \/ Fail

MigrationsSpec == MigrationsInit /\ [][MigrationsNext]_migrationsVars

(* The executor thread runs on, and whoever restarts opens the file again. *)
FairMigrationsSpec == MigrationsSpec /\ WF_migrationsVars(Migrate)

-----------------------------------------------------------------------------
(* A file that says it is at version 1 has every table, index and column,  *)
(* and no doubled photo prefix: wherever the process died, the ladder will *)
(* not skip the rest of a half-done step (migrations.py:73-77).            *)
Finished(file) ==
    /\ file.objects = Schema
    /\ file.columns = Columns
    /\ \A r \in Row : file.photos[r] \notin {"doubled", "broken"}

VersionTellsTruth == disk.version >= SCHEMA_VERSION => Finished(disk)

(* migrations.py:5-6, "running the same migration twice on the same DB     *)
(* must be a no-op": after any number of interrupted attempts the file is  *)
(* what one uninterrupted migration of the original would have made it.    *)
RerunIsNoOp ==
    pc = "ready" =>
        /\ Finished(disk)
        /\ \A r \in Row :
              IF original.photos[r] = "absent"
              THEN disk.photos[r] \in {"absent", "null", "clean"}
              ELSE disk.photos[r] = IF original.photos[r] = "doubled" THEN "clean"
                                    ELSE original.photos[r]

(* No attempt is ever in the way of the next one: no statement can be      *)
(* refused by what an earlier attempt left, so the file is always opened.  *)
AlwaysOpens == (pc = "closed") ~> (pc = "ready")
=================================================================================
