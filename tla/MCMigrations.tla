----------------------------- MODULE MCMigrations -----------------------------
(* Rows of both photo tables, and files with every set of tables, with      *)
(* and without the indexes the old logger made, and with any columns added  *)
(* by an earlier attempt.                                                   *)
EXTENDS Migrations

CONSTANTS s1, m1, m2

Rows    == {s1, m1, m2}
Places  == [r \in Rows |-> IF r = s1 THEN "sightings" ELSE "airport_movements"]

OldTables  == {Table("sightings"), Table("entries"), Table("airport_movements")}
OldIndexes == {Index("exit_time", "sightings"), Index("callsign", "sightings"),
               Index("event_time", "airport_movements")}

Shapes ==
    {[objects |-> tables \cup {x \in indexes : Table(x.on) \in tables},
      columns |-> IF Table("sightings") \in tables THEN columns ELSE {}] :
        tables \in SUBSET OldTables, indexes \in {{}, OldIndexes},
        columns \in {{}, {"entry_time"}, {"entry_time", "heading", "vertical_speed", "on_ground"}}}
===============================================================================
