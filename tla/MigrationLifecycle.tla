------------------------- MODULE MigrationLifecycle -------------------------
(***************************************************************************)
(* What the migration engine promises about migrations, seen through the   *)
(* status of each and the live schema, whatever the commands, the progress *)
(* counters, the checks and the statements look like:                      *)
(*   - the database numbers the migrations, and a status only moves on;    *)
(*   - the schema changes only towards the goal of a migration that is     *)
(*     recorded as running before, table by table;                         *)
(*   - success, and the end of a rollback, are recorded only when the goal *)
(*     is reached.                                                         *)
(***************************************************************************)
EXTENDS Naturals

CONSTANT Models   \* the names of tables

VARIABLES
    rows,     \* the migrations: revision, status, the schemas before and after
    issued,   \* the revision given out last
    schema    \* the tables of the live schema

ledger == <<rows, issued, schema>>

Successors(status) ==
    CASE status = "Pending" -> {"MigrationInProgress"}
      [] status = "MigrationInProgress" -> {"MigrationSuccess", "MigrationFailure"}
      [] status = "MigrationSuccess" -> {"RollingBack"}
      [] status = "RollingBack" -> {"RollbackSuccess", "RollbackFailure"}
      [] OTHER -> {}

\* A migration that changed the schema, or may have, and was not undone.
Counts(m) == m.status \notin {"Pending", "RollbackSuccess"}

\* Is m the last migration that changed the schema?
IsNewest(m) == \A x \in rows : m.revision < x.revision => ~Counts(x)

Init ==
    /\ rows = {}
    /\ issued = 0
    /\ schema \in SUBSET Models

Announce ==
    /\ \E datamodel \in SUBSET Models :
          rows' = rows \cup {[revision |-> issued + 1, status |-> "Pending",
                              datamodel |-> datamodel, before |-> schema]}
    /\ issued' = issued + 1
    /\ UNCHANGED schema

\* A migration is rolled back to the schema that it found when nothing newer
\* is in the way.
Move(m, status) ==
    /\ status = "MigrationSuccess" => schema = m.datamodel
    /\ status = "RollbackSuccess" /\ IsNewest(m) => schema = m.before
    /\ rows' = (rows \ {m}) \cup {[m EXCEPT !.status = status]}
    /\ UNCHANGED <<issued, schema>>

Goal(m) == IF m.status = "MigrationInProgress" THEN m.datamodel ELSE m.before

Change(m) ==
    /\ m.status \in {"MigrationInProgress", "RollingBack"}
    /\ \/ \E t \in schema \ Goal(m) : schema' = schema \ {t}
       \/ \E t \in Goal(m) \ schema : schema' = schema \cup {t}
    /\ UNCHANGED <<rows, issued>>

\* reset forgets the migrations, and then the tables and the numbers too.
Clear ==
    /\ rows' = {}
    /\ UNCHANGED <<issued, schema>>

Drop ==
    /\ rows' = {}
    /\ issued' = 0
    /\ schema' = {}

Next ==
    \/ Announce
    \/ \E m \in rows : Change(m) \/ \E status \in Successors(m.status) : Move(m, status)
    \/ Clear
    \/ Drop

Spec == Init /\ [][Next]_ledger
=============================================================================
