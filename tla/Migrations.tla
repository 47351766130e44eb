----------------------------- MODULE Migrations -----------------------------
(***************************************************************************)
(* The migrator (src/src/db/migrate.ts) and the privileges of the          *)
(* application's database role.  A run applies every SQL file of           *)
(* src/src/db/sql, one implicit transaction each, on a fresh database or   *)
(* on one in use; runs may overlap, and fail between any two files.        *)
(*                                                                         *)
(* Of the schema only what the files withhold from the role is kept: the   *)
(* UPDATE or DELETE of a table that is to be append-only or forward-only.  *)
(* The blanket GRANT of 0001 covers these tables too once they are there.  *)
(***************************************************************************)
EXTENDS Naturals, Sequences

CONSTANT Migrators  \* runs of migrate, each made once

Both(tables) == tables \X {"UPDATE", "DELETE"}

\* What each file, from 0000 to 0009, creates and revokes in one transaction.
Withheld ==
    << {}, {},
       Both({"audit_log", "security_events"}), {},
       Both({"document_access_log"}),
       {<<"oversight_requests", "DELETE">>},
       Both({"metering_events"}) \cup {<<"webhook_deliveries", "DELETE">>},
       {<<"encryption_key_versions", "DELETE">>}, {},
       Both({"audit_anchors"}) >>

Files == 1 .. 10
BlanketGrant == 2
Privileges == UNION {Withheld[f] : f \in Files}

VARIABLES
    migrator, \* migrator[m]: its phase and the place of the file it applies next
    appRole,  \* whether the role exists
    created,  \* privileges whose table exists
    excess,   \* those of them the role holds
    broken    \* history: those a run that broke off had still to take back

migrationVars == <<migrator, appRole, created, excess, broken>>

MigrationsInit ==
    /\ migrator = [m \in Migrators |-> [phase |-> "new", next |-> 1]]
    /\ appRole = FALSE
    /\ created = {}
    /\ excess = {}
    /\ broken = {}

\* Mutant: the files in the order the directory lists them.
filesAsListed == <<1, 3, 4, 5, 6, 7, 8, 9, 10, 2>>

\* The files sorted by name.
files == [n \in Files |-> n]

InPhase(m, phase) == migrator[m].phase = phase

\* CREATE ROLE unless it is there, its attributes and password, and CONNECT.
EnsureRole(m) ==
    /\ InPhase(m, "new")
    /\ appRole' = TRUE
    /\ migrator' = [migrator EXCEPT ![m].phase = "files"]
    /\ UNCHANGED <<created, excess, broken>>

\* One file, all of it or nothing.
ApplyFile(m) ==
    /\ InPhase(m, "files") /\ appRole
    /\ LET f == files[migrator[m].next]
       IN  /\ created' = created \cup Withheld[f]
           /\ excess' = IF f = BlanketGrant THEN created ELSE excess \ Withheld[f]
           /\ broken' = broken \ Withheld[f]
    /\ migrator' = IF migrator[m].next = Len(files)
                     THEN [migrator EXCEPT ![m].phase = "ended"]
                     ELSE [migrator EXCEPT ![m].next = @ + 1]
    /\ UNCHANGED appRole

\* What run m, having issued the blanket GRANT, has still to take back.
Remaining(m) ==
    IF InPhase(m, "files") /\ \E n \in Files : n < migrator[m].next /\ files[n] = BlanketGrant
      THEN UNION {Withheld[files[n]] : n \in migrator[m].next .. Len(files)}
      ELSE {}

\* A statement fails or the process dies: the files applied so far stay applied.
MigrationFails(m) ==
    /\ migrator[m].phase \in {"new", "files"}
    /\ broken' = broken \cup Remaining(m)
    /\ migrator' = [migrator EXCEPT ![m].phase = "failed"]
    /\ UNCHANGED <<appRole, created, excess>>

MigrationsNext == \E m \in Migrators : EnsureRole(m) \/ ApplyFile(m) \/ MigrationFails(m)

MigrationsSpec == MigrationsInit /\ [][MigrationsNext]_migrationVars
-----------------------------------------------------------------------------
\* Every variable keeps its type.
MigrationsTypeOK ==
    /\ migrator \in
          [Migrators -> [phase : {"new", "files", "ended", "failed"}, next : Files]]
    /\ appRole \in BOOLEAN
    /\ created \subseteq Privileges
    /\ excess \subseteq created
    /\ broken \subseteq Privileges

\* The application can rewrite what is to be append-only at most while a migration
\* is between the blanket GRANT and the REVOKE of the table's file, or after one
\* broke off there and until the file is applied again; whatever the order in which
\* overlapping runs grant and revoke (migrate.ts:73-77; 0002_audit.sql:3-5, "may
\* SELECT/INSERT but NOT UPDATE/DELETE", makes no such exception).
RewritesOnlyDuringMigrations ==
    excess \subseteq broken \cup UNION {Remaining(m) : m \in Migrators}
=============================================================================
