----------------------------- MODULE Migrations -----------------------------
(***************************************************************************)
(* How the processes of the Mac Core start on their one database           *)
(* (services.py: build_services; db/database.py: open, apply_migrations;   *)
(* db/schema.py).  apply_migrations looks for its record in a transaction, *)
(* but executescript commits that transaction before it runs the script,   *)
(* so each statement, and the record after them, commits by itself, and    *)
(* two processes may be between the check and the record at once.  The     *)
(* second to record violates the primary key, and its process exits.       *)
(***************************************************************************)
EXTENDS Naturals, Sequences, SequencesExt

CONSTANTS
  Processes,   \* serve, supervise and the health command
  MaxFailures  \* bound: processes killed and writes that fail

ASSUME StartAssumption == MaxFailures \in Nat

VARIABLES
  tables,    \* the tables and indices there are
  recorded,  \* schema_migrations has the row of version 1
  proc,      \* by process: where it is, and the next statement of the script
  failures   \* how many failures there have been, for the bound

startVars == <<tables, recorded, proc, failures>>

\* MIGRATION_001, each statement with IF NOT EXISTS.
Script ==
  << "schema_migrations", "projects", "artifacts", "tasks",
     "idx_tasks_idempotency_key", "idx_tasks_status_priority",
     "idx_tasks_dedupe_key", "task_dependencies", "task_attempts",
     "task_events", "approvals", "results", "audit_events",
     "idempotency_keys", "device_pairings", "service_health", "event_outbox" >>

At(p) == proc[p].at

\* Process p goes on at a place of its program.
GoTo(p, place) == proc' = [proc EXCEPT ![p] = [at |-> place, next |-> 1]]

\* Database.open.
OpenDatabase(p) ==
  /\ At(p) = "down"
  /\ GoTo(p, "opened")
  /\ UNCHANGED <<tables, recorded, failures>>

\* Mutant: the record is made in the transaction that looks for it.
CheckMigrationsRecording(p) ==
  /\ At(p) = "opened"
  /\ tables' = tables \cup {"schema_migrations"}
  /\ recorded' = TRUE
  /\ GoTo(p, IF recorded THEN "ready" ELSE "script")
  /\ UNCHANGED failures

\* The transaction of apply_migrations, as far as executescript commits it.
CheckMigrations(p) ==
  /\ At(p) = "opened"
  /\ tables' = tables \cup {"schema_migrations"}
  /\ GoTo(p, IF recorded THEN "ready" ELSE "script")
  /\ UNCHANGED <<recorded, failures>>

\* executescript: the next statement.
RunStatement(p) ==
  LET i == proc[p].next IN
  /\ At(p) = "script"
  /\ tables' = tables \cup {Script[i]}
  /\ proc' = [proc EXCEPT ![p] = IF i < Len(Script)
                                   THEN [at |-> "script", next |-> i + 1]
                                   ELSE [at |-> "record", next |-> 1]]
  /\ UNCHANGED <<recorded, failures>>

RecordMigration(p) ==
  /\ At(p) = "record"
  /\ ~recorded
  /\ recorded' = TRUE
  /\ GoTo(p, "ready")
  /\ UNCHANGED <<tables, failures>>

\* Mutant: the process waits until it can insert its record.
RecordRetried(p) ==
  /\ At(p) = "record"
  /\ recorded
  /\ UNCHANGED startVars

\* The INSERT violates the primary key; the exception ends the process.
RecordRefused(p) ==
  /\ At(p) = "record"
  /\ recorded
  /\ GoTo(p, "down")
  /\ UNCHANGED <<tables, recorded, failures>>

\* The process is killed, wherever it is.
Crash(p) ==
  /\ At(p) \notin {"down", "done"}
  /\ failures < MaxFailures
  /\ failures' = failures + 1
  /\ GoTo(p, "down")
  /\ UNCHANGED <<tables, recorded>>

StartInit ==
  /\ tables = {}
  /\ recorded = FALSE
  /\ proc = [p \in Processes |-> [at |-> "down", next |-> 1]]
  /\ failures = 0

\* launchd, or a script of the operator, starts the process; it then goes on.
StartStep(p) ==
  \/ OpenDatabase(p)
  \/ CheckMigrations(p)
  \/ RunStatement(p)
  \/ RecordMigration(p)
  \/ RecordRefused(p)

\* Whoever has found or made the record finds every table, however many starts
\* have overlapped or died half-way (database.py:69-85).
RecordedMeansComplete == recorded => tables = ToSet(Script)
=============================================================================
