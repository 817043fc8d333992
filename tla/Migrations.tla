----------------------------- MODULE Migrations -----------------------------
(***************************************************************************)
(* db.OpenAndMigrate in several processes on one database file: a daemon   *)
(* started twice, restarted after a crash or replaced by a newer one, each *)
(* with the migrations embedded in its version.  A statement outside a     *)
(* transaction, and a transaction as a whole, is one step; SQLite lets one *)
(* process write at a time, and one that waits too long gets an error.     *)
(***************************************************************************)
EXTENDS Naturals, FiniteSets

CONSTANTS
  Procs,
  Version,     \* how many migrations a process has; names sort by number
  MaxRetries   \* bound on the starts that come after a failure or a crash

ASSUME MigrationsAssumption == Version \in [Procs -> Nat] /\ MaxRetries \in Nat

Names == UNION {1..Version[p] : p \in Procs}

VARIABLES
  versionTable,  \* the table schema_migrations is there
  recorded,      \* its rows
  applied,       \* how often the SQL of a migration has been committed
  opener,        \* a process: "off", at a statement for a migration, "ready"
  retries

migrationVars == <<versionTable, recorded, applied, opener, retries>>

Opener(at, n) == [at |-> at, n |-> n]

MigrationsInit ==
  /\ versionTable = FALSE /\ recorded = {} /\ applied = [n \in Names |-> 0]
  /\ opener = [p \in Procs |-> Opener("off", 0)]
  /\ retries = 0

Reaches(p, at, n) == opener' = [opener EXCEPT ![p] = Opener(at, n)]

\* An error of any statement closes the database, and main returns it.
Quits(p) ==
  /\ retries < MaxRetries /\ retries' = retries + 1
  /\ Reaches(p, "off", 0)

\* A variant with one plausible mistake.
CommittedAnyway(n) == applied' = [applied EXCEPT ![n] = @ + 1]

\* sql.Open, Ping and CREATE TABLE IF NOT EXISTS schema_migrations.
CreateVersionTable(p) ==
  /\ opener[p].at = "off"
  /\ versionTable' = TRUE /\ Reaches(p, "check", 1)
  /\ UNCHANGED <<recorded, applied, retries>>

\* migrationApplied
MigrationApplied(n) == n \in recorded

CheckMigration(p) ==
  LET n == opener[p].n IN
  /\ opener[p].at = "check"
  /\ \/ n > Version[p] /\ Reaches(p, "ready", 0) /\ UNCHANGED retries
     \/ n <= Version[p] /\ MigrationApplied(n) /\ Reaches(p, "check", n + 1) /\ UNCHANGED retries
     \/ n <= Version[p] /\ ~MigrationApplied(n) /\ Reaches(p, "apply", n) /\ UNCHANGED retries
     \/ Quits(p)
  /\ UNCHANGED <<versionTable, recorded, applied>>

\* tx.Rollback
RolledBack(n) == UNCHANGED applied

\* The transaction: the SQL, which does nothing where its objects exist, and
\* the row, whose primary key refuses a second one.
ApplyMigration(p) ==
  LET n == opener[p].n IN
  /\ opener[p].at = "apply"
  /\ \/ /\ n \notin recorded
        /\ recorded' = recorded \cup {n} /\ applied' = [applied EXCEPT ![n] = @ + 1]
        /\ Reaches(p, "check", n + 1) /\ UNCHANGED retries
     \/ Quits(p) /\ RolledBack(n) /\ UNCHANGED recorded
  /\ UNCHANGED versionTable

\* A crash, a SIGKILL, or the regular end of a daemon that is ready.
CrashOrEnd(p) ==
  /\ opener[p].at # "off" /\ Quits(p)
  /\ UNCHANGED <<versionTable, recorded, applied>>

MigrationsNext ==
  \E p \in Procs : CreateVersionTable(p) \/ CheckMigration(p) \/ ApplyMigration(p) \/ CrashOrEnd(p)

MigrationsSpec == MigrationsInit /\ [][MigrationsNext]_migrationVars

-----------------------------------------------------------------------------
(* Properties *)

\* A process that uses the database has all its migrations in it; the record
\* tells exactly those that have been applied, each once, and none before its
\* predecessor, whatever processes race, fail, die and come in newer versions.
SchemaReady ==
  /\ \A p \in Procs : opener[p].at = "ready" => 1..Version[p] \subseteq recorded
  /\ \A n \in Names : applied[n] = IF n \in recorded THEN 1 ELSE 0
  /\ \A n \in recorded : 1..n \subseteq recorded

=============================================================================
