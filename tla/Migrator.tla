------------------------------ MODULE Migrator ------------------------------
(***************************************************************************)
(* src/cmd/migrator/main.go, the command up, run by several processes that *)
(* can die at any point and be started again.  One transaction per         *)
(* migration executes its file and records its version.                    *)
(*                                                                         *)
(* Every file has a CREATE INDEX, TYPE or TRIGGER without IF NOT EXISTS:   *)
(* it fails where its objects exist, and waits while an open transaction   *)
(* has created them.  A statement can also fail in the database, and a     *)
(* commit can take effect although its acknowledgement is lost.            *)
(***************************************************************************)
EXTENDS Integers, FiniteSets

CONSTANTS
  Migrators,          \* processes
  Migrations,         \* how many files there are; a version is a position in their order
  ScriptsMounted,     \* the postgres container ran the files when it was created
  MaxStarts           \* bound on the starts of each process

ASSUME MigratorAssumption ==
  Migrations \in Nat /\ ScriptsMounted \in BOOLEAN /\ MaxStarts \in Nat

Versions == 1..Migrations

VARIABLES
  pc,                 \* "off", "table", "read", "loop", "exec", "record", "commit", "done", "failed"
  known,              \* the map that getAppliedMigrations returned
  next,               \* the version the loop has reached
  fault,              \* the database failed this run
  starts,
  created,            \* the committed schema: versions whose objects exist
  recorded            \* the committed rows of schema_migrations

migratorVars == <<pc, known, next, fault, starts, created, recorded>>

\* docker-compose.yml:14 mounts the migrations as the init scripts of the
\* postgres image, which executes them all and knows nothing of versions.
InitialSchema == IF ScriptsMounted THEN Versions ELSE {}

MigratorInit ==
  /\ pc = [m \in Migrators |-> "off"]
  /\ known = [m \in Migrators |-> {}]
  /\ next = [m \in Migrators |-> 1]
  /\ fault = [m \in Migrators |-> FALSE]
  /\ starts = [m \in Migrators |-> 0]
  /\ created = InitialSchema
  /\ recorded = {}

Goto(m, label) == pc' = [pc EXCEPT ![m] = label]

Running(m) == pc[m] \notin {"off", "done", "failed"}

Start(m) ==
  /\ ~Running(m) /\ starts[m] < MaxStarts
  /\ Goto(m, "table")
  /\ starts' = [starts EXCEPT ![m] = @ + 1]
  /\ known' = [known EXCEPT ![m] = {}]
  /\ next' = [next EXCEPT ![m] = 1]
  /\ fault' = [fault EXCEPT ![m] = FALSE]
  /\ UNCHANGED <<created, recorded>>

\* CREATE TABLE IF NOT EXISTS schema_migrations
CreateMigrationsTable(m) ==
  /\ pc[m] = "table"
  /\ Goto(m, "read")
  /\ UNCHANGED <<known, next, fault, starts, created, recorded>>

\* getAppliedMigrations, once, before the loop
GetApplied(m) ==
  /\ pc[m] = "read"
  /\ known' = [known EXCEPT ![m] = recorded]
  /\ Goto(m, "loop")
  /\ UNCHANGED <<next, fault, starts, created, recorded>>

Skip(m) ==
  /\ pc[m] = "loop" /\ next[m] \in known[m]
  /\ next' = [next EXCEPT ![m] = @ + 1]
  /\ UNCHANGED <<pc, known, fault, starts, created, recorded>>

\* Mutant: a loop over positions that runs one past the last file.
BeginPastTheEnd(m) ==
  /\ pc[m] = "loop" /\ next[m] \in (1..(Migrations + 1)) \ known[m]
  /\ Goto(m, "exec")
  /\ UNCHANGED <<known, next, fault, starts, created, recorded>>

Begin(m) ==
  /\ pc[m] = "loop" /\ next[m] \in Versions \ known[m]
  /\ Goto(m, "exec")
  /\ UNCHANGED <<known, next, fault, starts, created, recorded>>

\* An open transaction has executed the file of version v.
Held(v) == \E m \in Migrators : pc[m] \in {"record", "commit"} /\ next[m] = v

\* Mutants: db.Exec instead of tx.Exec; an error starts the version over.
ExecAutocommit(m) ==
  /\ pc[m] = "exec" /\ ~Held(next[m])
  /\ created' = created \cup {next[m]}
  /\ Goto(m, IF next[m] \in created THEN "failed" ELSE "record")
  /\ UNCHANGED <<known, next, fault, starts, recorded>>
ExecRetries(m) ==
  /\ pc[m] = "exec" /\ ~Held(next[m])
  /\ Goto(m, IF next[m] \in created THEN "loop" ELSE "record")
  /\ UNCHANGED <<known, next, fault, starts, created, recorded>>

\* tx.Exec of the file; an error rolls back and ends the process.
Exec(m) ==
  /\ pc[m] = "exec" /\ ~Held(next[m])
  /\ Goto(m, IF next[m] \in created THEN "failed" ELSE "record")
  /\ UNCHANGED <<known, next, fault, starts, created, recorded>>

\* INSERT INTO schema_migrations, whose primary key is the version
Record(m) ==
  /\ pc[m] = "record"
  /\ Goto(m, IF next[m] \in recorded THEN "failed" ELSE "commit")
  /\ UNCHANGED <<known, next, fault, starts, created, recorded>>

Committed(m) ==
  /\ created' = created \cup {next[m]}
  /\ recorded' = recorded \cup {next[m]}
  /\ UNCHANGED <<known, starts>>

Commit(m) ==
  /\ pc[m] = "commit"
  /\ Committed(m)
  /\ next' = [next EXCEPT ![m] = @ + 1]
  /\ Goto(m, "loop")
  /\ UNCHANGED fault

\* The commit is done and the process is told that it failed.
CommitUnacknowledged(m) ==
  /\ pc[m] = "commit"
  /\ Committed(m)
  /\ Goto(m, "failed")
  /\ fault' = [fault EXCEPT ![m] = TRUE]
  /\ UNCHANGED next

\* Mutant: a migration that fails is logged and the loop goes on.
StatementFailsContinue(m) ==
  /\ Running(m)
  /\ Goto(m, IF pc[m] \in {"table", "read"} THEN "failed" ELSE "loop")
  /\ next' = [next EXCEPT ![m] = IF pc[m] \in {"exec", "record", "commit"} THEN @ + 1 ELSE @]
  /\ fault' = [fault EXCEPT ![m] = TRUE]
  /\ UNCHANGED <<known, starts, created, recorded>>

\* A statement or a file read fails: rollback, and log.Fatal ends the process.
StatementFails(m) ==
  /\ Running(m)
  /\ Goto(m, "failed")
  /\ fault' = [fault EXCEPT ![m] = TRUE]
  /\ UNCHANGED <<known, next, starts, created, recorded>>

Finish(m) ==
  /\ pc[m] = "loop" /\ next[m] \notin Versions
  /\ Goto(m, "done")
  /\ UNCHANGED <<known, next, fault, starts, created, recorded>>

\* The process is killed; the server rolls its transaction back.
Crash(m) ==
  /\ Running(m)
  /\ Goto(m, "off")
  /\ UNCHANGED <<known, next, fault, starts, created, recorded>>

Proceed(m) == \/ CreateMigrationsTable(m) \/ GetApplied(m) \/ Skip(m) \/ Begin(m)
              \/ Exec(m) \/ Record(m) \/ Commit(m) \/ Finish(m)

MigratorNext ==
  \E m \in Migrators : \/ Start(m) \/ Proceed(m)
                       \/ StatementFails(m) \/ CommitUnacknowledged(m) \/ Crash(m)

MigratorSpec == MigratorInit /\ [][MigratorNext]_migratorVars

\* A process is scheduled and the server answers; nobody has to start one.
FairMigratorSpec == MigratorSpec /\ \A m \in Migrators : WF_migratorVars(Proceed(m))

------------------------------------------------------------------------------
(* Properties *)

MigratorTypeOK ==
  /\ pc \in [Migrators -> {"off", "table", "read", "loop", "exec", "record", "commit",
                           "done", "failed"}]
  /\ known \in [Migrators -> SUBSET Versions]
  /\ next \in [Migrators -> 1..(Migrations + 1)]
  /\ fault \in [Migrators -> BOOLEAN]
  /\ starts \in [Migrators -> 0..MaxStarts]
  /\ created \subseteq Versions
  /\ recorded \subseteq Versions

\* What is recorded is what the migrators have created, after crashes, lost
\* commits and concurrent runs (main.go:147-167).
RecordMatchesSchema == created = recorded \cup InitialSchema

\* A later migration is never applied without the earlier ones, although each
\* process works from what it read before its loop (main.go:123, 132).
AppliedInOrder == \A v \in recorded : 1..v \subseteq recorded

\* A migrator that reports success leaves a complete schema.
SuccessMeansComplete == \A m \in Migrators : pc[m] = "done" => recorded = Versions

\* A migrator that fails without a failure of the database has lost a race for
\* a version that another one has applied: the next start gets past it
\* (main.go:153-156).
FailureIsTransient ==
  \A m \in Migrators : pc[m] = "failed" /\ ~fault[m] => next[m] \in recorded

\* A run ends, also when it waits for another one's transaction.
EveryRunEnds == \A m \in Migrators : pc[m] = "table" ~> ~Running(m)

\* BACKEND_STATUS.md:182, "Full stack runs with docker-compose", where the
\* control plane waits for the migrator to complete successfully
\* (docker-compose.yml:95-96): a single migrator that nothing disturbs does
\* not fail.
MigratorSucceeds == \A m \in Migrators : pc[m] = "failed" => fault[m]
=============================================================================
