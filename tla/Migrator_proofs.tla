--------------------------- MODULE Migrator_proofs ---------------------------
(***************************************************************************)
(* The safety of the migrator, for any number of processes, migrations and *)
(* starts.  The strengthening is Reached: what a process has passed in the *)
(* order is recorded for good, because recorded never shrinks and a        *)
(* process only passes a version it knows to be recorded or has recorded.  *)
(***************************************************************************)
EXTENDS Migrator, TLAPS

\* A process knows what is recorded, and all it has passed is recorded.
Reached ==
  \A m \in Migrators : /\ known[m] \subseteq recorded
                       /\ 1..(next[m] - 1) \subseteq recorded

\* Where the loop stands: at a version inside it, past the last one at its end.
AtAVersion ==
  \A m \in Migrators : /\ pc[m] \in {"exec", "record", "commit"} => next[m] \in Versions
                       /\ pc[m] = "done" => next[m] \notin Versions

MigratorInv ==
  /\ MigratorTypeOK
  /\ Reached
  /\ AtAVersion
  /\ RecordMatchesSchema
  /\ AppliedInOrder

\* The migrator starts with an empty record and, at most, the mounted schema.
LEMMA InitEstablishesInv == MigratorInit => MigratorInv
<1> SUFFICES ASSUME MigratorInit PROVE MigratorInv
  OBVIOUS
<1> USE MigratorAssumption
<1>1. MigratorTypeOK
  BY DEF MigratorInit, MigratorTypeOK, InitialSchema, Versions
<1>2. Reached /\ AtAVersion
  BY DEF MigratorInit, Reached, AtAVersion
<1>3. RecordMatchesSchema /\ AppliedInOrder
  BY DEF MigratorInit, RecordMatchesSchema, AppliedInOrder
<1>4. QED
  BY <1>1, <1>2, <1>3 DEF MigratorInv

\* A step that writes neither the schema nor the record, of one process, that
\* keeps its knowledge and its place within what is recorded.
LEMMA LocalStep ==
  ASSUME MigratorInv, UNCHANGED <<created, recorded>>, MigratorTypeOK',
         NEW m \in Migrators,
         \A o \in Migrators \ {m} : /\ pc'[o] = pc[o]
                                    /\ known'[o] = known[o]
                                    /\ next'[o] = next[o],
         known'[m] \subseteq recorded,
         1..(next'[m] - 1) \subseteq recorded,
         pc'[m] \in {"exec", "record", "commit"} => next'[m] \in Versions,
         pc'[m] = "done" => next'[m] \notin Versions
  PROVE  MigratorInv'
<1>1. Reached'
  BY DEF MigratorInv, Reached
<1>2. AtAVersion'
  BY DEF MigratorInv, AtAVersion, Versions
<1>3. RecordMatchesSchema' /\ AppliedInOrder'
  BY DEF MigratorInv, RecordMatchesSchema, AppliedInOrder, InitialSchema, Versions
<1>4. QED
  BY <1>1, <1>2, <1>3 DEF MigratorInv

\* Every step preserves the invariant.
LEMMA StepPreservesInv == MigratorInv /\ [MigratorNext]_migratorVars => MigratorInv'
<1> SUFFICES ASSUME MigratorInv, [MigratorNext]_migratorVars PROVE MigratorInv'
  OBVIOUS
<1> USE MigratorAssumption
<1>t. MigratorTypeOK
  BY DEF MigratorInv
<1>stay. CASE UNCHANGED migratorVars
  BY <1>stay DEF MigratorInv, MigratorTypeOK, Reached, AtAVersion, RecordMatchesSchema,
     AppliedInOrder, InitialSchema, Versions, migratorVars
<1>start. ASSUME NEW m \in Migrators, Start(m) PROVE MigratorInv'
  <2>1. MigratorTypeOK'
    BY <1>t, <1>start DEF MigratorTypeOK, Start, Goto, Versions
  <2>2. pc'[m] = "table" /\ known'[m] = {} /\ next'[m] = 1
    BY <1>t, <1>start DEF MigratorTypeOK, Start, Goto
  <2>3. QED
    BY <1>start, <1>t, <2>1, <2>2, LocalStep DEF Start, Goto, MigratorTypeOK
<1>table. ASSUME NEW m \in Migrators, CreateMigrationsTable(m) PROVE MigratorInv'
  <2>1. MigratorTypeOK'
    BY <1>t, <1>table DEF MigratorTypeOK, CreateMigrationsTable, Goto
  <2>2. pc'[m] = "read" /\ UNCHANGED <<known, next, created, recorded>>
    BY <1>t, <1>table DEF MigratorTypeOK, CreateMigrationsTable, Goto
  <2>3. QED
    BY <1>table, <1>t, <2>1, <2>2, LocalStep
       DEF CreateMigrationsTable, Goto, MigratorTypeOK, MigratorInv, Reached
<1>read. ASSUME NEW m \in Migrators, GetApplied(m) PROVE MigratorInv'
  <2>1. MigratorTypeOK'
    BY <1>t, <1>read DEF MigratorTypeOK, GetApplied, Goto
  <2>2. pc'[m] = "loop" /\ known'[m] = recorded /\ UNCHANGED <<next, created, recorded>>
    BY <1>t, <1>read DEF MigratorTypeOK, GetApplied, Goto
  <2>3. QED
    BY <1>read, <1>t, <2>1, <2>2, LocalStep
       DEF GetApplied, Goto, MigratorTypeOK, MigratorInv, Reached
<1>skip. ASSUME NEW m \in Migrators, Skip(m) PROVE MigratorInv'
  <2>1. next[m] \in recorded /\ next[m] \in Versions
    BY <1>t, <1>skip DEF Skip, MigratorInv, Reached, MigratorTypeOK
  <2>2. pc'[m] = "loop" /\ next'[m] = next[m] + 1 /\ UNCHANGED <<pc, known, created, recorded>>
    BY <1>t, <1>skip DEF MigratorTypeOK, Skip
  <2>3. MigratorTypeOK'
    BY <1>t, <1>skip, <2>1 DEF MigratorTypeOK, Skip, Versions
  <2>4. 1..(next'[m] - 1) \subseteq recorded
    BY <1>t, <2>1, <2>2 DEF MigratorTypeOK, MigratorInv, AppliedInOrder, Versions
  <2>5. QED
    BY <1>skip, <1>t, <2>2, <2>3, <2>4, LocalStep
       DEF Skip, MigratorTypeOK, MigratorInv, Reached
<1>begin. ASSUME NEW m \in Migrators, Begin(m) PROVE MigratorInv'
  <2>1. MigratorTypeOK'
    BY <1>t, <1>begin DEF MigratorTypeOK, Begin, Goto
  <2>2. pc'[m] = "exec" /\ next[m] \in Versions /\ UNCHANGED <<known, next, created, recorded>>
    BY <1>t, <1>begin DEF MigratorTypeOK, Begin, Goto
  <2>3. QED
    BY <1>begin, <1>t, <2>1, <2>2, LocalStep
       DEF Begin, Goto, MigratorTypeOK, MigratorInv, Reached
<1>exec. ASSUME NEW m \in Migrators, Exec(m) \/ Record(m) PROVE MigratorInv'
  <2>1. MigratorTypeOK'
    BY <1>t, <1>exec DEF MigratorTypeOK, Exec, Record, Goto
  <2>2. /\ pc[m] \in {"exec", "record"} /\ pc'[m] \in {"failed", "record", "commit"}
        /\ UNCHANGED <<known, next, created, recorded>>
    BY <1>t, <1>exec DEF MigratorTypeOK, Exec, Record, Goto
  <2>3. next[m] \in Versions
    BY <2>2 DEF MigratorInv, AtAVersion
  <2>4. \A o \in Migrators \ {m} : pc'[o] = pc[o]
    BY <1>t, <1>exec DEF MigratorTypeOK, Exec, Record, Goto
  <2>5. QED
    BY <1>t, <2>1, <2>2, <2>3, <2>4, LocalStep DEF MigratorInv, Reached
<1>commit. ASSUME NEW m \in Migrators, Commit(m) \/ CommitUnacknowledged(m) PROVE MigratorInv'
  <2>1. /\ pc[m] = "commit" /\ next[m] \in Versions
        /\ 1..(next[m] - 1) \subseteq recorded
        /\ created' = created \cup {next[m]}
        /\ recorded' = recorded \cup {next[m]}
        /\ known' = known
    BY <1>commit DEF Commit, CommitUnacknowledged, Committed, MigratorInv, AtAVersion, Reached
  <2>2. MigratorTypeOK'
    <3>1. created' \subseteq Versions /\ recorded' \subseteq Versions
      BY <1>t, <2>1 DEF MigratorTypeOK
    <3>2. next' \in [Migrators -> 1..(Migrations + 1)]
      BY <1>t, <1>commit, <2>1
         DEF MigratorTypeOK, Commit, CommitUnacknowledged, Versions
    <3>3. pc' \in [Migrators -> {"off", "table", "read", "loop", "exec", "record", "commit",
                                "done", "failed"}]
      BY <1>t, <1>commit DEF MigratorTypeOK, Commit, CommitUnacknowledged, Goto
    <3>4. fault' \in [Migrators -> BOOLEAN] /\ UNCHANGED <<known, starts>>
      BY <1>t, <1>commit DEF MigratorTypeOK, Commit, CommitUnacknowledged, Committed
    <3>5. QED
      BY <1>t, <3>1, <3>2, <3>3, <3>4 DEF MigratorTypeOK
  <2>3. /\ \A o \in Migrators \ {m} : pc'[o] = pc[o] /\ next'[o] = next[o]
        /\ next'[m] \in {next[m], next[m] + 1}
        /\ pc'[m] \in {"loop", "failed"}
    BY <1>t, <1>commit DEF MigratorTypeOK, Commit, CommitUnacknowledged, Goto
  <2>4. 1..next[m] \subseteq recorded'
    BY <2>1 DEF Versions
  <2>5. Reached'
    <3>1. \A o \in Migrators : known'[o] \subseteq recorded'
      BY <2>1 DEF MigratorInv, Reached
    <3>2. 1..(next'[m] - 1) \subseteq recorded'
      BY <2>1, <2>3, <2>4 DEF Versions
    <3>3. \A o \in Migrators \ {m} : 1..(next'[o] - 1) \subseteq recorded'
      BY <2>1, <2>3 DEF MigratorInv, Reached
    <3>4. QED
      BY <3>1, <3>2, <3>3 DEF Reached
  <2>6. AtAVersion'
    BY <2>3 DEF MigratorInv, AtAVersion, Versions
  <2>7. RecordMatchesSchema'
    BY <2>1 DEF MigratorInv, RecordMatchesSchema, InitialSchema, Versions
  <2>8. AppliedInOrder'
    BY <2>1, <2>4 DEF MigratorInv, AppliedInOrder
  <2>9. QED
    BY <2>2, <2>5, <2>6, <2>7, <2>8 DEF MigratorInv
<1>finish. ASSUME NEW m \in Migrators, Finish(m) PROVE MigratorInv'
  <2>1. MigratorTypeOK'
    BY <1>t, <1>finish DEF MigratorTypeOK, Finish, Goto
  <2>2. pc'[m] = "done" /\ next[m] \notin Versions /\ UNCHANGED <<known, next, created, recorded>>
    BY <1>t, <1>finish DEF MigratorTypeOK, Finish, Goto
  <2>3. QED
    BY <1>finish, <1>t, <2>1, <2>2, LocalStep
       DEF Finish, Goto, MigratorTypeOK, MigratorInv, Reached
<1>ends. ASSUME NEW m \in Migrators, StatementFails(m) \/ Crash(m) PROVE MigratorInv'
  <2>1. MigratorTypeOK'
    BY <1>t, <1>ends DEF MigratorTypeOK, StatementFails, Crash, Goto
  <2>2. /\ pc'[m] \in {"failed", "off"} /\ UNCHANGED <<known, next, created, recorded>>
        /\ \A o \in Migrators \ {m} : pc'[o] = pc[o]
    BY <1>t, <1>ends DEF MigratorTypeOK, StatementFails, Crash, Goto
  <2>3. QED
    BY <1>t, <2>1, <2>2, LocalStep DEF MigratorInv, Reached
<1>q. QED
  BY <1>stay, <1>start, <1>table, <1>read, <1>skip, <1>begin, <1>exec, <1>commit, <1>finish,
     <1>ends DEF MigratorNext, Proceed

\* The invariant holds of every run of the migrators.
LEMMA Invariance == MigratorSpec => []MigratorInv
BY InitEstablishesInv, StepPreservesInv, PTL DEF MigratorSpec

\* The state keeps its type: no process runs past the last migration
\* (main.go:129-170).
THEOREM MigratorTypeCorrect == MigratorSpec => []MigratorTypeOK
<1>1. MigratorInv => MigratorTypeOK
  BY DEF MigratorInv
<1>2. QED
  BY <1>1, Invariance, PTL

\* Schema and record agree through crashes, lost acknowledgements and races,
\* because a migration commits with its record (main.go:147-167).
THEOREM RecordIsTheSchema == MigratorSpec => []RecordMatchesSchema
<1>1. MigratorInv => RecordMatchesSchema
  BY DEF MigratorInv
<1>2. QED
  BY <1>1, Invariance, PTL

\* However many processes run, the record is a prefix of the migrations
\* (main.go:123, 129-132).
THEOREM RecordIsAPrefix == MigratorSpec => []AppliedInOrder
<1>1. MigratorInv => AppliedInOrder
  BY DEF MigratorInv
<1>2. QED
  BY <1>1, Invariance, PTL

\* A migrator that ends well has left every migration applied
\* (main.go:47-50).
THEOREM SuccessIsComplete == MigratorSpec => []SuccessMeansComplete
<1>1. MigratorInv => SuccessMeansComplete
  <2> SUFFICES ASSUME MigratorInv, NEW m \in Migrators, pc[m] = "done"
               PROVE  recorded = Versions
    BY DEF SuccessMeansComplete
  <2>1. /\ next[m] \in 1..(Migrations + 1) /\ next[m] \notin Versions
        /\ recorded \subseteq Versions /\ 1..(next[m] - 1) \subseteq recorded
    BY DEF MigratorInv, MigratorTypeOK, AtAVersion, Reached
  <2>2. next[m] = Migrations + 1
    BY <2>1, MigratorAssumption DEF Versions
  <2>3. next[m] - 1 = Migrations
    BY <2>2, MigratorAssumption
  <2>4. QED
    BY <2>1, <2>3 DEF Versions
<1>2. QED
  BY <1>1, Invariance, PTL

\* Where the migrators alone make the schema, a failure that is not the
\* database's is a race that another process has won (main.go:153-156).
THEOREM FailureIsALostRace ==
  ASSUME ~ScriptsMounted
  PROVE  MigratorSpec => []FailureIsTransient
<1>1. MigratorInv /\ FailureIsTransient /\ [MigratorNext]_migratorVars => FailureIsTransient'
  <2> SUFFICES ASSUME MigratorInv, FailureIsTransient, [MigratorNext]_migratorVars,
                      NEW m \in Migrators, pc'[m] = "failed", ~fault'[m]
               PROVE  next'[m] \in recorded'
    BY DEF FailureIsTransient
  <2>1. created = recorded
    BY DEF MigratorInv, RecordMatchesSchema, InitialSchema
  <2>2. recorded \subseteq recorded'
    BY DEF MigratorNext, Proceed, Start, CreateMigrationsTable, GetApplied, Skip, Begin, Exec,
           Record, Commit, CommitUnacknowledged, Committed, StatementFails, Finish, Crash,
           migratorVars
  <2>3. CASE pc[m] = "failed" /\ pc' = pc
    <3>1. next'[m] = next[m] /\ fault'[m] = fault[m]
      BY <2>3 DEF MigratorInv, MigratorTypeOK, MigratorNext, Proceed, Start,
             CreateMigrationsTable, GetApplied, Skip, Begin, Exec, Record, Commit,
             CommitUnacknowledged, Committed, StatementFails, Finish, Crash, Goto, Running,
             migratorVars
    <3>2. QED
      BY <2>2, <2>3, <3>1 DEF FailureIsTransient
  <2>4. QED
    BY <2>1, <2>2, <2>3 DEF FailureIsTransient, MigratorInv, MigratorTypeOK, MigratorNext,
       Proceed, Start, CreateMigrationsTable, GetApplied, Skip, Begin, Exec, Record, Commit,
       CommitUnacknowledged, Committed, StatementFails, Finish, Crash, Goto, Running,
       migratorVars
<1>2. MigratorInit => FailureIsTransient
  BY DEF MigratorInit, FailureIsTransient
<1>3. QED
  BY <1>1, <1>2, Invariance, PTL DEF MigratorSpec
=============================================================================
