SPECIFICATION FairMigratorSpec
INVARIANTS MigratorTypeOK RecordMatchesSchema AppliedInOrder SuccessMeansComplete FailureIsTransient
PROPERTY EveryRunEnds
CHECK_DEADLOCK FALSE
CONSTANTS
  m1 = m1
  m2 = m2
  m3 = m3
  Migrators = {m1, m2}
  Migrations = 3
  ScriptsMounted = FALSE
  MaxStarts = 3
