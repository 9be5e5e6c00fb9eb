SPECIFICATION MigratorSpec
INVARIANT MigratorSucceeds
CHECK_DEADLOCK FALSE
CONSTANTS
  m1 = m1
  m2 = m2
  m3 = m3
  Migrators = {m1}
  Migrations = 3
  ScriptsMounted = TRUE
  MaxStarts = 2
