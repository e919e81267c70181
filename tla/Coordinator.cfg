\* A cluster with up to two snapshots and two recoveries, and a kill.
SPECIFICATION Spec
CONSTANTS
  Cluster = {c1}
  MaxSnapshot <- MCSnapshot
  MaxRecovery <- MCRecovery
  MaxWaiting = 1
  MaxCrash = 1
INVARIANTS TypeOK StopOrder StoredIsInstalled RecoveryStoredOnce KnownIsFound
PROPERTY ShutdownReturns
CHECK_DEADLOCK FALSE
