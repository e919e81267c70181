\* One replica set, two recoveries with stale analyses, a script that outlives
\* its request and a restart of qumomf.
SPECIFICATION FairSpec
CONSTANTS
  s1 = s1  s2 = s2  a = a  b = b  x = x  y = y
  Set = {s1}
  Storage = {a, b}
  Router = {r}
  SetOf <- MCSetOf
  Analysis <- MCAnalysis
  ReadOnly = FALSE
  SetTTL = 0
  InstanceTTL = 0
  NoAnalysis = NoAnalysis
  NoStorage = NoStorage
  MaxTime = 1
  MaxRecovery = 2
  MaxLate = 1
  MaxRestart = 1
INVARIANTS TypeOK BlockPeriod SuccessSettlesReached RoutersFollowMasters
PROPERTIES RecoveryEnds ShutdownStops
CHECK_DEADLOCK FALSE
