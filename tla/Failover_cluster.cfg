\* The block period of the configuration file, for a cluster with two sets.
SPECIFICATION Spec
CONSTANTS
  s1 = s1  s2 = s2  a = a  b = b  x = x  y = y
  Set = {s1, s2}
  Storage = {a, b, x, y}
  Router = {r}
  SetOf <- MCSetOf
  Analysis <- MCTwoSets
  ReadOnly = FALSE
  SetTTL = 1
  InstanceTTL = 1
  NoAnalysis = NoAnalysis
  NoStorage = NoStorage
  MaxTime = 3
  MaxRecovery = 3
  MaxLate = 0
  MaxRestart = 0
INVARIANT ClusterBlockPeriod
CHECK_DEADLOCK FALSE
