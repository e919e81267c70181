\* The cleanup of the registry.
SPECIFICATION FairSpec
CONSTANTS
  s1 = s1  s2 = s2  a = a  b = b  x = x  y = y
  Set = {s1, s2}
  Storage = {a, b, x, y}
  Router = {r}
  SetOf <- MCSetOf
  Analysis <- MCTwoSets
  ReadOnly = FALSE
  SetTTL = 0
  InstanceTTL = 0
  NoAnalysis = NoAnalysis
  NoStorage = NoStorage
  MaxTime = 1
  MaxRecovery = 2
  MaxLate = 0
  MaxRestart = 0
PROPERTY ExpiredDropped
CHECK_DEADLOCK FALSE
