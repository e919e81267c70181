\* The comment on the LSN in the smart elector.
SPECIFICATION MCSpec
CONSTANTS
  n0 = n0  n1 = n1  n2 = n2  n3 = n3
  UUID = {n0, n1, n2, n3}
  Master = n0
  Status = {"disconnected"}
  Upstream = {"follow"}
  Downstream = {"nil"}
  LSNBehind <- MCLSN
  IdleTime = {0}
  Fingerprint = {1, 2}
  Priority = {0}
  Unreachable = {FALSE}
  MaxLSNLag = 1
  MaxIdleLag = 2
  Half = 4
  Id = {1}
  LSN = {0}
  Shard = {1}
INVARIANT MostUpToDatePreferred
SYMMETRY Symmetry
CHECK_DEADLOCK FALSE
