\* The analysis of and the election among a master and three followers.
SPECIFICATION MCSpec
CONSTANTS
  n0 = n0  n1 = n1  n2 = n2  n3 = n3
  UUID = {n0, n1, n2, n3}
  Master = n0
  Status = {"follow", "master", "disconnected"}
  Upstream = {"follow", "sync"}
  Downstream = {"nil"}
  LSNBehind <- MCLSN
  IdleTime = {0, 1, 2, 3}
  Fingerprint = {1, 2}
  Priority <- MCPriority
  Unreachable = {FALSE}
  MaxLSNLag = 1
  MaxIdleLag = 2
  Half = 4
  Id = {1, 2, 3}
  LSN <- MCOwnLSN
  Shard = {1, 2}
INVARIANTS TypeOK PromotionIsJustified NoProblemIsHealthy CoMasterIsDemoted
           ElectedMayBePromoted SomebodyIsElected UnlimitedElects
           IdleIsLatest SmartKeepsPrecedence SmartPrefersPriority
           PolledFirst LagSurvives TopologyIsWhole
SYMMETRY Symmetry
CHECK_DEADLOCK FALSE
