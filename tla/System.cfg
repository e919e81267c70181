\* Crashes, lost answers and scripts, a storage that comes back.
SPECIFICATION FairSpec
CONSTANTS
  a = a  b = b  c = c  r1 = r1  r2 = r2
  Storage = {a, b, c}
  Router = {r1, r2}
  Leader = a
  Discoverer = {"d1"}
  Scenario <- MCScenario
INVARIANTS TypeOK CandidateIsFollower
PROPERTIES HealthyMasterStays MasterIsReplaced CoMastersSettle
CHECK_DEADLOCK FALSE
