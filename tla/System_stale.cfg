\* The comment on co-masters: a discovery that overlaps with a promotion.
SPECIFICATION Spec
CONSTANTS
  a = a  b = b  c = c  r1 = r1  r2 = r2
  Storage = {a, b, c}
  Router = {r1, r2}
  Leader = a
  Discoverer = {"d1"}
  Scenario <- MCReturn
PROPERTY DemotionSparesLeader
CHECK_DEADLOCK FALSE
