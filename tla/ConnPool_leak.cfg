\* What TestPool_Get expects: every Get returns.
SPECIFICATION FairSpec
CONSTANTS
  Proc = {p1, p2}
  NoProc = NoProc
  URI = {"u@a", "a", "b"}
  Server = {"srv_a", "srv_b"}
  NoUser <- MCNoUser
  Rules <- MCRules
  MaxConn = 3

PROPERTY GetReturns
CHECK_DEADLOCK FALSE
