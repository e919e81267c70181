\* The pool.  The system really stops once the lock is left behind.
SPECIFICATION FairSpec
CONSTANTS
  Proc = {p1, p2}
  NoProc = NoProc
  URI = {"u@a", "a", "b"}
  Server = {"srv_a", "srv_b"}
  NoUser <- MCNoUser
  Rules <- MCRules
  MaxConn = 3
INVARIANTS TypeOK SameConnector
PROPERTIES ImplementsRegistry BlockedOnlyByLeak
CHECK_DEADLOCK FALSE
