------------------------------ MODULE SystemMC ------------------------------
(* Three storages, a is the master of the configuration files.             *)
EXTENDS System

CONSTANTS a, b, c, r1, r2

Faults(crash, return, poll, script, drift) ==
  [f \in Fault |-> CASE f = "crash"  -> crash
                     [] f = "return" -> return
                     [] f = "poll"   -> poll
                     [] f = "script" -> script
                     [] f = "drift"  -> drift]

Case(member_, routers, lagging, faults_) ==
  [member |-> member_, router |-> routers, faults |-> faults_,
   lag |-> [n \in ToSet(member_) |-> IF n \in lagging THEN "far" ELSE "near"]]

\* Answers are lost; a storage crashes for good, with a follower too far behind;
\* it does, with a script or an answer lost, or while a follower catches up or
\* gets ahead; a storage crashes and comes back.
MCScenario ==
  { Case(<<a, b, c>>, {r1, r2}, {}, Faults(0, 0, 3, 0, 0)),
    Case(<<a, b, c>>, {r1, r2}, {c}, Faults(1, 0, 0, 0, 0)),
    Case(<<a, b>>, {r1, r2}, {}, Faults(1, 0, 0, 1, 0)),
    Case(<<a, b>>, {r1}, {}, Faults(1, 0, 1, 0, 0)),
    Case(<<a, b>>, {r1}, {b}, Faults(1, 0, 0, 0, 1)),
    Case(<<a, b>>, {r1}, {}, Faults(1, 1, 0, 0, 0)) }

\* A storage crashes and comes back, nothing is lost.
MCReturn == { Case(<<a, b, c>>, {r1, r2}, {}, Faults(1, 1, 0, 0, 0)) }
=============================================================================
