----------------------------- MODULE FailoverMC -----------------------------
(* Replica sets s1, with storages a and b, and s2, with x and y.           *)
EXTENDS Failover

CONSTANTS s1, s2, a, b, x, y

MCSetOf == [n \in Storage |-> IF n \in {x, y} THEN s2 ELSE s1]

A(st, s, m, el, df) ==
  [set |-> s, state |-> st, master |-> m, eligible |-> el, differing |-> df]

\* One set: a fails, then b, with stale analyses of both; a co-master.
MCAnalysis ==
  { A("DeadMaster", s1, a, {b}, {}),
    A("DeadMasterAndSomeFollowers", s1, b, {a}, {a}),
    A("MasterMasterReplication", s1, a, {b}, {b}),
    A("NetworkProblems", s1, b, {}, {a}) }

\* Two sets fail in one cluster.
MCTwoSets ==
  { A("DeadMaster", s1, a, {b}, {}),
    A("MasterMasterReplication", s1, a, {b}, {b}),
    A("DeadMaster", s2, x, {y}, {}) }
=============================================================================
