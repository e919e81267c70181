----------------------------- MODULE ElectionMC -----------------------------
(* The rules applied to what was discovered: the analysis of a replica set *)
(* and the election in one whose master is lost, in any mix and order of   *)
(* instances, and the answers these observations are parsed from.  Each    *)
(* family varies what the rules it is for look at.  Fingerprints are only  *)
(* compared with the master's, which is 1.                                 *)
EXTENDS Election, Analysis, Parser

CONSTANTS n0, n1, n2, n3

Symmetry == Permutations({n1, n2, n3})

MCLSN      == {-1, 0, 1, 2}
MCPriority == {-1, 0, 1}
MCOwnLSN   == {-1, 0, 3}

Plain(i) == i.priority = 0 /\ i.idle = 0

Follows(i) == i.lsn = 0 /\ i.fingerprint = 1 /\ i.upstream = "follow"

\* For the analysis: who was polled, with which status and configuration.
ToAnalyse(i) ==
  /\ Plain(i) /\ i.lsn = 0 /\ i.upstream = "follow"
  /\ i.uuid = Master => i.fingerprint = 1

(* For the election: the followers differ in what the classes and the LSN  *)
(* rules look at or in what breaks a tie, or were not polled.              *)
ToElect(i) ==
  /\ i.status = "disconnected"
  /\ IF i.uuid = Master THEN ~i.valid /\ Plain(i) /\ Follows(i)
     ELSE IF i.valid THEN Plain(i) \/ Follows(i)
     ELSE Plain(i) /\ Follows(i)

\* For the order in which a recovery tells the instances.
ToOrder(i) == i.status = "disconnected" /\ i.priority = 0 /\ Follows(i)

Analysed == {i \in Instance : ToAnalyse(i)}
Elected  == {i \in Instance : ToElect(i)}
Ordered  == {i \in Instance : ToOrder(i)}

MCObserve(family) ==
  /\ heard = Unheard /\ routed = NotRouted /\ told = Untold
  /\ ToSet(set.instances) \subseteq family
  /\ \E i \in family : Observe(i)
  /\ UNCHANGED pvars

MCParse ==
  /\ set.instances = <<>>
  /\ \/ /\ heard = Unheard /\ routed = NotRouted /\ told = Untold
        /\ \E ids \in {{1}, {1, 3}, {1, 2, 3}}, lsn \in LSN :
             \/ \E node \in Node : DiscoverReplication(ids, node, lsn, <<>>)
             \/ \E d \in Damages(RowSchema) :
                  lsn = 0 /\ DiscoverReplication(ids, Ordinary, lsn, d)
     \/ \E d \in Damages(InfoSchema) : DiscoverInstance(d)
     \/ /\ heard = Unheard /\ told = Untold
        /\ \E shards \in SUBSET Shard, d \in Damages(RouterSchema) :
             ParseRouterInfo(shards, d)
  /\ UNCHANGED set

\* The elections without limits, which is what 0 stands for.
Unlimited == INSTANCE Election WITH MaxLSNLag <- 0, MaxIdleLag <- 0

(* A limit of 0 is none (filter in elector.go): any follower in upstream   *)
(* with a priority that is not negative may be elected, however far behind.*)
UnlimitedElects == Unlimited!SomebodyIsElected

MCInit == Init /\ PInit

MCNext == MCObserve(Analysed) \/ MCObserve(Elected) \/ MCObserve(Ordered)
          \/ MCParse

MCSpec == MCInit /\ [][MCNext]_<<set, pvars>>
=============================================================================
