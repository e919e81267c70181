-------------------------- MODULE Analysis_proofs --------------------------
(***************************************************************************)
(* Failure detection, for replica sets of any size and any mix and order   *)
(* of observations: what the states that start a recovery say of the       *)
(* instances, and when no problem is reported.                             *)
(***************************************************************************)
EXTENDS Analysis, SequenceTheorems, FiniteSetTheorems, FunctionTheorems, TLAPS

\* No two instances of a report have the same uuid.
Distinct ==
  \A j, k \in DOMAIN set.instances :
    set.instances[j].uuid = set.instances[k].uuid => j = k

\* A report is a sequence of instances, all different.
Reported ==
  /\ set \in [master : {Master}, instances : Seq(Instance)]
  /\ Distinct

-----------------------------------------------------------------------------
\* An instance that is observed is not there yet.
LEMMA ReportedInv == Spec => []Reported
<1>1. Init => Reported
  BY EmptySeq DEF Init, Reported, Distinct
<1>2. ASSUME Reported, NEW i \in Instance, Observe(i) PROVE Reported'
  <2> DEFINE s == set.instances
             t == Append(s, i)
  <2>1. set' = [master |-> Master, instances |-> t] /\ s \in Seq(Instance)
    BY <1>2 DEF Observe, Reported
  <2>2. /\ t \in Seq(Instance) /\ Len(t) = Len(s) + 1 /\ t[Len(s) + 1] = i
        /\ \A k \in 1..Len(s) : t[k] = s[k]
        /\ DOMAIN s = 1..Len(s) /\ DOMAIN t = 1..Len(t) /\ Len(s) \in Nat
    BY <2>1, AppendProperties, LenProperties
  <2>3. \A k \in 1..Len(s) : s[k].uuid # i.uuid
    BY <1>2, <2>2 DEF Observe, ToSet
  <2>4. \A j, k \in DOMAIN t : t[j].uuid = t[k].uuid => j = k
    BY <1>2, <2>2, <2>3 DEF Reported, Distinct
  <2> QED
    BY <2>1, <2>2, <2>4 DEF Reported, Distinct
<1>3. Reported /\ [Next]_set => Reported'
  BY <1>2 DEF Next, Reported, Distinct
<1> QED
  BY <1>1, <1>3, PTL DEF Spec

\* Distinct instances are no more than there are uuids.
LEMMA ReportedBound ==
  ASSUME Reported
  PROVE  Len(set.instances) <= Cardinality(UUID)
<1> DEFINE s == set.instances
           f == [k \in 1..Len(s) |-> s[k].uuid]
<1>1. s \in Seq(Instance) /\ Len(s) \in Nat /\ DOMAIN s = 1..Len(s)
  BY LenProperties DEF Reported
<1>2. \A k \in 1..Len(s) : s[k].uuid \in UUID
  <2>1. \A k \in 1..Len(s) : s[k] \in Instance
    BY <1>1, ElementOfSeq
  <2> QED
    BY <2>1 DEF Instance
<1>3. f \in Injection(1..Len(s), UUID)
  BY <1>1, <1>2 DEF Reported, Distinct, Injection, IsInjective
<1>4. Cardinality(1..Len(s)) <= Cardinality(UUID)
  BY <1>3, UUIDAssumption, FS_Injection
<1> QED
  BY <1>1, <1>4, FS_Interval

\* The instances of a report, their kinds, and who is a follower.
LEMMA Observed ==
  ASSUME Reported, NEW i \in Followers(set)
  PROVE  i \in Instance /\ i.uuid # Master
BY LenProperties, ElementOfSeq DEF Reported, Followers, ToSet

-----------------------------------------------------------------------------
\* The reports of Discover (cluster.go) hold instances, each once.
THEOREM ReplicaSetTypes == Spec => []TypeOK
<1>1. Reported => TypeOK
  BY ReportedBound DEF Reported, TypeOK
<1> QED
  BY <1>1, ReportedInv, PTL

(* What the states that start a promotion are reported for, in any report. *)
LEMMA PromotionStates ==
  ASSUME NEW s, State(s) \in {"DeadMaster", "DeadMasterAndSomeFollowers"}
  PROVE  /\ HasMaster(s) /\ ~MasterOf(s).valid
         /\ \E i \in Followers(s) : i.valid
         /\ \A i \in Followers(s) : ~Replicating(i)
BY DEF State

(* A promotion is only started for a master that does not answer and that  *)
(* no follower that was polled replicates from (analyze in monitor.go).    *)
THEOREM PromotionIsJustifiedHolds == Spec => []PromotionIsJustified
<1>1. Reported => PromotionIsJustified
  <2> SUFFICES ASSUME Reported,
                      State(set) \in {"DeadMaster", "DeadMasterAndSomeFollowers"},
                      NEW i \in Followers(set), i.valid
               PROVE  i.status = "disconnected"
    BY PromotionStates DEF PromotionIsJustified
  <2>1. i.status \in Status /\ ~Replicating(i)
    BY Observed, PromotionStates DEF Instance
  <2> QED
    BY <2>1, StatusAssumption DEF Replicating
<1> QED
  BY <1>1, ReportedInv, PTL

(* What falls through the chain of conditions of analyze to NoProblem is a *)
(* set whose instances were all polled, replicate and agree with the       *)
(* master, and every such set does (monitor.go).                           *)
THEOREM NoProblemIsHealthyHolds == Spec => []NoProblemIsHealthy
<1> DEFINE healthy == /\ MasterOf(set).valid
                      /\ \A i \in Followers(set) :
                           /\ i.valid
                           /\ i.status \in {"follow", "master"}
                           /\ i.fingerprint = MasterOf(set).fingerprint
<1>1. ASSUME HasMaster(set), State(set) = "NoProblem" PROVE healthy
  BY <1>1 DEF State, Replicating
<1>2. ASSUME HasMaster(set), healthy PROVE State(set) = "NoProblem"
  <2>1. {i \in Followers(set) : Replicating(i)} = Followers(set)
    BY <1>2 DEF Replicating
  <2>2. {i \in {j \in Followers(set) : j.valid} :
           i.fingerprint # MasterOf(set).fingerprint} = {}
    BY <1>2
  <2> QED
    BY <1>2, <2>1, <2>2 DEF State
<1>3. NoProblemIsHealthy
  BY <1>1, <1>2 DEF NoProblemIsHealthy
<1> QED
  BY <1>3, PTL

(* A co-master with a configuration of its own is seen as long as the      *)
(* master answers, and is one of the instances the recovery demotes        *)
(* (monitor.go, applyFollowerRoleToCoMasters in failover.go).              *)
THEOREM CoMasterIsDemotedHolds == Spec => []CoMasterIsDemoted
<1>1. CoMasterIsDemoted
  BY DEF CoMasterIsDemoted, State, Demoted, Replicating
<1> QED
  BY <1>1, PTL
=============================================================================
