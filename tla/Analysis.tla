------------------------------ MODULE Analysis ------------------------------
(***************************************************************************)
(* Failure detection: the state the monitor reports for a replica set      *)
(* (analyze in orchestrator/monitor.go), and the followers a master-master *)
(* recovery acts on (applyFollowerRoleToCoMasters in failover.go).         *)
(***************************************************************************)
EXTENDS ReplicaSet

\* Mutant: a follower in the master role does not count as replicating.
ReplicatingFollows(i) == i.valid /\ i.status = "follow"

\* Mutant: the status of a follower that was not polled counts.
ReplicatingStale(i) == i.status \in {"follow", "master"}

Replicating(i) == i.valid /\ i.status \in {"follow", "master"}

(* The counters of analyze are those of subsets of the followers: equal    *)
(* when the sets are.  "none": the master is missing and there is no       *)
(* analysis at all.                                                        *)
State(s) ==
  LET dead         == ~MasterOf(s).valid
      replicas     == Followers(s)
      working      == {i \in replicas : i.valid}
      replicating  == {i \in replicas : Replicating(i)}
      inconsistent == {i \in working : i.fingerprint # MasterOf(s).fingerprint}
      coMasters    == {i \in working : i.status = "master"}
      lost         == dead /\ replicating = {}
  IN  IF ~HasMaster(s) THEN "none"
      ELSE CASE lost /\ replicas = {} -> "DeadMasterWithoutFollowers"
             [] lost /\ replicas # {} /\ working = replicas -> "DeadMaster"
             [] lost /\ replicas # {} /\ working = {}
                  -> "DeadMasterAndFollowers"
             [] lost /\ working \notin {{}, replicas}
                  -> "DeadMasterAndSomeFollowers"
             [] dead /\ replicating # {} -> "NetworkProblems"
             [] ~dead /\ replicas # {} /\ replicating = {}
                  -> "AllMasterFollowersNotReplicating"
             [] ~dead /\ replicating # {} /\ inconsistent # {}
                  -> IF coMasters # {} THEN "MasterMasterReplication"
                     ELSE "InconsistentVShardConfiguration"
             [] ~dead /\ inconsistent = {} /\ replicating \notin {{}, replicas}
                  -> "DeadFollowers"
             [] OTHER -> "NoProblem"

\* Mutant: the fingerprints are compared the wrong way round.
DemotedConsistent(s) ==
  {i \in Followers(s) : i.fingerprint = MasterOf(s).fingerprint}

\* The followers that are told to follow when the state is master-master.
Demoted(s) == {i \in Followers(s) : i.fingerprint # MasterOf(s).fingerprint}

-----------------------------------------------------------------------------
(* A promotion is only started for a master qumomf has lost and that no    *)
(* follower it can poll still replicates from, and only while it can poll  *)
(* a follower: a lost link between qumomf and the master is not enough.    *)
PromotionIsJustified ==
  State(set) \in {"DeadMaster", "DeadMasterAndSomeFollowers"} =>
    /\ ~MasterOf(set).valid
    /\ \E i \in Followers(set) : i.valid
    /\ \A i \in Followers(set) : i.valid => i.status = "disconnected"

(* No problem is reported just when every instance was polled, every       *)
(* follower replicates or is a master itself, and all have the             *)
(* configuration of the router's master (analyze in monitor.go).  So a     *)
(* co-master with the same fingerprint counts as healthy, when the         *)
(* storages agree on another master than the router: it is the case        *)
(* NoProblem_MasterMasterReplication of monitor_test.go.                   *)
NoProblemIsHealthy ==
  HasMaster(set) =>
    (State(set) = "NoProblem" <=>
       /\ MasterOf(set).valid
       /\ \A i \in Followers(set) :
            /\ i.valid
            /\ i.status \in {"follow", "master"}
            /\ i.fingerprint = MasterOf(set).fingerprint)

(* A follower that acts as a master with a configuration of its own is     *)
(* never overlooked while the master is alive, and the recovery reaches it.*)
CoMasterIsDemoted ==
  \A i \in Followers(set) :
    (/\ i.valid /\ i.status = "master"
     /\ HasMaster(set) /\ MasterOf(set).valid
     /\ i.fingerprint # MasterOf(set).fingerprint)
    => State(set) = "MasterMasterReplication" /\ i \in Demoted(set)
=============================================================================
