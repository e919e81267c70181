----------------------------- MODULE ReplicaSet -----------------------------
(***************************************************************************)
(* A replica set as the last discovery saw it (internal/vshard/instance.go *)
(* and replicaset.go): its instances in the order the master reported      *)
(* them, with the observations failure detection and election read.        *)
(***************************************************************************)
EXTENDS Integers, Sequences, FiniteSets, SequencesExt

CONSTANTS UUID,         \* instances of the replica set
          Master,       \* the uuid the router reports as the master
          Status,       \* replication statuses of vshard.storage.info()
          Upstream,     \* upstream statuses, "nil" when there is none
          Downstream,   \* downstream statuses, "nil" when there is none
          LSNBehind,    \* values of LSNBehindMaster
          IdleTime,     \* values of Upstream.Idle, in half seconds
          Fingerprint,  \* hashes of the vshard configuration
          Priority,     \* configured priorities
          Unreachable   \* whether AlertUnreachableMaster was raised

ASSUME MasterAssumption == Master \in UUID

ASSUME UUIDAssumption == IsFiniteSet(UUID)

\* An instance that was never polled has no status, and no rule looks at it.
ASSUME StatusAssumption == Status \subseteq {"follow", "master", "disconnected"}

ASSUME NumberAssumption ==
  LSNBehind \subseteq Int /\ IdleTime \subseteq Nat /\ Priority \subseteq Int

VARIABLE set            \* [master : the master's uuid, instances : a sequence]

(* unreachable: the instance raised AlertUnreachableMaster.                *)
Instance ==
  [uuid : UUID, valid : BOOLEAN, status : Status, upstream : Upstream,
   downstream : Downstream, lsn : LSNBehind, idle : IdleTime,
   fingerprint : Fingerprint, priority : Priority, unreachable : Unreachable]

UpstreamAlive(i) ==
  \/ i.upstream \notin {"nil", "disconnected", "stopped"}
  \/ i.upstream = "nil" /\ i.downstream \notin {"nil", "stopped"}

(* The slices the code filters are sets here: no two instances have the    *)
(* same uuid.  Where the order matters, in Election, it is that of the     *)
(* report.                                                                 *)
Followers(s) == {i \in ToSet(s.instances) : i.uuid # s.master}

AliveFollowers(s) == {i \in Followers(s) : i.valid /\ UpstreamAlive(i)}

HasMaster(s) == \E i \in ToSet(s.instances) : i.uuid = s.master

MasterOf(s) == CHOOSE i \in ToSet(s.instances) : i.uuid = s.master

\* Without an upstream nothing is known of the last event: Idle is 0.
Idle(i) == IF i.upstream = "nil" THEN 0 ELSE i.idle

Init == set = [master |-> Master, instances |-> <<>>]

\* Mutant: an instance is added to those of the previous snapshot.
ObserveTwice(i) == set' = [set EXCEPT !.instances = Append(@, i)]

(* Discovery adds an instance with what it observed of it.  The master is  *)
(* at no distance from itself.  A follower without upstream has no address *)
(* and cannot be polled, unless it is the former master in a topology kept *)
(* from an earlier discovery: it has no downstream either then.            *)
Observe(i) ==
  /\ \A j \in ToSet(set.instances) : j.uuid # i.uuid
  /\ i.uuid = Master => i.idle = 0 /\ i.lsn = 0
  /\ i.upstream = "nil" =>
       i.idle = 0 /\ (i.valid => i.uuid = Master \/ i.downstream = "nil")
  /\ set' = [set EXCEPT !.instances = Append(@, i)]

Next == \E i \in Instance : Observe(i)

Spec == Init /\ [][Next]_set

TypeOK == /\ set.master = Master
          /\ set.instances \in Seq(Instance)
          /\ Len(set.instances) <= Cardinality(UUID)
=============================================================================
