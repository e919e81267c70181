------------------------------ MODULE Election ------------------------------
(***************************************************************************)
(* Who becomes the master (internal/quorum: filter, the idle elector, the  *)
(* smart elector) and in which order the nodes are told                    *)
(* (orchestrator/instance_utils.go).  Go sorts short slices by insertion:  *)
(* up to six elements in every Go release, and up to twelve from 1.19 on.  *)
(***************************************************************************)
EXTENDS ReplicaSet

CONSTANTS MaxLSNLag,    \* reasonable_follower_lsn_lag, 0 when disabled
          MaxIdleLag    \* reasonable_follower_idle, 0 when disabled

ASSUME LimitAssumption == MaxLSNLag \in Nat /\ MaxIdleLag \in Nat

None == "none"

ASSUME NoneAssumption == None \notin UUID

\* Mutant: the LSN lag is not limited.
EligibleAnyLag(s) ==
  {i \in AliveFollowers(s) : /\ i.priority >= 0
                             /\ MaxIdleLag # 0 => Idle(i) <= MaxIdleLag}

\* Mutant: a follower at a limit is beyond it.
EligibleStrict(s) ==
  {i \in AliveFollowers(s) : /\ i.priority >= 0
                             /\ MaxLSNLag # 0 => i.lsn < MaxLSNLag
                             /\ MaxIdleLag # 0 => Idle(i) < MaxIdleLag}

\* Mutant: 0 is a limit like any other.
EligibleZeroLimits(s) ==
  {i \in AliveFollowers(s) : /\ i.priority >= 0 /\ i.lsn <= MaxLSNLag
                             /\ Idle(i) <= MaxIdleLag}

\* filter: the followers that take part in the election.
Eligible(s) ==
  {i \in AliveFollowers(s) : /\ i.priority >= 0
                             /\ MaxLSNLag # 0 => i.lsn <= MaxLSNLag
                             /\ MaxIdleLag # 0 => Idle(i) <= MaxIdleLag}

\* Their positions in the report, in whose order they are looked at.
EligibleAt(s) == {k \in DOMAIN s.instances : s.instances[k] \in Eligible(s)}

\* Mutant: the longest idle time wins.
IdleChooseLongest(s) ==
  LET idle(k) == Idle(s.instances[k])
      most(k) == \A j \in EligibleAt(s) : idle(k) >= idle(j)
  IN  IF Eligible(s) = {} THEN None
      ELSE s.instances[CHOOSE k \in EligibleAt(s) : most(k)].uuid

\* The idle elector: the first follower with the least idle time.
IdleChoose(s) ==
  LET idle(k)  == Idle(s.instances[k])
      least(k) == \A j \in EligibleAt(s) : /\ idle(k) <= idle(j)
                                           /\ j < k => idle(k) < idle(j)
  IN  IF Eligible(s) = {} THEN None
      ELSE s.instances[CHOOSE k \in EligibleAt(s) : least(k)].uuid

(* Insertion sort by the comparison less: x moves to the left as long as   *)
(* it is less than its left neighbour.  With a comparison that is not      *)
(* transitive the result depends on the order of the input.                *)
Insert(t, x, less) ==
  LET stop == {k \in DOMAIN t : <<x, t[k]>> \notin less} \cup {0}
      k    == CHOOSE k \in stop : \A j \in stop : j <= k
  IN  InsertAt(t, k + 1, x)

\* What is sorted after each element of s; those that are not in some are
\* filtered out.
Sorting(s, some, less) ==
  LET sorted[n \in 0..Len(s)] ==
        IF n = 0 THEN <<>>
        ELSE IF s[n] \in some THEN Insert(sorted[n - 1], s[n], less)
        ELSE sorted[n - 1]
  IN  sorted

InsertionSort(s, some, less) == Sorting(s, some, less)[Len(s)]

\* The followers are almost equal: half a second.
InDelta(d1, d2) == d1 - d2 \in -1..1

\* Fingerprint and upstream status first, the better class wins.
Class(i, m) == <<i.fingerprint = m.fingerprint, i.upstream = "follow">>

BetterClass(l, r, m) ==
  LET cl == Class(l, m)
      cr == Class(r, m)
  IN  \/ cl[1] /\ ~cr[1]
      \/ cl[1] = cr[1] /\ cl[2] /\ ~cr[2]

\* Mutant: the larger lag wins.
LessLSNReversed(l, r) == l.lsn > r.lsn

\* A replica in front of the master loses against one behind it.
LessLSN(l, r) == \/ l.lsn > 0 /\ r.lsn < 0
                 \/ ~(l.lsn < 0 /\ r.lsn > 0) /\ l.lsn < r.lsn

\* Mutant: the longer silence wins.
LessTieReversed(l, r) == Idle(l) > Idle(r)

LessTie(l, r) ==
  IF l.priority # r.priority /\ InDelta(Idle(l), Idle(r))
  THEN l.priority > r.priority
  ELSE Idle(l) < Idle(r)

\* instanceSorter.Less
SmartLess(l, r, m) ==
  \/ BetterClass(l, r, m)
  \/ /\ Class(l, m) = Class(r, m)
     /\ \/ l.lsn # r.lsn /\ LessLSN(l, r)
        \/ l.lsn = r.lsn /\ LessTie(l, r)

SmartSorted(s) ==
  LET some == Eligible(s)
  IN  InsertionSort(s.instances, some,
        {p \in some \X some : SmartLess(p[1], p[2], MasterOf(s))})

SmartChoose(s) ==
  IF Eligible(s) = {} \/ ~HasMaster(s) THEN None ELSE SmartSorted(s)[1].uuid

\* Mutant: whether a node was polled is not looked at.
FailoverLessUnpolled(l, r) ==
  \/ l.unreachable /\ ~r.unreachable
  \/ l.unreachable = r.unreachable /\ Idle(l) < Idle(r)

\* InstanceFailoverSorter.Less
FailoverLess(l, r) ==
  \/ l.valid /\ ~r.valid
  \/ l.unreachable /\ ~r.unreachable
  \/ l.unreachable = r.unreachable /\ Idle(l) < Idle(r)

FailoverOrder(s) ==
  LET all == ToSet(s.instances)
  IN  InsertionSort(s.instances, all,
        {p \in all \X all : FailoverLess(p[1], p[2])})

-----------------------------------------------------------------------------
InstanceOf(uuid) == CHOOSE i \in ToSet(set.instances) : i.uuid = uuid

Chosen == {IdleChoose(set), SmartChoose(set)} \ {None}

WithinLimits(i) == /\ i.priority >= 0
                   /\ MaxLSNLag > 0 => i.lsn <= MaxLSNLag
                   /\ MaxIdleLag > 0 => Idle(i) <= MaxIdleLag

(* README: a follower with a negative priority, or further behind than the *)
(* reasonable lag or idle time, is not elected, and a limit of 0 is none.  *)
(* Nor is the failed master, or a follower that was not polled.            *)
ElectedMayBePromoted ==
  \A u \in Chosen :
    LET i == InstanceOf(u)
    IN  /\ u # Master /\ i.valid
        /\ i.upstream \notin {"disconnected", "stopped"}
        /\ WithinLimits(i)

(* An election fails only when nobody may be promoted: as long as one      *)
(* follower that was polled and is in upstream has no negative priority    *)
(* and is within the limits, at a limit included, both electors name       *)
(* somebody (filter in elector.go, ChooseMaster in idle.go and smart.go).  *)
SomebodyIsElected ==
  /\ HasMaster(set)
  /\ \E i \in ToSet(set.instances) :
       i.uuid # Master /\ i.valid /\ UpstreamAlive(i) /\ WithinLimits(i)
  => IdleChoose(set) # None /\ SmartChoose(set) # None

(* README: the idle elector finds the replica that heard last from the     *)
(* failed master.                                                          *)
IdleIsLatest ==
  IdleChoose(set) # None =>
    \A i \in Eligible(set) : Idle(InstanceOf(IdleChoose(set))) <= Idle(i)

(* README: the smart elector compares configuration, upstream status, LSN. *)
(* Nobody of a better class is passed over and, as long as no follower is  *)
(* in front of the master, nobody nearer to the master: the sort does not  *)
(* spoil it, although the rest of the comparison is not transitive.        *)
SmartKeepsPrecedence ==
  SmartChoose(set) # None =>
    LET c == InstanceOf(SmartChoose(set))
        m == MasterOf(set)
    IN  /\ \A i \in Eligible(set) : ~BetterClass(i, c, m)
        /\ (\A i \in Eligible(set) : i.lsn >= 0) =>
             \A i \in Eligible(set) : Class(i, m) = Class(c, m) => c.lsn <= i.lsn

(* README: user promotion rules.  Nobody has a higher priority than the    *)
(* elected one, or the same and heard later from the master, of those with *)
(* its class and LSN, as long as all silences are within half a second and *)
(* nobody is in front of the master.  Without that the comparison may lead *)
(* by way of others to a follower that loses on both counts.               *)
SmartPrefersPriority ==
  /\ SmartChoose(set) # None
  /\ \A i, j \in Eligible(set) : i.lsn >= 0 /\ InDelta(Idle(i), Idle(j))
  => LET c == InstanceOf(SmartChoose(set))
         m == MasterOf(set)
     IN  \A i \in Eligible(set) : Class(i, m) = Class(c, m) /\ i.lsn = c.lsn =>
           \/ i.priority < c.priority
           \/ i.priority = c.priority /\ Idle(c) <= Idle(i)

(* smart.go: "Prefer most up to date replica".  With a replica in front of *)
(* the master among them the comparison is a cycle, and a follower behind  *)
(* the master can win against one that is level with it.                   *)
MostUpToDatePreferred ==
  SmartChoose(set) # None =>
    LET c == InstanceOf(SmartChoose(set))
    IN  \A i \in Eligible(set) :
          /\ Class(i, MasterOf(set)) = Class(c, MasterOf(set))
          /\ i.lsn >= 0 /\ c.lsn >= 0
          => c.lsn <= i.lsn

(* instance_utils.go: "Prefer replicas which was polled successfully last  *)
(* time".  The sorter compares the other way round as well, and the sort   *)
(* still keeps to it as long as nobody raised an alert and none of the     *)
(* nodes that were not polled was heard of more recently than one that was.*)
PolledFirst ==
  LET all == ToSet(set.instances)
  IN  /\ \A i \in all : ~i.unreachable
      /\ \A i, j \in all : i.valid /\ ~j.valid => Idle(i) <= Idle(j)
      => \A j, k \in DOMAIN set.instances :
           j < k => FailoverOrder(set)[j].valid \/ ~FailoverOrder(set)[k].valid
=============================================================================
