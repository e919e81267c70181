-------------------------- MODULE Discovery_proofs --------------------------
(***************************************************************************)
(* The snapshot and the monitor, for any replica sets, any number of       *)
(* overlapping calls of Discover and any bounds: the types, that the       *)
(* monitor stays behind the snapshot, when a snapshot may go back, and how *)
(* often a topology is analysed.                                           *)
(***************************************************************************)
EXTENDS Discovery, FiniteSetTheorems, TLAPS

\* What is stamped is stamped with a time that was; the monitor has analysed,
\* and is about to, what is no newer than the snapshot.
Stamps ==
  /\ \A d \in Discoverer : created[d] <= now
  /\ NeverAheadOfSnapshot
  /\ mpc = "sets" => discovered <= snapshot.created

(* Nobody sees what is not there yet.  A call whose copy has the number of *)
(* the current snapshot holds that snapshot, and what it collects is no    *)
(* older than its copy.                                                    *)
Versions ==
  /\ \A s \in Set : snapshot.sets[s] <= world
  /\ \A d \in Discoverer :
       /\ base[d].id <= snapshot.id
       /\ base[d].id = snapshot.id => base[d].sets = snapshot.sets
       /\ \A s \in Set : base[d].sets[s] <= world /\ seen[d][s] <= world
       /\ dpc[d] = "install" => todo[d] = {}
       /\ dpc[d] \in {"poll", "install"} =>
            \A s \in Set \ todo[d] : base[d].sets[s] <= seen[d][s]

IInv == TypeOK /\ Stamps /\ Versions

Requests == stream \cup handed

(* The checks that analysed one and the same snapshot followed each other. *)
(* Once the snapshot is analysed by a check that first read its Created,   *)
(* no other check passes: before that, only the check that went through    *)
(* last can have analysed it.                                              *)
InTurn ==
  /\ \A x \in Requests : x.id <= snapshot.id
  /\ \A x, y \in Requests : x.id = y.id => x.check <= y.check + 1
  /\ \A x \in Requests : x.id = snapshot.id =>
       /\ mpc = "idle" => x.check = checks \/ analyzed = snapshot.created
       /\ mpc = "sets" => x.check = checks /\ discovered = snapshot.created

-----------------------------------------------------------------------------
\* The empty snapshot is as old as the clock.
LEMMA InitInv == Init => IInv
<1> SUFFICES ASSUME Init PROVE IInv
  OBVIOUS
<1>1. /\ snapshot = [created |-> 1, id |-> 0, sets |-> [s \in Set |-> 0]]
      /\ base = [d \in Discoverer |-> snapshot]
      /\ seen = [d \in Discoverer |-> snapshot.sets]
  BY DEF Init, Absent
<1>2. snapshot \in Snapshot /\ snapshot.sets \in [Set -> Nat]
  BY <1>1 DEF Snapshot
<1>3. TypeOK
  BY <1>1, <1>2 DEF Init, TypeOK
<1>4. Stamps
  BY <1>1 DEF Init, Stamps, NeverAheadOfSnapshot
<1>5. Versions
  BY <1>1 DEF Init, Versions
<1> QED
  BY <1>3, <1>4, <1>5 DEF IInv

\* The fields of a snapshot.
LEMMA Fields ==
  ASSUME NEW x \in Snapshot
  PROVE  x.created \in Nat /\ x.id \in Nat /\ x.sets \in [Set -> Nat]
BY DEF Snapshot

\* A call has copied the snapshot, asked a router or polled a replica set.
LEMMA CollectInv ==
  ASSUME IInv, NEW d \in Discoverer,
         DiscoverStart(d) \/ AskRouter(d) \/ \E s \in Set : PollSet(d, s)
  PROVE  IInv'
<1>1. TypeOK /\ Stamps /\ Versions
  BY DEF IInv
<1>2. /\ snapshot \in Snapshot /\ snapshot.sets \in [Set -> Nat]
      /\ snapshot.id \in Nat /\ world \in Nat
  BY <1>1, Fields DEF TypeOK
<1>3. /\ UNCHANGED <<now, world, snapshot, created, monVars>>
  BY DEF DiscoverStart, AskRouter, PollSet
<1>4. Stamps'
  BY <1>1, <1>3 DEF Stamps, NeverAheadOfSnapshot, monVars
<1>5. CASE DiscoverStart(d)
  <2>1. /\ base' = [base EXCEPT ![d] = snapshot]
        /\ dpc' = [dpc EXCEPT ![d] = "router"]
        /\ UNCHANGED <<now, world, snapshot, todo, seen, created, monVars,
                       stream, handed>>
    BY <1>5 DEF DiscoverStart, DGoto, Copy
  <2>2. TypeOK'
    BY <1>1, <1>2, <2>1 DEF TypeOK, monVars
  <2>3. Versions'
    BY <1>1, <1>2, <2>1 DEF Versions, TypeOK
  <2> QED
    BY <1>4, <2>2, <2>3 DEF IInv
<1>6. CASE AskRouter(d)
  <2>1. UNCHANGED <<now, world, snapshot, base, created, monVars, stream,
                    handed>>
    BY <1>6 DEF AskRouter
  <2>2. CASE /\ dpc' = [dpc EXCEPT ![d] = "poll"]
             /\ todo' = [todo EXCEPT ![d] = Set]
             /\ seen' = [seen EXCEPT ![d] = [s \in Set |-> 0]]
    <3>1. TypeOK'
      BY <1>1, <1>2, <2>1, <2>2 DEF TypeOK, monVars
    <3>2. Versions'
      BY <1>1, <1>2, <2>1, <2>2 DEF Versions, TypeOK
    <3> QED
      BY <1>4, <3>1, <3>2 DEF IInv
  <2>3. CASE dpc' = [dpc EXCEPT ![d] = "idle"] /\ UNCHANGED <<todo, seen>>
    <3>1. TypeOK'
      BY <1>1, <2>1, <2>3 DEF TypeOK, monVars
    <3>2. Versions'
      BY <1>1, <2>1, <2>3 DEF Versions, TypeOK
    <3> QED
      BY <1>4, <3>1, <3>2 DEF IInv
  <2> QED
    BY <1>6, <2>2, <2>3 DEF AskRouter, DGoto, Absent
<1>7. ASSUME NEW s \in Set, PollSet(d, s) PROVE IInv'
  <2>1. PICK v \in {world, base[d].sets[s]} : seen' = [seen EXCEPT ![d][s] = v]
    BY <1>7 DEF PollSet
  <2>2. /\ todo' = [todo EXCEPT ![d] = @ \ {s}]
        /\ dpc[d] = "poll"
        /\ UNCHANGED <<now, world, snapshot, dpc, base, created, monVars,
                       stream, handed>>
    BY <1>7 DEF PollSet
  <2>3. v \in Nat /\ base[d].sets[s] <= v /\ v <= world
    BY <1>1, <1>2, <2>1, Fields DEF TypeOK, Versions
  <2>4. TypeOK'
    BY <1>1, <2>1, <2>2, <2>3 DEF TypeOK, monVars
  <2>5. Versions'
    BY <1>1, <2>1, <2>2, <2>3 DEF Versions, TypeOK
  <2> QED
    BY <1>4, <2>4, <2>5 DEF IInv
<1> QED
  BY <1>5, <1>6, <1>7

\* A call is stamped.
LEMMA StampInv == ASSUME IInv, NEW d \in Discoverer, Stamp(d) PROVE IInv'
<1>1. TypeOK /\ Stamps /\ Versions
  BY DEF IInv
<1>2. /\ dpc[d] = "poll" /\ todo[d] = {}
      /\ dpc' = [dpc EXCEPT ![d] = "install"]
      /\ created' = [created EXCEPT ![d] = now]
      /\ UNCHANGED <<now, world, snapshot, base, todo, seen, monVars, stream,
                     handed>>
  BY DEF Stamp, DGoto
<1>3. TypeOK'
  BY <1>1, <1>2 DEF TypeOK, monVars
<1>4. Stamps'
  BY <1>1, <1>2 DEF Stamps, NeverAheadOfSnapshot, TypeOK, monVars
<1>5. Versions'
  BY <1>1, <1>2 DEF Versions, TypeOK
<1> QED
  BY <1>3, <1>4, <1>5 DEF IInv

\* The snapshot is replaced, and gets a number no copy has, or refused.
LEMMA InstallInv == ASSUME IInv, NEW d \in Discoverer, Install(d) PROVE IInv'
<1>1. TypeOK /\ Stamps /\ Versions
  BY DEF IInv
<1>2. /\ dpc[d] = "install" /\ dpc' = [dpc EXCEPT ![d] = "idle"]
      /\ UNCHANGED <<now, world, base, todo, seen, created, monVars, stream,
                     handed>>
  BY DEF Install, DGoto
<1>3. CASE UNCHANGED snapshot
  <2>1. TypeOK'
    BY <1>1, <1>2, <1>3 DEF TypeOK, monVars
  <2>2. Stamps' /\ Versions'
    BY <1>1, <1>2, <1>3
    DEF Stamps, NeverAheadOfSnapshot, Versions, TypeOK, monVars
  <2> QED
    BY <2>1, <2>2 DEF IInv
<1>4. CASE /\ snapshot.created <= created[d]
           /\ snapshot' = [created |-> created[d], id |-> snapshot.id + 1,
                           sets |-> seen[d]]
  <2>1. /\ snapshot.created \in Nat /\ snapshot.id \in Nat
        /\ created[d] \in Nat /\ seen[d] \in [Set -> Nat] /\ created[d] <= now
    BY <1>1, Fields DEF TypeOK, Stamps
  <2>2. /\ snapshot' \in Snapshot /\ snapshot'.created = created[d]
        /\ snapshot'.id = snapshot.id + 1 /\ snapshot'.sets = seen[d]
    BY <1>4, <2>1 DEF Snapshot
  <2>3. TypeOK'
    BY <1>1, <1>2, <2>1, <2>2 DEF TypeOK, monVars
  <2>4. Stamps'
    BY <1>1, <1>2, <1>4, <2>1, <2>2
    DEF Stamps, NeverAheadOfSnapshot, TypeOK, monVars
  <2>5. \A e \in Discoverer : base[e].id \in Nat
    BY <1>1, Fields DEF TypeOK
  <2>6. Versions'
    BY <1>1, <1>2, <2>1, <2>2, <2>5 DEF Versions, TypeOK
  <2> QED
    BY <2>3, <2>4, <2>6 DEF IInv
<1> QED
  BY <1>3, <1>4 DEF Install

\* checkCluster and the stream leave the snapshot alone.
LEMMA MonitorInv ==
  ASSUME IInv, Monitor \/ \E x \in stream : Take(x) PROVE IInv'
<1>1. TypeOK /\ Stamps /\ Versions
  BY DEF IInv
<1>2. UNCHANGED <<now, world, snapshot, discVars>>
  BY DEF Monitor, CheckCluster, AnalyzeSets, Take
<1>3. /\ snapshot.created \in Nat /\ snapshot.id \in Nat
      /\ snapshot.sets \in [Set -> Nat]
  BY <1>1, Fields DEF TypeOK
<1>4. Versions'
  BY <1>1, <1>2 DEF Versions, discVars
<1>5. CASE CheckCluster
  <2>1. TypeOK'
    BY <1>1, <1>3, <1>5 DEF CheckCluster, TypeOK, LastDiscovered, discVars
  <2>2. Stamps'
    BY <1>1, <1>3, <1>5
    DEF CheckCluster, Stamps, NeverAheadOfSnapshot, LastDiscovered, discVars
  <2> QED
    BY <1>4, <2>1, <2>2 DEF IInv
<1>6. CASE AnalyzeSets
  <2>1. {[set |-> s, id |-> snapshot.id, version |-> snapshot.sets[s],
          check |-> checks + 1] : s \in ReplicaSets} \subseteq Request
    BY <1>1, <1>3 DEF ReplicaSets, Request, TypeOK
  <2>2. TypeOK'
    BY <1>1, <1>6, <2>1 DEF AnalyzeSets, TypeOK, discVars
  <2>3. Stamps'
    BY <1>1, <1>6 DEF AnalyzeSets, Stamps, NeverAheadOfSnapshot, discVars
  <2> QED
    BY <1>4, <2>2, <2>3 DEF IInv
<1>7. ASSUME NEW x \in stream, Take(x) PROVE IInv'
  <2>1. TypeOK'
    BY <1>1, <1>7 DEF Take, TypeOK, discVars, monVars
  <2>2. Stamps'
    BY <1>1, <1>7 DEF Take, Stamps, NeverAheadOfSnapshot, discVars, monVars
  <2> QED
    BY <1>4, <2>1, <2>2 DEF IInv
<1> QED
  BY <1>5, <1>6, <1>7 DEF Monitor

\* The clock and the world only move forward.
LEMMA WorldInv == ASSUME IInv, Tick \/ WorldChanges PROVE IInv'
<1>1. TypeOK /\ Stamps /\ Versions
  BY DEF IInv
<1>2. /\ now' \in Nat /\ now <= now' /\ world' \in Nat /\ world <= world'
      /\ UNCHANGED <<snapshot, discVars, monVars, stream, handed>>
  BY <1>1 DEF Tick, WorldChanges, TypeOK
<1>3. /\ snapshot.created \in Nat /\ snapshot.sets \in [Set -> Nat]
      /\ \A d \in Discoverer : base[d].sets \in [Set -> Nat]
  BY <1>1, Fields DEF TypeOK
<1>4. TypeOK'
  BY <1>1, <1>2, <1>3 DEF TypeOK, discVars, monVars
<1>5. Stamps'
  BY <1>1, <1>2 DEF Stamps, NeverAheadOfSnapshot, TypeOK, discVars, monVars
<1>6. Versions'
  BY <1>1, <1>2, <1>3 DEF Versions, TypeOK, discVars
<1> QED
  BY <1>4, <1>5, <1>6 DEF IInv

\* All of it is an invariant.
LEMMA Invariance == Spec => []IInv
<1>1. IInv /\ [Next]_vars => IInv'
  <2> SUFFICES ASSUME IInv, [Next]_vars PROVE IInv'
    OBVIOUS
  <2>1. CASE UNCHANGED vars
    BY <2>1 DEF vars, discVars, monVars, IInv, TypeOK, Stamps, Versions,
                NeverAheadOfSnapshot
  <2> QED
    BY <2>1, CollectInv, StampInv, InstallInv, MonitorInv, WorldInv
    DEF Next, Discover
<1> QED
  BY <1>1, InitInv, PTL DEF Spec

-----------------------------------------------------------------------------
\* The types of the snapshot, of the calls of Discover and of the monitor
\* (cluster.go, monitor.go).
THEOREM DiscoveryTypes == Spec => []TypeOK
BY Invariance, PTL DEF IInv

\* The monitor never believes to have analysed more than there is: the stamps
\* of the snapshots it compares do not decrease (monitor.go:75, cluster.go:379).
THEOREM NeverAheadOfSnapshotHolds == Spec => []NeverAheadOfSnapshot
BY Invariance, PTL DEF IInv, Stamps

(* The snapshot of a replica set only goes back to an earlier state of the *)
(* world when a call installs it that started from a replaced snapshot     *)
(* (cluster.go:379): of the many calls that may overlap, one that copied   *)
(* the current snapshot does no harm.                                      *)
THEOREM NoStaleOverwriteHolds == Spec => NoStaleOverwrite
<1>1. ASSUME IInv, [Next]_vars, NEW s \in Set,
             GoesBack(s)
      PROVE  LateInstall
  <2>1. TypeOK /\ Versions
    BY <1>1 DEF IInv
  <2>2. snapshot.sets[s] \in Nat /\ snapshot.id \in Nat
    BY <2>1, Fields DEF TypeOK
  <2>3. snapshot' # snapshot
    BY <1>1, <2>2 DEF GoesBack
  <2>4. PICK d \in Discoverer : Install(d)
    BY <1>1, <2>3
    DEF Next, Discover, DiscoverStart, AskRouter, PollSet, Stamp, Monitor,
        CheckCluster, AnalyzeSets, Take, Tick, WorldChanges, vars
  <2>5. dpc[d] = "install" /\ dpc'[d] = "idle"
    BY <2>1, <2>4 DEF Install, DGoto, TypeOK
  <2>6. snapshot'.sets = seen[d]
    BY <2>3, <2>4 DEF Install
  <2>7. base[d].sets[s] <= seen[d][s] /\ base[d].id \in Nat
        /\ base[d].sets[s] \in Nat /\ seen[d][s] \in Nat
    BY <2>1, <2>5, Fields DEF Versions, TypeOK
  <2>8. base[d].id # snapshot.id /\ base[d].id <= snapshot.id
    BY <1>1, <2>1, <2>2, <2>6, <2>7 DEF Versions, GoesBack
  <2> QED
    BY <2>2, <2>5, <2>7, <2>8 DEF LateInstall
<1>2. IInv /\ [Next]_vars => [OnlyLateGoesBack]_vars
  BY <1>1 DEF OnlyLateGoesBack
<1> QED
  BY <1>2, Invariance, PTL DEF Spec, NoStaleOverwrite

-----------------------------------------------------------------------------
\* Each step leaves the analyses of one snapshot next to each other.
LEMMA InTurnStep == ASSUME IInv, InTurn, [Next]_vars PROVE InTurn'
<1>1. TypeOK /\ Stamps
  BY DEF IInv
<1>2. /\ snapshot.created \in Nat /\ snapshot.id \in Nat /\ analyzed \in Nat
      /\ checks \in Nat /\ discovered \in Nat
      /\ \A x \in Requests : x.id \in Nat /\ x.check \in Nat
  BY <1>1, Fields DEF TypeOK, Requests, Request
<1>3. CASE UNCHANGED <<snapshot, monVars, Requests>>
  BY <1>3 DEF InTurn, monVars
<1>4. ASSUME NEW d \in Discoverer, Install(d) PROVE InTurn'
  <2>1. UNCHANGED <<monVars, Requests>>
    BY <1>4 DEF Install, Requests
  <2>2. CASE UNCHANGED snapshot
    BY <1>3, <2>1, <2>2
  <2>3. CASE snapshot'.id = snapshot.id + 1
    BY <1>2, <2>1, <2>3 DEF InTurn, monVars
  <2> QED
    BY <1>4, <2>2, <2>3 DEF Install
<1>5. CASE CheckCluster
  <2>1. UNCHANGED <<snapshot, checks, Requests>> /\ mpc = "idle" /\ mpc' = "sets"
        /\ discovered' = snapshot.created /\ snapshot.created > analyzed
    BY <1>5 DEF CheckCluster, LastDiscovered, Requests
  <2> QED
    BY <1>2, <2>1 DEF InTurn
<1>6. CASE AnalyzeSets
  <2> DEFINE new == {[set |-> s, id |-> snapshot.id, version |-> snapshot.sets[s],
                      check |-> checks + 1] : s \in ReplicaSets}
  <2>1. /\ UNCHANGED snapshot /\ mpc = "sets" /\ mpc' = "idle"
        /\ analyzed' = discovered /\ checks' = checks + 1
        /\ Requests' = Requests \cup new
    BY <1>6 DEF AnalyzeSets, Requests
  <2>2. \A x \in new : x.id = snapshot.id /\ x.check = checks + 1
    OBVIOUS
  <2> HIDE DEF new
  <2>3. \A x \in Requests : x.id = snapshot.id =>
          x.check = checks /\ discovered = snapshot.created
    BY <2>1 DEF InTurn
  <2>4. \A x \in Requests' : x.id <= snapshot'.id
    BY <1>2, <2>1, <2>2 DEF InTurn
  <2>5. \A x, y \in Requests' : x.id = y.id => x.check <= y.check + 1
    BY <1>2, <2>1, <2>2, <2>3 DEF InTurn
  <2>6. \A x \in Requests' : x.id = snapshot'.id =>
          x.check = checks' \/ analyzed' = snapshot'.created
    BY <2>1, <2>2, <2>3
  <2> QED
    BY <2>1, <2>4, <2>5, <2>6 DEF InTurn
<1>7. ASSUME NEW x \in stream, Take(x) PROVE InTurn'
  <2>1. UNCHANGED <<snapshot, monVars, Requests>>
    BY <1>7 DEF Take, Requests
  <2> QED
    BY <1>3, <2>1
<1>8. UNCHANGED <<snapshot, monVars, Requests>>
      \/ (\E d \in Discoverer : Install(d)) \/ CheckCluster \/ AnalyzeSets
      \/ \E x \in stream : Take(x)
  BY DEF Next, Discover, DiscoverStart, AskRouter, PollSet, Stamp, Monitor, Tick,
         WorldChanges, vars, Requests
<1> QED
  BY <1>3, <1>4, <1>5, <1>6, <1>7, <1>8

\* Numbers no two of which are further apart than one are at most two.
LEMMA AtMostTwo ==
  ASSUME NEW C, C \subseteq Nat, NEW n \in C, \A a, b \in C : a <= b + 1
  PROVE  Cardinality(C) <= 2
<1>1. PICK m \in Int : C \subseteq {m, m + 1}
  <2>1. CASE n + 1 \in C
    BY <2>1
  <2>2. CASE n + 1 \notin C
    <3>1. C \subseteq {n - 1, (n - 1) + 1}
      BY <2>2
    <3> QED
      BY <3>1
  <2> QED
    BY <2>1, <2>2
<1>2. IsFiniteSet({m, m + 1}) /\ Cardinality({m, m + 1}) = 2
  <2>1. IsFiniteSet({m}) /\ Cardinality({m}) = 1
    BY FS_Singleton
  <2>2. {m} \cup {m + 1} = {m, m + 1} /\ m + 1 \notin {m}
    OBVIOUS
  <2> QED
    BY <2>1, <2>2, FS_AddElement
<1>3. Cardinality(C) <= Cardinality({m, m + 1})
  BY <1>1, <1>2, FS_Subset
<1> QED
  BY <1>2, <1>3

(* One topology is analysed by at most two checks of the monitor, however  *)
(* the discoveries fall between its two reads of the cluster               *)
(* (checkCluster in orchestrator/monitor.go).                              *)
THEOREM AnalyzedAtMostTwiceHolds == Spec => []AnalyzedAtMostTwice
<1>1. Init => InTurn
  BY DEF Init, InTurn, Requests
<1>2. IInv /\ InTurn /\ [Next]_vars => InTurn'
  BY InTurnStep
<1>3. ASSUME IInv, InTurn PROVE AnalyzedAtMostTwice
  <2>1. SUFFICES ASSUME NEW x \in Requests
                 PROVE  Cardinality({y.check : y \in {z \in Requests :
                                       z.id = x.id /\ z.set = x.set}}) <= 2
    BY DEF AnalyzedAtMostTwice, Requests
  <2> DEFINE C == {y.check : y \in {z \in Requests : z.id = x.id /\ z.set = x.set}}
  <2>2. C \subseteq Nat
    BY <1>3 DEF IInv, TypeOK, Requests, Request
  <2>3. x.check \in C /\ \A a, b \in C : a <= b + 1
    BY <1>3 DEF InTurn
  <2> HIDE DEF C
  <2>4. Cardinality(C) <= 2
    BY <2>2, <2>3, AtMostTwo
  <2> QED
    BY <2>4 DEF C
<1> QED
  BY <1>1, <1>2, <1>3, Invariance, PTL DEF Spec
=============================================================================
