--------------------------- MODULE System_proofs ---------------------------
(***************************************************************************)
(* Who may lose the role of the master, for any number of storages,        *)
(* routers and overlapping discoveries, any number of crashes and lost     *)
(* answers, and analyses of any age.                                       *)
(***************************************************************************)
EXTENDS System, SequenceTheorems, TLAPS

\* Every storage that acknowledged the role crashed.
NoneHealthy == led \subseteq failed

(* A script that timed out is that of a candidate, and there is no other   *)
(* master; or that of a router, for the only one that may run.             *)
Pending(s) ==
  \/ /\ s[1] \in Known /\ s[2] = s[1] /\ NoneHealthy
     /\ pc \notin {"routers", "instances"}
  \/ s[1] \in Routers /\ s[2] \in led /\ led \subseteq failed \cup {s[2]}

(* All that run follow the one storage that acknowledged the role, unless  *)
(* it crashed; a promotion starts when it did, and with the scripts that   *)
(* are still to arrive is the only time when they may differ.              *)
Nodes ==
  /\ up = Known \ failed
  /\ led \subseteq Known /\ \A n \in led : cfg[n] = n
  /\ \A r \in Routers : route[r] \in led
  /\ pc \notin {"routers", "instances"} =>
       \A l \in led : l \in failed \/ \A n \in up : cfg[n] = l
  /\ pc = "candidate" => NoneHealthy
  /\ pc = "routers" => todo \subseteq Routers
  /\ pc \in {"routers", "instances"} =>
       cand \in led /\ led \subseteq failed \cup {cand}
  /\ pc = "instances" => \A n \in up \ todo : cfg[n] = cand
  /\ pc \in {"candidate", "routers", "instances"} =>
       SetKey \in blocked /\ cand \in Known
  /\ late # {} => SetKey \in blocked /\ pc # "candidate"
  /\ \A s \in late : Pending(s)

\* Only a master of some discovery has no Upstream.
NoUpstream(rows) == \A n \in Known : rows[n].upstream = "nil" => n \in led

Upstreamless ==
  /\ NoUpstream(snapshot.rows)
  /\ \A d \in Discoverer \cup {Forced} : disc[d] # NoDiscovery =>
       NoUpstream(disc[d].snap.rows) /\ disc[d].snap.master \in led

\* The followers that are polled and do not replicate.
Alarms(row) == row.valid /\ row.status \notin {"follow", "master"}

(* The rows that were polled tell of a dead master only if it is dead, and *)
(* never of a storage that took the role since.                            *)
Honest(rows, polled) ==
  \A n \in polled : Alarms(rows[n]) => NoneHealthy /\ n \notin led

\* An analysis that may be acted upon.
Sound(x) == x.state \in PromoteStates =>
              NoneHealthy /\ \A c \in x.eligible : c \notin led

\* Nothing that was under way during the last promotion may start another one.
Settled == pc = "idle" \/ SetKey \notin blocked

Free(old_, x) == SetKey \notin blocked \/ x \notin old_

Observations ==
  /\ disc[Forced] # NoDiscovery => pc = "discover"
  /\ \A d \in Discoverer \cup {Forced} :
       disc[d] # NoDiscovery /\ (d = Forced \/ (Settled /\ Free(old.calls, d)))
         => Honest(disc[d].snap.rows, Known \ disc[d].left)
  /\ Settled /\ fresh /\ Free(old.calls, Current)
       => Honest(snapshot.rows, Known)
  /\ \A x \in stream : /\ x.eligible \subseteq Known
                       /\ Settled /\ Free(old.sent, x) => Sound(x)

\* A recovery that tells nodes of a master has chosen one.
Chosen == /\ pc \in {"candidate", "routers", "instances"} => cand \in Storage
          /\ pc = "demote" => boss \in Storage

Orderly == /\ pc # "dead"
           /\ Nodes
           /\ Upstreamless
           /\ Observations

IInv == TypeOK /\ Chosen /\ (astray \/ Orderly)
-----------------------------------------------------------------------------
\* The storages are those of the scenario for good.
LEMMA SameKnown == ASSUME [Next]_vars PROVE member' = member /\ Known' = Known
<1>1. member' = member
  BY DEF Next, vars, nodeVars, Crash, Return, Drift, LateEnds, Discover,
         AskRouter, AskMaster, PollInstance, Install, RouterSilent,
         CheckCluster, Recover, Skip, Promote, StartPromotion, Demote,
         StartDemotion, ExecCandidate, ExecRouter, TellRouter, ExecInstance,
         ExecDemote, Unblock
<1> QED
  BY <1>1 DEF Known

\* The storages of the report.
LEMMA KnownStorage ==
  ASSUME member \in Seq(Storage)
  PROVE  Known \subseteq Storage
BY DEF Known, ToSet

\* The fields of a snapshot and of a discovery.
LEMMA SnapshotFields ==
  ASSUME NEW x \in Snapshot, NEW n \in Known
  PROVE  /\ x.master \in Storage /\ x.rows \in [Known -> Row]
         /\ x.rows[n] \in Row /\ x.rows[n].valid \in BOOLEAN
         /\ x.rows[n].status \in {"master", "follow", "disconnected", "none"}
         /\ x.rows[n].fingerprint \in Storage \cup {NoCand}
         /\ x.rows[n].upstream \in {"nil", "follow", "disconnected"}
BY DEF Snapshot, Row

LEMMA DiscoveryFields ==
  ASSUME NEW x \in Discovery, x # NoDiscovery
  PROVE  /\ x.at \in {"topology", "poll"} /\ x.snap \in Snapshot
         /\ x.left \in SUBSET Storage
         /\ x = [at |-> x.at, snap |-> x.snap, left |-> x.left]
BY DEF Discovery
-----------------------------------------------------------------------------
(* The analysis of a snapshot.                                             *)

\* What the report says of a storage.
Told(snap, n) ==
  [uuid |-> n, valid |-> snap.rows[n].valid, status |-> snap.rows[n].status,
   upstream |-> snap.rows[n].upstream, downstream |-> "nil",
   fingerprint |-> snap.rows[n].fingerprint]

LEMMA ReportIsWhole ==
  ASSUME NEW snap, member \in Seq(Storage)
  PROVE  /\ Report(snap).master = snap.master
         /\ ToSet(Report(snap).instances) = {Told(snap, n) : n \in Known}
<1>1. DOMAIN member = 1..Len(member)
  BY LenProperties
<1>2. Report(snap).instances = [k \in 1..Len(member) |-> Told(snap, member[k])]
  BY DEF Report, Told
<1> QED
  BY <1>1, <1>2 DEF ToSet, Known, Report

(* Only a follower that was polled and does not replicate can be elected   *)
(* when a dead master is reported, and there is one that was polled        *)
(* (PromotionStates in Analysis_proofs).                                   *)
LEMMA AnalyseTells ==
  ASSUME NEW snap \in Snapshot, member \in Seq(Storage)
  PROVE  LET x == Analyse(snap)
         IN  /\ x.master = snap.master
             /\ x.eligible \subseteq Known /\ x.differing \subseteq Known
             /\ x.state \in PromoteStates =>
                  /\ \E n \in Known : Alarms(snap.rows[n])
                  /\ \A c \in x.eligible : Alarms(snap.rows[c])
<1> DEFINE s == Report(snap)
           f == Detect!Followers(s)
           x == Analyse(snap)
<1>1. /\ s.master = snap.master
      /\ ToSet(s.instances) = {Told(snap, n) : n \in Known}
  BY ReportIsWhole
<1>2. f = {Told(snap, n) : n \in Known \ {snap.master}}
  <2>1. Detect!ToSet(s.instances) = {Told(snap, n) : n \in Known}
    BY <1>1 DEF ToSet, Detect!ToSet
  <2>2. f = {i \in {Told(snap, n) : n \in Known} : i.uuid # snap.master}
    BY <1>1, <2>1 DEF Detect!Followers
  <2> QED
    BY <2>2 DEF Told
<1>3. /\ x.state = Detect!State(s) /\ x.master = snap.master
      /\ x.eligible \subseteq {i.uuid : i \in Detect!AliveFollowers(s)}
      /\ x.differing = {i.uuid : i \in Detect!Demoted(s)}
  BY DEF Analyse, Analysed, Uuids
<1>4. /\ x.eligible \subseteq {n \in Known : snap.rows[n].valid /\ n # snap.master}
      /\ x.differing \subseteq Known
  BY <1>2, <1>3 DEF Detect!AliveFollowers, Detect!Demoted, Told
<1>5. ASSUME x.state \in PromoteStates
      PROVE  /\ \E i \in f : i.valid
             /\ \A i \in f : ~(i.valid /\ i.status \in {"follow", "master"})
  BY <1>3, <1>5 DEF PromoteStates, Detect!State, Detect!Replicating
<1>6. ASSUME x.state \in PromoteStates, NEW n \in Known, n # snap.master,
             snap.rows[n].valid
      PROVE  Alarms(snap.rows[n])
  <2>1. Told(snap, n) \in f
    BY <1>2, <1>6
  <2> QED
    BY <1>5, <1>6, <2>1 DEF Told, Alarms
<1>7. ASSUME x.state \in PromoteStates
      PROVE  \E n \in Known : Alarms(snap.rows[n])
  <2>1. PICK i \in f : i.valid
    BY <1>5, <1>7
  <2>2. PICK n \in Known \ {snap.master} : i = Told(snap, n)
    BY <1>2
  <2> QED
    BY <1>6, <1>7, <2>1, <2>2 DEF Told
<1> QED
  BY <1>3, <1>4, <1>6, <1>7
-----------------------------------------------------------------------------
(* The types.                                                              *)

\* What is analysed is sent as an analysis.
LEMMA AnalyseTypes ==
  ASSUME NEW snap \in Snapshot, member \in Seq(Storage),
         Analyse(snap).state \in PromoteStates \cup DemoteStates
  PROVE  Analyse(snap) \in AnalysisType
<1> DEFINE x == Analyse(snap)
<1>1. x.eligible \subseteq Storage /\ x.differing \subseteq Storage
      /\ x.master \in Storage
  BY AnalyseTells, KnownStorage DEF Snapshot
<1>2. x = [state |-> x.state, master |-> x.master, eligible |-> x.eligible,
           differing |-> x.differing]
  BY DEF Analyse, Analysed
<1> QED
  BY <1>1, <1>2 DEF AnalysisType

\* The master that starts a scenario is one of its storages.
LEMMA InitTypes == Init => TypeOK
<1> SUFFICES ASSUME Init PROVE TypeOK
  OBVIOUS
<1>1. /\ member \in Seq(Storage) /\ Leader \in Known
      /\ faults \in [Fault -> Nat] /\ Routers \subseteq Router
      /\ Routers # {} /\ \A r \in Routers : route[r] = Leader
      /\ route \in [Routers -> Storage] /\ lag \in [Known -> Lag]
  BY ScenarioAssumption, LeaderAssumption DEF Init, Known, Routers
<1>2. snapshot \in Snapshot
  <2>1. \A n \in Known : snapshot.rows[n] \in Row
    BY <1>1, LeaderAssumption DEF Init, Row, StatusOf, Upstreams
  <2> QED
    BY <1>1, <2>1, LeaderAssumption DEF Init, Snapshot
<1>3. disc \in [Discoverer \cup {Forced} -> Discovery]
  BY DEF Init, Discovery
<1>4. /\ up = Known /\ cfg = [n \in Storage |-> Leader] /\ failed = {}
      /\ behind = {} /\ astray = FALSE /\ fresh = TRUE /\ stream = {}
      /\ late = {} /\ led = {Leader}
      /\ pc = "idle" /\ cand = NoCand /\ boss = NoCand /\ todo = {}
      /\ blocked = {} /\ old = [calls |-> {}, sent |-> {}]
  BY DEF Init, Nothing
<1>5. old \in [calls : SUBSET (Discoverer \cup {Current}), sent : SUBSET stream]
  BY <1>4
<1>6. cfg \in [Storage -> Storage]
  BY <1>4, LeaderAssumption
<1> QED
  BY <1>1, <1>2, <1>3, <1>4, <1>5, <1>6 DEF TypeOK

\* The faults that may still happen only get fewer.
LEMMA SufferTypes ==
  ASSUME faults \in [Fault -> Nat], NEW f \in Fault, Suffer(f)
  PROVE  faults' \in [Fault -> Nat]
BY DEF Suffer

\* Storages crash and come back.
LEMMA NodeTypes ==
  ASSUME TypeOK, NEW n \in Known, Crash(n) \/ Return(n) PROVE TypeOK'
<1>1. member' = member /\ Known' = Known /\ Snapshot' = Snapshot
      /\ Discovery' = Discovery /\ Routers' = Routers
  BY DEF Crash, Return, Known, Snapshot, Discovery, Row, Routers
<1>2. faults' \in [Fault -> Nat]
  BY SufferTypes DEF Crash, Return, TypeOK, Fault
<1>3. up' \subseteq Known /\ failed' \subseteq Known
  BY DEF Crash, Return, TypeOK
<1>4. cfg' \in [Storage -> Storage]
  BY KnownStorage, LeaderAssumption DEF Crash, Return, TypeOK
<1>5. astray' \in BOOLEAN
  BY DEF Crash, Return, TypeOK
<1>6. UNCHANGED <<route, late, lag, led, behind, snapshot, fresh, disc, stream,
                  pc, cand, boss, todo, blocked, old>>
  BY DEF Crash, Return, jobVars
<1> QED
  BY <1>1, <1>2, <1>3, <1>4, <1>5, <1>6 DEF TypeOK

\* Their lag changes, scripts arrive late.
LEMMA DriftTypes ==
  ASSUME TypeOK, NEW n \in Known, Drift(n) PROVE TypeOK'
<1>1. member' = member /\ Known' = Known /\ Snapshot' = Snapshot
      /\ Discovery' = Discovery /\ Routers' = Routers
  BY DEF Drift, Known, Snapshot, Discovery, Row, Routers
<1>2. faults' \in [Fault -> Nat]
  BY SufferTypes DEF Drift, TypeOK, Fault
<1>3. lag' \in [Known -> Lag]
  BY DEF Drift, TypeOK
<1>4. UNCHANGED <<up, cfg, route, late, failed, led, behind, astray, snapshot,
                  fresh, disc, stream, pc, cand, boss, todo, blocked, old>>
  BY DEF Drift, jobVars
<1> QED
  BY <1>1, <1>2, <1>3, <1>4 DEF TypeOK

LEMMA LateTypes ==
  ASSUME TypeOK, NEW s \in late, LateEnds(s) PROVE TypeOK'
<1>1. UNCHANGED <<member, up, lag, failed, led, astray, faults, snapshot, fresh,
                  disc, stream, pc, cand, boss, todo, blocked, old>>
  BY DEF LateEnds, jobVars
<1>2. Known' = Known /\ Snapshot' = Snapshot /\ Discovery' = Discovery
  BY <1>1 DEF Known, Snapshot, Discovery, Row
<1>3. late' \subseteq late /\ s[2] \in Storage
  BY DEF LateEnds, TypeOK
<1>4. cfg' \in [Storage -> Storage]
  BY <1>3, KnownStorage DEF LateEnds, TypeOK
<1>5. Routers' = Routers /\ route' \in [Routers -> Storage] /\ behind' \subseteq Routers
  BY <1>3 DEF LateEnds, TypeOK, Routers
<1> QED
  BY <1>1, <1>2, <1>3, <1>4, <1>5 DEF TypeOK

\* The rows of a discovery after the master was asked ...
LEMMA AskMasterRows ==
  ASSUME TypeOK, NEW d \in Discoverer \cup {Forced}, AskMaster(d)
  PROVE  \E rows \in [Known -> Row] :
           /\ Collected(d, rows, disc[d].left)
           /\ \A n \in Known :
                /\ rows[n].valid => rows[n] = disc[d].snap.rows[n]
                /\ rows[n].upstream = "nil" =>
                     \/ n = disc[d].snap.master
                     \/ disc[d].snap.rows[n].upstream = "nil"
<1> DEFINE m == disc[d].snap.master
           was == disc[d].snap.rows
           told == Topology(m)
<1>1. disc[d] \in Discovery /\ disc[d].at = "topology"
  BY DEF TypeOK, AskMaster
<1>2. disc[d] # NoDiscovery
  BY <1>1 DEF NoDiscovery
<1>3. was \in [Known -> Row]
  BY <1>1, <1>2, DiscoveryFields DEF Snapshot
<1>4. \A n \in Known : Upstreams(m)[n] \in {"nil", "follow", "disconnected"}
                       /\ (Upstreams(m)[n] = "nil" => n = m)
  BY DEF Upstreams
<1>5. ASSUME NEW n \in Known
      PROVE  /\ told[n] \in Row /\ ~told[n].valid
             /\ told[n].upstream = Upstreams(m)[n]
  <2>1. lag[n] \in Lag /\ "near" \in Lag
    BY DEF TypeOK, Lag
  <2> QED
    BY <1>4, <2>1 DEF Row, Topology
<1>6. told \in [Known -> Row]
  BY <1>5 DEF Topology
<1>7. CASE Collected(d, told, disc[d].left)
  BY <1>4, <1>5, <1>6, <1>7
<1>8. CASE Collected(d, was, disc[d].left)
  BY <1>3, <1>8
<1> QED
  BY <1>7, <1>8 DEF AskMaster

(* ... and after a storage was polled: it told the truth, or its row does  *)
(* not count.                                                              *)
LEMMA PollInstanceRows ==
  ASSUME TypeOK, NEW d \in Discoverer \cup {Forced}, NEW n \in Known,
         PollInstance(d, n)
  PROVE  \E rows \in [Known -> Row] :
           /\ Collected(d, rows, disc[d].left \ {n})
           /\ \A k \in Known :
                /\ rows[k].upstream = disc[d].snap.rows[k].upstream
                /\ k # n => rows[k] = disc[d].snap.rows[k]
           /\ rows[n].valid => n \in up /\ rows[n].status = StatusOf(n)
<1> DEFINE was == disc[d].snap.rows
           told == [was[n] EXCEPT !.valid = TRUE, !.status = StatusOf(n),
                                  !.fingerprint = cfg[n]]
           missed == [was[n] EXCEPT !.valid = FALSE]
           left == disc[d].left \ {n}
<1>1. disc[d] \in Discovery /\ disc[d].at = "poll"
  BY DEF TypeOK, PollInstance
<1>2. disc[d] # NoDiscovery
  BY <1>1 DEF NoDiscovery
<1>3. was \in [Known -> Row]
  BY <1>1, <1>2, DiscoveryFields DEF Snapshot
<1>4. was[n] \in Row /\ cfg[n] \in Storage
      /\ StatusOf(n) \in {"master", "follow", "disconnected"}
  BY <1>3, KnownStorage DEF StatusOf, TypeOK
<1>5. told \in Row /\ told.upstream = was[n].upstream
      /\ told.status = StatusOf(n)
  BY <1>4 DEF Row
<1>6. missed \in Row /\ missed.upstream = was[n].upstream /\ ~missed.valid
  BY <1>4 DEF Row
<1>7. CASE n \in up /\ Collected(d, [was EXCEPT ![n] = told], left)
  <2> DEFINE rows == [was EXCEPT ![n] = told]
  <2>1. /\ rows \in [Known -> Row] /\ rows[n] = told
        /\ \A k \in Known \ {n} : rows[k] = was[k]
    BY <1>3, <1>5
  <2> QED
    BY <1>5, <1>7, <2>1
<1>8. CASE Collected(d, [was EXCEPT ![n] = missed], left)
  <2> DEFINE rows == [was EXCEPT ![n] = missed]
  <2>1. /\ rows \in [Known -> Row] /\ rows[n] = missed
        /\ \A k \in Known \ {n} : rows[k] = was[k]
    BY <1>3, <1>6
  <2> QED
    BY <1>6, <1>8, <2>1
<1> QED
  BY <1>7, <1>8 DEF PollInstance

\* What stays when no storage is added: the sets of snapshots and discoveries.
LEMMA SameSets ==
  ASSUME member' = member
  PROVE  Known' = Known /\ Snapshot' = Snapshot /\ Discovery' = Discovery
BY DEF Known, Snapshot, Discovery, Row

\* A discovery stays one as it collects rows.
LEMMA CollectedTypes ==
  ASSUME TypeOK, NEW d \in Discoverer \cup {Forced}, disc[d] # NoDiscovery,
         NEW rows \in [Known -> Row], NEW left \in SUBSET Storage,
         Collected(d, rows, left)
  PROVE  /\ disc' \in [Discoverer \cup {Forced} -> Discovery]
         /\ disc'[d] = [at |-> "poll",
                        snap |-> [master |-> disc[d].snap.master, rows |-> rows],
                        left |-> left]
         /\ disc'[d] # NoDiscovery
         /\ \A e \in Discoverer \cup {Forced} : e # d => disc'[e] = disc[e]
<1> DEFINE snap == [master |-> disc[d].snap.master, rows |-> rows]
<1>1. /\ disc \in [Discoverer \cup {Forced} -> Discovery]
      /\ disc[d].snap \in Snapshot
  BY DiscoveryFields DEF TypeOK
<1>2. [disc[d].snap EXCEPT !.rows = rows] = snap /\ snap \in Snapshot
  BY <1>1 DEF Snapshot
<1>3. disc' = [disc EXCEPT ![d] = [at |-> "poll", snap |-> snap, left |-> left]]
  BY <1>2 DEF Collected
<1>4. /\ [at |-> "poll", snap |-> snap, left |-> left] \in Discovery
      /\ [at |-> "poll", snap |-> snap, left |-> left].at # NoDiscovery.at
  BY <1>2 DEF Discovery, NoDiscovery
<1> QED
  BY <1>1, <1>3, <1>4

\* The steps of a discovery up to its end.
LEMMA CollectTypes ==
  ASSUME TypeOK, NEW d \in Discoverer \cup {Forced},
         AskRouter(d) \/ AskMaster(d) \/ \E n \in Known : PollInstance(d, n)
  PROVE  TypeOK'
<1>1. faults' \in [Fault -> Nat]
  BY SufferTypes DEF AskRouter, AskMaster, PollInstance, TypeOK, Fault
<1>2. UNCHANGED <<nodeVars, snapshot, fresh, stream, jobVars>>
  BY DEF AskRouter, AskMaster, PollInstance
<1>3. /\ Known' = Known /\ Snapshot' = Snapshot /\ Discovery' = Discovery
      /\ Routers' = Routers
  BY <1>2, SameSets DEF nodeVars, Routers
<1>4. Known \subseteq Storage /\ up \subseteq Known /\ snapshot \in Snapshot
      /\ disc \in [Discoverer \cup {Forced} -> Discovery]
  BY KnownStorage DEF TypeOK
<1>5. ASSUME disc' \in [Discoverer \cup {Forced} -> Discovery] PROVE TypeOK'
  BY <1>1, <1>2, <1>3, <1>5 DEF TypeOK, nodeVars, jobVars
<1>6. CASE AskRouter(d)
  <2>1. PICK r \in Routers :
          disc' = [disc EXCEPT ![d] =
            [at |-> IF route[r] \in up THEN "topology" ELSE "poll",
             snap |-> [snapshot EXCEPT !.master = route[r]], left |-> Known]]
    BY <1>6 DEF AskRouter
  <2>2. [snapshot EXCEPT !.master = route[r]] \in Snapshot
    BY <1>4, <2>1 DEF TypeOK, Snapshot
  <2> DEFINE new == [at |-> IF route[r] \in up THEN "topology" ELSE "poll",
             snap |-> [snapshot EXCEPT !.master = route[r]], left |-> Known]
  <2>3. new \in Discovery
    BY <1>4, <2>2 DEF Discovery
  <2> QED
    BY <1>4, <1>5, <2>1, <2>3
<1>7. CASE AskMaster(d)
  <2>1. disc[d] # NoDiscovery
    <3>1. disc[d].at = "topology"
      BY <1>7 DEF AskMaster
    <3> QED
      BY <3>1 DEF NoDiscovery
  <2>2. PICK rows \in [Known -> Row] : Collected(d, rows, disc[d].left)
    BY <1>7, AskMasterRows
  <2> QED
    BY <1>4, <1>5, <2>1, <2>2, CollectedTypes, DiscoveryFields
<1>8. ASSUME NEW n \in Known, PollInstance(d, n) PROVE TypeOK'
  <2>1. disc[d] # NoDiscovery
    <3>1. disc[d].at = "poll"
      BY <1>8 DEF PollInstance
    <3> QED
      BY <3>1 DEF NoDiscovery
  <2>2. PICK rows \in [Known -> Row] : Collected(d, rows, disc[d].left \ {n})
    BY <1>8, PollInstanceRows
  <2>3. disc[d].left \ {n} \in SUBSET Storage
    BY <1>4, <2>1, DiscoveryFields
  <2> QED
    BY <1>5, <2>1, <2>2, <2>3, CollectedTypes
<1> QED
  BY <1>6, <1>7, <1>8
\* The end of a discovery.
LEMMA InstallTypes ==
  ASSUME TypeOK, NEW d \in Discoverer \cup {Forced}, Install(d) PROVE TypeOK'
<1>1. disc[d] \in Discovery /\ disc[d].at = "poll"
  BY DEF TypeOK, Install
<1>2. disc[d] # NoDiscovery
  BY <1>1 DEF NoDiscovery
<1>3. /\ UNCHANGED <<member, up, cfg, route, late, lag, failed, led,
                     behind, astray, faults,
                     stream, todo, blocked>>
      /\ Known' = Known /\ Snapshot' = Snapshot /\ Discovery' = Discovery
      /\ Routers' = Routers /\ fresh' = TRUE
  BY SameSets DEF Install, nodeVars, Routers
<1>4. snapshot' \in Snapshot
  BY <1>1, <1>2, <1>3, DiscoveryFields DEF Install
<1>5. disc' \in [Discoverer \cup {Forced} -> Discovery]
  BY <1>3 DEF Install, TypeOK, Discovery
<1>6. /\ pc' \in {"idle", "candidate", "routers", "instances", "demote",
                  "discover", "dead"}
      /\ cand' \in Storage \cup {NoCand} /\ boss' \in Storage \cup {NoCand}
  BY DEF Install, Rest, TypeOK
<1>7. old' \in [calls : SUBSET (Discoverer \cup {Current}), sent : SUBSET stream]
  <2>1. CASE d = Forced
    BY <2>1 DEF Install, UnderWay
  <2>2. CASE d # Forced
    <3> DEFINE calls == (old.calls \ {d, Current})
                          \cup (IF d \in old.calls THEN {Current} ELSE {})
    <3>1. /\ old = [calls |-> old.calls, sent |-> old.sent]
          /\ old.calls \subseteq Discoverer \cup {Current}
          /\ old.sent \subseteq stream
      BY DEF TypeOK
    <3>2. old' = [old EXCEPT !.calls = calls]
      BY <2>2 DEF Install
    <3>3. calls \subseteq Discoverer \cup {Current}
      BY <3>1
    <3> QED
      BY <3>1, <3>2, <3>3
  <2> QED
    BY <2>1, <2>2
<1> QED
  BY <1>3, <1>4, <1>5, <1>6, <1>7 DEF TypeOK

\* A recovery that ends without a discovery.
LEMMA RouterSilentTypes == ASSUME TypeOK, RouterSilent PROVE TypeOK'
<1>1. /\ UNCHANGED <<member, up, cfg, route, late, lag, failed, led,
                     behind, astray, snapshot,
                     fresh, disc, stream, todo, blocked>>
      /\ Known' = Known /\ Snapshot' = Snapshot /\ Discovery' = Discovery
      /\ Routers' = Routers
  BY SameSets DEF RouterSilent, nodeVars, Routers
<1>2. faults' \in [Fault -> Nat]
  BY SufferTypes DEF RouterSilent, TypeOK, Fault
<1>3. /\ pc' = "idle" /\ cand' = NoCand /\ boss' = NoCand
  BY DEF RouterSilent, Rest
<1>4. UnderWay \in [calls : SUBSET (Discoverer \cup {Current}),
                    sent : SUBSET stream]
  BY DEF UnderWay
<1>5. old' \in [calls : SUBSET (Discoverer \cup {Current}), sent : SUBSET stream]
  BY <1>4 DEF RouterSilent
<1> QED
  BY <1>1, <1>2, <1>3, <1>5 DEF TypeOK

\* The monitor sends an analysis, or none.
LEMMA CheckTypes == ASSUME TypeOK, CheckCluster PROVE TypeOK'
<1> DEFINE x    == Analyse(snapshot)
           sent == IF x.state \in PromoteStates \cup DemoteStates THEN {x} ELSE {}
<1>1. /\ UNCHANGED <<member, up, cfg, route, late, lag, failed, led,
                     behind, astray, faults,
                     snapshot, disc, pc, cand, boss, todo, blocked>>
      /\ Known' = Known /\ Snapshot' = Snapshot /\ Discovery' = Discovery
      /\ Routers' = Routers /\ fresh' \in BOOLEAN
      /\ stream' = stream \cup sent
  BY SameSets DEF CheckCluster, nodeVars, Routers
<1>2. sent \subseteq AnalysisType
  BY AnalyseTypes DEF TypeOK
<1>3. stream' \subseteq AnalysisType
  BY <1>1, <1>2 DEF TypeOK
<1>4. old' \in [calls : SUBSET (Discoverer \cup {Current}), sent : SUBSET stream']
  <2>1. old' = IF Current \notin old.calls THEN old
               ELSE [calls |-> IF fresh' THEN old.calls
                               ELSE old.calls \ {Current},
                     sent |-> old.sent \cup sent]
    BY DEF CheckCluster
  <2>2. /\ old = [calls |-> old.calls, sent |-> old.sent]
        /\ old.calls \subseteq Discoverer \cup {Current}
        /\ old.sent \subseteq stream
    BY DEF TypeOK
  <2> HIDE DEF sent
  <2> QED
    BY <1>1, <2>1, <2>2
<1> QED
  BY <1>1, <1>3, <1>4 DEF TypeOK

\* What is taken from the stream is forgotten.
LEMMA TakeTypes ==
  ASSUME TypeOK, NEW x, Take(x)
  PROVE  /\ stream' \subseteq AnalysisType
         /\ old' \in [calls : SUBSET (Discoverer \cup {Current}),
                      sent : SUBSET stream']
         /\ old'.calls = old.calls /\ old'.sent = old.sent \ {x}
BY DEF Take, TypeOK

\* Where a promotion goes.
LEMMA PromoteGoes ==
  ASSUME NEW x, Promote(x)
  PROVE  \/ pc' = "discover" /\ (cand' = NoCand \/ cand' \in x.eligible)
         \/ pc' = "candidate" /\ cand' \in x.eligible
         \/ /\ pc' = "dead" /\ cand' \in x.eligible
            /\ snapshot.rows[cand'].upstream = "nil"
<1>1. \/ pc' = "discover" /\ cand' = NoCand
      \/ \E c \in x.eligible :
           /\ cand' = c
           /\ \/ pc' \in {"candidate", "discover"}
              \/ pc' = "dead" /\ snapshot.rows[c].upstream = "nil"
  BY DEF Promote, StartPromotion
<1> QED
  BY <1>1

\* The failover takes an analysis.
LEMMA ReceiveTypes ==
  ASSUME TypeOK, NEW x \in stream, Skip(x) \/ Promote(x) \/ Demote(x)
  PROVE  TypeOK'
<1>1. /\ UNCHANGED <<member, up, cfg, route, late, lag, failed, led,
                     behind, astray, faults,
                     snapshot, fresh, disc>>
      /\ Known' = Known /\ Snapshot' = Snapshot /\ Discovery' = Discovery
      /\ Routers' = Routers
  BY SameSets DEF Skip, Promote, StartPromotion, Demote, StartDemotion, nodeVars,
                  Routers
<1>2. Take(x)
  BY DEF Skip, Promote, StartPromotion, Demote, StartDemotion
<1>3. x \in AnalysisType
  BY DEF TypeOK
<1>4. /\ pc' \in {"idle", "candidate", "routers", "instances", "demote",
                  "discover", "dead"}
      /\ cand' \in Storage \cup {NoCand} /\ boss' \in Storage \cup {NoCand}
      /\ todo' \subseteq Storage \cup Router
      /\ blocked' \subseteq Storage \cup {SetKey}
  <2>1. CASE Skip(x)
    BY <2>1 DEF Skip, TypeOK
  <2>2. CASE Promote(x)
    <3>1. UNCHANGED <<boss, todo>> /\ blocked' = blocked \cup {SetKey}
      BY <2>2 DEF Promote, StartPromotion
    <3>2. /\ pc' \in {"discover", "dead", "candidate"}
          /\ cand' = NoCand \/ cand' \in x.eligible
      BY <2>2, PromoteGoes
    <3>3. cand' \in Storage \cup {NoCand}
      BY <1>3, <3>2 DEF AnalysisType
    <3> QED
      BY <3>1, <3>2, <3>3 DEF TypeOK
  <2>3. CASE Demote(x)
    BY <1>3, <2>3 DEF Demote, StartDemotion, TypeOK, AnalysisType
  <2> QED
    BY <2>1, <2>2, <2>3
<1> QED
  BY <1>1, <1>2, <1>4, TakeTypes DEF TypeOK

(* The scripts of a recovery: there is a master for the nodes to follow    *)
(* (Chosen).                                                               *)
LEMMA ScriptTypes ==
  ASSUME TypeOK, Chosen,
         \/ ExecCandidate
         \/ \E r \in Routers : ExecRouter(r)
         \/ \E n \in Known : ExecInstance(n) \/ ExecDemote(n)
  PROVE  TypeOK'
<1>1. /\ UNCHANGED <<member, up, lag, failed, snapshot, fresh, disc, stream,
                     cand, boss, old>>
      /\ Known' = Known /\ Snapshot' = Snapshot /\ Discovery' = Discovery
  BY SameSets DEF ExecCandidate, ExecRouter, TellRouter, ExecInstance, ExecDemote
<1>2. Known \subseteq Storage /\ up \subseteq Known /\ Routers \subseteq Router
  BY KnownStorage DEF TypeOK
<1>3. ASSUME faults' = faults \/ Suffer("script") PROVE faults' \in [Fault -> Nat]
  BY <1>3, SufferTypes DEF TypeOK, Fault
<1>4. ASSUME NEW n \in Known, NEW m \in Storage, Reached(n) \/ Missed(n, m)
      PROVE  /\ faults' \in [Fault -> Nat]
             /\ late' \subseteq (Storage \cup Router) \X Storage
  <2>1. late \subseteq (Storage \cup Router) \X Storage
    BY DEF TypeOK
  <2> QED
    BY <1>2, <1>3, <1>4, <2>1 DEF Reached, Missed
<1>5. CASE ExecCandidate
  <2>1. cand \in Storage
    BY <1>5 DEF ExecCandidate, Chosen
  <2>2. cand \in Known \/ cand \notin up
    BY <1>2
  <2>3. faults' \in [Fault -> Nat] /\ late' \subseteq (Storage \cup Router) \X Storage
    <3>1. CASE cand \in Known
      BY <1>4, <1>5, <2>1, <3>1 DEF ExecCandidate
    <3>2. CASE cand \notin up
      BY <1>5, <3>2 DEF ExecCandidate, Reached, Missed, TypeOK
    <3> QED
      BY <2>2, <3>1, <3>2
  <2>4. cfg' \in [Storage -> Storage]
    BY <1>5, <2>1 DEF ExecCandidate, TypeOK
  <2>5. led' \subseteq Known
    BY <1>2, <1>5 DEF ExecCandidate, Reached, TypeOK
  <2>6. todo' \subseteq Storage \cup Router
    BY <1>5 DEF ExecCandidate, TypeOK
  <2>7. UNCHANGED <<route, behind, astray, blocked>> /\ Routers' = Routers
        /\ pc' \in {"routers", "discover"}
    BY <1>5 DEF ExecCandidate, Routers
  <2> QED
    BY <1>1, <2>3, <2>4, <2>5, <2>6, <2>7 DEF TypeOK
<1>6. ASSUME NEW r \in Routers, ExecRouter(r) PROVE TypeOK'
  <2>1. faults' \in [Fault -> Nat]
    BY <1>3, <1>6 DEF ExecRouter, TellRouter
  <2>2. cand \in Storage
    BY <1>6 DEF ExecRouter, TellRouter, Chosen
  <2>3. route' \in [Routers -> Storage] /\ Routers' = Routers
    BY <1>6, <2>2 DEF ExecRouter, TellRouter, Routers, TypeOK
  <2>4. behind' \subseteq Routers
    BY <1>6 DEF ExecRouter, TellRouter, TypeOK
  <2>5. late' \subseteq (Storage \cup Router) \X Storage
    BY <1>2, <1>6, <2>2 DEF ExecRouter, TellRouter, TypeOK
  <2>6. /\ UNCHANGED <<cfg, led, astray, blocked>>
        /\ pc' \in {"routers", "instances"} /\ todo' \subseteq Storage \cup Router
    BY <1>2, <1>6 DEF ExecRouter, TellRouter, TypeOK
  <2> QED
    BY <1>1, <2>1, <2>3, <2>4, <2>5, <2>6 DEF TypeOK
<1>7. ASSUME NEW n \in Known, ExecInstance(n) \/ ExecDemote(n) PROVE TypeOK'
  <2>1. faults' \in [Fault -> Nat] /\ late' \subseteq (Storage \cup Router) \X Storage
    <3>1. CASE ExecInstance(n)
      BY <1>4, <3>1 DEF ExecInstance, Chosen
    <3>2. CASE ExecDemote(n)
      BY <1>4, <3>2 DEF ExecDemote, Chosen
    <3> QED
      BY <1>7, <3>1, <3>2
  <2>2. cfg' \in [Storage -> Storage]
    <3>1. CASE ExecInstance(n)
      BY <3>1 DEF ExecInstance, Chosen, TypeOK
    <3>2. CASE ExecDemote(n)
      BY <3>2 DEF ExecDemote, Chosen, TypeOK
    <3> QED
      BY <1>7, <3>1, <3>2
  <2>3. UNCHANGED <<route, led, behind>> /\ Routers' = Routers
    BY <1>7 DEF ExecInstance, ExecDemote, Routers
  <2>4. astray' \in BOOLEAN
    BY <1>7 DEF ExecInstance, ExecDemote, TypeOK
  <2>5. /\ pc' \in {"idle", "candidate", "routers", "instances", "demote",
                     "discover", "dead"}
        /\ todo' \subseteq Storage \cup Router
        /\ blocked' \subseteq Storage \cup {SetKey}
    BY <1>2, <1>7 DEF ExecInstance, ExecDemote, TypeOK
  <2> QED
    BY <1>1, <2>1, <2>2, <2>3, <2>4, <2>5 DEF TypeOK
<1> QED
  BY <1>5, <1>6, <1>7

\* A recovery that tells nodes of a master has chosen one.
LEMMA ChosenStep == ASSUME TypeOK, Chosen, [Next]_vars PROVE Chosen'
<1>1. CASE UNCHANGED <<pc, cand, boss>>
  BY <1>1 DEF Chosen
<1>2. CASE pc' \in {"idle", "discover", "dead"}
  BY <1>2 DEF Chosen
<1>3. ASSUME NEW d \in Discoverer \cup {Forced}, Discover(d) PROVE Chosen'
  BY <1>1, <1>2, <1>3 DEF Discover, AskRouter, AskMaster, PollInstance, Install,
                          Rest, jobVars
<1>4. ASSUME NEW x \in stream, Skip(x) \/ Promote(x) \/ Demote(x) PROVE Chosen'
  <2>1. x \in AnalysisType
    BY DEF TypeOK
  <2>2. CASE Skip(x)
    BY <1>1, <2>2 DEF Skip
  <2>3. CASE Promote(x)
    <3>1. \/ pc' \in {"discover", "dead"}
          \/ pc' = "candidate" /\ cand' \in x.eligible
      BY <2>3, PromoteGoes
    <3>2. pc' \in {"discover", "dead", "candidate"}
      BY <3>1
    <3>3. pc' = "candidate" => cand' \in Storage
      BY <2>1, <3>1 DEF AnalysisType
    <3> QED
      BY <3>2, <3>3 DEF Chosen
  <2>4. CASE Demote(x)
    BY <2>1, <2>4 DEF Demote, StartDemotion, Chosen, AnalysisType
  <2> QED
    BY <1>4, <2>2, <2>3, <2>4
<1>5. CASE ExecCandidate
  BY <1>5 DEF ExecCandidate, Chosen
<1>6. ASSUME NEW r \in Routers, ExecRouter(r) PROVE Chosen'
  BY <1>6 DEF ExecRouter, TellRouter, Chosen
<1>7. ASSUME NEW n \in Known, ExecInstance(n) \/ ExecDemote(n) PROVE Chosen'
  BY <1>7 DEF ExecInstance, ExecDemote, Chosen
<1>8. CASE \/ \E n \in Known : Crash(n) \/ Return(n) \/ Drift(n)
           \/ \E s \in late : LateEnds(s)
           \/ CheckCluster
           \/ \E k \in blocked : Unblock(k)
           \/ UNCHANGED vars
  BY <1>1, <1>8 DEF Crash, Return, Drift, LateEnds, CheckCluster, Unblock,
                    jobVars, vars
<1>9. CASE RouterSilent
  BY <1>2, <1>9 DEF RouterSilent, Rest
<1> QED
  BY <1>3, <1>4, <1>5, <1>6, <1>7, <1>8, <1>9 DEF Next, Recover

\* A block period ends.
LEMMA UnblockTypes ==
  ASSUME TypeOK, NEW k \in blocked, Unblock(k) PROVE TypeOK'
<1>1. /\ UNCHANGED <<member, up, cfg, route, late, lag, failed, led,
                     behind, astray, faults,
                     snapshot, fresh, disc, stream, pc, cand, boss, todo, old>>
      /\ Known' = Known /\ Snapshot' = Snapshot /\ Discovery' = Discovery
      /\ Routers' = Routers /\ blocked' \subseteq blocked
  BY SameSets DEF Unblock, nodeVars, Routers
<1> QED
  BY <1>1 DEF TypeOK

\* Every step keeps the types.
LEMMA TypesStep ==
  ASSUME TypeOK, Chosen, [Next]_vars PROVE TypeOK' /\ Chosen'
<1>1. CASE UNCHANGED vars
  <2>1. /\ UNCHANGED <<member, up, cfg, route, late, lag, failed, led,
                       behind, astray, faults,
                       snapshot, fresh, disc, stream, pc, cand, boss, todo,
                       blocked, old>>
        /\ Known' = Known /\ Snapshot' = Snapshot /\ Discovery' = Discovery
        /\ Routers' = Routers
    BY <1>1, SameSets DEF vars, nodeVars, jobVars, Routers
  <2> QED
    BY <2>1, ChosenStep DEF TypeOK
<1>2. ASSUME NEW d \in Discoverer \cup {Forced}, Discover(d) PROVE TypeOK'
  BY <1>2, CollectTypes, InstallTypes DEF Discover
<1>3. ASSUME Recover PROVE TypeOK'
  BY <1>3, ReceiveTypes, ScriptTypes DEF Recover
<1> QED
  BY <1>1, <1>2, <1>3, NodeTypes, DriftTypes, LateTypes, RouterSilentTypes,
     CheckTypes, UnblockTypes, ChosenStep DEF Next

(* What the code keeps of the cluster, of the discoveries under way and of *)
(* a recovery is what the model says it is; so is what the theorems below  *)
(* are about.                                                              *)
THEOREM SystemTypes == Spec => []TypeOK
<1>1. Init => TypeOK /\ Chosen
  BY InitTypes DEF Init, Chosen
<1>2. TypeOK /\ Chosen /\ [Next]_vars => (TypeOK /\ Chosen)'
  BY TypesStep
<1> QED
  BY <1>1, <1>2, PTL DEF Spec
-----------------------------------------------------------------------------
(* The nodes, as long as none went astray.                                 *)

\* Who went astray is never forgotten; who comes back, or is demoted, does.
LEMMA AstrayStays ==
  ASSUME TypeOK, [Next]_vars, ~astray'
  PROVE  /\ ~astray
         /\ \A n \in Known : ~Return(n)
         /\ \A n \in Known : ExecDemote(n) => n \notin up
BY DEF TypeOK, Next, vars, nodeVars, Crash, Return, Drift, LateEnds, Discover,
       AskRouter, AskMaster, PollInstance, Install, RouterSilent, CheckCluster,
       Recover, Skip, Promote, StartPromotion, Demote, StartDemotion,
       ExecCandidate, ExecRouter, TellRouter, ExecInstance, ExecDemote, Unblock

\* An analysis that is acted upon is sound.
LEMMA PromoteSound ==
  ASSUME Observations, NEW x \in stream, Promote(x)
  PROVE  /\ NoneHealthy /\ x.eligible \subseteq Known
         /\ \A c \in x.eligible : c \notin led
BY DEF Observations, Promote, StartPromotion, Settled, Free, Sound

\* A step of the monitor, of a discovery or between recoveries.
LEMMA NodesRest ==
  ASSUME Nodes, UNCHANGED nodeVars,
         \/ /\ pc' = pc /\ cand' = cand /\ todo' = todo
         \/ /\ pc \in {"idle", "demote", "discover"}
            /\ pc' \in {"idle", "demote", "discover"},
         \/ SetKey \in blocked => SetKey \in blocked'
         \/ pc = "idle" /\ pc' = "idle" /\ late = {}
  PROVE  Nodes'
<1>1. /\ Known' = Known /\ Routers' = Routers /\ (NoneHealthy => NoneHealthy')
      /\ UNCHANGED <<up, cfg, route, late, failed, led>>
  BY DEF nodeVars, NoneHealthy, Known, Routers
<1>2. pc' \in {"routers", "instances"} => pc \in {"routers", "instances"}
  OBVIOUS
<1>3. \A s \in late' : Pending(s)'
  BY <1>1, <1>2 DEF Nodes, Pending
<1> QED
  BY <1>1, <1>3 DEF Nodes

LEMMA NodesCrash ==
  ASSUME TypeOK, Nodes, NEW n \in Known, Crash(n) PROVE Nodes'
<1>1. /\ UNCHANGED <<cfg, route, late, led, pc, cand, todo, blocked>>
      /\ Known' = Known /\ Routers' = Routers
      /\ up' = up \ {n} /\ failed' = failed \cup {n}
  BY DEF Crash, jobVars, Known, Routers
<1>2. NoneHealthy => NoneHealthy'
  BY <1>1 DEF NoneHealthy
<1>3. \A s \in late' : Pending(s)'
  BY <1>1, <1>2 DEF Nodes, Pending
<1> QED
  BY <1>1, <1>2, <1>3 DEF Nodes

\* A promotion starts when no script of an earlier one is to arrive.
LEMMA NodesPromote ==
  ASSUME TypeOK, Nodes, Observations, NEW x \in stream, Promote(x), pc' # "dead"
  PROVE  Nodes'
<1>1. /\ UNCHANGED nodeVars /\ pc = "idle" /\ SetKey \notin blocked
      /\ SetKey \in blocked' /\ Known' = Known /\ Routers' = Routers
  BY DEF Promote, StartPromotion, nodeVars, Known, Routers
<1>2. CASE pc' = "discover"
  BY <1>1, <1>2, NodesRest
<1>3. CASE pc' = "candidate" /\ cand' \in x.eligible
  <2>1. late = {} /\ cand' \in Known /\ NoneHealthy
    BY <1>1, <1>3, PromoteSound DEF Nodes
  <2>2. UNCHANGED <<up, cfg, route, late, failed, led>>
    BY <1>1 DEF nodeVars
  <2>3. NoneHealthy'
    BY <2>1, <2>2 DEF NoneHealthy
  <2> QED
    BY <1>1, <1>3, <2>1, <2>2, <2>3 DEF Nodes
<1> QED
  BY <1>2, <1>3, PromoteGoes

(* The candidate takes the role once all masters crashed.  Its script may  *)
(* be on its way when the recovery ends.                                   *)
LEMMA NodesCandidate ==
  ASSUME TypeOK, Nodes, ExecCandidate PROVE Nodes'
<1>1. /\ UNCHANGED <<up, route, failed, cand, blocked>> /\ Known' = Known
      /\ Routers' = Routers /\ pc = "candidate" /\ NoneHealthy
      /\ cand \in Known /\ SetKey \in blocked /\ late = {}
  BY DEF ExecCandidate, Nodes, Known, Routers
<1>2. CASE /\ pc' = "discover" /\ UNCHANGED <<cfg, led, todo>>
           /\ Missed(cand, cand)
  <2>1. NoneHealthy'
    BY <1>1, <1>2 DEF NoneHealthy
  <2>2. \A s \in late' : s = <<cand, cand>>
    BY <1>1, <1>2 DEF Missed
  <2>3. \A s \in late' : Pending(s)'
    BY <1>1, <1>2, <2>1, <2>2 DEF Pending
  <2> QED
    BY <1>1, <1>2, <2>1, <2>3 DEF Nodes
<1>3. CASE /\ cfg' = [cfg EXCEPT ![cand] = cand] /\ pc' = "routers"
           /\ led' = led \cup {cand} /\ todo' = Routers /\ Reached(cand)
  <2>1. cand \in Storage /\ cfg \in [Storage -> Storage]
    BY <1>1, KnownStorage DEF TypeOK
  <2>2. cfg'[cand] = cand /\ \A n \in Storage \ {cand} : cfg'[n] = cfg[n]
    BY <1>3, <2>1
  <2>3. led' \subseteq Known /\ \A n \in led' : cfg'[n] = n
    BY <1>1, <1>3, <2>2, KnownStorage DEF Nodes, TypeOK
  <2>4. led' \subseteq failed \cup {cand} /\ cand \in led'
    BY <1>1, <1>3 DEF NoneHealthy
  <2>5. late' = {}
    BY <1>1, <1>3 DEF Reached
  <2>6. up = Known \ failed /\ \A r \in Routers : route[r] \in led'
    BY <1>3 DEF Nodes
  <2> QED
    BY <1>1, <1>3, <2>3, <2>4, <2>5, <2>6 DEF Nodes
<1> QED
  BY <1>2, <1>3 DEF ExecCandidate

\* A router follows the candidate, or will, or stays with a former master.
LEMMA NodesRouter ==
  ASSUME TypeOK, Nodes, NEW r \in Routers, ExecRouter(r) PROVE Nodes'
<1>1. /\ UNCHANGED <<up, cfg, failed, led, cand, blocked>> /\ Known' = Known
      /\ pc = "routers" /\ r \in todo /\ cand \in Known /\ SetKey \in blocked
      /\ cand \in led /\ led \subseteq failed \cup {cand}
  BY DEF ExecRouter, TellRouter, Nodes, Known
<1>2. /\ Routers' = Routers
      /\ \A q \in Routers : route'[q] \in {route[q], cand}
      /\ late' \subseteq late \cup {<<r, cand>>}
  BY DEF ExecRouter, TellRouter, Routers
<1>3. \A q \in Routers : route'[q] \in led
  BY <1>1, <1>2 DEF Nodes
<1>4. NoneHealthy => NoneHealthy'
  BY <1>1 DEF NoneHealthy
<1>5. \A s \in late : s[1] \in Routers /\ s[2] \in led /\ led \subseteq failed \cup {s[2]}
  BY <1>1 DEF Nodes, Pending
<1>6. \A s \in late' : Pending(s)'
  BY <1>1, <1>2, <1>5 DEF Pending
<1>7. CASE todo = {r} /\ pc' = "instances" /\ todo' = Known \ {cand}
  <2>1. \A n \in up \ todo' : cfg[n] = cand
    BY <1>1, <1>7 DEF Nodes
  <2> QED
    BY <1>1, <1>2, <1>3, <1>6, <1>7, <2>1 DEF Nodes
<1>8. CASE pc' = pc /\ todo' = todo \ {r}
  BY <1>1, <1>2, <1>3, <1>6, <1>8 DEF Nodes
<1> QED
  BY <1>7, <1>8 DEF ExecRouter

\* A storage follows the candidate; when the last one did, all that run do.
LEMMA NodesInstance ==
  ASSUME TypeOK, Nodes, NEW n \in Known, ExecInstance(n), ~astray' PROVE Nodes'
<1>1. /\ UNCHANGED <<up, route, failed, led, cand, blocked>> /\ Known' = Known
      /\ Routers' = Routers /\ pc = "instances" /\ n \in todo /\ cand \in Known
      /\ SetKey \in blocked /\ cand \in led /\ led \subseteq failed \cup {cand}
      /\ pc' = (IF todo = {n} THEN "discover" ELSE pc) /\ todo' = todo \ {n}
  BY DEF ExecInstance, Nodes, Known, Routers
<1>2. /\ Known \subseteq Storage /\ cfg \in [Storage -> Storage]
      /\ led \subseteq Known /\ up = Known \ failed
  BY KnownStorage DEF TypeOK, Nodes
<1>3. /\ late' = late
      /\ \/ n \in up /\ cfg' = [cfg EXCEPT ![n] = cand]
         \/ n \notin up /\ cfg' = cfg
  BY DEF ExecInstance, Reached, Missed, TypeOK
<1>4. /\ \A m \in Storage \ {n} : cfg'[m] = cfg[m]
      /\ n \in up => cfg'[n] = cand
      /\ n \notin up => cfg'[n] = cfg[n]
  BY <1>2, <1>3
<1>5. \A m \in led : cfg'[m] = m
  <2>1. SUFFICES ASSUME NEW m \in led PROVE cfg'[m] = m
    OBVIOUS
  <2>2. cfg[m] = m /\ m \in Storage
    BY <1>2 DEF Nodes
  <2>3. m = n /\ n \in up => m = cand
    BY <1>1, <1>2
  <2> QED
    BY <1>4, <2>2, <2>3
<1>6. \A m \in up \ todo' : cfg'[m] = cand
  BY <1>1, <1>2, <1>4 DEF Nodes
<1>7. todo' = {} => \A l \in led : l \in failed \/ \A m \in up : cfg'[m] = l
  BY <1>1, <1>6
<1>8. \A s \in late' : Pending(s)'
  BY <1>1, <1>3 DEF Nodes, Pending
<1>9. late' # {} => SetKey \in blocked
  BY <1>1
<1> QED
  BY <1>1, <1>2, <1>5, <1>6, <1>7, <1>8, <1>9 DEF Nodes

(* A script that arrives late makes a master of the candidate only while   *)
(* there is no other one, and turns a router to the last one there was.    *)
LEMMA NodesLate ==
  ASSUME TypeOK, Nodes, NEW s \in late, LateEnds(s) PROVE Nodes'
<1>1. /\ UNCHANGED <<up, failed, led, pc, cand, todo, blocked>>
      /\ Known' = Known /\ late' \subseteq late
  BY DEF LateEnds, jobVars, Known
<1>2. Pending(s) /\ SetKey \in blocked /\ pc # "candidate"
  BY DEF Nodes
<1>3. Routers' = Routers /\ (NoneHealthy => NoneHealthy')
  BY <1>1 DEF LateEnds, Routers, NoneHealthy
<1>4. \A x \in late' : Pending(x)'
  BY <1>1, <1>3 DEF Nodes, Pending
<1>5. CASE UNCHANGED <<cfg, route>>
  BY <1>1, <1>2, <1>3, <1>4, <1>5 DEF Nodes
<1>6. CASE s[1] \in Known /\ s[2] = s[1] /\ NoneHealthy
           /\ pc \notin {"routers", "instances"}
           /\ cfg' = [cfg EXCEPT ![s[1]] = s[2]] /\ route' = route
  <2>1. \A n \in led : cfg'[n] = n
    BY <1>6, KnownStorage DEF Nodes, TypeOK
  <2>2. \A l \in led : l \in failed
    BY <1>6 DEF NoneHealthy
  <2> QED
    BY <1>1, <1>2, <1>3, <1>4, <1>6, <2>1, <2>2 DEF Nodes
<1>7. CASE s[2] \in led /\ cfg' = cfg /\ route' = [route EXCEPT ![s[1]] = s[2]]
  <2>1. \A r \in Routers : route'[r] \in led
    BY <1>7 DEF Nodes, Routers
  <2> QED
    BY <1>1, <1>2, <1>3, <1>4, <1>7, <2>1 DEF Nodes
<1>8. \/ UNCHANGED <<cfg, route>>
      \/ s[1] \in up /\ cfg' = [cfg EXCEPT ![s[1]] = s[2]] /\ route' = route
      \/ /\ s[1] \in Routers /\ cfg' = cfg
         /\ route' = [route EXCEPT ![s[1]] = s[2]]
  BY DEF LateEnds
<1>9. Known \cap Routers = {}
  BY KnownStorage, LeaderAssumption DEF TypeOK
<1> QED
  BY <1>2, <1>5, <1>6, <1>7, <1>8, <1>9 DEF Pending, Nodes

\* Every step leaves the nodes as they should be.
LEMMA NodesStep ==
  ASSUME TypeOK, Nodes, Observations, [Next]_vars, ~astray', pc' # "dead"
  PROVE  Nodes'
<1>1. CASE UNCHANGED vars \/ CheckCluster \/ \E k \in blocked : Unblock(k)
  BY <1>1, NodesRest DEF vars, jobVars, CheckCluster, Unblock
<1>2. CASE RouterSilent
  BY <1>2, NodesRest DEF RouterSilent, Rest
<1>3. ASSUME NEW d \in Discoverer \cup {Forced}, Discover(d) PROVE Nodes'
  <2>1. CASE AskRouter(d) \/ AskMaster(d) \/ \E n \in Known : PollInstance(d, n)
    BY <2>1, NodesRest DEF AskRouter, AskMaster, PollInstance, jobVars
  <2>2. CASE Install(d)
    <3>1. UNCHANGED <<nodeVars, todo, blocked>>
      BY <2>2 DEF Install
    <3>2. CASE d # Forced
      BY <2>2, <3>1, <3>2, NodesRest DEF Install
    <3>3. CASE d = Forced
      <4>1. disc[d].at = "poll"
        BY <2>2 DEF Install
      <4>2. pc = "discover"
        BY <3>3, <4>1 DEF Observations, NoDiscovery
      <4> QED
        BY <2>2, <3>1, <3>3, <4>2, NodesRest DEF Install, Rest
    <3> QED
      BY <3>2, <3>3
  <2> QED
    BY <1>3, <2>1, <2>2 DEF Discover
<1>4. ASSUME NEW x \in stream, Skip(x) \/ Demote(x) PROVE Nodes'
  BY <1>4, NodesRest DEF Skip, Demote, StartDemotion
<1>5. ASSUME NEW n \in Known, ExecDemote(n) PROVE Nodes'
  <2>1. UNCHANGED nodeVars
    <3>1. n \notin up /\ ~astray
      BY <1>5, AstrayStays
    <3>2. astray' = astray
      <4>1. astray \in BOOLEAN /\ astray' = (astray \/ n \in up)
        BY <1>5 DEF ExecDemote, TypeOK
      <4> QED
        BY <3>1, <4>1
    <3> QED
      BY <1>5, <3>1, <3>2 DEF ExecDemote, Reached, Missed, nodeVars
  <2>2. pc = "demote" /\ pc' \in {"demote", "discover"}
    BY <1>5 DEF ExecDemote
  <2>3. SetKey \in blocked => SetKey \in blocked'
    BY <1>5 DEF ExecDemote
  <2> QED
    BY <2>1, <2>2, <2>3, NodesRest
<1>6. ASSUME NEW n \in Known, Crash(n) \/ Return(n) \/ Drift(n) PROVE Nodes'
  <2>1. CASE Drift(n)
    <3>1. /\ UNCHANGED <<up, cfg, route, late, failed, led, pc, cand, todo, blocked>>
          /\ Known' = Known /\ Routers' = Routers
      BY <2>1 DEF Drift, jobVars, Known, Routers
    <3>2. \A s \in late' : Pending(s)'
      BY <3>1 DEF Nodes, Pending, NoneHealthy
    <3> QED
      BY <3>1, <3>2 DEF Nodes, NoneHealthy
  <2> QED
    BY <1>6, <2>1, NodesCrash, AstrayStays
<1>7. ASSUME NEW x \in stream, Promote(x) PROVE Nodes'
  BY <1>7, NodesPromote
<1>8. CASE ExecCandidate \/ (\E r \in Routers : ExecRouter(r))
           \/ \E n \in Known : ExecInstance(n)
  BY <1>8, NodesCandidate, NodesRouter, NodesInstance
<1>9. ASSUME NEW s \in late, LateEnds(s) PROVE Nodes'
  BY <1>9, NodesLate
<1> QED
  BY <1>1, <1>2, <1>3, <1>4, <1>5, <1>6, <1>7, <1>8, <1>9 DEF Next, Recover
-----------------------------------------------------------------------------
(* Who acknowledged the role.                                              *)

\* Only a candidate does, and none of them is forgotten.
LEMMA Acknowledged ==
  ASSUME TypeOK, [Next]_vars
  PROVE  /\ failed \subseteq failed' /\ led \subseteq led'
         /\ pc # "candidate" => led' = led
<1>1. failed \subseteq failed'
  BY DEF TypeOK, Next, vars, nodeVars, Crash, Return, Drift, LateEnds, Discover,
         AskRouter, AskMaster, PollInstance, Install, RouterSilent,
         CheckCluster, Recover, Skip, Promote, StartPromotion, Demote,
         StartDemotion, ExecCandidate, ExecRouter, TellRouter, ExecInstance,
         ExecDemote, Unblock
<1>2. CASE ExecCandidate
  BY <1>1, <1>2 DEF ExecCandidate
<1>3. CASE ~ExecCandidate
  <2>1. led' = led
    BY <1>3
       DEF Next, vars, nodeVars, Crash, Return, Drift, LateEnds, Discover,
           AskRouter, AskMaster, PollInstance, Install, RouterSilent,
           CheckCluster, Recover, Skip, Promote, StartPromotion, Demote,
           StartDemotion, ExecRouter, TellRouter, ExecInstance, ExecDemote,
           Unblock
  <2> QED
    BY <1>1, <2>1
<1> QED
  BY <1>2, <1>3

\* What an honest row told stays true while no promotion is on.
LEMMA TruthStays ==
  ASSUME TypeOK, [Next]_vars, pc # "candidate"
  PROVE  (NoneHealthy => NoneHealthy') /\ led' = led
BY Acknowledged DEF NoneHealthy
-----------------------------------------------------------------------------
(* Who has no Upstream: a row of the snapshot, of a copy of it, or of what *)
(* the master of a discovery reported.                                     *)

\* A discovery among the masters there are.
Led(x) == NoUpstream(x.snap.rows) /\ x.snap.master \in led

\* Each step of a discovery keeps it so.
LEMMA LedStep ==
  ASSUME TypeOK, Nodes, Upstreamless, NEW d \in Discoverer \cup {Forced},
         AskRouter(d) \/ AskMaster(d) \/ \E n \in Known : PollInstance(d, n)
  PROVE  /\ snapshot' = snapshot /\ Led(disc'[d])
         /\ \A e \in Discoverer \cup {Forced} : e # d => disc'[e] = disc[e]
<1>1. disc \in [Discoverer \cup {Forced} -> Discovery] /\ snapshot \in Snapshot
      /\ Known \subseteq Storage
  BY KnownStorage DEF TypeOK
<1>2. snapshot' = snapshot
  BY DEF AskRouter, AskMaster, PollInstance
<1>3. CASE AskRouter(d)
  <2>1. PICK r \in Routers :
          disc' = [disc EXCEPT ![d] =
            [at |-> IF route[r] \in up THEN "topology" ELSE "poll",
             snap |-> [snapshot EXCEPT !.master = route[r]], left |-> Known]]
    BY <1>3 DEF AskRouter
  <2>2. [snapshot EXCEPT !.master = route[r]]
          = [master |-> route[r], rows |-> snapshot.rows]
    BY <1>1 DEF Snapshot
  <2>3. /\ disc'[d].snap.master = route[r] /\ disc'[d].snap.rows = snapshot.rows
        /\ \A e \in Discoverer \cup {Forced} : e # d => disc'[e] = disc[e]
    BY <1>1, <2>1, <2>2
  <2>4. route[r] \in led
    BY DEF Nodes
  <2> QED
    BY <1>2, <2>3, <2>4 DEF Led, Upstreamless
<1>4. CASE AskMaster(d)
  <2>1. disc[d] # NoDiscovery
    <3>1. disc[d].at = "topology"
      BY <1>4 DEF AskMaster
    <3> QED
      BY <3>1 DEF NoDiscovery
  <2>2. PICK rows \in [Known -> Row] :
          /\ Collected(d, rows, disc[d].left)
          /\ \A n \in Known : rows[n].upstream = "nil" =>
               \/ n = disc[d].snap.master
               \/ disc[d].snap.rows[n].upstream = "nil"
    BY <1>4, AskMasterRows
  <2>3. /\ disc'[d].snap.master = disc[d].snap.master
        /\ disc'[d].snap.rows = rows
        /\ \A e \in Discoverer \cup {Forced} : e # d => disc'[e] = disc[e]
    <3>1. disc[d].left \in SUBSET Storage
      BY <1>1, <2>1, DiscoveryFields
    <3>2. /\ disc'[d] = [at |-> "poll",
                         snap |-> [master |-> disc[d].snap.master, rows |-> rows],
                         left |-> disc[d].left]
          /\ \A e \in Discoverer \cup {Forced} : e # d => disc'[e] = disc[e]
      BY <2>1, <2>2, <3>1, CollectedTypes
    <3> QED
      BY <3>2
  <2> QED
    BY <1>2, <2>1, <2>2, <2>3 DEF Led, Upstreamless, NoUpstream
<1>5. ASSUME NEW n \in Known, PollInstance(d, n)
      PROVE  /\ Led(disc'[d])
             /\ \A e \in Discoverer \cup {Forced} : e # d => disc'[e] = disc[e]
  <2>1. disc[d] # NoDiscovery
    <3>1. disc[d].at = "poll"
      BY <1>5 DEF PollInstance
    <3> QED
      BY <3>1 DEF NoDiscovery
  <2>2. PICK rows \in [Known -> Row] :
          /\ Collected(d, rows, disc[d].left \ {n})
          /\ \A k \in Known :
               /\ rows[k].upstream = disc[d].snap.rows[k].upstream
               /\ k # n => rows[k] = disc[d].snap.rows[k]
          /\ rows[n].valid => n \in up /\ rows[n].status = StatusOf(n)
    BY <1>5, PollInstanceRows
  <2>3. disc[d].left \ {n} \in SUBSET Storage
    BY <1>1, <2>1, DiscoveryFields
  <2>4. /\ disc'[d].snap.master = disc[d].snap.master
        /\ disc'[d].snap.rows = rows
        /\ \A e \in Discoverer \cup {Forced} : e # d => disc'[e] = disc[e]
    <3> DEFINE left == disc[d].left \ {n}
    <3>1. Collected(d, rows, left) /\ left \in SUBSET Storage
      BY <2>2, <2>3
    <3> HIDE DEF left
    <3>2. /\ disc'[d] = [at |-> "poll",
                         snap |-> [master |-> disc[d].snap.master, rows |-> rows],
                         left |-> left]
          /\ \A e \in Discoverer \cup {Forced} : e # d => disc'[e] = disc[e]
      BY <2>1, <3>1, CollectedTypes
    <3> QED
      BY <3>2
  <2> QED
    BY <2>1, <2>2, <2>4 DEF Led, Upstreamless, NoUpstream
<1> QED
  BY <1>2, <1>3, <1>4, <1>5

LEMMA UpstreamlessStep ==
  ASSUME TypeOK, Nodes, Upstreamless, [Next]_vars, ~astray'
  PROVE  Upstreamless'
<1>1. Known' = Known /\ led \subseteq led'
  BY SameKnown, Acknowledged
<1>2. SUFFICES /\ NoUpstream(snapshot'.rows)
               /\ \A e \in Discoverer \cup {Forced} :
                    disc'[e] # NoDiscovery => Led(disc'[e])
  BY <1>1 DEF Upstreamless, NoUpstream, Led
<1>3. /\ NoUpstream(snapshot.rows)
      /\ \A e \in Discoverer \cup {Forced} : disc[e] # NoDiscovery => Led(disc[e])
  BY DEF Upstreamless, Led
<1>4. CASE UNCHANGED <<snapshot, disc>>
  BY <1>3, <1>4
<1>5. CASE \E d \in Discoverer \cup {Forced} :
             AskRouter(d) \/ AskMaster(d) \/ \E n \in Known : PollInstance(d, n)
  BY <1>3, <1>5, LedStep
<1>6. ASSUME NEW d \in Discoverer \cup {Forced}, Install(d)
      PROVE  /\ NoUpstream(snapshot'.rows)
             /\ \A e \in Discoverer \cup {Forced} :
                  disc'[e] # NoDiscovery => Led(disc'[e])
  <2>1. disc[d].at = "poll" /\ snapshot' = disc[d].snap
    BY <1>6 DEF Install
  <2>2. disc[d] # NoDiscovery
    BY <2>1 DEF NoDiscovery
  <2>3. disc' = [disc EXCEPT ![d] = NoDiscovery]
    BY <1>6 DEF Install
  <2>4. \A e \in Discoverer \cup {Forced} : disc'[e] \in {disc[e], NoDiscovery}
    BY <2>3 DEF TypeOK
  <2> QED
    BY <1>3, <2>1, <2>2, <2>4 DEF Led
<1>7. UNCHANGED <<snapshot, disc>> \/ \E d \in Discoverer \cup {Forced} : Discover(d)
  BY DEF Next, vars, Crash, Return, Drift, LateEnds, RouterSilent, CheckCluster,
         Recover, Skip, Promote, StartPromotion, Demote, StartDemotion,
         ExecCandidate, ExecRouter, TellRouter, ExecInstance, ExecDemote,
         Unblock
<1> QED
  BY <1>4, <1>5, <1>6, <1>7 DEF Discover
-----------------------------------------------------------------------------
(* What is observed.                                                       *)

\* Nodes that are not being changed leave what was told about them true.
LEMMA StillObserved ==
  ASSUME Known' = Known, led' = led, NoneHealthy => NoneHealthy',
         disc'[Forced] # NoDiscovery => pc' = "discover",
         \A e \in Discoverer \cup {Forced} :
           disc'[e] # NoDiscovery /\ (e = Forced \/ (Settled /\ Free(old.calls, e))')
             => Honest(disc'[e].snap.rows, Known \ disc'[e].left),
         (Settled /\ fresh /\ Free(old.calls, Current))'
           => Honest(snapshot'.rows, Known),
         \A x \in stream' : /\ x.eligible \subseteq Known
                            /\ (Settled /\ Free(old.sent, x))' => Sound(x)
  PROVE  Observations'
<1>1. \A rows, polled : Honest(rows, polled) =>
        \A n \in polled : Alarms(rows[n]) => NoneHealthy' /\ n \notin led'
  BY DEF Honest
<1>2. \A x : Sound(x) /\ x.state \in PromoteStates =>
        NoneHealthy' /\ \A c \in x.eligible : c \notin led'
  BY DEF Sound
<1>3. ASSUME NEW e \in Discoverer \cup {Forced}, disc'[e] # NoDiscovery,
             e = Forced \/ (Settled' /\ Free(old.calls, e)')
      PROVE  Honest(disc[e].snap.rows, Known \ disc[e].left)'
  <2>1. Honest(disc'[e].snap.rows, Known \ disc'[e].left)
    BY <1>3
  <2> QED
    BY <1>1, <2>1 DEF Honest
<1>4. ASSUME Settled', fresh', Free(old.calls, Current)'
      PROVE  Honest(snapshot.rows, Known)'
  <2>1. Honest(snapshot'.rows, Known)
    BY <1>4
  <2> QED
    BY <1>1, <2>1 DEF Honest
<1>5. ASSUME NEW x \in stream'
      PROVE  /\ x.eligible \subseteq Known'
             /\ Settled' /\ Free(old.sent, x)' =>
                  (x.state \in PromoteStates =>
                    NoneHealthy' /\ \A c \in x.eligible : c \notin led')
  BY <1>2, <1>5
<1> QED
  BY <1>3, <1>4, <1>5 DEF Observations, Sound

\* Nothing new is observed, and nothing more may be acted upon.
LEMMA NothingObserved ==
  ASSUME Observations, Known' = Known, led' = led, NoneHealthy => NoneHealthy',
         disc' = disc, snapshot' = snapshot, fresh' = fresh,
         stream' \subseteq stream,
         disc[Forced] # NoDiscovery => pc' = "discover",
         Settled' => Settled,
         \A e \in Discoverer \cup {Current} :
           (Settled /\ Free(old.calls, e))' => Free(old.calls, e),
         \A x \in stream' : (Settled /\ Free(old.sent, x))' => Free(old.sent, x)
  PROVE  Observations'
<1>1. \A e \in Discoverer \cup {Forced} :
        disc[e] # NoDiscovery /\ (e = Forced \/ (Settled /\ Free(old.calls, e)))
          => Honest(disc[e].snap.rows, Known \ disc[e].left)
  BY DEF Observations
<1>2. \A e \in Discoverer \cup {Forced} :
        disc'[e] # NoDiscovery /\ (e = Forced \/ (Settled /\ Free(old.calls, e))')
          => Honest(disc'[e].snap.rows, Known \ disc'[e].left)
  BY <1>1
<1>3. (Settled /\ fresh /\ Free(old.calls, Current))' => Honest(snapshot'.rows, Known)
  BY DEF Observations
<1>4. \A x \in stream' : /\ x.eligible \subseteq Known
                         /\ (Settled /\ Free(old.sent, x))' => Sound(x)
  BY DEF Observations
<1> QED
  BY <1>2, <1>3, <1>4, StillObserved
(* A storage that runs follows the master, which runs unless it crashed:   *)
(* what it says of itself is honest.                                       *)
LEMMA TellsTruth ==
  ASSUME TypeOK, Nodes, pc \notin {"candidate", "routers", "instances"},
         NEW n \in up, StatusOf(n) \notin {"follow", "master"}
  PROVE  NoneHealthy /\ n \notin led
<1>1. cfg[n] # n /\ cfg[n] \notin up
  BY DEF StatusOf
<1>2. n \notin led
  BY <1>1 DEF Nodes
<1>3. ASSUME NEW l \in led, l \notin failed PROVE FALSE
  <2>1. cfg[n] = l /\ l \in Known /\ up = Known \ failed
    BY <1>3 DEF Nodes
  <2> QED
    BY <1>1, <1>3, <2>1
<1> QED
  BY <1>2, <1>3 DEF NoneHealthy

\* A discovery collects honest rows.
LEMMA CollectObserved ==
  ASSUME TypeOK, Nodes, Observations, NEW d \in Discoverer \cup {Forced},
         AskRouter(d) \/ AskMaster(d) \/ \E n \in Known : PollInstance(d, n),
         pc \notin {"candidate", "routers", "instances"}
  PROVE  Observations'
<1> DEFINE Counts(e) == e = Forced \/ (Settled /\ Free(old.calls, e))
<1>1. /\ Known' = Known /\ led' = led /\ (NoneHealthy => NoneHealthy')
      /\ UNCHANGED <<snapshot, fresh, stream, pc, old, blocked>>
  BY DEF AskRouter, AskMaster, PollInstance, nodeVars, jobVars, Known, NoneHealthy,
         Routers
<1>2. /\ Settled' = Settled
      /\ \A e : /\ Free(old.calls, e)' = Free(old.calls, e)
                /\ Free(old.sent, e)' = Free(old.sent, e)
  BY <1>1 DEF Settled, Free
<1>3. disc \in [Discoverer \cup {Forced} -> Discovery] /\ snapshot \in Snapshot
      /\ Known \subseteq Storage
  BY KnownStorage DEF TypeOK
<1>4. \A e \in Discoverer \cup {Forced} : disc[e] # NoDiscovery /\ Counts(e) =>
        Honest(disc[e].snap.rows, Known \ disc[e].left)
  BY DEF Observations
<1>5. ASSUME disc'[d] # NoDiscovery /\ d = Forced => pc = "discover",
             Counts(d) => Honest(disc'[d].snap.rows, Known \ disc'[d].left),
             \A e \in Discoverer \cup {Forced} : e # d => disc'[e] = disc[e]
      PROVE  Observations'
  <2>1. disc'[Forced] # NoDiscovery => pc' = "discover"
    BY <1>1, <1>5 DEF Observations
  <2>2. \A e \in Discoverer \cup {Forced} :
           disc'[e] # NoDiscovery /\ (e = Forced \/ (Settled /\ Free(old.calls, e))')
             => Honest(disc'[e].snap.rows, Known \ disc'[e].left)
    BY <1>2, <1>4, <1>5
  <2>3. (Settled /\ fresh /\ Free(old.calls, Current))'
           => Honest(snapshot'.rows, Known)
    BY <1>1, <1>2 DEF Observations
  <2>4. \A x \in stream' : /\ x.eligible \subseteq Known
                           /\ (Settled /\ Free(old.sent, x))' => Sound(x)
    BY <1>1, <1>2 DEF Observations
  <2> QED
    BY <1>1, <2>1, <2>2, <2>3, <2>4, StillObserved
<1>6. CASE AskRouter(d)
  <2>1. PICK r \in Routers :
          disc' = [disc EXCEPT ![d] =
            [at |-> IF route[r] \in up THEN "topology" ELSE "poll",
             snap |-> [snapshot EXCEPT !.master = route[r]], left |-> Known]]
    BY <1>6 DEF AskRouter
  <2>2. /\ disc'[d].left = Known
        /\ \A e \in Discoverer \cup {Forced} : e # d => disc'[e] = disc[e]
    BY <1>3, <2>1
  <2>3. Honest(disc'[d].snap.rows, Known \ disc'[d].left)
    BY <2>2 DEF Honest
  <2>4. d = Forced => pc = "discover"
    BY <1>6 DEF AskRouter
  <2> QED
    BY <1>5, <2>2, <2>3, <2>4
<1>7. CASE AskMaster(d)
  <2>1. disc[d] # NoDiscovery
    <3>1. disc[d].at = "topology"
      BY <1>7 DEF AskMaster
    <3> QED
      BY <3>1 DEF NoDiscovery
  <2>2. PICK rows \in [Known -> Row] :
          /\ Collected(d, rows, disc[d].left)
          /\ \A n \in Known : rows[n].valid => rows[n] = disc[d].snap.rows[n]
    BY <1>7, AskMasterRows
  <2>3. disc[d].left \in SUBSET Storage
    BY <1>3, <2>1, DiscoveryFields
  <2>4. /\ disc'[d] = [at |-> "poll",
                       snap |-> [master |-> disc[d].snap.master, rows |-> rows],
                       left |-> disc[d].left]
        /\ \A e \in Discoverer \cup {Forced} : e # d => disc'[e] = disc[e]
    BY <2>1, <2>2, <2>3, CollectedTypes
  <2>5. disc'[d].left = disc[d].left /\ disc'[d].snap.rows = rows
    BY <2>4
  <2>6. Counts(d) => Honest(disc'[d].snap.rows, Known \ disc'[d].left)
    BY <1>4, <2>1, <2>2, <2>5 DEF Honest, Alarms
  <2>7. d = Forced => pc = "discover"
    BY <2>1 DEF Observations
  <2> QED
    BY <1>5, <2>4, <2>6, <2>7
<1>8. ASSUME NEW n \in Known, PollInstance(d, n) PROVE Observations'
  <2> DEFINE left == disc[d].left \ {n}
  <2>1. disc[d] # NoDiscovery
    <3>1. disc[d].at = "poll"
      BY <1>8 DEF PollInstance
    <3> QED
      BY <3>1 DEF NoDiscovery
  <2>2. PICK rows \in [Known -> Row] :
          /\ Collected(d, rows, disc[d].left \ {n})
          /\ \A k \in Known :
               /\ rows[k].upstream = disc[d].snap.rows[k].upstream
               /\ k # n => rows[k] = disc[d].snap.rows[k]
          /\ rows[n].valid => n \in up /\ rows[n].status = StatusOf(n)
    BY <1>8, PollInstanceRows
  <2>3. Collected(d, rows, left) /\ left \in SUBSET Storage
    BY <1>3, <2>1, <2>2, DiscoveryFields
  <2>4. /\ disc'[d] = [at |-> "poll",
                       snap |-> [master |-> disc[d].snap.master, rows |-> rows],
                       left |-> left]
        /\ \A e \in Discoverer \cup {Forced} : e # d => disc'[e] = disc[e]
    <3> HIDE DEF left
    <3> QED
      BY <2>1, <2>3, CollectedTypes
  <2>5. disc'[d].left = left /\ disc'[d].snap.rows = rows
    BY <2>4
  <2>6. Alarms(rows[n]) => NoneHealthy /\ n \notin led
    BY <2>2, TellsTruth DEF Alarms
  <2>7. Counts(d) => Honest(disc'[d].snap.rows, Known \ disc'[d].left)
    <3>1. SUFFICES ASSUME Counts(d), NEW k \in Known \ left, Alarms(rows[k])
                   PROVE  NoneHealthy /\ k \notin led
      BY <2>5 DEF Honest
    <3>2. Honest(disc[d].snap.rows, Known \ disc[d].left)
      BY <1>4, <2>1, <3>1
    <3> QED
      BY <2>2, <2>6, <3>1, <3>2 DEF Honest
  <2>8. d = Forced => pc = "discover"
    BY <2>1 DEF Observations
  <2> QED
    BY <1>5, <2>4, <2>7, <2>8
<1> QED
  BY <1>6, <1>7, <1>8
(* The rows of a discovery become the snapshot's.  The last discovery of a *)
(* recovery leaves what else is under way without effect until the block   *)
(* period is over.                                                         *)
LEMMA InstallObserved ==
  ASSUME TypeOK, Observations, NEW d \in Discoverer \cup {Forced}, Install(d)
  PROVE  Observations'
<1>1. /\ Known' = Known /\ led' = led /\ (NoneHealthy => NoneHealthy')
      /\ UNCHANGED <<stream, blocked>> /\ snapshot' = disc[d].snap
      /\ disc[d].left = {} /\ disc[d].at = "poll"
      /\ disc' = [disc EXCEPT ![d] = NoDiscovery]
  BY DEF Install, nodeVars, Known, NoneHealthy, Routers
<1>2. disc[d] # NoDiscovery
  BY <1>1 DEF NoDiscovery
<1>3. /\ disc'[d] = NoDiscovery
      /\ \A e \in Discoverer \cup {Forced} : e # d => disc'[e] = disc[e]
  BY <1>1 DEF TypeOK
<1>4. d = Forced \/ (Settled /\ Free(old.calls, d))
        => Honest(snapshot'.rows, Known)
  <2>1. Known \ disc[d].left = Known
    BY <1>1
  <2> QED
    BY <1>1, <1>2, <2>1 DEF Observations
<1>5. CASE d = Forced
  <2>1. pc' = "idle" /\ old' = UnderWay
    BY <1>5 DEF Install, Rest
  <2>2. disc'[Forced] # NoDiscovery => pc' = "discover"
    BY <1>3, <1>5
  <2>3. \A e \in Discoverer : disc[e] # NoDiscovery => e \in old'.calls
    BY <2>1 DEF UnderWay
  <2>4. \A e \in Discoverer \cup {Forced} :
           disc'[e] # NoDiscovery /\ (e = Forced \/ (Settled /\ Free(old.calls, e))')
             => Honest(disc'[e].snap.rows, Known \ disc'[e].left)
    BY <1>1, <1>3, <1>5, <2>3 DEF Observations, Settled, Free
  <2>5. Honest(snapshot'.rows, Known)
    BY <1>4, <1>5
  <2>6. \A x \in stream : x \in old'.sent
    BY <2>1 DEF UnderWay
  <2>7. \A x \in stream' : /\ x.eligible \subseteq Known
                           /\ (Settled /\ Free(old.sent, x))' => Sound(x)
    BY <1>1, <2>6 DEF Observations, Settled, Free
  <2> QED
    BY <1>1, <2>2, <2>4, <2>5, <2>7, StillObserved
<1>6. CASE d # Forced
  <2>1. d \in Discoverer /\ Current \notin Discoverer /\ Current # Forced
    BY <1>6, LeaderAssumption DEF Current, Forced
  <2>2. /\ old' = [old EXCEPT !.calls = (@ \ {d, Current})
                                 \cup (IF d \in @ THEN {Current} ELSE {})]
        /\ pc' = pc
    BY <1>6 DEF Install
  <2>3. /\ old'.calls = (old.calls \ {d, Current})
                          \cup (IF d \in old.calls THEN {Current} ELSE {})
        /\ old'.sent = old.sent
    BY <2>2 DEF TypeOK
  <2>4. Settled' = Settled
    BY <1>1, <2>2 DEF Settled
  <2>5. disc'[Forced] # NoDiscovery => pc' = "discover"
    BY <1>3, <1>6, <2>2 DEF Observations
  <2>6. \A e \in Discoverer \cup {Forced} :
           disc'[e] # NoDiscovery /\ (e = Forced \/ (Settled /\ Free(old.calls, e))')
             => Honest(disc'[e].snap.rows, Known \ disc'[e].left)
    <3>1. ASSUME NEW e \in Discoverer \cup {Forced}, disc'[e] # NoDiscovery,
                 e = Forced \/ (Settled /\ Free(old.calls, e))'
          PROVE  Honest(disc'[e].snap.rows, Known \ disc'[e].left)
      <4>1. e # d /\ disc'[e] = disc[e]
        BY <1>3, <3>1
      <4>2. e \in old.calls /\ e # Forced => e \in old'.calls
        BY <2>1, <2>3, <3>1, <4>1
      <4>3. e = Forced \/ (Settled /\ Free(old.calls, e))
        BY <1>1, <2>4, <3>1, <4>2 DEF Free
      <4> QED
        BY <3>1, <4>1, <4>3 DEF Observations
    <3> QED
      BY <3>1
  <2>7. (Settled /\ fresh /\ Free(old.calls, Current))' => Honest(snapshot'.rows, Known)
    <3>1. d \in old.calls => Current \in old'.calls
      BY <2>3
    <3> QED
      BY <1>1, <1>4, <2>4, <3>1 DEF Free
  <2>8. \A x \in stream' : /\ x.eligible \subseteq Known
                           /\ (Settled /\ Free(old.sent, x))' => Sound(x)
    BY <1>1, <2>3, <2>4 DEF Observations, Free
  <2> QED
    BY <1>1, <2>5, <2>6, <2>7, <2>8, StillObserved
<1> QED
  BY <1>5, <1>6

\* The analysis of an honest snapshot is sound.
LEMMA HonestIsSound ==
  ASSUME TypeOK
  PROVE  /\ Analyse(snapshot).eligible \subseteq Known
         /\ Honest(snapshot.rows, Known) => Sound(Analyse(snapshot))
<1>1. member \in Seq(Storage) /\ snapshot \in Snapshot
  BY DEF TypeOK
<1> QED
  BY <1>1, AnalyseTells DEF Honest, Sound

LEMMA CheckObserved ==
  ASSUME TypeOK, Observations, CheckCluster PROVE Observations'
<1> DEFINE a    == Analyse(snapshot)
           sent == IF a.state \in PromoteStates \cup DemoteStates THEN {a} ELSE {}
<1>1. /\ Known' = Known /\ led' = led /\ (NoneHealthy => NoneHealthy')
      /\ UNCHANGED <<disc, snapshot, pc, blocked>> /\ fresh
      /\ stream' = stream \cup sent
  BY DEF CheckCluster, nodeVars, Known, NoneHealthy, Routers
<1>2. Settled' = Settled
  BY <1>1 DEF Settled
<1>3. /\ old' = IF Current \notin old.calls THEN old
                ELSE [calls |-> IF fresh' THEN old.calls
                                ELSE old.calls \ {Current},
                      sent |-> old.sent \cup sent]
      /\ Current \notin Discoverer /\ Current # Forced
  BY LeaderAssumption DEF CheckCluster, Current, Forced
<1> HIDE DEF sent
<1>4. /\ \A e \in Discoverer \cup {Forced} : e \in old.calls => e \in old'.calls
      /\ fresh' => (Current \in old.calls => Current \in old'.calls)
      /\ old.sent \subseteq old'.sent
      /\ Current \in old.calls => sent \subseteq old'.sent
  BY <1>3
<1>5. disc'[Forced] # NoDiscovery => pc' = "discover"
  BY <1>1 DEF Observations
<1>6. \A e \in Discoverer \cup {Forced} :
         disc'[e] # NoDiscovery /\ (e = Forced \/ (Settled /\ Free(old.calls, e))')
           => Honest(disc'[e].snap.rows, Known \ disc'[e].left)
  BY <1>1, <1>2, <1>4 DEF Observations, Free
<1>7. (Settled /\ fresh /\ Free(old.calls, Current))' => Honest(snapshot'.rows, Known)
  BY <1>1, <1>2, <1>4 DEF Observations, Free
<1>8. ASSUME NEW x \in stream
      PROVE  x.eligible \subseteq Known /\ ((Settled /\ Free(old.sent, x))' => Sound(x))
  BY <1>1, <1>2, <1>4, <1>8 DEF Observations, Free
<1>9. ASSUME NEW x \in sent
      PROVE  x.eligible \subseteq Known /\ ((Settled /\ Free(old.sent, x))' => Sound(x))
  <2>1. x = a
    BY <1>9 DEF sent
  <2>2. ASSUME Settled', Free(old.sent, x)' PROVE Honest(snapshot.rows, Known)
    <3>1. Settled /\ Free(old.calls, Current)
      BY <1>1, <1>2, <1>4, <1>9, <2>2 DEF Free
    <3> QED
      BY <1>1, <3>1 DEF Observations
  <2> QED
    BY <2>1, <2>2, HonestIsSound
<1> QED
  BY <1>1, <1>5, <1>6, <1>7, <1>8, <1>9, StillObserved

\* A recovery ends without a discovery: all that is under way waits.
LEMMA RouterSilentObserved ==
  ASSUME TypeOK, Observations, RouterSilent PROVE Observations'
<1>1. /\ Known' = Known /\ led' = led /\ (NoneHealthy => NoneHealthy')
      /\ UNCHANGED <<disc, snapshot, fresh, stream, blocked>>
      /\ disc[Forced] = NoDiscovery /\ pc = "discover"
  BY DEF RouterSilent, nodeVars, Known, NoneHealthy, Routers
<1>2. /\ \A e \in Discoverer : disc[e] # NoDiscovery => e \in old'.calls
      /\ fresh => Current \in old'.calls
      /\ old'.sent = stream
  BY DEF RouterSilent, UnderWay
<1>3. \A e \in Discoverer \cup {Forced} :
         disc'[e] # NoDiscovery /\ (e = Forced \/ (Settled /\ Free(old.calls, e))')
           => Honest(disc'[e].snap.rows, Known \ disc'[e].left)
  BY <1>1, <1>2 DEF Observations, Settled, Free
<1>4. (Settled /\ fresh /\ Free(old.calls, Current))' => Honest(snapshot'.rows, Known)
  BY <1>1, <1>2 DEF Observations, Settled, Free
<1>5. \A x \in stream' : /\ x.eligible \subseteq Known
                         /\ (Settled /\ Free(old.sent, x))' => Sound(x)
  BY <1>1, <1>2 DEF Observations, Settled, Free
<1> QED
  BY <1>1, <1>3, <1>4, <1>5, StillObserved

\* An analysis is taken; a promotion blocks the replica set.
LEMMA ReceiveObserved ==
  ASSUME TypeOK, Observations, NEW x \in stream, Skip(x) \/ Promote(x) \/ Demote(x)
  PROVE  Observations'
<1>1. /\ Known' = Known /\ led' = led /\ (NoneHealthy => NoneHealthy')
      /\ UNCHANGED <<disc, snapshot, fresh>> /\ pc = "idle" /\ Take(x)
      /\ SetKey \in blocked => SetKey \in blocked'
  BY DEF Skip, Promote, StartPromotion, Demote, StartDemotion, nodeVars, Known,
         NoneHealthy, Routers
<1>2. /\ stream' = stream \ {x} /\ old'.calls = old.calls
      /\ old'.sent = old.sent \ {x}
  BY <1>1, TakeTypes DEF Take
<1>3. disc[Forced] = NoDiscovery /\ Settled
  BY <1>1 DEF Observations, Settled
<1>4. \A e : (Settled /\ Free(old.calls, e))' => Free(old.calls, e)
  BY <1>1, <1>2 DEF Free
<1>5. \A y \in stream' : (Settled /\ Free(old.sent, y))' => Free(old.sent, y)
  BY <1>1, <1>2 DEF Free
<1> QED
  BY <1>1, <1>2, <1>3, <1>4, <1>5, NothingObserved

\* The script of a demotion, and the end of a block period.
LEMMA QuietObserved ==
  ASSUME TypeOK, Nodes, Observations, ~astray', [Next]_vars,
         \/ \E n \in Known : Crash(n) \/ Drift(n) \/ ExecDemote(n)
         \/ \E s \in late : LateEnds(s)
         \/ \E k \in blocked : Unblock(k)
         \/ UNCHANGED vars,
         pc \notin {"candidate", "routers", "instances"}
  PROVE  Observations'
<1>1. Known' = Known /\ led' = led /\ (NoneHealthy => NoneHealthy')
  <2>1. Known' = Known
    BY SameKnown
  <2>2. (NoneHealthy => NoneHealthy') /\ led' = led
    BY TruthStays
  <2> QED
    BY <2>1, <2>2
<1>2. UNCHANGED <<disc, snapshot, fresh, stream, old>>
  BY DEF Crash, Drift, LateEnds, ExecDemote, Unblock, vars, jobVars
<1>3. CASE \/ UNCHANGED vars
           \/ \E n \in Known : Crash(n) \/ Drift(n)
           \/ \E s \in late : LateEnds(s)
  <2>1. UNCHANGED <<pc, blocked>>
    BY <1>3 DEF Crash, Drift, LateEnds, vars, jobVars
  <2> QED
    BY <1>1, <1>2, <2>1, NothingObserved DEF Observations, Settled, Free
<1>4. ASSUME NEW n \in Known, ExecDemote(n) PROVE Observations'
  <2>1. /\ pc = "demote" /\ pc' # "idle" /\ blocked' = blocked \cup {n}
        /\ SetKey # n
    BY <1>4, KnownStorage, LeaderAssumption DEF ExecDemote, TypeOK
  <2>2. disc[Forced] = NoDiscovery /\ (SetKey \in blocked' <=> SetKey \in blocked)
    BY <2>1 DEF Observations
  <2> QED
    BY <1>1, <1>2, <2>1, <2>2, NothingObserved DEF Settled, Free
<1>5. ASSUME NEW k \in blocked, Unblock(k) PROVE Observations'
  <2>1. pc = "idle" /\ pc' = "idle" /\ old = Nothing
    BY <1>5 DEF Unblock
  <2>2. \A e : Free(old.calls, e) /\ Free(old.sent, e)
    BY <2>1 DEF Free, Nothing
  <2>3. Settled /\ disc[Forced] = NoDiscovery
    BY <2>1 DEF Settled, Observations
  <2> QED
    BY <1>1, <1>2, <2>2, <2>3, NothingObserved
<1> QED
  BY <1>3, <1>4, <1>5
\* Storages that may be elected are the replica set's.
LEMMA EligibleKnown ==
  ASSUME TypeOK, [Next]_vars, \A x \in stream : x.eligible \subseteq Known
  PROVE  \A x \in stream' : x.eligible \subseteq Known'
<1>1. Known' = Known
  BY SameKnown
<1>2. CASE stream' \subseteq stream
  BY <1>1, <1>2
<1>3. CASE CheckCluster
  <2>1. stream' \subseteq stream \cup {Analyse(snapshot)}
    BY <1>3 DEF CheckCluster
  <2> QED
    BY <1>1, <2>1, HonestIsSound
<1>4. stream' \subseteq stream \/ CheckCluster
  BY DEF Next, vars, Crash, Return, Drift, LateEnds, Discover, AskRouter,
         AskMaster, PollInstance, Install, RouterSilent, Recover, Skip, Promote,
         StartPromotion, Demote, StartDemotion, Take, ExecCandidate, ExecRouter,
         TellRouter, ExecInstance, ExecDemote, Unblock
<1> QED
  BY <1>2, <1>3, <1>4

(* During a promotion and until the discovery at its end nothing that is   *)
(* observed can be acted upon, and that discovery has not begun.           *)
LEMMA PromotionObserved ==
  ASSUME TypeOK, Nodes, Observations, [Next]_vars,
         pc \in {"candidate", "routers", "instances"}
  PROVE  Observations'
<1>1. SetKey \in blocked /\ disc[Forced] = NoDiscovery /\ Forced \notin Discoverer
  BY LeaderAssumption DEF Nodes, Observations
<1>2. ~Settled' /\ disc'[Forced] = NoDiscovery
  <2>1. CASE UNCHANGED <<pc, blocked, disc>>
    BY <1>1, <2>1 DEF Settled
  <2>2. ASSUME NEW d \in Discoverer \cup {Forced}, Discover(d)
        PROVE  ~Settled' /\ disc'[Forced] = NoDiscovery
    <3>1. d # Forced
      <4>1. disc[d] # NoDiscovery \/ (d = Forced => pc = "discover")
        <5>1. \/ disc[d].at \in {"topology", "poll"}
              \/ d = Forced => pc = "discover"
          BY <2>2 DEF Discover, AskRouter, AskMaster, PollInstance, Install
        <5> QED
          BY <5>1 DEF NoDiscovery
      <4> QED
        BY <1>1, <4>1
    <3>2. UNCHANGED <<pc, blocked>>
      BY <2>2, <3>1 DEF Discover, AskRouter, AskMaster, PollInstance, Install,
                        jobVars
    <3>3. disc'[Forced] = disc[Forced]
      BY <2>2, <3>1 DEF Discover, AskRouter, AskMaster, PollInstance, Collected,
                        Install, TypeOK
    <3> QED
      BY <1>1, <3>2, <3>3 DEF Settled
  <2>3. CASE ExecCandidate \/ (\E r \in Routers : ExecRouter(r))
             \/ \E n \in Known : ExecInstance(n)
    BY <1>1, <2>3 DEF ExecCandidate, ExecRouter, TellRouter, ExecInstance, Settled
  <2> QED
    BY <2>1, <2>2, <2>3
       DEF Next, vars, jobVars, Crash, Return, Drift, LateEnds, RouterSilent,
           CheckCluster, Recover, Skip, Promote, StartPromotion, Demote,
           StartDemotion, ExecDemote, Unblock
<1>3. \A x \in stream' : x.eligible \subseteq Known'
  BY EligibleKnown DEF Observations
<1>4. \A e \in Discoverer \cup {Forced} :
        ~(disc'[e] # NoDiscovery /\ (e = Forced \/ (Settled' /\ Free(old.calls, e)')))
  BY <1>2
<1> QED
  BY <1>2, <1>3, <1>4 DEF Observations

LEMMA ObservationsStep ==
  ASSUME TypeOK, Nodes, Observations, [Next]_vars, ~astray'
  PROVE  Observations'
<1>1. CASE pc \in {"candidate", "routers", "instances"}
  BY <1>1, PromotionObserved
<1>2. CASE pc \notin {"candidate", "routers", "instances"}
  <2>1. ~(\E n \in Known : Return(n) \/ ExecInstance(n))
        /\ ~ExecCandidate /\ ~(\E r \in Routers : ExecRouter(r))
    BY <1>2, AstrayStays DEF ExecCandidate, ExecRouter, TellRouter, ExecInstance
  <2>2. ASSUME NEW d \in Discoverer \cup {Forced}, Discover(d) PROVE Observations'
    BY <1>2, <2>2, CollectObserved, InstallObserved DEF Discover
  <2>3. ASSUME Recover PROVE Observations'
    BY <1>2, <2>1, <2>3, ReceiveObserved, QuietObserved DEF Recover
  <2> QED
    BY <1>2, <2>1, <2>2, <2>3, QuietObserved, CheckObserved, RouterSilentObserved
       DEF Next
<1> QED
  BY <1>1, <1>2
-----------------------------------------------------------------------------
(* The theorems.                                                           *)

\* The candidate of a sound analysis was never a master.
LEMMA AliveStep ==
  ASSUME TypeOK, Orderly, [Next]_vars, ~astray' PROVE pc' # "dead"
<1>1. ASSUME NEW x \in stream, Promote(x) PROVE pc' # "dead"
  <2>1. Observations /\ NoUpstream(snapshot.rows)
    BY DEF Orderly, Upstreamless
  <2>2. x.eligible \subseteq Known /\ \A c \in x.eligible : c \notin led
    BY <1>1, <2>1, PromoteSound
  <2>3. \A c \in x.eligible : snapshot.rows[c].upstream # "nil"
    BY <2>1, <2>2 DEF NoUpstream
  <2> QED
    BY <1>1, <2>3, PromoteGoes
<1>2. CASE ~\E x \in stream : Promote(x)
  BY <1>2 DEF Orderly, Next, vars, jobVars, Crash, Return, Drift, LateEnds,
              Discover, AskRouter, AskMaster, PollInstance, Install, Rest,
              RouterSilent, CheckCluster, Recover, Skip, Demote, StartDemotion,
              ExecCandidate, ExecRouter, TellRouter, ExecInstance, ExecDemote,
              Unblock
<1> QED
  BY <1>1, <1>2

LEMMA InvStep == ASSUME IInv, [Next]_vars PROVE IInv'
<1>1. TypeOK' /\ Chosen'
  BY TypesStep DEF IInv
<1>2. ASSUME ~astray' PROVE Orderly'
  <2>1. TypeOK /\ Orderly
    BY <1>2, AstrayStays DEF IInv
  <2>2. pc' # "dead"
    BY <1>2, <2>1, AliveStep
  <2>3. Nodes'
    BY <1>2, <2>1, <2>2, NodesStep DEF Orderly
  <2>4. Upstreamless'
    BY <1>2, <2>1, UpstreamlessStep DEF Orderly
  <2>5. Observations'
    BY <1>2, <2>1, ObservationsStep DEF Orderly
  <2> QED
    BY <2>2, <2>3, <2>4, <2>5 DEF Orderly
<1> QED
  BY <1>1, <1>2 DEF IInv

LEMMA InitInv == Init => IInv
<1> SUFFICES ASSUME Init PROVE IInv
  OBVIOUS
<1>1. TypeOK /\ Chosen
  BY InitTypes DEF Init, Chosen
<1>2. /\ Leader \in Known
      /\ \A r \in Routers : route[r] = Leader
      /\ cfg = [n \in Storage |-> Leader] /\ up = Known /\ failed = {}
      /\ Routers # {} /\ pc = "idle" /\ late = {} /\ led = {Leader}
  BY ScenarioAssumption DEF Init, Known, Routers
<1>3. Nodes
  BY <1>2, LeaderAssumption, KnownStorage, <1>1 DEF Nodes, TypeOK
<1>4. Leader \in led
  BY <1>2
<1>5. \A d \in Discoverer \cup {Forced} : disc[d] = NoDiscovery
  BY DEF Init
<1>6. NoUpstream(snapshot.rows)
  BY <1>4 DEF Init, NoUpstream, Upstreams
<1>7. Honest(snapshot.rows, Known)
  <2>1. \A n \in Known : snapshot.rows[n].status = StatusOf(n)
    BY DEF Init
  <2>2. \A n \in Known : cfg[n] \in up
    BY <1>1, <1>2, KnownStorage DEF TypeOK
  <2> QED
    BY <2>1, <2>2 DEF Honest, Alarms, StatusOf
<1>8. stream = {}
  BY DEF Init
<1> QED
  BY <1>1, <1>2, <1>3, <1>5, <1>6, <1>7, <1>8
     DEF IInv, Orderly, Upstreamless, Observations

LEMMA SystemInv == Spec => []IInv
<1> QED
  BY InitInv, InvStep, PTL DEF Spec

(* The process never ends at the Upstream of the candidate, whatever       *)
(* crashes, whatever answers and scripts get lost, and however old the     *)
(* analysis is that was acted upon, unless a storage went astray           *)
(* (shouldPromoteFollower in orchestrator/failover.go).                    *)
THEOREM CandidateIsFollowerHolds == Spec => []CandidateIsFollower
<1>1. IInv => CandidateIsFollower
  BY DEF IInv, Orderly, CandidateIsFollower
<1> QED
  BY <1>1, SystemInv, PTL

(* No recovery turns a router away from a storage that runs                *)
(* (promoteFollowerToMaster), unless a storage went astray; and no script  *)
(* that arrives after its request has timed out does.                      *)
THEOREM HealthyMasterStaysHolds == Spec => HealthyMasterStays
<1>1. ASSUME IInv, [Next]_vars PROVE [OnlyFromFailed]_vars
  <2>1. CASE astray
    BY <2>1 DEF OnlyFromFailed
  <2>2. ASSUME ~astray, NEW r \in Routers, ExecRouter(r) PROVE OnlyFromFailed
    <3>1. \A q \in Routers : route'[q] \in {route[q], cand}
      BY <2>2 DEF ExecRouter, TellRouter, Routers
    <3>2. \A q \in Routers : route[q] \in failed \cup {cand}
      BY <1>1, <2>2 DEF IInv, Orderly, Nodes, ExecRouter, TellRouter
    <3> QED
      BY <3>1, <3>2 DEF OnlyFromFailed
  <2>3. ASSUME ~astray, NEW s \in late, LateEnds(s) PROVE OnlyFromFailed
    <3>1. \A q \in Routers : route'[q] = route[q] \/ (q = s[1] /\ route'[q] = s[2])
      BY <2>3 DEF LateEnds, Routers
    <3>2. Nodes /\ Pending(s) /\ Known \cap Routers = {}
      BY <1>1, <2>3, KnownStorage, LeaderAssumption
         DEF IInv, Orderly, Nodes, TypeOK
    <3>3. s[1] \in Routers => \A q \in Routers : route[q] \in failed \cup {s[2]}
      BY <3>2 DEF Nodes, Pending
    <3> QED
      BY <3>1, <3>3 DEF OnlyFromFailed
  <2>4. CASE ~(\E r \in Routers : ExecRouter(r)) /\ ~(\E s \in late : LateEnds(s))
    <3>1. route' = route
      BY <1>1, <2>4
         DEF Next, vars, nodeVars, Crash, Return, Drift, Discover, AskRouter,
             AskMaster, PollInstance, Install, RouterSilent, CheckCluster,
             Recover, Skip, Promote, StartPromotion, Demote, StartDemotion,
             ExecCandidate, ExecInstance, ExecDemote, Unblock
    <3> QED
      BY <3>1 DEF OnlyFromFailed
  <2> QED
    BY <2>1, <2>2, <2>3, <2>4
<1> QED
  BY <1>1, SystemInv, PTL DEF Spec, HealthyMasterStays
=============================================================================
