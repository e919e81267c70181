----------------------------- MODULE Discovery -----------------------------
(***************************************************************************)
(* The snapshot of one cluster and the goroutines around it: overlapping   *)
(* calls of Cluster.Discover (internal/vshard/cluster.go), started by the  *)
(* monitor's ticker and by the failover, the monitor's checkCluster        *)
(* (orchestrator/monitor.go), and the analyses that wait on the unbuffered *)
(* stream for the failover to take them.                                   *)
(*                                                                         *)
(* What a discovery sees of a replica set is abstracted to the version of  *)
(* the world it was read from.                                             *)
(***************************************************************************)
EXTENDS Naturals, FiniteSets

CONSTANTS Set,          \* replica sets
          Discoverer,   \* the calls of Discover that may run side by side
          StartDelay,   \* seconds before the first check of the cluster
          MaxTime,      \* bound on the clock
          MaxWorld,     \* bound on the changes of the world
          MaxSnapshot   \* bound on the snapshots installed

Absent == 0             \* a replica set the snapshot does not hold

VARIABLES now,          \* the wall clock, in seconds
          world,        \* version of the real topology
          snapshot,     \* [created, id, sets : the version seen of each set]
          dpc,          \* where each Discover is
          base,         \* its copy of the snapshot
          todo,         \* replica sets it has still to poll
          seen,         \* the versions it has collected
          created,      \* the Created of the snapshot it builds
          mpc,          \* where checkCluster is
          discovered,   \* its local variable
          analyzed,     \* storageMonitor.analyzed
          checks,       \* ghost: checks that went through so far
          stream,       \* analyses blocked on the stream
          handed        \* ghost: the analyses the failover has taken

discVars == <<dpc, base, todo, seen, created>>
monVars  == <<mpc, discovered, analyzed, checks>>
vars == <<now, world, snapshot, discVars, monVars, stream, handed>>

Version == Absent..MaxWorld

Snapshot == [created : Nat, id : Nat, sets : [Set -> Nat]]

Init == /\ now = 1
        /\ world = 1
        /\ snapshot = [created |-> 1, id |-> 0, sets |-> [s \in Set |-> Absent]]
        /\ dpc = [d \in Discoverer |-> "idle"]
        /\ base = [d \in Discoverer |-> snapshot]
        /\ todo = [d \in Discoverer |-> {}]
        /\ seen = [d \in Discoverer |-> snapshot.sets]
        /\ created = [d \in Discoverer |-> 0]
        /\ mpc = "idle"
        /\ discovered = 0
        /\ analyzed = 0
        /\ checks = 0
        /\ stream = {}
        /\ handed = {}

Tick == /\ now < MaxTime
        /\ now' = now + 1
        /\ UNCHANGED <<world, snapshot, discVars, monVars, stream, handed>>

WorldChanges == /\ world < MaxWorld
                /\ world' = world + 1
                /\ UNCHANGED <<now, snapshot, discVars, monVars, stream, handed>>

-----------------------------------------------------------------------------
(* Cluster.Discover.                                                       *)

DGoto(d, from, to) == dpc[d] = from /\ dpc' = [dpc EXCEPT ![d] = to]

\* Snapshot.Copy: nothing a discovery does to its copy reaches the snapshot.
Copy == snapshot

\* The current snapshot is copied under the read lock.
DiscoverStart(d) ==
  /\ snapshot.id < MaxSnapshot
  /\ DGoto(d, "idle", "router")
  /\ base' = [base EXCEPT ![d] = Copy]
  /\ UNCHANGED <<now, world, snapshot, todo, seen, created, monVars, stream,
                 handed>>

\* A router answers with the replica sets and their masters, or the call ends.
AskRouter(d) ==
  /\ \/ /\ DGoto(d, "router", "poll")
        /\ todo' = [todo EXCEPT ![d] = Set]
        /\ seen' = [seen EXCEPT ![d] = [s \in Set |-> Absent]]
     \/ DGoto(d, "router", "idle") /\ UNCHANGED <<todo, seen>>
  /\ UNCHANGED <<now, world, snapshot, base, created, monVars, stream, handed>>

\* Mutant: no fallback to the previous snapshot.
PollSetNoFallback(d, s) ==
  /\ dpc[d] = "poll"
  /\ s \in todo[d]
  /\ todo' = [todo EXCEPT ![d] = @ \ {s}]
  /\ \E v \in {world, Absent} : seen' = [seen EXCEPT ![d][s] = v]
  /\ UNCHANGED <<now, world, snapshot, dpc, base, created, monVars, stream,
                 handed>>

\* The goroutine of one replica set: its master reports the topology, or the
\* copy of the previous snapshot is used, where the set may be missing.
PollSet(d, s) ==
  /\ dpc[d] = "poll"
  /\ s \in todo[d]
  /\ todo' = [todo EXCEPT ![d] = @ \ {s}]
  /\ \E v \in {world, base[d].sets[s]} : seen' = [seen EXCEPT ![d][s] = v]
  /\ UNCHANGED <<now, world, snapshot, dpc, base, created, monVars, stream,
                 handed>>

\* Mutant: the stamp is the deadline of the call.
StampDeadline(d) ==
  /\ todo[d] = {}
  /\ DGoto(d, "poll", "install")
  /\ created' = [created EXCEPT ![d] = now + 5]
  /\ UNCHANGED <<now, world, snapshot, base, todo, seen, monVars, stream,
                 handed>>

\* All goroutines are done: Created is the time of completion.
Stamp(d) ==
  /\ todo[d] = {}
  /\ DGoto(d, "poll", "install")
  /\ created' = [created EXCEPT ![d] = now]
  /\ UNCHANGED <<now, world, snapshot, base, todo, seen, monVars, stream,
                 handed>>

\* Mutant: the snapshot is always replaced.
InstallAlways(d) ==
  /\ DGoto(d, "install", "idle")
  /\ snapshot' = [created |-> created[d], id |-> snapshot.id + 1,
                  sets |-> seen[d]]
  /\ UNCHANGED <<now, world, base, todo, seen, created, monVars, stream, handed>>

\* The snapshot is replaced under the lock unless it is newer by its stamp.
Install(d) ==
  /\ DGoto(d, "install", "idle")
  /\ snapshot' = IF snapshot.created <= created[d]
                 THEN [created |-> created[d], id |-> snapshot.id + 1,
                       sets |-> seen[d]]
                 ELSE snapshot
  /\ UNCHANGED <<now, world, base, todo, seen, created, monVars, stream, handed>>

-----------------------------------------------------------------------------
(* storageMonitor.checkCluster and the stream.                             *)

LastDiscovered == snapshot.created

ReplicaSets == {s \in Set : snapshot.sets[s] # Absent}

\* Mutant: the topology analysed last passes once more.
CheckClusterAgain ==
  /\ mpc = "idle"
  /\ now >= StartDelay
  /\ LastDiscovered >= analyzed
  /\ mpc' = "sets"
  /\ discovered' = LastDiscovered
  /\ UNCHANGED <<now, world, snapshot, discVars, analyzed, checks, stream, handed>>

\* Mutant: the second after the one analysed last does not pass.
CheckClusterSkips ==
  /\ mpc = "idle"
  /\ now >= StartDelay
  /\ LastDiscovered > analyzed + 1
  /\ mpc' = "sets"
  /\ discovered' = LastDiscovered
  /\ UNCHANGED <<now, world, snapshot, discVars, analyzed, checks, stream, handed>>

\* The first read, and the early return.
CheckCluster ==
  /\ mpc = "idle"
  /\ now >= StartDelay
  /\ LastDiscovered > analyzed
  /\ mpc' = "sets"
  /\ discovered' = LastDiscovered
  /\ UNCHANGED <<now, world, snapshot, discVars, analyzed, checks, stream, handed>>

\* Mutant: analyses nobody has taken yet are dropped.
AnalyzeSetsDrops ==
  /\ mpc = "sets"
  /\ mpc' = "idle"
  /\ analyzed' = discovered
  /\ checks' = checks + 1
  /\ stream' = {[set |-> s, id |-> snapshot.id, version |-> snapshot.sets[s],
                 check |-> checks + 1] : s \in ReplicaSets}
  /\ UNCHANGED <<now, world, snapshot, discVars, discovered, handed>>

\* The second read takes the lock again.  One goroutine per set sends its analysis.
AnalyzeSets ==
  /\ mpc = "sets"
  /\ mpc' = "idle"
  /\ analyzed' = discovered
  /\ checks' = checks + 1
  /\ stream' = stream \cup
       {[set |-> s, id |-> snapshot.id, version |-> snapshot.sets[s],
         check |-> checks + 1] : s \in ReplicaSets}
  /\ UNCHANGED <<now, world, snapshot, discVars, discovered, handed>>

\* The failover takes one of the analyses that wait, in any order.
Take(x) ==
  /\ x \in stream
  /\ stream' = stream \ {x}
  /\ handed' = handed \cup {x}
  /\ UNCHANGED <<now, world, snapshot, discVars, monVars>>

Discover(d) == \/ AskRouter(d) \/ Stamp(d) \/ Install(d)
               \/ \E s \in Set : PollSet(d, s)

Monitor == CheckCluster \/ AnalyzeSets

Next == \/ \E d \in Discoverer : DiscoverStart(d) \/ Discover(d)
        \/ Monitor
        \/ \E x \in stream : Take(x)
        \/ Tick \/ WorldChanges

Spec == Init /\ [][Next]_vars

(* The monitor's ticker fires for ever, a Discover ends by its timeout of  *)
(* five seconds, the clock runs, and the failover comes back to the stream *)
(* where blocked senders are served in turn.                               *)
FairSpec == /\ Spec
            /\ WF_vars(Monitor)
            /\ WF_vars(Tick)
            /\ \A d \in Discoverer : WF_vars(Discover(d))
            /\ WF_vars(\E x \in stream : Take(x))

-----------------------------------------------------------------------------
Request == [set : Set, id : Nat, version : Nat, check : Nat]

TypeOK ==
  /\ now \in Nat
  /\ world \in Nat
  /\ snapshot \in Snapshot
  /\ snapshot.created <= now
  /\ dpc \in [Discoverer -> {"idle", "router", "poll", "install"}]
  /\ base \in [Discoverer -> Snapshot]
  /\ todo \in [Discoverer -> SUBSET Set]
  /\ seen \in [Discoverer -> [Set -> Nat]]
  /\ created \in [Discoverer -> Nat]
  /\ mpc \in {"idle", "sets"}
  /\ discovered \in Nat
  /\ analyzed \in Nat
  /\ checks \in Nat
  /\ stream \subseteq Request
  /\ handed \subseteq Request

(* The monitor never believes to have analysed a topology newer than the   *)
(* current one: it would skip every check until the clock catches up.      *)
NeverAheadOfSnapshot == analyzed <= snapshot.created

\* A replica set goes back, and the call that installs it started from a
\* snapshot that was replaced meanwhile.
GoesBack(s) == snapshot'.sets[s] < snapshot.sets[s]

LateInstall == \E d \in Discoverer : /\ dpc[d] = "install" /\ dpc'[d] = "idle"
                                     /\ base[d].id < snapshot.id

OnlyLateGoesBack == (\E s \in Set : GoesBack(s)) => LateInstall

(* What the snapshot says of a replica set goes back to an earlier state of*)
(* the world only when calls of Cluster.Discover overlapped (Created is    *)
(* the time a call ends, not the time it read).  No failure to answer has  *)
(* that effect: the fallback is the copy the call started from.            *)
NoStaleOverwrite == [][OnlyLateGoesBack]_vars

(* "Prevent too much analyzes of the same cluster topology" (checkCluster).*)
(* A snapshot installed between the two reads of checkCluster is analysed  *)
(* in full and, at a later tick, once more: never a third time.            *)
AnalyzedAtMostTwice ==
  \A x \in stream \cup handed :
    Cardinality({y.check : y \in {z \in stream \cup handed :
                                   z.id = x.id /\ z.set = x.set}}) <= 2

(* A topology stamped later than all the analysed ones is not passed over: *)
(* it, or a later one, is analysed.                                        *)
NewTopologyIsAnalyzed ==
  \A t \in 1..MaxTime :
    (snapshot.created = t /\ analyzed < t) ~> analyzed >= t

(* Every analysis reaches the failover in the end.                         *)
AnalysisIsTaken ==
  \A s \in Set, k \in 1..MaxSnapshot :
    (\E x \in stream : x.set = s /\ x.check = k)
      ~> (\E x \in handed : x.set = s /\ x.check = k)
=============================================================================
