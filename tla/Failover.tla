------------------------------ MODULE Failover ------------------------------
(***************************************************************************)
(* The failover of one cluster (internal/vshard/orchestrator/failover.go   *)
(* and recovery.go): the goroutine started by Serve, the recoveries it     *)
(* remembers to avoid flapping, and the vshard configuration of the nodes  *)
(* it rewrites.                                                            *)
(*                                                                         *)
(* The monitor is the environment: any analysis of the constant Analysis   *)
(* can arrive at any time, so the analyses may be as stale as they like.   *)
(* The snapshot of the cluster is read where the code reads it, and what   *)
(* it holds at that moment is a choice, since discoveries replace it while *)
(* a recovery runs.  Hooks pass or fail.                                   *)
(***************************************************************************)
EXTENDS Integers, Sequences, FiniteSets

CONSTANTS Set,          \* replica sets of the cluster
          Storage,      \* storage instances
          Router,       \* routers
          SetOf,        \* the replica set of each storage
          Analysis,     \* the analyses the monitor can send
          ReadOnly,     \* the cluster is configured readonly
          SetTTL,       \* shard_recovery_block_time, in seconds
          InstanceTTL,  \* instance_recovery_block_time, in seconds
          NoAnalysis,   \* the goroutine works on no analysis
          NoStorage,    \* no candidate is chosen
          MaxTime,      \* bound on the clock
          MaxRecovery,  \* bound on the recoveries started
          MaxLate,      \* bound on the scripts that outlive their request
          MaxRestart    \* bound on the restarts of qumomf

Node == Storage \cup Router

PromoteStates == {"DeadMaster", "DeadMasterAndSomeFollowers"}
DemoteStates  == {"MasterMasterReplication"}
QuietStates   == {"NoProblem", "DeadMasterAndFollowers", "DeadFollowers",
                  "AllMasterFollowersNotReplicating", "NetworkProblems",
                  "DeadMasterWithoutFollowers",
                  "InconsistentVShardConfiguration"}

(* What an analysis carries as far as a recovery looks at it: the set, its *)
(* state and master, the followers the elector may choose, the followers   *)
(* whose fingerprint differs from the master's.                            *)
AnalysisType == [set : Set,
                 state : PromoteStates \cup DemoteStates \cup QuietStates,
                 master : Storage,
                 eligible : SUBSET Storage,
                 differing : SUBSET Storage]

ASSUME TopologyAssumption ==
  /\ SetOf \in [Storage -> Set]
  /\ Set \cap Storage = {}
  /\ Storage \cap Router = {}
  /\ NoStorage \notin Storage

ASSUME AnalysisAssumption ==
  /\ NoAnalysis \notin Analysis
  /\ Analysis \subseteq AnalysisType
  /\ \A a \in Analysis :
       /\ \A n \in a.eligible \cup a.differing : SetOf[n] = a.set
       /\ a.master \notin a.eligible \cup a.differing

ASSUME BlockTimeAssumption == SetTTL \in Nat /\ InstanceTTL \in Nat

VARIABLES now,          \* the wall clock, in seconds
          pc,           \* where the goroutine is
          cur,          \* the analysis it works on
          cand,         \* the chosen candidate, or the co-master at hand
          todo,         \* nodes the loop at hand has still to visit
          active,       \* Cluster.hasActiveRecovery
          log,          \* every recovery ever started, in order
          registry,     \* failover.recoveries, as indices of log
          pending,      \* recoveries of the analysis at hand, not registered
          born,         \* recoveries started before this process was
          stopping,     \* Shutdown was called
          restarts,     \* restarts of qumomf so far
          ticking,      \* the ticker of the cleanup runs
          view,         \* the master of each set in each node's vshard cfg
          late,         \* scripts on their way that nobody waits for
          served,       \* ghost: storages that ever took the master role
          missed        \* ghost: nodes this promotion did not settle

jobVars  == <<pc, cur, cand, todo, active, pending>>
bookVars == <<log, registry, born>>
procVars == <<stopping, restarts, ticking>>
nodeVars == <<view, late, served>>
vars == <<now, jobVars, bookVars, procVars, nodeVars, missed>>

-----------------------------------------------------------------------------
(* Recoveries.                                                             *)

Recovery == [key : Set \cup Storage, start : Nat, expires : Nat, ok : BOOLEAN]

Expired(i) == log[i].expires < now

\* hasBlockedRecovery
Blocked(key) == \E i \in registry : log[i].key = key /\ ~Expired(i)

\* Mutant: the recovery before is the pending one.
StartRecordOffByOne(key, ttl) ==
  /\ log' = Append(log, [key |-> key, start |-> now,
                         expires |-> now + ttl, ok |-> FALSE])
  /\ pending' = pending \cup {Len(log)}

\* NewRecovery and ExpireAfter: the recovery is not registered yet.
StartRecord(key, ttl) ==
  /\ log' = Append(log, [key |-> key, start |-> now,
                         expires |-> now + ttl, ok |-> FALSE])
  /\ pending' = pending \cup {Len(log) + 1}

\* recv.IsSuccessful = true, for the recovery started last.
MarkSuccessful == log' = [log EXCEPT ![Len(log)].ok = TRUE]

-----------------------------------------------------------------------------
(* Nodes.                                                                  *)

\* The recovery script: the set's master is rewritten in the node's own
\* vshard cfg, and with it whether a storage of the set accepts writes.
Apply(n, s, m) ==
  /\ view' = [view EXCEPT ![n][s] = m]
  /\ served' = IF n = m THEN served \cup {n} ELSE served

(* Connector.Exec.  The script is acknowledged or the error is ignored or  *)
(* returned by the caller.  Either way a copy whose request timed out may  *)
(* still be on its way: Exec retries after a timeout.                      *)
Exec(n, s, m, acked) ==
  /\ IF acked THEN Apply(n, s, m) ELSE UNCHANGED <<view, served>>
  /\ \/ UNCHANGED late
     \/ Cardinality(late) < MaxLate /\ late' = late \cup {<<n, s, m>>}

\* A script nobody waits for is applied, or never is.
LateArrives ==
  \E x \in late :
    /\ late' = late \ {x}
    /\ \/ Apply(x[1], x[2], x[3]) /\ missed' = missed \cup {x[1]}
       \/ UNCHANGED <<view, served, missed>>
    /\ UNCHANGED <<now, jobVars, bookVars, procVars>>

-----------------------------------------------------------------------------
(* The process.                                                            *)

Fresh == /\ pc' = "idle"
         /\ cur' = NoAnalysis
         /\ cand' = NoStorage
         /\ todo' = {}
         /\ active' = FALSE
         /\ pending' = {}

Init == /\ now = 0
        /\ pc = "idle"
        /\ cur = NoAnalysis
        /\ cand = NoStorage
        /\ todo = {}
        /\ active = FALSE
        /\ log = <<>>
        /\ registry = {}
        /\ pending = {}
        /\ born = 0
        /\ stopping = FALSE
        /\ restarts = 0
        /\ ticking = TRUE
        /\ late = {}
        /\ missed = {}
        /\ \E leader \in [Set -> Storage] :
             /\ \A s \in Set : SetOf[leader[s]] = s
             /\ view = [n \in Node |-> leader]
             /\ served = {leader[s] : s \in Set}

Goto(from, to) == pc = from /\ pc' = to

\* Hooker.ExecuteProcesses: the hooks pass, or the first failure ends them.
Hook(from, passed, failed) == Goto(from, passed) \/ Goto(from, failed)

\* The most recoveries an analysis can start, for the bound MaxRecovery.
Recoveries(a) ==
  IF a.state \in PromoteStates THEN 1 ELSE Cardinality(a.differing)

\* Serve takes an analysis from the stream.  StartRecovery comes before the
\* recovery function looks at the block period.
Receive(a) ==
  /\ Len(log) + Recoveries(a) <= MaxRecovery
  /\ pc = "idle"
  /\ ~ReadOnly
  /\ ~active
  /\ a.state \in PromoteStates \cup DemoteStates
  /\ active' = TRUE
  /\ cur' = a
  /\ IF a.state \in PromoteStates
     THEN pc' = "promote" /\ todo' = {}
     ELSE pc' = "demote" /\ todo' = a.differing
  /\ missed' = {}
  /\ UNCHANGED <<now, cand, pending, bookVars, procVars, nodeVars>>

\* An analysis of a state without recovery is logged and forgotten.
Ignore(a) ==
  /\ pc = "idle"
  /\ \/ ReadOnly
     \/ active
     \/ a.state \in QuietStates
  /\ UNCHANGED vars

\* promoteFollowerToMaster
PromoteBlocked ==
  /\ Goto("promote", "finish")
  /\ Blocked(cur.set)
  /\ UNCHANGED <<now, cur, cand, todo, active, pending, bookVars, procVars,
                 nodeVars, missed>>

PromoteStart ==
  /\ Goto("promote", "prehook")
  /\ ~Blocked(cur.set)
  /\ StartRecord(cur.set, SetTTL)
  /\ UNCHANGED <<now, cur, cand, todo, active, registry, born, procVars,
                 nodeVars, missed>>

PreFailover ==
  /\ Hook("prehook", "elect", "register")
  /\ UNCHANGED <<now, cur, cand, todo, active, pending, bookVars, procVars,
                 nodeVars, missed>>

\* Nobody can be elected, or the current snapshot speaks against the
\* candidate: LSN in front of the master's, upstream not running.
ElectNobody ==
  /\ Goto("elect", "register")
  /\ UNCHANGED <<now, cur, cand, todo, active, pending, bookVars, procVars,
                 nodeVars, missed>>

\* The candidate comes from the analysis, its instance from the current
\* snapshot, where it has to be a follower still.
Elect ==
  /\ Goto("elect", "candidate")
  /\ \E c \in cur.eligible : cand' = c
  /\ UNCHANGED <<now, cur, todo, active, pending, bookVars, procVars,
                 nodeVars, missed>>

\* It is not: it left the snapshot or is its set's master now.  There is no
\* Upstream to look at, and the nil dereference ends the process.
ElectPanics ==
  /\ Goto("elect", "dead")
  /\ cur.eligible # {}
  /\ UNCHANGED <<now, cur, cand, todo, active, pending, bookVars, procVars,
                 nodeVars, missed>>

\* Mutant: the routers are told although the candidate did not answer.
ExecCandidateGoesOn ==
  /\ pc = "candidate"
  /\ \E acked \in BOOLEAN : Exec(cand, cur.set, cand, acked)
  /\ pc' = "routers"
  /\ todo' = Router
  /\ UNCHANGED <<now, cur, cand, active, pending, bookVars, procVars, missed>>

\* The candidate first.  The routers are read once it has answered.
ExecCandidate ==
  /\ pc = "candidate"
  /\ \/ /\ Exec(cand, cur.set, cand, TRUE)
        /\ pc' = "routers"
        /\ \E known \in SUBSET Router :
             todo' = known /\ missed' = missed \cup (Router \ known)
     \/ /\ Exec(cand, cur.set, cand, FALSE)
        /\ pc' = "register"
        /\ UNCHANGED <<todo, missed>>
  /\ UNCHANGED <<now, cur, cand, active, pending, bookVars, procVars>>

\* One node of a loop that goes on whatever the node answers.
ExecNext(n) ==
  /\ n \in todo
  /\ \E acked \in BOOLEAN :
       /\ Exec(n, cur.set, cand, acked)
       /\ missed' = IF acked THEN missed ELSE missed \cup {n}
  /\ todo' = todo \ {n}
  /\ UNCHANGED <<now, pc, cur, cand, active, pending, bookVars, procVars>>

ExecRouter == pc = "routers" /\ \E r \in Router : ExecNext(r)

\* Mutant: the failed master is left out.
RoutersDoneNotMaster ==
  /\ todo = {}
  /\ Goto("routers", "instances")
  /\ todo' = Storage \ {cand, cur.master}
  /\ UNCHANGED <<now, cur, cand, active, pending, bookVars, procVars, nodeVars,
                 missed>>

\* The routers are done: the instances are read from the snapshot.
RoutersDone ==
  /\ todo = {}
  /\ Goto("routers", "instances")
  /\ \E known \in SUBSET Storage :
       /\ todo' = known \ {cand}
       /\ missed' = missed \cup (Storage \ (known \cup {cand}))
  /\ UNCHANGED <<now, cur, cand, active, pending, bookVars, procVars, nodeVars>>

ExecInstance == pc = "instances" /\ \E n \in Storage : ExecNext(n)

InstancesDone ==
  /\ todo = {}
  /\ Goto("instances", "register")
  /\ MarkSuccessful
  /\ UNCHANGED <<now, cur, cand, todo, active, pending, registry, born,
                 procVars, nodeVars, missed>>

-----------------------------------------------------------------------------
\* applyFollowerRoleToCoMasters: every differing follower has its own
\* recovery, hook and block period.
DemoteSkip(n) ==
  /\ pc = "demote"
  /\ n \in todo
  /\ Blocked(n)
  /\ todo' = todo \ {n}
  /\ UNCHANGED <<now, pc, cur, cand, active, pending, bookVars, procVars,
                 nodeVars, missed>>

DemoteStart(n) ==
  /\ n \in todo
  /\ ~Blocked(n)
  /\ Goto("demote", "demotehook")
  /\ StartRecord(n, InstanceTTL)
  /\ cand' = n
  /\ todo' = todo \ {n}
  /\ UNCHANGED <<now, cur, active, registry, born, procVars, nodeVars, missed>>

DemoteHook ==
  /\ Hook("demotehook", "demoteexec", "demote")
  /\ UNCHANGED <<now, cur, cand, todo, active, pending, bookVars, procVars,
                 nodeVars, missed>>

DemoteExec ==
  /\ Goto("demoteexec", "demote")
  /\ \/ Exec(cand, cur.set, cur.master, TRUE) /\ MarkSuccessful
     \/ Exec(cand, cur.set, cur.master, FALSE) /\ UNCHANGED log
  /\ UNCHANGED <<now, cur, cand, todo, active, pending, registry, born,
                 procVars, missed>>

DemoteDone ==
  /\ todo = {}
  /\ Goto("demote", IF pending = {} THEN "finish" ELSE "register")
  /\ UNCHANGED <<now, cur, cand, todo, active, pending, bookVars, procVars,
                 nodeVars, missed>>

-----------------------------------------------------------------------------
(* The end of checkAndRecover: each recovery is registered before its post *)
(* hook runs, a discovery is forced, the flag is cleared.                  *)

\* Mutant: a recovery that failed is not registered.
RegisterSuccessful(i) ==
  /\ pc = "register"
  /\ i \in pending
  /\ \A j \in pending : i <= j
  /\ registry' = IF log[i].ok THEN registry \cup {i} ELSE registry
  /\ pending' = pending \ {i}
  /\ pc' = IF pending = {i} THEN "discover" ELSE "register"
  /\ UNCHANGED <<now, cur, cand, todo, active, log, born, procVars, nodeVars,
                 missed>>

Register(i) ==
  /\ pc = "register"
  /\ i \in pending
  /\ \A j \in pending : i <= j
  /\ registry' = registry \cup {i}
  /\ pending' = pending \ {i}
  /\ pc' = IF pending = {i} THEN "discover" ELSE "register"
  /\ UNCHANGED <<now, cur, cand, todo, active, log, born, procVars, nodeVars,
                 missed>>

ForceDiscover ==
  /\ Goto("discover", "finish")
  /\ UNCHANGED <<now, cur, cand, todo, active, pending, bookVars, procVars,
                 nodeVars, missed>>

\* Mutant: the recovery flag stays up.
FinishFlagUp ==
  /\ Goto("finish", "idle")
  /\ UNCHANGED <<now, cur, cand, todo, active, pending, bookVars, procVars,
                 nodeVars, missed>>

Finish ==
  /\ pc = "finish"
  /\ Fresh
  /\ UNCHANGED <<now, bookVars, procVars, nodeVars, missed>>

(* The cleanup tick, while there is one: Serve defers the stop of its      *)
(* ticker, starts the goroutine and returns.                               *)
Cleanup ==
  /\ pc = "idle" /\ ticking
  /\ registry' = {i \in registry : ~Expired(i)}
  /\ UNCHANGED <<now, jobVars, log, born, procVars, nodeVars, missed>>

ServeReturns ==
  /\ ticking
  /\ ticking' = FALSE
  /\ UNCHANGED <<now, jobVars, bookVars, stopping, restarts, nodeVars, missed>>

Shutdown ==
  /\ ~stopping
  /\ stopping' = TRUE
  /\ UNCHANGED <<now, jobVars, bookVars, restarts, ticking, nodeVars, missed>>

\* Mutant: Serve waits until nothing is remembered any more.
ServeStopsForgotten ==
  /\ stopping
  /\ registry = {}
  /\ Goto("idle", "stopped")
  /\ UNCHANGED <<now, cur, cand, todo, active, pending, bookVars, procVars,
                 nodeVars, missed>>

ServeStops ==
  /\ stopping
  /\ Goto("idle", "stopped")
  /\ UNCHANGED <<now, cur, cand, todo, active, pending, bookVars, procVars,
                 nodeVars, missed>>

\* The process ends at any point and a new one takes over.  Recoveries are
\* stored in the database but never read back: the registry starts empty.
Restart ==
  /\ restarts < MaxRestart
  /\ restarts' = restarts + 1
  /\ Fresh
  /\ registry' = {}
  /\ born' = Len(log)
  /\ stopping' = FALSE
  /\ ticking' = TRUE
  /\ missed' = {}
  /\ UNCHANGED <<now, log, nodeVars>>

Tick ==
  /\ now < MaxTime
  /\ now' = now + 1
  /\ UNCHANGED <<jobVars, bookVars, procVars, nodeVars, missed>>

\* The goroutine goes on with the analysis at hand.
Recover ==
  \/ PromoteBlocked \/ PromoteStart \/ PreFailover
  \/ ElectNobody \/ Elect \/ ElectPanics
  \/ ExecCandidate \/ ExecRouter \/ RoutersDone \/ ExecInstance \/ InstancesDone
  \/ \E n \in Storage : DemoteSkip(n) \/ DemoteStart(n)
  \/ DemoteHook \/ DemoteExec \/ DemoteDone
  \/ \E i \in pending : Register(i)
  \/ ForceDiscover \/ Finish

Next ==
  \/ \E a \in Analysis : Receive(a) \/ Ignore(a)
  \/ Recover
  \/ Cleanup \/ ServeReturns \/ Shutdown \/ ServeStops \/ Restart \/ Tick
  \/ LateArrives

Spec == Init /\ [][Next]_vars

(* The goroutine runs: hooks and requests have timeouts, so every step of  *)
(* a recovery ends.  At the top of the loop select picks among the ready   *)
(* cases at random, so a case that is ready again and again is taken.      *)
FairSpec == /\ Spec
            /\ WF_vars(Recover)
            /\ WF_vars(ServeReturns)
            /\ SF_vars(Cleanup)
            /\ SF_vars(ServeStops)

-----------------------------------------------------------------------------
PcType == {"idle", "promote", "prehook", "elect", "candidate", "routers",
           "instances", "demote", "demotehook", "demoteexec", "register",
           "discover", "finish", "stopped", "dead"}

TypeOK ==
  /\ now \in Nat
  /\ pc \in PcType
  /\ cur \in Analysis \cup {NoAnalysis}
  /\ cand \in Storage \cup {NoStorage}
  /\ todo \subseteq Node
  /\ active \in BOOLEAN
  /\ log \in Seq(Recovery)
  /\ registry \subseteq DOMAIN log
  /\ pending \subseteq DOMAIN log
  /\ born \in 0..Len(log)
  /\ stopping \in BOOLEAN
  /\ restarts \in Nat
  /\ ticking \in BOOLEAN
  /\ view \in [Node -> [Set -> Storage]]
  /\ late \subseteq Node \X Set \X Storage
  /\ served \subseteq Storage
  /\ missed \subseteq Node

\* The recoveries the present process has started.
Mine == born + 1 .. Len(log)

(* Anti-flapping: a replica set, or a co-master, is not recovered again    *)
(* within its block period.  A recovery is registered only after it ended, *)
(* the clock runs on meanwhile, the cleanup drops entries, and aborted     *)
(* recoveries count as well.                                               *)
BlockPeriod ==
  \A i, j \in Mine :
    i < j /\ log[i].key = log[j].key => log[i].expires < log[j].start

(* A router is only ever pointed at a storage that took the master role    *)
(* itself: the candidate is configured first and an error there ends the   *)
(* recovery.  Scripts that arrive late do not break it.                    *)
RoutersFollowMasters ==
  \A r \in Router : \A s \in Set : view[r][s] \in served

(* A promotion that reports success leaves every node it reached with the  *)
(* candidate as the only master of the set, the failed master included.    *)
(* Not reached: the node's request failed, the snapshot did not have it,   *)
(* or a late script of another recovery came in between.                   *)
SuccessSettlesReached ==
  (/\ pc = "register"
   /\ cur.state \in PromoteStates
   /\ \E i \in pending : log[i].ok)
  => \A n \in Node \ missed : view[n][cur.set] = cand

(* The recovery flag never stays up, whatever hooks and nodes answer: a    *)
(* flag left up would make Serve skip every later analysis.                *)
RecoveryEnds == active ~> (~active \/ pc = "dead")

(* The registry does not grow for ever: an expired recovery is dropped,    *)
(* unless the process ends first.  The comment in cleanup ("It is not a    *)
(* frequent operation") and cleanupPeriod say it runs every minute; the    *)
(* ticker is stopped before its first tick.                                *)
ExpiredDropped ==
  \A i \in 1..MaxRecovery :
    (i \in registry /\ Expired(i))
      ~> (i \notin registry \/ pc \in {"stopped", "dead"})

(* Serve ends after Shutdown, also when a recovery is running.             *)
ShutdownStops == stopping ~> (pc \in {"stopped", "dead"} \/ ~stopping)

(* The configuration file: "on any given cluster, qumomf will not kick in  *)
(* automated recovery on an interval smaller than said period".  The code  *)
(* blocks by replica set and by instance.                                  *)
ClusterBlockPeriod ==
  \A i, j \in Mine : i < j => log[i].expires < log[j].start
=============================================================================
