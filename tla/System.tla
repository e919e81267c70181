------------------------------- MODULE System -------------------------------
(***************************************************************************)
(* One replica set from end to end: routers and storages with their own    *)
(* vshard configuration, discoveries that read them piece by piece         *)
(* (internal/vshard/cluster.go), the monitor that analyses the snapshot    *)
(* (orchestrator/monitor.go) and the failover that rewrites the nodes      *)
(* (orchestrator/failover.go).  Failover takes analyses as they come; here *)
(* they are what the nodes really said, possibly some time ago.            *)
(*                                                                         *)
(* There is no clock.  A block period, of minutes, is assumed to outlast   *)
(* the discoveries, analyses and scripts, of seconds, that are under way   *)
(* as it runs (Unblock).  A discovery whose result is refused because a    *)
(* later one is installed has no effect and is left out, like an analysis  *)
(* of a state without recovery.  The snapshot is copied as the router      *)
(* answers, not when it is asked.  Any follower the elector does not       *)
(* filter out may be elected.  No hooks are configured.                    *)
(***************************************************************************)
EXTENDS Naturals, FiniteSets, SequencesExt

CONSTANTS Storage,
          Router,
          Leader,       \* the master in the configuration files of the nodes
          Discoverer,   \* discoveries by the ticker that may overlap
          Scenario      \* storages and routers there are, bounds on the faults

Forced  == "force"      \* the discovery at the end of a recovery
NoCand  == "none"
SetKey  == "set"        \* the block period of the replica set
Current == "snapshot"   \* the snapshot, as something still to be analysed

(* Storages crash and come back, answers to a discovery get lost, recovery *)
(* scripts time out, the replication lag changes.                          *)
Fault == {"crash", "return", "poll", "script", "drift"}

(* What the master's report makes of a follower: the elector takes it; its *)
(* LSN lag, idle time or priority excludes it; or it is ahead of the       *)
(* master, LSNBehindMaster being negative.                                 *)
Lag == {"near", "far", "ahead"}

ASSUME ScenarioAssumption ==
  \A s \in Scenario : /\ s.member \in Seq(Storage)
                      /\ s.router \subseteq Router /\ s.router # {}
                      /\ s.faults \in [Fault -> Nat]
                      /\ s.lag \in [ToSet(s.member) -> Lag]
                      /\ Leader \in ToSet(s.member)

ASSUME LeaderAssumption ==
  /\ Leader \in Storage
  /\ Forced \notin Discoverer /\ Current \notin Discoverer
  /\ NoCand \notin Storage
  /\ SetKey \notin Storage
  /\ Storage \cap Router = {}

VARIABLES member,       \* the storages of the set, in the order of the reports
          up,           \* storages that run
          cfg,          \* the master in each storage's vshard configuration
          route,        \* the master in each router's vshard configuration
          late,         \* scripts that timed out and may still take effect:
                        \* a node and the master it is told of
          lag,          \* how far each storage is from the master
          failed,       \* ghost: storages that ever crashed
          led,          \* ghost: storages that acknowledged the role
          behind,       \* ghost: routers that did not get their last script
          astray,       \* ghost: whether a storage ever came back, missed a
                        \* script while it ran, or was demoted
          faults,       \* the faults of each kind that may still happen
          snapshot,     \* the cluster's snapshot: master and rows
          fresh,        \* the snapshot is not analysed yet
          disc,         \* the discoveries under way
          stream,       \* analyses that wait for the failover
          pc,           \* where the failover is
          cand,         \* the candidate, or the co-master at hand
          boss,         \* the master the co-masters are told to follow
          todo,         \* nodes the loop at hand has still to visit
          blocked,      \* keys within their block period
          old           \* what was under way when the last recovery ended

nodeVars == <<member, up, cfg, route, late, lag, failed, led, behind, astray>>
jobVars  == <<pc, cand, boss, todo, blocked, old>>
vars == <<nodeVars, faults, snapshot, fresh, disc, stream, jobVars>>

Suffer(f) == faults[f] > 0 /\ faults' = [faults EXCEPT ![f] = @ - 1]

Known   == ToSet(member)
Routers == DOMAIN route

-----------------------------------------------------------------------------
(* What a node says of itself: it is a master, or how it replicates from   *)
(* the one it takes for the master.                                        *)
StatusOf(n) == IF cfg[n] = n THEN "master"
               ELSE IF cfg[n] \in up THEN "follow" ELSE "disconnected"

(* What the snapshot holds of an instance.  One that was never polled has  *)
(* neither status nor fingerprint, and is not valid.                       *)
Row == [valid : BOOLEAN, status : {"master", "follow", "disconnected", "none"},
        fingerprint : Storage \cup {NoCand},
        upstream : {"nil", "follow", "disconnected"}, lag : Lag]

Snapshot == [master : Storage, rows : [Known -> Row]]

\* The upstreams a master reports; it has none itself.
Upstreams(m) ==
  [n \in Known |-> IF n = m THEN "nil"
                     ELSE IF n \in up THEN "follow" ELSE "disconnected"]

\* The topology a master reports: nothing is known of the polls yet.
Topology(m) ==
  [n \in Known |-> [valid |-> FALSE, status |-> "none", fingerprint |-> NoCand,
                    upstream |-> Upstreams(m)[n],
                    lag |-> IF n = m THEN "near" ELSE lag[n]]]

Report(snap) ==
  [master |-> snap.master,
   instances |-> [k \in 1..Len(member) |->
     [uuid |-> member[k], valid |-> snap.rows[member[k]].valid,
      status |-> snap.rows[member[k]].status,
      upstream |-> snap.rows[member[k]].upstream, downstream |-> "nil",
      fingerprint |-> snap.rows[member[k]].fingerprint]]]

Detect == INSTANCE Analysis
            WITH UUID <- Storage, Master <- Leader,
                 Status <- {"master", "follow", "disconnected"},
                 Upstream <- {"nil", "follow", "disconnected"},
                 Downstream <- {"nil"}, LSNBehind <- {0}, IdleTime <- {0},
                 Fingerprint <- Storage \cup {NoCand}, Priority <- {0},
                 Unreachable <- {FALSE}, set <- Report(snapshot)

Uuids(instances) == {i.uuid : i \in instances}

PromoteStates == {"DeadMaster", "DeadMasterAndSomeFollowers"}
DemoteStates  == {"MasterMasterReplication"}

\* Those a recovery may elect, and those it would demote.
Analysed(snap, state, demoted) ==
  [state |-> state, master |-> snap.master,
   eligible |-> {n \in Uuids(Detect!AliveFollowers(Report(snap))) :
                   snap.rows[n].lag # "far"},
   differing |-> Uuids(demoted)]

\* Mutant: whoever does not answer is dead.
AnalyseByReach(snap) ==
  LET s == Report(snap)
  IN  Analysed(snap, IF snap.rows[snap.master].valid THEN Detect!State(s)
                     ELSE "DeadMaster", Detect!Demoted(s))

\* Mutant: the followers that agree with the master are the co-masters.
AnalyseAgreeing(snap) ==
  LET s == Report(snap)
  IN  Analysed(snap, Detect!State(s), Detect!DemotedConsistent(s))

\* The analysis of a snapshot, as far as a recovery looks at it.
Analyse(snap) ==
  LET s == Report(snap) IN Analysed(snap, Detect!State(s), Detect!Demoted(s))

AnalysisType == [state : PromoteStates \cup DemoteStates, master : Storage,
                 eligible : SUBSET Storage, differing : SUBSET Storage]

NoDiscovery == [at |-> "idle"]
Nothing     == [calls |-> {}, sent |-> {}]

Init ==
  /\ \E s \in Scenario : /\ member = s.member
                         /\ faults = s.faults
                         /\ route = [r \in s.router |-> Leader]
                         /\ lag = s.lag
  /\ up = Known
  /\ cfg = [n \in Storage |-> Leader]
  /\ late = {}
  /\ failed = {}
  /\ led = {Leader}
  /\ behind = {}
  /\ astray = FALSE
  /\ snapshot = [master |-> Leader,
                 rows |-> [n \in Known |->
                   [valid |-> n \in up, status |-> StatusOf(n),
                    fingerprint |-> Leader, upstream |-> Upstreams(Leader)[n],
                    lag |-> lag[n]]]]
  /\ fresh = TRUE
  /\ disc = [d \in Discoverer \cup {Forced} |-> NoDiscovery]
  /\ stream = {}
  /\ pc = "idle"
  /\ cand = NoCand
  /\ boss = NoCand
  /\ todo = {}
  /\ blocked = {}
  /\ old = Nothing
-----------------------------------------------------------------------------
(* The nodes.                                                              *)

Crash(n) ==
  /\ n \in up
  /\ Suffer("crash")
  /\ up' = up \ {n}
  /\ failed' = failed \cup {n}
  /\ UNCHANGED <<member, cfg, route, late, lag, led, behind, astray, snapshot,
                 fresh, disc, stream, jobVars>>

\* The script only changes the running configuration: a storage that was
\* restarted reads its file again, one that was cut off keeps what it had.
Return(n) ==
  /\ n \notin up
  /\ Suffer("return")
  /\ up' = up \cup {n}
  /\ \E m \in {Leader, cfg[n]} : cfg' = [cfg EXCEPT ![n] = m]
  /\ astray' = TRUE
  /\ UNCHANGED <<member, route, late, lag, failed, led, behind, snapshot, fresh,
                 disc, stream, jobVars>>

\* A follower falls behind, catches up or is ahead.
Drift(n) ==
  /\ Suffer("drift")
  /\ \E l \in Lag \ {lag[n]} : lag' = [lag EXCEPT ![n] = l]
  /\ UNCHANGED <<member, up, cfg, route, late, failed, led, behind, astray,
                 snapshot, fresh, disc, stream, jobVars>>

(* A script that timed out was lost on its way, or it takes effect after   *)
(* all: the recovery took it for an error either way.                      *)
LateEnds(s) ==
  /\ s \in late
  /\ late' = late \ {s}
  /\ \/ UNCHANGED <<cfg, route, behind>>
     \/ /\ s[1] \in up
        /\ cfg' = [cfg EXCEPT ![s[1]] = s[2]]
        /\ UNCHANGED <<route, behind>>
     \/ /\ s[1] \in Routers
        /\ route' = [route EXCEPT ![s[1]] = s[2]]
        /\ behind' = behind \ {s[1]}
        /\ UNCHANGED cfg
  /\ UNCHANGED <<member, up, lag, failed, led, astray, faults, snapshot, fresh,
                 disc, stream, jobVars>>

-----------------------------------------------------------------------------
(* Cluster.Discover.                                                       *)

UnderWay == [calls |-> {d \in Discoverer : disc[d] # NoDiscovery},
             sent |-> stream]

\* The recovery is over: the failover waits for the next analysis.
Rest == pc' = "idle" /\ cand' = NoCand /\ boss' = NoCand

\* No router answers the discovery at the end of a recovery.
RouterSilent ==
  /\ pc = "discover"
  /\ disc[Forced] = NoDiscovery
  /\ Suffer("poll")
  /\ Rest
  /\ old' = IF fresh THEN [UnderWay EXCEPT !.calls = @ \cup {Current}]
             ELSE UnderWay
  /\ UNCHANGED <<nodeVars, snapshot, fresh, disc, stream, todo, blocked>>

\* One of the routers answers, and the snapshot is copied; the router knows
\* whether the master is available.
AskRouter(d) ==
  /\ disc[d] = NoDiscovery
  /\ d = Forced => pc = "discover"
  /\ \E r \in Routers :
       disc' = [disc EXCEPT ![d] =
         [at |-> IF route[r] \in up THEN "topology" ELSE "poll",
          snap |-> [snapshot EXCEPT !.master = route[r]], left |-> Known]]
  /\ UNCHANGED <<nodeVars, faults, snapshot, fresh, stream, jobVars>>

\* The rows a discovery has by now, and the instances it has still to poll.
Collected(d, rows, left) ==
  disc' = [disc EXCEPT ![d] =
    [at |-> "poll", snap |-> [disc[d].snap EXCEPT !.rows = rows], left |-> left]]

\* The master reports the topology, or the copied rows are used.
AskMaster(d) ==
  /\ disc[d].at = "topology"
  /\ LET m == disc[d].snap.master
     IN  \/ /\ m \in up
            /\ Collected(d, Topology(m), disc[d].left)
            /\ UNCHANGED faults
         \/ /\ m \notin up \/ Suffer("poll")
            /\ m \notin up => UNCHANGED faults
            /\ Collected(d, disc[d].snap.rows, disc[d].left)
  /\ UNCHANGED <<nodeVars, snapshot, fresh, stream, jobVars>>

\* The goroutine of one instance: it answers, or its row is marked.
PollInstance(d, n) ==
  /\ disc[d].at = "poll"
  /\ n \in disc[d].left
  /\ LET rows     == disc[d].snap.rows
         answered == [rows[n] EXCEPT !.valid = TRUE, !.status = StatusOf(n),
                                     !.fingerprint = cfg[n]]
         missed   == [rows[n] EXCEPT !.valid = FALSE]
         left     == disc[d].left \ {n}
     IN  \/ /\ n \in up
            /\ Collected(d, [rows EXCEPT ![n] = answered], left)
            /\ UNCHANGED faults
         \/ /\ n \notin up \/ Suffer("poll")
            /\ n \notin up => UNCHANGED faults
            /\ Collected(d, [rows EXCEPT ![n] = missed], left)
  /\ UNCHANGED <<nodeVars, snapshot, fresh, stream, jobVars>>

Install(d) ==
  /\ disc[d].at = "poll"
  /\ disc[d].left = {}
  /\ snapshot' = disc[d].snap
  /\ fresh' = TRUE
  /\ disc' = [disc EXCEPT ![d] = NoDiscovery]
  /\ IF d = Forced THEN Rest /\ old' = UnderWay
     ELSE /\ old' = [old EXCEPT !.calls = (@ \ {d, Current})
                            \cup (IF d \in @ THEN {Current} ELSE {})]
          /\ UNCHANGED <<pc, cand, boss>>
  /\ UNCHANGED <<nodeVars, faults, stream, todo, blocked>>

\* storageMonitor.checkCluster.  A snapshot that is installed between its two
\* reads is analysed once more.
CheckCluster ==
  /\ fresh
  /\ LET x    == Analyse(snapshot)
         sent == IF x.state \in PromoteStates \cup DemoteStates THEN {x} ELSE {}
     IN  /\ stream' = stream \cup sent
         /\ fresh' \in BOOLEAN
         /\ old' = IF Current \notin old.calls THEN old
                   ELSE [calls |-> IF fresh' THEN old.calls
                                   ELSE old.calls \ {Current},
                         sent |-> old.sent \cup sent]
  /\ UNCHANGED <<nodeVars, faults, snapshot, disc, pc, cand, boss, todo, blocked>>

-----------------------------------------------------------------------------
(* The failover.                                                           *)

Take(x) == stream' = stream \ {x} /\ old' = [old EXCEPT !.sent = @ \ {x}]

\* An analysis is taken whose recovery is blocked.
Skip(x) ==
  /\ pc = "idle"
  /\ x \in stream
  /\ \/ x.state \in PromoteStates /\ SetKey \in blocked
     \/ x.state \in DemoteStates /\ x.differing \subseteq blocked
  /\ Take(x)
  /\ UNCHANGED <<nodeVars, faults, snapshot, fresh, disc, pc, cand, boss, todo,
                 blocked>>

(* promoteFollowerToMaster up to the candidate: elected in the analysis,   *)
(* looked up in the current snapshot.  It is refused if it is ahead of the *)
(* master or did not replicate; a master has no Upstream, and the nil      *)
(* dereference ends the process.                                           *)
StartPromotion(x) ==
  /\ pc = "idle"
  /\ x \in stream
  /\ x.state \in PromoteStates
  /\ blocked' = blocked \cup {SetKey}
  /\ Take(x)
  /\ \/ x.eligible = {} /\ pc' = "discover" /\ cand' = NoCand
     \/ \E c \in x.eligible :
          LET row == snapshot.rows[c]
          IN  /\ cand' = c
              /\ pc' = CASE row.lag # "ahead" /\ row.upstream = "nil" -> "dead"
                         [] row.lag # "ahead" /\ row.upstream = "follow"
                              -> "candidate"
                         [] OTHER -> "discover"
  /\ UNCHANGED <<nodeVars, faults, snapshot, fresh, disc, boss, todo>>

\* Mutant: the block period is not looked at.
PromoteAgain(x) == StartPromotion(x)

Promote(x) == SetKey \notin blocked /\ StartPromotion(x)

(* A storage acknowledges its script.  If it does not, the request was     *)
(* refused by one that does not run, or timed out: the script may have     *)
(* been applied without an answer, or may still be.                        *)
Reached(n)   == n \in up /\ UNCHANGED <<faults, late>>
Missed(n, m) == IF n \in up THEN Suffer("script") /\ late' = late \cup {<<n, m>>}
                ELSE UNCHANGED <<faults, late>>

ExecCandidate ==
  /\ pc = "candidate"
  /\ \/ /\ Reached(cand)
        /\ cfg' = [cfg EXCEPT ![cand] = cand]
        /\ led' = led \cup {cand}
        /\ pc' = "routers"
        /\ todo' = Routers
     \/ Missed(cand, cand) /\ pc' = "discover" /\ UNCHANGED <<cfg, led, todo>>
  /\ UNCHANGED <<member, up, route, lag, failed, behind, astray, snapshot, fresh,
                 disc, stream, cand, boss, blocked, old>>

\* A router always runs.
TellRouter(r) ==
  /\ pc = "routers"
  /\ r \in todo
  /\ \/ /\ route' = [route EXCEPT ![r] = cand]
        /\ behind' = behind \ {r}
        /\ UNCHANGED <<faults, late>>
     \/ /\ Suffer("script")
        /\ late' = late \cup {<<r, cand>>}
        /\ behind' = behind \cup {r}
        /\ UNCHANGED route
  /\ UNCHANGED <<member, up, cfg, lag, failed, led, astray, snapshot, fresh, disc,
                 stream, cand, boss, blocked, old>>

\* Mutant: one router is enough.
ExecOneRouter(r) ==
  TellRouter(r) /\ pc' = "instances" /\ todo' = Known \ {cand}

\* Every router, then every other instance of the snapshot.
ExecRouter(r) ==
  /\ TellRouter(r)
  /\ IF todo = {r} THEN pc' = "instances" /\ todo' = Known \ {cand}
     ELSE pc' = pc /\ todo' = todo \ {r}

ExecInstance(n) ==
  /\ pc = "instances"
  /\ n \in todo
  /\ \/ Reached(n) /\ cfg' = [cfg EXCEPT ![n] = cand] /\ UNCHANGED astray
     \/ Missed(n, cand) /\ UNCHANGED cfg /\ astray' = (astray \/ n \in up)
  /\ todo' = todo \ {n}
  /\ pc' = IF todo = {n} THEN "discover" ELSE pc
  /\ UNCHANGED <<member, up, route, lag, failed, led, behind, snapshot, fresh, disc,
                 stream, cand, boss, blocked, old>>

(* applyFollowerRoleToCoMasters: the followers whose configuration differs *)
(* from that of the analysed master, but for those that are blocked.       *)
StartDemotion(x, b) ==
  /\ pc = "idle"
  /\ x \in stream
  /\ x.state \in DemoteStates
  /\ ~(x.differing \subseteq blocked)
  /\ Take(x)
  /\ boss' = b
  /\ pc' = "demote"
  /\ todo' = x.differing \ blocked
  /\ UNCHANGED <<nodeVars, faults, snapshot, fresh, disc, cand, blocked>>

\* Mutant: the script does not name the master.
DemoteToNobody(x) == StartDemotion(x, boss)

\* They are told to follow it.
Demote(x) == StartDemotion(x, x.master)

ExecDemote(n) ==
  /\ pc = "demote"
  /\ n \in todo
  /\ \/ Reached(n) /\ cfg' = [cfg EXCEPT ![n] = boss]
     \/ Missed(n, boss) /\ UNCHANGED cfg
  /\ astray' = (astray \/ n \in up)
  /\ blocked' = blocked \cup {n}
  /\ todo' = todo \ {n}
  /\ pc' = IF todo = {n} THEN "discover" ELSE pc
  /\ UNCHANGED <<member, up, route, lag, failed, led, behind, snapshot, fresh, disc,
                 stream, cand, boss, old>>

\* A block period ends: what was under way as the recovery ended is over, and
\* so are the scripts that timed out.
Unblock(k) ==
  /\ k \in blocked
  /\ pc = "idle"
  /\ old = Nothing
  /\ late = {}
  /\ blocked' = blocked \ {k}
  /\ UNCHANGED <<nodeVars, faults, snapshot, fresh, disc, stream, pc, cand, boss,
                 todo, old>>

Discover(d) == AskRouter(d) \/ AskMaster(d) \/ Install(d)
               \/ \E n \in Known : PollInstance(d, n)

Recover == \/ \E x \in stream : Skip(x) \/ Promote(x) \/ Demote(x)
           \/ ExecCandidate
           \/ \E r \in Routers : ExecRouter(r)
           \/ \E n \in Known : ExecInstance(n) \/ ExecDemote(n)

Next == \/ \E n \in Known : Crash(n) \/ Return(n) \/ Drift(n)
        \/ \E s \in late : LateEnds(s)
        \/ \E d \in Discoverer \cup {Forced} : Discover(d)
        \/ RouterSilent
        \/ CheckCluster
        \/ Recover
        \/ \E k \in blocked : Unblock(k)

Spec == Init /\ [][Next]_vars

(* The tickers fire for ever, requests have timeouts, the failover goes on *)
(* with what it has and comes back to the stream, a script that timed out  *)
(* does not stay on its way, block periods end.                            *)
FairSpec == /\ Spec
            /\ \A d \in Discoverer : WF_vars(Discover(d))
            /\ WF_vars(CheckCluster)
            /\ WF_vars(Recover \/ Discover(Forced))
            /\ WF_vars(\E s \in late : LateEnds(s))
            /\ SF_vars(\E k \in blocked : Unblock(k))

-----------------------------------------------------------------------------
Discovery == {NoDiscovery} \cup
             [at : {"topology", "poll"}, snap : Snapshot, left : SUBSET Storage]

TypeOK ==
  /\ member \in Seq(Storage)
  /\ up \subseteq Known
  /\ cfg \in [Storage -> Storage]
  /\ Routers \subseteq Router
  /\ route \in [Routers -> Storage]
  /\ late \subseteq (Storage \cup Router) \X Storage
  /\ lag \in [Known -> Lag]
  /\ failed \subseteq Known
  /\ led \subseteq Known
  /\ behind \subseteq Routers
  /\ astray \in BOOLEAN
  /\ faults \in [Fault -> Nat]
  /\ snapshot \in Snapshot
  /\ fresh \in BOOLEAN
  /\ disc \in [Discoverer \cup {Forced} -> Discovery]
  /\ stream \subseteq AnalysisType
  /\ pc \in {"idle", "candidate", "routers", "instances", "demote",
             "discover", "dead"}
  /\ cand \in Storage \cup {NoCand}
  /\ boss \in Storage \cup {NoCand}
  /\ todo \subseteq Storage \cup Router
  /\ blocked \subseteq Storage \cup {SetKey}
  /\ old \in [calls : SUBSET (Discoverer \cup {Current}), sent : SUBSET stream]

Serves(n) == n \in up /\ cfg[n] = n

OnlyFromFailed ==
  \A r \in Routers : route'[r] # route[r] => route[r] \in failed \/ astray

(* A router is only ever turned away from a storage that crashed, whatever *)
(* answers are lost and however old the analysis is: the monitor reports a *)
(* dead master only if no follower it reaches replicates from its master,  *)
(* and a follower that was told replicates from the one the routers know.  *)
(* A storage that went astray may report a dead master that is no longer   *)
(* the routers', just when the answer of the healthy one is lost.          *)
HealthyMasterStays == [][OnlyFromFailed]_vars

(* The candidate, elected in the analysed snapshot and looked up in the    *)
(* current one, is no master there: shouldPromoteFollower finds its        *)
(* Upstream.  The block period keeps a second analysis of the failure that *)
(* was recovered from being acted upon.  A former master that came back    *)
(* may be elected, and have no Upstream in a snapshot where the rows of a  *)
(* time before were kept.                                                  *)
CandidateIsFollower == pc = "dead" => astray

(* A demotion never takes the role from the storage all routers send their *)
(* writes to (applyFollowerRoleToCoMasters).                               *)
DemotionSparesLeader ==
  [][\A n \in Storage :
       pc = "demote" /\ cfg[n] = n /\ cfg'[n] # n
         => \E r \in Routers : route[r] # n]_vars

(* A dead master no promotion is fit for: its last topology has no         *)
(* follower that runs for the elector, or one shouldPromoteFollower may    *)
(* refuse.                                                                 *)
Refused ==
  LET Fit(n) == /\ snapshot.rows[n].lag = "near"
                /\ snapshot.rows[n].upstream = "follow"
      others == up \ {snapshot.master}
  IN  /\ snapshot.master \notin up
      /\ \/ \A n \in others : snapshot.rows[n].lag = "far"
         \/ \E n \in others : ~Fit(n) /\ snapshot.rows[n].lag # "far"

\* A storage holds the role that no router knows of, nor will be told of.
Orphaned ==
  /\ pc \notin {"routers", "instances"}
  /\ \E n \in Known : Serves(n) /\ \A r \in Routers : route[r] # n

(* A crashed master is replaced: in the end every router sends writes to a *)
(* storage that accepts them, whatever answers and scripts are lost but    *)
(* the script for a router itself (the loops of promoteFollowerToMaster    *)
(* only log errors), when no storage may come back any more.  The code     *)
(* gives up in two cases, and stays there: the elector or                  *)
(* shouldPromoteFollower refuse what the last topology said of the         *)
(* followers; or the candidate took the role after its script had timed    *)
(* out, the recovery ended without a word to the routers, and a follower   *)
(* in the master role is a network problem to the monitor, no dead master. *)
MasterIsReplaced ==
  ((\E r \in Routers : route[r] \notin up) /\ faults["return"] = 0)
    ~> \/ \A r \in Routers : Serves(route[r]) \/ r \in behind
       \/ [](Refused \/ Orphaned)

(* Two storages do not accept writes for ever: a former master that comes  *)
(* back with its old configuration is told to follow.                      *)
CoMastersSettle ==
  LET Split == \E m, n \in Storage : m # n /\ Serves(m) /\ Serves(n)
  IN  Split ~> ~Split
=============================================================================
