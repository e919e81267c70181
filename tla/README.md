# A verification model of qumomf

qumomf watches Tarantool VShard clusters. It discovers the topology of each
cluster from a router and its storages, detects a replica set that lost its
master, elects a follower and rewrites the vshard configuration of every node.
This directory holds TLA+ specifications of that logic, the TLC configurations
that check them on small instances, and proofs for every instance of what
matters most. Paths below are relative to the repository; `orchestrator/` stands
for `internal/vshard/orchestrator/`.

## 1. The system

| component | state | operations | talks to |
|---|---|---|---|
| connection pool (`internal/vshard/tarantool.go`) | map of connectors, read-write lock | `Get`, `Close` | called by every goroutine |
| cluster (`internal/vshard/cluster.go`) | snapshot, recovery flag, read-only flag, one lock | `Discover`, accessors, `StartRecovery`, `StopRecovery`, `Shutdown` | pool; callback to the coordinator |
| parser (`internal/vshard/parser.go`) | none | `ParseRouterInfo`, `ParseReplication`, `ParseInstanceInfo` | called by `Discover` |
| snapshot, replica set, instance (`snapshot.go`, `replicaset.go`, `instance.go`) | the observed topology | `Copy`, `TopologyOf`, `SameAs`, `Followers`, `AliveFollowers`, `Master`, `Idle` | share arrays of instances |
| monitor (`orchestrator/monitor.go`) | stamp of the topology analysed last | two tickers, `checkCluster`, `analyze`, `Shutdown` | starts `Discover`; one goroutine per set sends on the stream |
| failover (`orchestrator/failover.go`, `recovery.go`) | registry of recoveries | `Serve`, `checkAndRecover`, promotion, co-master demotion, `cleanup`, `Shutdown` | reads the stream, elector, hooks, cluster, nodes |
| electors (`internal/quorum`) | none | `filter`, idle and smart `ChooseMaster` | called by the failover |
| failover sorter (`orchestrator/instance_utils.go`) | none | `Less` | called by the failover |
| hooks (`orchestrator/hook.go`) | none | run the shell commands, with timeouts | called by the failover |
| coordinator (`internal/coordinator`), main | clusters, shutdown queue | `RegisterCluster`, callbacks, `Shutdown` | builds everything, writes the database |
| storage (`internal/storage/sqlite`) | rows of snapshots and recoveries | upsert, insert, three reads | callbacks of the coordinator, api |
| api, HTTP (`internal/api`, `internal/qumhttp`) | none | seven read requests | storage |
| router, sampler, config, metrics | none that changes | | |

What is hard about it:

* *Concurrency.* `Discover` is started by a ticker and by the failover and may
  overlap with itself. Analyses wait in goroutines of their own on an unbuffered
  stream. All of them share the pool, and snapshots share arrays.
* *Failure.* Any request may fail, time out with the script still on its way, or
  be retried. Routers and storages are reconfigured one by one. The process may
  end anywhere, and the block periods live in memory.
* *Ordering and staleness.* One discovery reads router, master and instances at
  different times, and the analysis of it may be taken long after. A candidate is
  elected from one snapshot and looked up in another. Of two snapshots the one
  stamped last wins, not the one read last. Saves overtake each other.
* *Time.* The block period is counted in whole seconds from the start of a
  recovery that is only registered when it ends.
* *Comparison functions* that are not orders decide who becomes the master.

`PROJECT.json` lists each hazard at its line with the properties that cover it.

## 2. The modules

| module | models | abstract data |
|---|---|---|
| `ConnRegistry` | what the pool promises: at most one connector per server, never replaced | connectors are numbers |
| `ConnPool`, `ConnPoolMC` | `pool.Get` and `pool.Close`, one action per step between lock operations | addresses are a finite set with the two maps `NoUser`, `Rules` |
| `Failover`, `FailoverMC` | the failover goroutine, its registry, the nodes' configuration, for any analyses | an analysis is the set, state, master, eligible and differing followers |
| `ReplicaSet` | a replica set as observed, and its accessors | lags and idle times are small numbers |
| `Analysis` | `analyze`, the co-masters a recovery acts on | |
| `Election` | filter, idle and smart elector, failover sorter, insertion sort | idle time counted in half seconds, the delta of the smart elector |
| `Parser` | queries, types on the wire, what is taken of an answer | an answer gives each field a kind; only distances are numbers |
| `ElectionMC` | composes `Analysis`, `Election` and `Parser` for one run | |
| `Discovery` | overlapping `Discover`, `checkCluster`, the stream | what is seen of a set is the version of the world it was read from |
| `SnapshotSort` | the arrays of instances under copy and sort in place | instances are the numbers that order their UUIDs |
| `System`, `SystemMC` | nodes, discovery, `Analysis`, failover of one replica set, end to end | no clock: a block period outlasts what is under way; three classes of lag |
| `Coordinator`, `CoordinatorMC` | process, registration, shutdown, saves, database, API | snapshots and recoveries are numbers |
| `ConnPool_proofs`, `Failover_proofs`, `Discovery_proofs`, `Coordinator_proofs`, `Analysis_proofs`, `Election_proofs`, `Parser_proofs`, `System_proofs` | the theorems of section 4 | |

### ConnPool

`m`, `readers`, `writer` are the map and the lock, `pc`, `key`, `conn` the
locals of each goroutine. A writer that has called `Lock` keeps new readers out,
as `sync.RWMutex` does. `DoubleCheck` keeps the lock on a hit, because the code
returns without `Unlock`. `returned` remembers what callers were given.

### Failover

One goroutine, so `pc` names its position: `promote`, `prehook`, `elect`,
`candidate`, `routers`, `instances` for `promoteFollowerToMaster`; `demote`,
`demotehook`, `demoteexec` for `applyFollowerRoleToCoMasters`; `register`,
`discover`, `finish` for the end of `checkAndRecover`. `log` holds every recovery
ever started, `registry` and `pending` are the ones registered and the ones of
the analysis at hand. `view[n][s]` is the master of set `s` in node `n`'s own
vshard configuration; it changes when the recovery script is applied.

The monitor is the environment: any analysis of the constant `Analysis` may
arrive at any time. Whatever the snapshot holds when the code reads it is a
choice: the candidate may be gone, routers and instances may be missing.
`Exec` succeeds or fails, and a copy may stay on its way (`late`) and be applied
at any later time, since a request that timed out is retried or given up while
the node still works on it. `Restart` ends the process at any point.
`missed` is a ghost: the nodes the promotion at hand has not settled.
A nil dereference in `shouldPromoteFollower` is the action `ElectPanics`.
`Cleanup` needs the ticker (`ticking`), which `ServeReturns` stops for good.

### ReplicaSet, Analysis, Election, Parser

`Observe` adds one instance after another with any observation, so the reachable
states are all replica sets in every order; the operators are pure and the
invariants compare them with reference statements. The slices the code filters
(`Followers`, `AliveFollowers`, `Eligible`, `Demoted`) are sets, since no uuid
comes twice, and counters that are compared with 0 or with each other are
statements about these sets. Where the order matters, in `IdleChoose` and
`InsertionSort`, it is that of the report. Go sorts up to six elements by
insertion in every release, and up to twelve from 1.19 on; the sort takes the
comparison as a set of pairs, and its recursion is a function (`Sorting`).
A set without its master has the state `"none"`: no analysis is sent.

`Parser` has a schema for each of the three answers: the kinds of MessagePack
value a field may have, and the field it is nested in. `Accepts` refuses an
answer for one field out of line. `Sent` and `GetInt64` are the two halves of an
integer's way; an int64 is below `Half`, 2^63 in the code. What is taken of the
rows is kept under the ids, in whose order the code appends the instances. Of
the answers of a router and of an instance it is kept whether they were taken.
`ElectionMC` has the elections a second time without limits (`Unlimited`), which
is what a limit of 0 stands for.

### Discovery

`Discoverer` is the number of calls that may overlap. A call copies the
snapshot (`base`), asks a router, polls each set (a fresh version, or that of
`base`, possibly absent), stamps the result with the clock and installs it
unless the current snapshot has a later stamp. `CheckCluster` and `AnalyzeSets`
are the two reads of `checkCluster`. Every set with a topology is analysed; the
case of a set whose master is missing, which sends nothing, is in `Analysis`.

### SnapshotSort

One replica set. A call copies the live array one instance at a time under the
read lock and, before it installs its own, sorts the live one: an insertion sort
whose swap is two writes, without the lock. Calls end within one second, so the
stamps never refuse an install. Each torn copy may reach the next snapshot when
the master does not answer and the copy is the fallback.

### System

`cfg[n]` and `route[r]` are the masters in the nodes' own configuration, `up`
the storages that run, `lag` how far each is from its master: near enough for
the elector, too far, or ahead. A discovery reads the router, then the master,
then each instance, in separate steps, and loses any of the answers. The
topology a master reports (`Topology`) has upstreams and lags but nothing of the
polls: no status, no fingerprint, not valid. What was known is only kept when the
master does not answer. `Analyse` applies the operators of module `Analysis` to
the snapshot and leaves out the followers the elector filters; the failover acts
on what it takes from the stream as in `Failover`, with the candidate looked up
in the snapshot of that moment and refused if it is ahead of the master or not in
upstream (`StartPromotion`). The configuration of a storage that returns is the
one of its file or the one it had.

A script that is not acknowledged was refused by a storage that does not run, or
its request timed out (`Missed`). In the second case it stays in `late` and takes
effect at any moment, or never (`LateEnds`): the recovery goes on, or ends, as
after an error. `Drift` changes a lag. `faults` bounds what may go wrong.

`failed`, `led`, `behind` and `astray` are ghosts: the storages that ever
crashed; those that acknowledged the role; the routers that did not get their
last script; and whether a storage that runs has a configuration the recoveries
do not account for, because it came back, did not acknowledge a script that names
another master, or was demoted.

Left out: the clock (the block period ends when nothing is left that was under
way as the recovery ended, and no script is late), installs that are refused,
analyses without a recovery, hooks, the restart of routers, a second set, idle
times and priorities (they exclude a follower as a lag does), which of the
followers the elector prefers (any that is left after the filter may be
elected). The copy of the snapshot and the answer of the router are one step, so
a snapshot installed between the two counts as one the call has seen. `Failover`
has the clock and the hooks, `Discovery` the refused installs and the copy as a
step of its own, `Election` the rest.

### Coordinator

`queue` is the shutdown queue; running a task adds it to `stop`, which the
goroutines look at. Monitor and failover keep what they hand over: calls of
`Discover`, goroutines waiting on the stream, recoveries that end. Each snapshot
installed and recovery ended is an item in `saving` until its goroutine stored
it or gave up. The tables outlive `Kill` and `Start`. A list may be cut off:
nobody asks `rows.Err()`. The pool's lock is taken not to be leaked; were it,
`pool.Close` would hang (run `ConnPool_leak`).

## 3. The runs

| run | instance | shows |
|---|---|---|
| `ConnPool` | 2 goroutines, 3 addresses of 2 servers | one connector per server, refinement of `ConnRegistry`, nothing but the leaked lock blocks anybody |
| `ConnPool_leak` | the same | **violated**: every `Get` returns |
| `Failover` | 1 set of 2 storages, 1 router, 2 recoveries, 1 late script, 1 restart | block period, successful promotions settle what they reached, routers only name storages that took the role, recoveries end, `Serve` stops |
| `Failover_cleanup` | 2 sets of 2 storages | **violated**: expired recoveries are dropped |
| `Failover_cluster` | 2 sets | **violated**: the block period of the configuration file is per cluster |
| `Rules` | master and up to 3 followers; lags -1 to 2, idle 0 to 1.5 s, priorities -1 to 1, 2 fingerprints, 3 statuses; one damaged field per answer | promotions are justified, no problem is reported just when all replicate with one configuration, co-masters are reached; who is elected, that somebody is, with limits and without, in which order nodes are told; answers are taken whole, lags keep their sign |
| `Election_uptodate` | up to 3 followers, lags -1 to 2 | **violated**: the smart elector prefers the most up to date replica |
| `Discovery` | 2 overlapping calls, 1 set, 2 snapshots | when a snapshot may go back, the monitor's stamp, at most two analyses of one topology, none passed over, all taken |
| `System` | 2 or 3 storages, 1 or 2 routers, 6 mixes of faults | as long as no storage went astray a healthy master stays and the candidate is a follower; a crashed master is replaced, with two exceptions; two masters do not last |
| `System_stale` | 3 storages, 2 routers, one crash and return | **violated**: a demotion spares the leader |
| `Coordinator` | 1 cluster, 2 snapshots, 2 recoveries, 1 kill | order and end of the shutdown; what is stored was installed, recoveries once, known clusters are found |
| `SnapshotSort` | 3 instances, 2 calls | **violated**: a copy of the snapshot is whole |

The violated runs each check a sentence of a comment, a test or the
configuration file; `findings` in `PROJECT.json` quotes it.

* `ConnPool_leak`: `pool.Get` returns with the write lock when another goroutine
  was faster, and everybody blocks.
* `Failover_cleanup`: `defer cleanupTick.Stop()` stands in `Serve`, which returns
  at once, so the one minute ticker never fires.
* `Failover_cluster`: the block period is kept by set and by instance.
* `Election_uptodate`: lags of both signs make a cycle of the comparison.
* `System_stale`: a router asked before a promotion and storages asked after it
  look like two masters of which the new one is wrong. Once it was demoted, on
  some traces nobody holds the role, every analysis is
  `InconsistentVShardConfiguration`, and no recovery acts on that; on others a
  former master that came back with its own configuration, and was not told of
  the promotion, still holds it.
* `SnapshotSort`: `SameAs` sorts the live snapshot while it is copied.

Two ways in which a dead master is never replaced are the exceptions of
`MasterIsReplaced`, and the run fails without either:

* *Unacknowledged candidate* (`Orphaned`). The candidate takes the role but its
  request has timed out. The recovery ends at once (`failover.go:279`), no router
  is told. From then on the candidate has the status `master`, which counts as
  replicating (`monitor.go:124`), so every later analysis is `NetworkProblems`
  (`monitor.go:153`), and no recovery acts on that.
* *Refusal for good* (`Refused`). With the master dead, its last report of the
  followers stays what it was. A candidate ahead of it (`failover.go:334`) is
  refused again by the next recovery, and a follower beyond the limits
  (`elector.go:45-75`) is not elected by it either.

Behaviour worth knowing that no run shows: the block period does not survive a
restart; a replica in front of the master wins against one level with it and is
then refused by `shouldPromoteFollower`; `applyFollowerRoleToCoMasters` also
reconfigures followers that are no masters; `NoProblem` is reported when the
storages agree on another master than the router (a co-master with the same
fingerprint, a case of `monitor_test.go` that `NoProblemIsHealthy` counts as
healthy); a router that missed the
script of a promotion stays behind, since later discoveries may ask another one;
a node that was not polled is told before one that was when the latter has an
alert or more idle time, although `instance_utils.go:27` says otherwise
(`PolledFirst` states what holds); a stored snapshot may be older than the
current one, and recoveries are shown for a cluster whose snapshot was not
stored.

Two limits of the claims came out of the proofs, beyond the bounds of the runs:

* *The smart elector.* Four followers that only differ in priority (0, 1, 3, 2)
  and silence (0, 0.5, 1, 0.5 s), reported in this order, elect the second one,
  although the fourth has a higher priority and the same silence: each pair
  within half a second goes by priority and the others by silence, which is no
  order. Four with lags -1, 0, 1, -1 do the same with lags of both signs.
  `SmartPrefersPriority` has both as its conditions, and then holds for any
  number of followers.
* *Storages gone astray.* A follower that misses the script of a promotion goes
  on following the dead master, until the script arrives late if it does. When the answer of the new, healthy master is
  lost once, that follower is all the analysis has to go by, and the healthy
  master is replaced. And a former master that came back may be elected while
  the snapshot has its row of the time it was master, without an upstream, which
  `shouldPromoteFollower` dereferences. `HealthyMasterStays` and
  `CandidateIsFollower` therefore say what holds until `astray`.

*Bounds.* Two goroutines suffice for a hit, a miss and a late miss on one
server. Two recoveries are one after another, in one block period and, with a
restart, in two processes; one late script is enough to overtake the second one.
Block times are zero there, so that an entry is hit exactly at its end and
expires one second later; the invariants of that run are proved for every
topology and block time. With three followers a comparison can be a cycle, and
counts can be none, some, all. Lags -1 to 2 are one of each sign and both sides
of the limit; idle times 0 to 3 half seconds are both sides of the delta and of
the limit; followers are interchangeable, hence the symmetry. In `Rules` each
family of properties varies the fields its rules look at (`ToAnalyse`, `ToElect`,
`ToOrder`), and answers are checked apart from replica sets. Two snapshots, a
clock up to three and a start delay of two give a call that starts before and
ends after another one. `System` spends its faults one mix at a time
(`MCScenario`): three lost answers at most; one crash, with one follower of two
too far behind, with a lost answer, with a script that times out, with a return,
or while the only follower, at first too far behind, catches up or gets ahead.
The smaller mixes run with two storages.
The safety properties of that run are proved for all mixes. Two
snapshots and two recoveries are enough for saves to overtake each other. One
cluster is run, as clusters only meet in the queue and the tables; the proofs
cover any number. `MaxTime`, `MaxRecovery`, `MaxLate`, `MaxRestart`, `MaxConn`,
`MaxWorld`, `MaxSnapshot`, `MaxWaiting`, `MaxCrash` and
`Scenario` are the only bounds in guards. Deadlock is not checked where the
bounds, a stopped process or the leaked lock really end a behaviour.

*Fairness.* In `ConnPool` a goroutine runs when it can, and `sync.RWMutex` lets a
blocked writer or reader in eventually, hence strong fairness of the
acquisitions. In `Failover` the goroutine runs (hooks and requests have
timeouts) and `select` picks at random among ready cases, hence strong fairness
of the cleanup tick and of the stop. In `Discovery` the tickers fire for ever, a
call ends by its timeout of five seconds, and the failover comes back to the
stream, where Go serves blocked senders in turn. `System` assumes the same of
ticker, check and failover, that a script which timed out does not stay on its
way for ever (it arrives, or it is lost with its connection), and strong fairness
that a block period ends, as it does by the clock whatever the failover is
doing. In `Coordinator` main, each
goroutine, each save and the answer to a request go on. Nothing forces analyses,
crashes, late scripts, signals, requests or a new process.

*Mutants.* Next to some operators stands a variant with a plausible bug, marked
`Mutant`. No specification uses them: with the variant in place of the operator
the run named in `PROJECT.json` fails, so each property can tell.

## 4. What is proved

The theorems hold for all values of the constants, under the assumptions named
in the modules:

| assumption | says | because |
|---|---|---|
| `NormaliseAssumption`, `NoProcAssumption` | the maps of addresses have their domains, no goroutine is the placeholder | types |
| `TopologyAssumption`, `AnalysisAssumption`, `BlockTimeAssumption` | an analysis names followers of its own set, block times are numbers | `analyze` builds it from one set |
| `CoordinatorAssumption` | placeholders are no clusters, bounds are numbers | types |
| `MasterAssumption`, `UUIDAssumption`, `NoneAssumption` | the master is one of finitely many instances, "none" is not | a report is a slice; "none" stands for the error of an election |
| `StatusAssumption`, `NumberAssumption` | replication statuses are those of `vshard.storage.info()`; lags and priorities are integers, idle times not negative | types; Tarantool counts idle time up from the last event |
| `LimitAssumption` | the limits of the electors are not negative | a negative one, which the configuration does not refuse, would exclude every ordinary follower |
| `ParserAssumption` | ids are finitely many positive numbers, LSNs fit an int64 | Tarantool |
| `ScenarioAssumption`, `LeaderAssumption` | a scenario lists storages, the leader of the files among them, and counts faults; placeholders are neither storages nor calls, routers are no storages | types |

`Discovery` needs none.

* `PoolTypes`, `OneConnectorPerServer`, `PoolImplementsRegistry`. That callers
  hold the same connector is not inductive. `IInv` adds that whoever is in the
  write section owns the lock, that the map has no connector while its owner is
  about to open one, that a local hit is what the map holds, and that what was
  returned is still there. The refinement maps `Create` to `Open`, each return to
  `Hand`, and all lock steps to stuttering.
* `FailoverTypes`, `BlockPeriodHolds`. The block period says nothing of the
  registry the code consults. `Book` adds that each recovery of this process is
  registered, still pending, or expired: what cleanup drops is expired, and the
  clock only moves forward. `Flow` ties variables to the program counter and
  adds that a pending recovery never has the key the next one is started with.
* `RoutersFollowMastersHolds`. `RouterInv` adds that from the router loop on the
  candidate has taken the role, and that a late script addressed to a router
  names a storage that has. It needs no assumption on which requests fail.
* `SuccessSettlesReachedHolds`. `SettleInv` follows the loops: while they run,
  every node already visited and not missed names the candidate, and no
  recovery is marked successful before they end.
* `DiscoveryTypes`, `NeverAheadOfSnapshotHolds`, `NoStaleOverwriteHolds`.
  `Stamps` adds that no stamp is ahead of the clock and that the stamp read by a
  check under way is not ahead of the snapshot. `Versions` adds that a copy with
  the number of the current snapshot holds that snapshot, and that what a call
  has collected is no older than its copy.
* `AnalyzedAtMostTwiceHolds`. `InTurn` adds that the checks which analysed one
  snapshot follow each other, and that until the monitor holds the stamp of the
  current snapshot only the last check can have analysed it.
* `CoordinatorTypes`, `StopOrderHolds`, `StoredIsInstalledHolds`,
  `RecoveryStoredOnceHolds`, `KnownIsFoundHolds`. `Chain` adds that behind each
  task in the queue stands the one it waits for, unless that has run. `Origins`
  and `History` add that what is being saved has been installed or has ended, and
  that a recovery in the table is not being saved any more.
* `ReplicaSetTypes`, `PromotionIsJustifiedHolds`, `NoProblemIsHealthyHolds`,
  `CoMasterIsDemotedHolds`. `Reported` adds that the instances of a report have
  different uuids, from which the bound on its length follows. `PromotionStates`
  reads the chain of conditions of `analyze` for the two states that matter.
  `NoProblemIsHealthyHolds` goes both ways: what reaches the end of the chain is
  healthy in the sense of the property, and all that is healthy reaches it.
* `ElectedMayBePromotedHolds`, `SomebodyIsElectedHolds`, `IdleIsLatestHolds`,
  `SmartKeepsPrecedenceHolds`, `SmartPrefersPriorityHolds`, `PolledFirstHolds`.
  The comparisons are not orders, so "the result is sorted" is not what a sort by
  them yields. `Sorted` says what it does yield: the elements of the input, in
  every transitive relation `before` the comparison keeps to (`Keeps`: less
  implies `before`, not less implies its converse). Each theorem chooses its own
  relation: the classes; the classes with the lags; with priority and silence;
  polled before not polled. `SortingStep` shows that the recursive function of
  the sort exists, and both go by the least n for which they fail (`Least`),
  since the induction theorems of the library cannot be used.
* `TopologyIsWholeHolds`, `LagSurvivesHolds`. Both are inductive as they stand.
  `Conversion` is the way of an integer there and back, `RowsSent` and
  `AnswerTaken` what becomes of an answer as a whole, `RowParsed`,
  `RouterAccepted` and `InfoAccepted` that nothing undamaged is refused.
* `SystemTypes`, `CandidateIsFollowerHolds`, `HealthyMasterStaysHolds`. An
  analysis is taken long after the storages were asked, so `IInv` follows it
  back. `Nodes`: outside the loops of a promotion every storage that runs follows
  the one that acknowledged the role last, or all that did so crashed; routers
  only name such storages. `Pending`, part of it: a script that is still to
  arrive tells a candidate to lead when nobody else does, or a router of the only
  one that may; the block period keeps it from meeting a second promotion.
  `Upstreamless`: only storages in `led` have no upstream in any row.
  `Observations`: rows that tell of a dead master tell the truth (`Honest`), in a
  discovery, in the snapshot, and in an analysis on the stream (`Sound`); a
  promotion makes that false for all that was under way at the time, and those
  are exactly the ones its block period keeps from being acted upon (`Settled`,
  `Free`). All of it holds until `astray`.

Only model-checked: the liveness properties (`BlockedOnlyByLeak`, `RecoveryEnds`,
`ShutdownStops`, `NewTopologyIsAnalyzed`, `AnalysisIsTaken`, `MasterIsReplaced`,
`CoMastersSettle`, `ShutdownReturns`), because fairness and `ENABLED` are out of
the prover's reach. Every invariant and action property of a passing run is
proved; `UnlimitedElects` is `SomebodyIsElectedHolds` for limits of 0.

## 5. What is not modelled

Log lines, metrics, `String`, hook placeholders, the sampler and the health
levels: nothing in the recovery logic reads them. The configuration is read once;
its values are constants. HTTP parameters, the search for a set or an instance in
a stored snapshot, and JSON are pure functions of one row. `SetReadOnly` and
`SetPriorities` have no caller at run time, so `ReadOnly` is a constant of
`Failover`. The two pieces of an alert are not told apart, nor the effects of a
hook on the nodes. The race of main and the HTTP goroutine on the variable `err`
at the end of the process decides about its exit code only. Two storages
accepting writes between the candidate's reconfiguration and the old master's is
inherent in the order of `promoteFollowerToMaster`; `CoMastersSettle` says that it
ends.

## 6. Plan

Done, in this order: `ConnPool` with `ConnRegistry`; `Failover`; `ReplicaSet`,
`Analysis`, `Election`; `Discovery`; `System`; `Parser`; `Coordinator`;
`SnapshotSort`; the proofs of section 4.

Next, by importance:

1. `System` with a clock and two replica sets, as one refinement of `Failover`
   and `Discovery`.
2. What still holds of `System` once a storage went astray: which analyses can
   then name a healthy master as dead, as an invariant of their own.
3. That `System` with one set implements the promotion of `Failover`, step by
   step, so that its theorems need no second proof.
