----------------------------- MODULE Coordinator -----------------------------
(***************************************************************************)
(* The process around the clusters: registration and shutdown              *)
(* (cmd/qumomf/main.go, internal/coordinator), the goroutines that save    *)
(* snapshots and recoveries (internal/storage/sqlite) and the requests     *)
(* answered from the database (internal/api).                              *)
(*                                                                         *)
(* Monitor and failover appear with what matters here: whether they run,   *)
(* what they are in the middle of, and what they hand over.  A statement   *)
(* waits for the only connection of the database; it is one step, which    *)
(* the query timeout may forestall.                                        *)
(***************************************************************************)
EXTENDS Integers, Sequences, FiniteSets, SequencesExt

CONSTANTS Cluster,      \* names of the clusters in the configuration
          MaxSnapshot,  \* bound on the snapshots of each cluster
          MaxRecovery,  \* bound on the recoveries of each cluster
          MaxWaiting,   \* bound on the analyses that wait on a stream
          MaxCrash      \* bound on the times the process is killed

ASSUME CoordinatorAssumption ==
  /\ MaxSnapshot \in [Cluster -> Nat] /\ MaxRecovery \in [Cluster -> Nat]
  /\ MaxWaiting \in Nat /\ MaxCrash \in Nat

VARIABLES main,         \* where the main goroutine is
          queue,        \* Coordinator.shutdownQueue
          stop,         \* the shutdown tasks that have run
          clusters,     \* what runs for each cluster, see Unregistered
          latest,       \* the last snapshot installed, 0 for the empty one
          ended,        \* how many recoveries ended
          saving,       \* snapshots and recoveries being saved
          stored,       \* the table of snapshots: the row of a name, or None
          rows,         \* the table of recoveries
          asked,        \* the API request at hand, or None
          known,        \* ghost: clusters an answer has shown a snapshot of
          crashes       \* how often the process was killed

mainVars  == <<main, queue, stop>>
tables    == <<stored, rows>>
apiVars   == <<asked, known>>
history   == <<latest, ended>>
vars      == <<mainVars, clusters, history, saving, tables, apiVars,
               crashes>>

None == <<>>

(* monitor and failover: what the goroutine does.  waiting: goroutines     *)
(* that wait to send an analysis.  calling: a call of Discover started by  *)
(* the ticker is under way.  analyzed: the snapshot analysed last.         *)
Unregistered == [monitor |-> "none", failover |-> "none", waiting |-> 0,
                 calling |-> FALSE, analyzed |-> 0]

Registered == [Unregistered EXCEPT !.monitor = "running", !.failover = "idle"]

Item(c, kind, id) == [of |-> c, kind |-> kind, id |-> id]

Fresh == /\ main' = "registering" /\ queue' = <<>> /\ stop' = {}
         /\ clusters' = [c \in Cluster |-> Unregistered]
         /\ asked' = None

Init == /\ main = "registering" /\ queue = <<>> /\ stop = {}
        /\ clusters = [c \in Cluster |-> Unregistered]
        /\ latest = [c \in Cluster |-> 0] /\ ended = [c \in Cluster |-> 0]
        /\ saving = {}
        /\ stored = [c \in Cluster |-> None] /\ rows = <<>>
        /\ asked = None /\ known = {}
        /\ crashes = 0

-----------------------------------------------------------------------------
(* main and Coordinator.                                                   *)

Running == main \notin {"exited", "killed"}

\* RegisterCluster: once for each name, in the order of a map.
RegisterCluster(c) ==
  /\ main = "registering" /\ clusters[c] = Unregistered
  /\ clusters' = [clusters EXCEPT ![c] = Registered]
  /\ queue' = queue \o <<<<"pool", c>>, <<"monitor", c>>, <<"failover", c>>>>
  /\ UNCHANGED <<main, stop, history, saving, tables, apiVars, crashes>>

MainTo(from, to) ==
  /\ main = from /\ main' = to
  /\ UNCHANGED <<queue, stop, clusters, history, saving, tables, apiVars,
                 crashes>>

\* Signals are only caught once every cluster is registered.
Serve == /\ \A c \in Cluster : clusters[c] # Unregistered
         /\ MainTo("registering", "serving")

Interrupt == MainTo("serving", "stopping")

Run(task, rest) ==
  /\ main = "stopping" /\ queue # <<>>
  /\ stop' = stop \cup {task} /\ queue' = rest
  /\ UNCHANGED <<main, clusters, history, saving, tables, apiVars, crashes>>

\* Mutant: the tasks run in the order in which they were added.
ShutdownForward == Run(Head(queue), Tail(queue))

\* Mutant: Shutdown of the monitor waits for the goroutines it started.
ShutdownWaits ==
  /\ queue # <<>>
  /\ Last(queue)[1] = "monitor" => clusters[Last(queue)[2]].waiting = 0
  /\ Run(Last(queue), Front(queue))

(* Coordinator.Shutdown: the tasks from the last to the first.  Those of   *)
(* monitor and failover put a word into a channel that has room for it.    *)
Shutdown == Run(Last(queue), Front(queue))

\* server.Shutdown takes no new requests and waits for the one at hand.
CloseServer == queue = <<>> /\ MainTo("stopping", "closing")

\* The end of the process ends every goroutine, whatever it is doing.
End(how) ==
  /\ main' = how
  /\ saving' = {}
  /\ asked' = None
  /\ clusters' = [c \in Cluster |-> Unregistered]
  /\ UNCHANGED <<queue, stop, history, tables, known>>

Exit == main = "closing" /\ asked = None /\ End("exited") /\ UNCHANGED crashes

Kill == /\ Running /\ crashes < MaxCrash /\ crashes' = crashes + 1
        /\ End("killed")

(* A new process finds the tables of the old one.  Snapshots and           *)
(* recoveries are told apart by their time, so their numbers go on.        *)
Start ==
  /\ main = "killed" /\ Fresh
  /\ UNCHANGED <<history, saving, tables, known, crashes>>

-----------------------------------------------------------------------------
(* Monitor and failover of a cluster.                                      *)

Step(c, field, from, to) ==
  /\ Running /\ clusters[c][field] = from
  /\ clusters' = [clusters EXCEPT ![c][field] = to]

NothingElse == UNCHANGED <<mainVars, history, saving, tables, apiVars,
                           crashes>>

\* Mutant: the callback is called for a refused snapshot as well.
InstallSavesRefused(c) ==
  \/ /\ UNCHANGED latest
     /\ saving' = saving \cup {Item(c, "snapshot", latest[c] + 1)}
  \/ /\ latest[c] < MaxSnapshot[c]
     /\ latest' = [latest EXCEPT ![c] = @ + 1]
     /\ saving' = saving \cup {Item(c, "snapshot", latest'[c])}

\* Mutant: the callback is given the snapshot that was replaced.
InstallSavesOld(c) ==
  \/ UNCHANGED <<latest, saving>>
  \/ /\ latest[c] < MaxSnapshot[c]
     /\ latest' = [latest EXCEPT ![c] = @ + 1]
     /\ saving' = saving \cup {Item(c, "snapshot", latest[c])}

(* The end of Discover: a snapshot is installed and a goroutine saves it,  *)
(* or it is refused or the router could not be asked, as after the pool    *)
(* was closed.                                                             *)
Install(c) ==
  \/ UNCHANGED <<latest, saving>>
  \/ /\ latest[c] < MaxSnapshot[c]
     /\ latest' = [latest EXCEPT ![c] = @ + 1]
     /\ saving' = saving \cup {Item(c, "snapshot", latest'[c])}

Tick(c) ==
  /\ clusters[c].monitor = "running" /\ latest[c] < MaxSnapshot[c]
  /\ Step(c, "calling", FALSE, TRUE) /\ NothingElse

Discovered(c) ==
  /\ Step(c, "calling", TRUE, FALSE) /\ Install(c)
  /\ UNCHANGED <<mainVars, ended, tables, apiVars, crashes>>

\* checkCluster: an analysis of a new snapshot waits on the stream.
CheckCluster(c) ==
  /\ Running /\ clusters[c].monitor = "running"
  /\ clusters[c].analyzed < latest[c] /\ clusters[c].waiting < MaxWaiting
  /\ clusters' = [clusters EXCEPT ![c].analyzed = latest[c],
                                  ![c].waiting = @ + 1]
  /\ NothingElse

MonitorStops(c) ==
  /\ <<"monitor", c>> \in stop
  /\ Step(c, "monitor", "running", "stopped") /\ NothingElse

\* The failover takes an analysis, and recovers unless it says all is well.
Take(c) ==
  /\ Running /\ clusters[c].failover = "idle" /\ clusters[c].waiting > 0
  /\ \E to \in {"idle", "recovering"} :
       clusters' = [clusters EXCEPT ![c].failover = to, ![c].waiting = @ - 1]
  /\ NothingElse

\* A recovery ended, well or not, the first one of an analysis or another
\* one: a goroutine saves a copy of it.
RecoveryEnds(c) ==
  /\ \E from \in {"recovering", "discovering"} :
       Step(c, "failover", from, "discovering")
  /\ ended[c] < MaxRecovery[c] /\ ended' = [ended EXCEPT ![c] = @ + 1]
  /\ saving' = saving \cup {Item(c, "recovery", ended'[c])}
  /\ UNCHANGED <<mainVars, latest, tables, apiVars, crashes>>

\* The block period forbids it: nothing was recovered.
RecoveryBlocked(c) == Step(c, "failover", "recovering", "idle") /\ NothingElse

ForceDiscover(c) ==
  /\ Step(c, "failover", "discovering", "idle") /\ Install(c)
  /\ UNCHANGED <<mainVars, ended, tables, apiVars, crashes>>

\* select takes the stop or a waiting analysis, at random.
FailoverStops(c) ==
  /\ <<"failover", c>> \in stop
  /\ Step(c, "failover", "idle", "stopped") /\ NothingElse

-----------------------------------------------------------------------------
(* The database.                                                           *)

(* Mutant: the old row is deleted first, and the timeout may come between. *)
SaveSnapshotReplaces(j) ==
  /\ j.kind = "snapshot"
  /\ \E row \in {None, <<j>>} : stored' = [stored EXCEPT ![j.of] = row]
  /\ UNCHANGED rows

\* The upsert: whatever is saved last, not the latest, is kept.
SaveSnapshot(j) ==
  /\ j.kind = "snapshot" /\ stored' = [stored EXCEPT ![j.of] = <<j>>]
  /\ UNCHANGED rows

SaveRecovery(j) ==
  /\ j.kind = "recovery" /\ rows' = Append(rows, j) /\ UNCHANGED stored

(* Mutant: after a timeout, which may come late, there is a second try.    *)
SaveTwice(j) ==
  /\ Running /\ j \in saving
  /\ \/ SaveSnapshot(j) \/ SaveRecovery(j)
  /\ \/ saving' = saving \ {j}
     \/ Len(rows') < 3 /\ UNCHANGED saving
  /\ UNCHANGED <<mainVars, clusters, history, apiVars, crashes>>

(* onClusterDiscovered, onClusterRecovered: an error, such as the timeout  *)
(* for the connection, is logged and there is no second try.               *)
Save(j) ==
  /\ Running /\ j \in saving
  /\ saving' = saving \ {j}
  /\ SaveSnapshot(j) \/ SaveRecovery(j) \/ UNCHANGED tables
  /\ UNCHANGED <<mainVars, clusters, history, apiVars, crashes>>

-----------------------------------------------------------------------------
(* The API.                                                                *)

Request == ({"Clusters"} \X {None}) \cup ({"Snapshot", "Recoveries"} \X Cluster)

Ask(q) ==
  /\ main \in {"registering", "serving", "stopping"} /\ asked = None
  /\ asked' = q
  /\ UNCHANGED <<mainVars, clusters, history, saving, tables, known,
                 crashes>>

Show(shown) ==
  /\ asked' = None
  /\ known' = known \cup {j.of : j \in {k \in shown : k.kind = "snapshot"}}
  /\ UNCHANGED <<mainVars, clusters, history, saving, tables, crashes>>

(* GetClusters, for the list of clusters and the alerts: rows are read     *)
(* until there are no more or the query times out, and nobody asks which.  *)
GetClusters ==
  /\ Running /\ asked = <<"Clusters", None>>
  /\ \E some \in SUBSET {c \in Cluster : stored[c] # None} :
       Show({stored[c][1] : c \in some})

(* GetClusterSnapshot, for a snapshot, a replica set, an instance and the  *)
(* alerts of a cluster: without a row the cluster is not found.            *)
GetClusterSnapshot(c) ==
  /\ Running /\ asked = <<"Snapshot", c>>
  /\ Show(ToSet(stored[c]))

\* GetRecoveries: cut off as the clusters are; no rows are no error.
GetRecoveries(c) ==
  /\ Running /\ asked = <<"Recoveries", c>>
  /\ \E n \in 0..Len(rows) :
       Show({j \in ToSet(SubSeq(rows, 1, n)) : j.of = c})

\* An error of the database is the answer.
AnswerFails ==
  /\ Running /\ asked # None
  /\ asked' = None
  /\ UNCHANGED <<mainVars, clusters, history, saving, tables, known,
                 crashes>>

-----------------------------------------------------------------------------
Main == Shutdown \/ CloseServer \/ Exit

Answer == \/ GetClusters \/ AnswerFails
          \/ \E c \in Cluster : GetClusterSnapshot(c) \/ GetRecoveries(c)

Goroutine(c) ==
  \/ Discovered(c) \/ MonitorStops(c) \/ Take(c) \/ RecoveryEnds(c)
  \/ RecoveryBlocked(c) \/ ForceDiscover(c) \/ FailoverStops(c)

Next ==
  \/ \E c \in Cluster : \/ RegisterCluster(c) \/ Tick(c) \/ CheckCluster(c)
                        \/ Goroutine(c)
  \/ Serve \/ Interrupt \/ Main \/ Kill \/ Start
  \/ \E j \in saving : Save(j)
  \/ \E q \in Request : Ask(q)
  \/ Answer

(* Go runs every goroutine, and each statement and request has a timeout.  *)
(* Nothing forces signals, requests or a new process.                      *)
Spec == /\ Init /\ [][Next]_vars
        /\ WF_vars(Main) /\ WF_vars(Answer)
        /\ WF_vars(\E j \in saving : Save(j))
        /\ \A c \in Cluster : WF_vars(Goroutine(c))

-----------------------------------------------------------------------------
Task  == {"pool", "monitor", "failover"} \X Cluster
Saved == [of : Cluster, kind : {"snapshot", "recovery"}, id : Nat \ {0}]

ClusterType == [monitor : {"none", "running", "stopped"},
             failover : {"none", "idle", "recovering", "discovering", "stopped"},
             waiting : 0..MaxWaiting, calling : BOOLEAN, analyzed : Nat]

TypeOK ==
  /\ main \in {"registering", "serving", "stopping", "closing", "exited",
               "killed"}
  /\ queue \in Seq(Task) /\ stop \subseteq Task
  /\ clusters \in [Cluster -> ClusterType]
  /\ latest \in [Cluster -> Nat] /\ ended \in [Cluster -> Nat]
  /\ saving \subseteq Saved
  /\ stored \in [Cluster -> Seq(Saved)] /\ \A c \in Cluster : Len(stored[c]) <= 1
  /\ rows \in Seq(Saved)
  /\ asked \in {None} \cup Request
  /\ known \subseteq Cluster
  /\ crashes \in 0..MaxCrash

(* The shutdown tasks run in reverse (coordinator.go:99): nobody closes    *)
(* the connections of a cluster whose monitor or failover still expects to *)
(* run, and no monitor is told to stop before the failover it feeds.       *)
StopOrder ==
  \A c \in Cluster :
    /\ <<"pool", c>> \in stop => <<"monitor", c>> \in stop
    /\ <<"monitor", c>> \in stop => <<"failover", c>> \in stop

(* The API never shows a topology that qumomf itself did not act upon:     *)
(* what is stored under a name was installed for that cluster, however     *)
(* saves overtake each other, over restarts (cluster.go:379-386).          *)
StoredIsInstalled ==
  \A c \in Cluster : \A j \in ToSet(stored[c]) :
    j.of = c /\ j.id \in 1..latest[c]

(* The history shows a recovery once, and none that has not ended, whether *)
(* saves time out or the process ends (SaveRecovery in sqlite.go).         *)
RecoveryStoredOnce ==
  /\ \A i, j \in DOMAIN rows : i # j => rows[i] # rows[j]
  /\ \A j \in ToSet(rows) : j.id <= ended[j.of]

(* A cluster that the API has shown is found from then on, also after a    *)
(* restart: saving never takes a row away (GetClusterSnapshot).            *)
KnownIsFound == \A c \in known : stored[c] # None

(* Shutdown returns and the process ends, in the middle of recoveries,     *)
(* discoveries, saves and requests, and although goroutines may wait for   *)
(* ever to send an analysis nobody takes (monitor.go:85).                  *)
ShutdownReturns == main = "stopping" ~> main \in {"exited", "killed"}
=============================================================================
