------------------------- MODULE Coordinator_proofs -------------------------
(***************************************************************************)
(* For any number of clusters, snapshots, recoveries and restarts: the     *)
(* types, the order in which the parts of a cluster stop, and what may be  *)
(* in the database.                                                        *)
(*                                                                         *)
(* The order of the stops is not inductive: Chain adds that the task that  *)
(* has to run before another one is the next one in the queue, or has run. *)
(* Nor is what is stored: Origins and History add what the goroutines that *)
(* have still to save hold, and that they hold none of the rows.           *)
(***************************************************************************)
EXTENDS Coordinator, TLAPS

After(task) == IF task[1] = "pool" THEN <<"monitor", task[2]>>
               ELSE <<"failover", task[2]>>

Chain ==
  \A k \in DOMAIN queue : queue[k][1] # "failover" =>
    \/ After(queue[k]) \in stop
    \/ k + 1 \in DOMAIN queue /\ queue[k + 1] = After(queue[k])

\* What is saved and stored has been installed, or has ended.
Origins ==
  /\ \A j \in saving : j.id <= IF j.kind = "snapshot" THEN latest[j.of]
                               ELSE ended[j.of]
  /\ \A c \in Cluster : \A k \in DOMAIN stored[c] :
       /\ stored[c][k].kind = "snapshot" /\ stored[c][k].of = c
       /\ stored[c][k].id <= latest[c]

\* A recovery is being saved, or is in the table, and only once.
History ==
  /\ \A k \in DOMAIN rows : /\ rows[k].kind = "recovery" /\ rows[k] \notin saving
                            /\ rows[k].id <= ended[rows[k].of]
  /\ \A k, l \in DOMAIN rows : k # l => rows[k] # rows[l]

IInv == /\ TypeOK
        /\ Chain /\ StopOrder
        /\ Origins /\ History /\ KnownIsFound

-----------------------------------------------------------------------------
(* The types.                                                              *)

\* Before the first cluster is registered.
LEMMA InitTypes == Init => TypeOK
<1> SUFFICES ASSUME Init PROVE TypeOK
  OBVIOUS
<1>1. Unregistered \in ClusterType
  BY CoordinatorAssumption DEF Unregistered, ClusterType
<1> QED
  BY <1>1, CoordinatorAssumption DEF Init, TypeOK, None

MonitorState  == {"none", "running", "stopped"}
FailoverState == {"none", "idle", "recovering", "discovering", "stopped"}

\* The fields of a cluster's record that the goroutines change.
LEMMA FieldTypes ==
  ASSUME NEW r \in ClusterType
  PROVE  /\ \A m \in MonitorState : [r EXCEPT !.monitor = m] \in ClusterType
         /\ \A f \in FailoverState : [r EXCEPT !.failover = f] \in ClusterType
         /\ \A b \in BOOLEAN : [r EXCEPT !.calling = b] \in ClusterType
         /\ \A m \in MonitorState, f \in FailoverState :
              [r EXCEPT !.monitor = m, !.failover = f] \in ClusterType
         /\ \A n \in Nat, w \in 0..MaxWaiting :
              [r EXCEPT !.analyzed = n, !.waiting = w] \in ClusterType
         /\ \A f \in FailoverState, w \in 0..MaxWaiting :
              [r EXCEPT !.failover = f, !.waiting = w] \in ClusterType
  BY DEF ClusterType, MonitorState, FailoverState

\* A goroutine moves on: a field of its cluster's record gets another value.
LEMMA StepTypes ==
  ASSUME TypeOK, NEW c \in Cluster,
         \/ \E m \in MonitorState : clusters' = [clusters EXCEPT ![c].monitor = m]
         \/ \E f \in FailoverState : clusters' = [clusters EXCEPT ![c].failover = f]
         \/ \E b \in BOOLEAN : clusters' = [clusters EXCEPT ![c].calling = b]
  PROVE  clusters' \in [Cluster -> ClusterType]
<1>1. PICK r \in ClusterType : clusters' = [clusters EXCEPT ![c] = r]
  <2>1. clusters[c] \in ClusterType
    BY DEF TypeOK
  <2>2. CASE \E m \in MonitorState : clusters' = [clusters EXCEPT ![c].monitor = m]
    <3>1. PICK m \in MonitorState : clusters' =
            [clusters EXCEPT ![c] = [clusters[c] EXCEPT !.monitor = m]]
      BY <2>2
    <3> QED
      BY <2>1, <3>1, FieldTypes
  <2>3. CASE \E f \in FailoverState : clusters' = [clusters EXCEPT ![c].failover = f]
    <3>1. PICK f \in FailoverState : clusters' =
            [clusters EXCEPT ![c] = [clusters[c] EXCEPT !.failover = f]]
      BY <2>3
    <3> QED
      BY <2>1, <3>1, FieldTypes
  <2>4. CASE \E b \in BOOLEAN : clusters' = [clusters EXCEPT ![c].calling = b]
    <3>1. PICK b \in BOOLEAN : clusters' =
            [clusters EXCEPT ![c] = [clusters[c] EXCEPT !.calling = b]]
      BY <2>4
    <3> QED
      BY <2>1, <3>1, FieldTypes
  <2> QED
    BY <2>2, <2>3, <2>4
<1> QED
  BY <1>1 DEF TypeOK

\* Discover ends with or without a new snapshot, which is then to be saved.
LEMMA InstallTypes ==
  ASSUME TypeOK, NEW c \in Cluster, Install(c)
  PROVE  latest' \in [Cluster -> Nat] /\ saving' \subseteq Saved
<1>1. CASE UNCHANGED <<latest, saving>>
  BY <1>1 DEF TypeOK
<1>2. CASE /\ latest' = [latest EXCEPT ![c] = @ + 1]
           /\ saving' = saving \cup {Item(c, "snapshot", latest'[c])}
  <2>1. latest' \in [Cluster -> Nat] /\ latest'[c] \in Nat \ {0}
    BY <1>2 DEF TypeOK
  <2>2. Item(c, "snapshot", latest'[c]) \in Saved
    BY <2>1 DEF Item, Saved
  <2> QED
    BY <1>2, <2>1, <2>2 DEF TypeOK
<1> QED
  BY <1>1, <1>2 DEF Install

\* Every step of main, of the goroutines and of the API keeps the types.
LEMMA NextTypes == ASSUME TypeOK, [Next]_vars PROVE TypeOK'
<1>0. Unregistered \in ClusterType /\ Registered \in ClusterType
  <2>1. Unregistered \in ClusterType
    BY CoordinatorAssumption DEF Unregistered, ClusterType
  <2> QED
    BY <2>1, FieldTypes DEF Registered, MonitorState, FailoverState
<1> USE DEF Running
<1>1. ASSUME NEW c \in Cluster, RegisterCluster(c) PROVE TypeOK'
  <2>1. clusters' \in [Cluster -> ClusterType]
    BY <1>0, <1>1 DEF RegisterCluster, TypeOK
  <2>2. <<<<"pool", c>>, <<"monitor", c>>, <<"failover", c>>>> \in Seq(Task)
    BY DEF Task
  <2>3. queue' \in Seq(Task)
    BY <1>1, <2>2 DEF RegisterCluster, TypeOK
  <2> QED
    BY <1>1, <2>1, <2>3
    DEF RegisterCluster, TypeOK, history, tables, apiVars
<1>2. ASSUME NEW c \in Cluster, Tick(c) PROVE TypeOK'
  <2>1. clusters' \in [Cluster -> ClusterType]
    BY <1>2, StepTypes DEF Tick, Step, MonitorState, FailoverState
  <2> QED
    BY <1>2, <2>1
    DEF Tick, NothingElse, TypeOK, mainVars, history, tables, apiVars
<1>3. ASSUME NEW c \in Cluster, CheckCluster(c) PROVE TypeOK'
  <2>1. clusters' \in [Cluster -> ClusterType]
    <3>1. clusters[c] \in ClusterType /\ clusters[c].waiting + 1 \in 0..MaxWaiting
      BY <1>3, CoordinatorAssumption DEF CheckCluster, TypeOK, ClusterType
    <3>2. clusters' = [clusters EXCEPT ![c] =
            [clusters[c] EXCEPT !.analyzed = latest[c],
                                !.waiting = clusters[c].waiting + 1]]
      BY <1>3 DEF CheckCluster
    <3> QED
      BY <3>1, <3>2, FieldTypes DEF TypeOK
  <2> QED
    BY <1>3, <2>1
    DEF CheckCluster, NothingElse, TypeOK, mainVars, history, tables, apiVars
<1>4. ASSUME NEW c \in Cluster, Discovered(c) PROVE TypeOK'
  <2>1. clusters' \in [Cluster -> ClusterType]
    BY <1>4, StepTypes DEF Discovered, Step, MonitorState, FailoverState
  <2>2. latest' \in [Cluster -> Nat] /\ saving' \subseteq Saved
    BY <1>4, InstallTypes DEF Discovered
  <2> QED
    BY <1>4, <2>1, <2>2 DEF Discovered, TypeOK, mainVars, tables, apiVars
<1>5. ASSUME NEW c \in Cluster, MonitorStops(c) PROVE TypeOK'
  <2>1. clusters' \in [Cluster -> ClusterType]
    BY <1>5, StepTypes DEF MonitorStops, Step, MonitorState, FailoverState
  <2> QED
    BY <1>5, <2>1
    DEF MonitorStops, NothingElse, TypeOK, mainVars, history, tables, apiVars
<1>6. ASSUME NEW c \in Cluster, Take(c) PROVE TypeOK'
  <2>1. clusters' \in [Cluster -> ClusterType]
    <3>1. clusters[c] \in ClusterType /\ clusters[c].waiting - 1 \in 0..MaxWaiting
      BY <1>6, CoordinatorAssumption DEF Take, TypeOK, ClusterType
    <3>2. PICK to \in {"idle", "recovering"} : clusters' =
            [clusters EXCEPT ![c] =
              [clusters[c] EXCEPT !.failover = to,
                                  !.waiting = clusters[c].waiting - 1]]
      BY <1>6 DEF Take
    <3> QED
      BY <3>1, <3>2, FieldTypes DEF TypeOK, FailoverState
  <2> QED
    BY <1>6, <2>1
    DEF Take, NothingElse, TypeOK, mainVars, history, tables, apiVars
<1>7. ASSUME NEW c \in Cluster, RecoveryEnds(c) PROVE TypeOK'
  <2>1. clusters' \in [Cluster -> ClusterType]
    BY <1>7, StepTypes DEF RecoveryEnds, Step, MonitorState, FailoverState
  <2>2. ended' \in [Cluster -> Nat] /\ ended'[c] \in Nat \ {0}
    BY <1>7 DEF RecoveryEnds, TypeOK
  <2>3. Item(c, "recovery", ended'[c]) \in Saved
    BY <2>2 DEF Item, Saved
  <2> QED
    BY <1>7, <2>1, <2>2, <2>3
    DEF RecoveryEnds, TypeOK, mainVars, tables, apiVars
<1>8. ASSUME NEW c \in Cluster, RecoveryBlocked(c) \/ FailoverStops(c)
      PROVE  TypeOK'
  <2>1. clusters' \in [Cluster -> ClusterType]
    BY <1>8, StepTypes
    DEF RecoveryBlocked, FailoverStops, Step, MonitorState, FailoverState
  <2> QED
    BY <1>8, <2>1 DEF RecoveryBlocked, FailoverStops, NothingElse, TypeOK,
                      mainVars, history, tables, apiVars
<1>9. ASSUME NEW c \in Cluster, ForceDiscover(c) PROVE TypeOK'
  <2>1. clusters' \in [Cluster -> ClusterType]
    BY <1>9, StepTypes DEF ForceDiscover, Step, MonitorState, FailoverState
  <2>2. latest' \in [Cluster -> Nat] /\ saving' \subseteq Saved
    BY <1>9, InstallTypes DEF ForceDiscover
  <2> QED
    BY <1>9, <2>1, <2>2 DEF ForceDiscover, TypeOK, mainVars, tables, apiVars
<1>10. CASE Serve \/ Interrupt \/ CloseServer
  BY <1>10
  DEF Serve, Interrupt, CloseServer, MainTo, TypeOK, history, tables, apiVars
<1>11. CASE Shutdown
  <2>1. queue # <<>> /\ queue \in Seq(Task)
    BY <1>11 DEF Shutdown, Run, TypeOK
  <2>2. Last(queue) \in Task /\ Front(queue) \in Seq(Task)
    BY <2>1 DEF Last, Front
  <2> QED
    BY <1>11, <2>2 DEF Shutdown, Run, TypeOK, history, tables, apiVars
<1>12. CASE Exit \/ Kill
  <2>1. ASSUME NEW how \in {"exited", "killed"}, End(how), crashes' \in 0..MaxCrash
        PROVE  TypeOK'
    BY <1>0, <2>1 DEF End, TypeOK, history, tables
  <2>2. crashes' \in 0..MaxCrash
    BY <1>12, CoordinatorAssumption DEF Exit, Kill, TypeOK
  <2> QED
    BY <1>12, <2>1, <2>2 DEF Exit, Kill
<1>13. CASE Start
  BY <1>0, <1>13 DEF Start, Fresh, TypeOK, history, tables, None
<1>14. ASSUME NEW j \in saving, Save(j) PROVE TypeOK'
  <2>1. j \in Saved /\ j.of \in Cluster
    BY DEF TypeOK, Saved
  <2>2. /\ stored' \in [Cluster -> Seq(Saved)] /\ rows' \in Seq(Saved)
        /\ \A c \in Cluster : Len(stored'[c]) <= 1
    <3>1. CASE SaveSnapshot(j)
      BY <2>1, <3>1 DEF SaveSnapshot, TypeOK
    <3>2. CASE SaveRecovery(j)
      BY <2>1, <3>2 DEF SaveRecovery, TypeOK
    <3>3. CASE UNCHANGED tables
      BY <3>3 DEF tables, TypeOK
    <3> QED
      BY <1>14, <3>1, <3>2, <3>3 DEF Save
  <2> QED
    BY <1>14, <2>2 DEF Save, TypeOK, mainVars, history, apiVars
<1>15. ASSUME NEW q \in Request, Ask(q) PROVE TypeOK'
  BY <1>15 DEF Ask, TypeOK, mainVars, history, tables
<1>16. ASSUME NEW shown, shown \subseteq Saved, Show(shown) PROVE TypeOK'
  BY <1>16 DEF Show, TypeOK, mainVars, history, tables, Saved
<1>17. CASE GetClusters
  <2>1. \A c \in Cluster : stored[c] # None => stored[c][1] \in Saved
    BY DEF TypeOK, None
  <2> QED
    BY <1>16, <1>17, <2>1 DEF GetClusters
<1>18. ASSUME NEW c \in Cluster, GetClusterSnapshot(c) PROVE TypeOK'
  BY <1>16, <1>18 DEF GetClusterSnapshot, ToSet, TypeOK
<1>19. ASSUME NEW c \in Cluster, GetRecoveries(c) PROVE TypeOK'
  <2>1. PICK n \in 0..Len(rows) : Show({j \in ToSet(SubSeq(rows, 1, n)) : j.of = c})
    BY <1>19 DEF GetRecoveries
  <2>2. ToSet(SubSeq(rows, 1, n)) \subseteq Saved
    BY DEF ToSet, TypeOK
  <2> QED
    BY <1>16, <2>1, <2>2
<1>20. CASE AnswerFails
  BY <1>20 DEF AnswerFails, TypeOK, mainVars, history, tables
<1>21. CASE UNCHANGED vars
  BY <1>21 DEF vars, TypeOK, mainVars, history, tables, apiVars
<1> QED
  BY <1>1, <1>2, <1>3, <1>4, <1>5, <1>6, <1>7, <1>8, <1>9, <1>10, <1>11, <1>12,
     <1>13, <1>14, <1>15, <1>17, <1>18, <1>19, <1>20, <1>21
  DEF Next, Goroutine, Main, Answer

-----------------------------------------------------------------------------
(* The order of the stops.                                                 *)

\* What concatenation returns.
LEMMA Concatenation ==
  ASSUME NEW S, NEW s \in Seq(S), NEW t \in Seq(S)
  PROVE  /\ DOMAIN (s \o t) = 1..(Len(s) + Len(t))
         /\ \A k \in 1..(Len(s) + Len(t)) :
              (s \o t)[k] = IF k <= Len(s) THEN s[k] ELSE t[k - Len(s)]
  OBVIOUS

\* RegisterCluster appends the tasks of one cluster in the right order.
LEMMA RegisterChain ==
  ASSUME TypeOK, Chain, NEW c \in Cluster, RegisterCluster(c)
  PROVE  Chain'
<1> DEFINE new == <<<<"pool", c>>, <<"monitor", c>>, <<"failover", c>>>>
           n == Len(queue)
<1>1. queue \in Seq(Task) /\ new \in Seq(Task) /\ Len(new) = 3
  BY DEF TypeOK, Task
<1>2. queue' = queue \o new /\ stop' = stop
  BY DEF RegisterCluster
<1>3. /\ new[1] = <<"pool", c>> /\ new[2] = <<"monitor", c>>
      /\ new[3] = <<"failover", c>>
  OBVIOUS
<1> HIDE DEF new
<1>4. /\ DOMAIN queue = 1..n /\ DOMAIN queue' = 1..(n + 3) /\ n \in Nat
      /\ \A k \in 1..n : queue'[k] = queue[k]
      /\ queue'[n + 1] = new[1] /\ queue'[n + 2] = new[2]
      /\ queue'[n + 3] = new[3]
  <2>1. n \in Nat /\ DOMAIN queue = 1..n
    BY <1>1
  <2>2. /\ DOMAIN (queue \o new) = 1..(n + 3)
        /\ \A k \in 1..(n + 3) :
             (queue \o new)[k] = IF k <= n THEN queue[k] ELSE new[k - n]
    BY <1>1, Concatenation
  <2> QED
    BY <1>2, <2>1, <2>2
<1> HIDE DEF n
<1> SUFFICES ASSUME NEW k \in 1..(n + 3), queue'[k][1] # "failover"
             PROVE  \/ After(queue'[k]) \in stop'
                    \/ /\ k + 1 \in 1..(n + 3)
                       /\ queue'[k + 1] = After(queue'[k])
  BY <1>4 DEF Chain, After
<1>5. CASE k \in 1..n
  <2>1. \/ After(queue[k]) \in stop
        \/ k + 1 \in 1..n /\ queue[k + 1] = After(queue[k])
    BY <1>4, <1>5 DEF Chain
  <2>2. queue'[k] = queue[k]
    BY <1>4, <1>5
  <2>3. CASE After(queue[k]) \in stop
    BY <1>2, <2>2, <2>3
  <2>4. CASE k + 1 \in 1..n /\ queue[k + 1] = After(queue[k])
    <3>1. k + 1 \in 1..(n + 3)
      BY <1>4, <2>4
    <3>2. queue'[k + 1] = queue[k + 1]
      BY <1>4, <2>4
    <3> QED
      BY <2>2, <2>4, <3>1, <3>2
  <2> QED
    BY <2>1, <2>3, <2>4
<1>6. CASE k = n + 1
  <2>1. queue'[k] = <<"pool", c>> /\ queue'[k + 1] = <<"monitor", c>>
    BY <1>3, <1>4, <1>6
  <2> QED
    BY <1>4, <1>6, <2>1 DEF After
<1>7. CASE k = n + 2
  <2>1. queue'[k] = <<"monitor", c>> /\ queue'[k + 1] = <<"failover", c>>
    BY <1>3, <1>4, <1>7
  <2> QED
    BY <1>4, <1>7, <2>1 DEF After
<1>8. k # n + 3
  BY <1>3, <1>4
<1> QED
  BY <1>4, <1>5, <1>6, <1>7, <1>8

\* Shutdown takes the last task, and the one it has to follow has run.
LEMMA ShutdownChain ==
  ASSUME TypeOK, Chain, StopOrder, Shutdown
  PROVE  Chain' /\ StopOrder'
<1> DEFINE n == Len(queue)
<1>1. /\ queue \in Seq(Task) /\ queue # <<>>
      /\ stop' = stop \cup {queue[n]} /\ queue' = SubSeq(queue, 1, n - 1)
  BY DEF Shutdown, Run, Last, Front, TypeOK
<1>2. /\ n \in Nat \ {0} /\ DOMAIN queue = 1..n /\ DOMAIN queue' = 1..(n - 1)
      /\ \A k \in 1..(n - 1) : queue'[k] = queue[k]
      /\ queue[n] \in Task
  BY <1>1
<1> HIDE DEF n
<1>3. Chain'
  <2> SUFFICES ASSUME NEW k \in 1..(n - 1), queue[k][1] # "failover"
               PROVE  \/ After(queue[k]) \in stop'
                      \/ /\ k + 1 \in 1..(n - 1)
                         /\ queue[k + 1] = After(queue[k])
    BY <1>2 DEF Chain, After
  <2>1. \/ After(queue[k]) \in stop
        \/ k + 1 \in 1..n /\ queue[k + 1] = After(queue[k])
    BY <1>2 DEF Chain
  <2>2. CASE k + 1 = n
    BY <1>1, <2>1, <2>2
  <2>3. CASE k + 1 # n
    BY <1>1, <1>2, <2>1, <2>3
  <2> QED
    BY <2>2, <2>3
<1>4. StopOrder'
  <2>1. queue[n][1] # "failover" => After(queue[n]) \in stop
    BY <1>2 DEF Chain
  <2>2. \A c \in Cluster :
          /\ queue[n] = <<"pool", c>> => <<"monitor", c>> \in stop
          /\ queue[n] = <<"monitor", c>> => <<"failover", c>> \in stop
    BY <2>1 DEF After
  <2> QED
    BY <1>1, <2>2 DEF StopOrder
<1> QED
  BY <1>3, <1>4

\* Nothing else but a new process touches the queue.
LEMMA NextOrder ==
  ASSUME TypeOK, Chain, StopOrder, [Next]_vars
  PROVE  Chain' /\ StopOrder'
<1>1. CASE UNCHANGED <<queue, stop>>
  BY <1>1 DEF Chain, StopOrder
<1>2. ASSUME NEW c \in Cluster, RegisterCluster(c) PROVE Chain' /\ StopOrder'
  BY <1>2, RegisterChain DEF RegisterCluster, StopOrder
<1>3. CASE Shutdown
  BY <1>3, ShutdownChain
<1>4. CASE Start
  BY <1>4 DEF Start, Fresh, Chain, StopOrder
<1>5. CASE ~UNCHANGED <<queue, stop>>
  <2>1. (\E c \in Cluster : RegisterCluster(c)) \/ Shutdown \/ Start
    BY <1>5 DEF Next, Goroutine, Main, Answer, Tick, CheckCluster, Discovered,
      MonitorStops, Take, RecoveryEnds, RecoveryBlocked, ForceDiscover,
      FailoverStops, NothingElse, Serve, Interrupt, CloseServer, MainTo, Exit,
      Kill, End, Save, Ask, GetClusters, GetClusterSnapshot, GetRecoveries,
      AnswerFails, Show, mainVars, vars
  <2> QED
    BY <1>2, <1>3, <1>4, <2>1
<1> QED
  BY <1>1, <1>5

-----------------------------------------------------------------------------
(* The database.                                                           *)

Books == Origins /\ History /\ KnownIsFound

\* A snapshot that is installed is the only one under its number; whatever
\* was installed before stays so.
LEMMA InstallBooks ==
  ASSUME TypeOK, Books, NEW c \in Cluster, Install(c),
         UNCHANGED <<ended, tables, known>>
  PROVE  Books'
<1>1. CASE UNCHANGED <<latest, saving>>
  BY <1>1 DEF Books, Origins, History, KnownIsFound, tables
<1>2. CASE /\ latest' = [latest EXCEPT ![c] = @ + 1]
           /\ saving' = saving \cup {Item(c, "snapshot", latest'[c])}
  <2>1. \A d \in Cluster : /\ latest[d] \in Nat /\ latest'[d] \in Nat
                           /\ latest[d] <= latest'[d]
    BY <1>2 DEF TypeOK
  <2>2. \A j \in Saved : j.of \in Cluster /\ j.id \in Nat
    BY DEF Saved
  <2>3. ASSUME NEW j \in saving'
        PROVE  j.id <= IF j.kind = "snapshot" THEN latest'[j.of] ELSE ended'[j.of]
    <3>1. CASE j \in saving
      <4>1. j \in Saved
        BY <3>1 DEF TypeOK
      <4>2. j.id <= IF j.kind = "snapshot" THEN latest[j.of] ELSE ended[j.of]
        BY <3>1 DEF Books, Origins
      <4>3. latest[j.of] \in Nat /\ latest'[j.of] \in Nat
            /\ latest[j.of] <= latest'[j.of] /\ j.id \in Nat
        BY <2>1, <2>2, <4>1
      <4> QED
        BY <4>2, <4>3
    <3>2. CASE j = Item(c, "snapshot", latest'[c])
      BY <2>1, <3>2 DEF Item
    <3> QED
      BY <1>2, <3>1, <3>2
  <2>4. ASSUME NEW d \in Cluster, NEW k \in DOMAIN stored[d]
        PROVE  /\ stored[d][k].kind = "snapshot" /\ stored[d][k].of = d
               /\ stored[d][k].id <= latest'[d]
    <3>1. stored[d][k] \in Saved
      BY DEF TypeOK
    <3>2. /\ stored[d][k].kind = "snapshot" /\ stored[d][k].of = d
          /\ stored[d][k].id <= latest[d]
      BY DEF Books, Origins
    <3> QED
      BY <2>1, <2>2, <3>1, <3>2
  <2>5. Origins'
    BY <2>3, <2>4 DEF Origins, tables
  <2>6. \A k \in DOMAIN rows : rows[k] # Item(c, "snapshot", latest'[c])
    BY DEF Books, History, Item
  <2>7. History'
    BY <1>2, <2>6 DEF Books, History, tables
  <2> QED
    BY <2>5, <2>7 DEF Books, KnownIsFound, tables
<1> QED
  BY <1>1, <1>2 DEF Install

\* A recovery that has ended is a new one.
LEMMA RecoveryBooks ==
  ASSUME TypeOK, Books, NEW c \in Cluster, RecoveryEnds(c)
  PROVE  Books'
<1> DEFINE new == Item(c, "recovery", ended'[c])
<1>1. /\ ended' = [ended EXCEPT ![c] = @ + 1] /\ saving' = saving \cup {new}
      /\ UNCHANGED <<latest, stored, rows, known>>
  BY DEF RecoveryEnds, tables, apiVars
<1>2. /\ \A d \in Cluster : /\ ended[d] \in Nat /\ ended'[d] \in Nat
                            /\ ended[d] <= ended'[d]
      /\ ended'[c] = ended[c] + 1
  BY <1>1 DEF TypeOK
<1>3. \A j \in Saved : j.of \in Cluster /\ j.id \in Nat
  BY DEF Saved
<1>4. new.of = c /\ new.kind = "recovery" /\ new.id = ended'[c]
  BY DEF Item
<1> HIDE DEF new
<1>5. ASSUME NEW j \in saving'
      PROVE  j.id <= IF j.kind = "snapshot" THEN latest'[j.of] ELSE ended'[j.of]
  <2>1. CASE j \in saving
    <3>1. j \in Saved /\ j.of \in Cluster /\ j.id \in Nat
      BY <1>3, <2>1 DEF TypeOK
    <3>2. j.id <= IF j.kind = "snapshot" THEN latest[j.of] ELSE ended[j.of]
      BY <2>1 DEF Books, Origins
    <3> QED
      BY <1>1, <1>2, <3>1, <3>2
  <2>2. CASE j = new
    BY <1>2, <1>4, <2>2
  <2> QED
    BY <1>1, <2>1, <2>2
<1>6. ASSUME NEW k \in DOMAIN rows
      PROVE  /\ rows[k].kind = "recovery" /\ rows[k] \notin saving'
             /\ rows[k].id <= ended'[rows[k].of]
  <2>1. rows[k] \in Saved /\ rows[k].of \in Cluster /\ rows[k].id \in Nat
    BY <1>3 DEF TypeOK
  <2>2. /\ rows[k].kind = "recovery" /\ rows[k] \notin saving
        /\ rows[k].id <= ended[rows[k].of]
    BY DEF Books, History
  <2>3. rows[k] # new
    BY <1>2, <1>4, <2>1, <2>2
  <2> QED
    BY <1>1, <1>2, <2>1, <2>2, <2>3
<1>7. Origins'
  BY <1>1, <1>5 DEF Books, Origins
<1>8. History'
  BY <1>1, <1>6 DEF Books, History
<1> QED
  BY <1>1, <1>7, <1>8 DEF Books, KnownIsFound

\* What is saved moves into its table, or is lost.
LEMMA SaveBooks ==
  ASSUME TypeOK, Books, NEW j \in saving, Save(j)
  PROVE  Books'
<1>1. /\ saving' = saving \ {j} /\ UNCHANGED <<latest, ended, known>>
  BY DEF Save, history, apiVars
<1>2. /\ j \in Saved /\ j.of \in Cluster
      /\ j.id <= IF j.kind = "snapshot" THEN latest[j.of] ELSE ended[j.of]
  BY DEF TypeOK, Saved, Books, Origins
<1>3. CASE SaveSnapshot(j)
  <2>1. /\ stored' = [stored EXCEPT ![j.of] = <<j>>] /\ rows' = rows
        /\ j.kind = "snapshot"
    BY <1>3 DEF SaveSnapshot
  <2>2. ASSUME NEW c \in Cluster, NEW k \in DOMAIN stored'[c]
        PROVE  /\ stored'[c][k].kind = "snapshot" /\ stored'[c][k].of = c
               /\ stored'[c][k].id <= latest'[c]
    <3>1. CASE c = j.of
      <4>1. stored'[c] = <<j>>
        BY <2>1, <3>1 DEF TypeOK
      <4>2. stored'[c][k] = j
        BY <4>1
      <4> QED
        BY <1>1, <1>2, <2>1, <3>1, <4>2
    <3>2. CASE c # j.of
      <4>1. stored'[c] = stored[c]
        BY <2>1, <3>2 DEF TypeOK
      <4> QED
        BY <1>1, <4>1 DEF Books, Origins
    <3> QED
      BY <3>1, <3>2
  <2>3. Origins'
    BY <1>1, <2>2 DEF Books, Origins
  <2>4. History'
    BY <1>1, <2>1 DEF Books, History
  <2>5. KnownIsFound'
    BY <1>1, <2>1 DEF Books, KnownIsFound, TypeOK, None
  <2> QED
    BY <2>3, <2>4, <2>5 DEF Books
<1>4. CASE SaveRecovery(j)
  <2>1. rows' = Append(rows, j) /\ stored' = stored /\ j.kind = "recovery"
    BY <1>4 DEF SaveRecovery
  <2>2. /\ DOMAIN rows = 1..Len(rows) /\ DOMAIN rows' = 1..(Len(rows) + 1)
        /\ Len(rows) \in Nat /\ rows'[Len(rows) + 1] = j
        /\ \A k \in 1..Len(rows) : rows'[k] = rows[k]
    BY <1>2, <2>1 DEF TypeOK
  <2>3. \A k \in 1..Len(rows) : rows[k] # j
    BY <2>2 DEF Books, History
  <2>4. History'
    <3>1. \A k \in 1..Len(rows) : /\ rows'[k].kind = "recovery"
                                  /\ rows'[k] \notin saving'
                                  /\ rows'[k].id <= ended'[rows'[k].of]
      BY <1>1, <2>2 DEF Books, History
    <3>2. /\ j.kind = "recovery" /\ j \notin saving' /\ j.id <= ended'[j.of]
      BY <1>1, <1>2, <2>1
    <3>3. \A k, l \in 1..Len(rows) : k # l => rows'[k] # rows'[l]
      BY <2>2 DEF Books, History
    <3> QED
      BY <2>2, <2>3, <3>1, <3>2, <3>3 DEF History
  <2>5. Origins' /\ KnownIsFound'
    BY <1>1, <2>1 DEF Books, Origins, KnownIsFound
  <2> QED
    BY <2>4, <2>5 DEF Books
<1>5. CASE UNCHANGED tables
  BY <1>1, <1>5 DEF tables, Books, Origins, History, KnownIsFound
<1> QED
  BY <1>3, <1>4, <1>5 DEF Save

\* What the API shows of a cluster is in the table.
LEMMA ShowBooks ==
  ASSUME Books, NEW shown, Show(shown),
         \A j \in shown : j.kind = "snapshot" => stored[j.of] # None
  PROVE  Books'
<1>1. UNCHANGED <<latest, ended, saving, stored, rows>>
  BY DEF Show, history, tables
<1>2. known' = known \cup {j.of : j \in {k \in shown : k.kind = "snapshot"}}
  BY DEF Show
<1>3. KnownIsFound'
  BY <1>1, <1>2 DEF Books, KnownIsFound
<1> QED
  BY <1>1, <1>3 DEF Books, Origins, History

\* No step of any of the goroutines, of main or of the API spoils the books.
LEMMA NextBooks == ASSUME TypeOK, Books, [Next]_vars PROVE Books'
<1>1. CASE UNCHANGED <<latest, ended, saving, stored, rows, known>>
  BY <1>1 DEF Books, Origins, History, KnownIsFound
<1>2. ASSUME NEW c \in Cluster, Discovered(c) \/ ForceDiscover(c) PROVE Books'
  BY <1>2, InstallBooks DEF Discovered, ForceDiscover, apiVars
<1>3. ASSUME NEW c \in Cluster, RecoveryEnds(c) PROVE Books'
  BY <1>3, RecoveryBooks
<1>4. ASSUME NEW j \in saving, Save(j) PROVE Books'
  BY <1>4, SaveBooks
<1>5. CASE Exit \/ Kill
  <2>1. saving' = {} /\ UNCHANGED <<latest, ended, stored, rows, known>>
    BY <1>5 DEF Exit, Kill, End, history, tables
  <2> QED
    BY <2>1 DEF Books, Origins, History, KnownIsFound
<1>6. CASE GetClusters
  <2>1. PICK some \in SUBSET {c \in Cluster : stored[c] # None} :
          Show({stored[c][1] : c \in some})
    BY <1>6 DEF GetClusters
  <2>2. \A c \in some : stored[c][1].of = c
    BY DEF Books, Origins, TypeOK, None
  <2> QED
    BY <2>1, <2>2, ShowBooks
<1>7. ASSUME NEW c \in Cluster, GetClusterSnapshot(c) PROVE Books'
  <2>1. \A j \in ToSet(stored[c]) : j.of = c /\ stored[c] # None
    BY DEF ToSet, Books, Origins, None
  <2> QED
    BY <1>7, <2>1, ShowBooks DEF GetClusterSnapshot
<1>8. ASSUME NEW c \in Cluster, GetRecoveries(c) PROVE Books'
  <2>1. PICK n \in 0..Len(rows) : Show({j \in ToSet(SubSeq(rows, 1, n)) : j.of = c})
    BY <1>8 DEF GetRecoveries
  <2>2. \A j \in ToSet(SubSeq(rows, 1, n)) : j.kind = "recovery"
    BY DEF ToSet, TypeOK, Books, History
  <2> QED
    BY <2>1, <2>2, ShowBooks
<1>9. CASE ~UNCHANGED <<latest, ended, saving, stored, rows, known>>
  <2>1. \/ \E c \in Cluster : \/ Discovered(c) \/ ForceDiscover(c)
                              \/ RecoveryEnds(c)
                              \/ GetClusterSnapshot(c) \/ GetRecoveries(c)
        \/ \E j \in saving : Save(j)
        \/ Exit \/ Kill \/ GetClusters
    BY <1>9 DEF Next, Goroutine, Main, Answer, RegisterCluster, Tick,
      CheckCluster, MonitorStops, Take, RecoveryBlocked, FailoverStops,
      NothingElse, Serve, Interrupt, Shutdown, Run, CloseServer, MainTo, Start,
      Ask, AnswerFails, history, tables, apiVars, vars
  <2> QED
    BY <1>2, <1>3, <1>4, <1>5, <1>6, <1>7, <1>8, <2>1
<1> QED
  BY <1>1, <1>9

-----------------------------------------------------------------------------
\* All of it is an invariant of the process.
LEMMA Invariance == Spec => []IInv
<1>1. Init => IInv
  <2> SUFFICES ASSUME Init PROVE IInv
    OBVIOUS
  <2> QED
    BY InitTypes DEF Init, IInv, Chain, StopOrder, Origins, History,
                     KnownIsFound, None
<1>2. IInv /\ [Next]_vars => IInv'
  BY NextTypes, NextOrder, NextBooks DEF IInv, Books
<1> QED
  BY <1>1, <1>2, PTL DEF Spec

(* The types of the coordinator's variables, for any clusters and bounds   *)
(* (internal/coordinator, internal/storage/sqlite).                        *)
THEOREM CoordinatorTypes == Spec => []TypeOK
<1>1. IInv => TypeOK
  BY DEF IInv
<1> QED
  BY <1>1, Invariance, PTL

(* For any number of clusters Coordinator.Shutdown stops the failover of a *)
(* cluster before its monitor, and the monitor before the pool is closed.  *)
THEOREM StopOrderHolds == Spec => []StopOrder
<1>1. IInv => StopOrder
  BY DEF IInv
<1> QED
  BY <1>1, Invariance, PTL

(* Whatever is stored under the name of a cluster was installed for it, in *)
(* whichever order the goroutines of Cluster.Discover save, for any number *)
(* of clusters, snapshots and restarts.                                    *)
THEOREM StoredIsInstalledHolds == Spec => []StoredIsInstalled
<1>1. IInv => StoredIsInstalled
  <2> SUFFICES ASSUME IInv, NEW c \in Cluster, NEW k \in DOMAIN stored[c]
               PROVE  stored[c][k].of = c /\ stored[c][k].id \in 1..latest[c]
    BY DEF StoredIsInstalled, ToSet
  <2>1. stored[c][k] \in Saved /\ latest[c] \in Nat
    BY DEF IInv, TypeOK
  <2>2. stored[c][k].of = c /\ stored[c][k].id <= latest[c]
    BY DEF IInv, Origins
  <2> QED
    BY <2>1, <2>2 DEF Saved
<1> QED
  BY <1>1, Invariance, PTL

(* The table of recoveries holds no recovery twice and none that has not   *)
(* ended (SaveRecovery), for any number of clusters and restarts.          *)
THEOREM RecoveryStoredOnceHolds == Spec => []RecoveryStoredOnce
<1>1. IInv => RecoveryStoredOnce
  BY DEF IInv, History, RecoveryStoredOnce, ToSet
<1> QED
  BY <1>1, Invariance, PTL

(* A cluster that the API has shown once is found from then on             *)
(* (GetClusterSnapshot), also by the process after a restart.              *)
THEOREM KnownIsFoundHolds == Spec => []KnownIsFound
<1>1. IInv => KnownIsFound
  BY DEF IInv
<1> QED
  BY <1>1, Invariance, PTL
=============================================================================
