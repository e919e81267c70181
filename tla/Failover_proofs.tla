-------------------------- MODULE Failover_proofs --------------------------
(***************************************************************************)
(* For any replica sets, storages, routers, analyses and block times:      *)
(* the types, the block period, and that a router is only ever pointed at  *)
(* a storage that took the master role.                                    *)
(*                                                                         *)
(* The block period is not inductive: it says nothing of the registry the  *)
(* code consults.  Book adds that every recovery of this process is in the *)
(* registry, is still to be registered by the analysis at hand, or has     *)
(* expired; Flow adds that one still to be registered never has the key a  *)
(* new recovery is started with.                                           *)
(***************************************************************************)
EXTENDS Failover, TLAPS

DemotePcs == {"demote", "demotehook", "demoteexec"}
CandPcs   == {"candidate", "routers", "instances", "demotehook", "demoteexec"}

\* What the program counter says about the variables of the job.
Flow ==
  /\ pc \notin {"idle", "stopped"} => cur \in Analysis
  /\ pc \in {"idle", "stopped", "promote", "discover", "finish"} => pending = {}
  /\ pc \in CandPcs => cand \in Storage
  /\ pc = "routers" => todo \subseteq Router
  /\ pc = "instances" => todo \subseteq Storage
  /\ pc \in DemotePcs =>
       todo \subseteq Storage /\ \A i \in pending : log[i].key \notin todo

Book ==
  /\ registry \cup pending \subseteq Mine
  /\ \A i \in Mine : i \in registry \cup pending \/ Expired(i)
  /\ BlockPeriod

IInv == TypeOK /\ Flow /\ Book

-----------------------------------------------------------------------------
(* Lemmas about the operators the actions share.                           *)

\* A started recovery is the last of the log, the others keep their place.
LEMMA StartRecordLemma ==
  ASSUME TypeOK, NEW key \in Set \cup Storage, NEW ttl \in Nat,
         StartRecord(key, ttl)
  PROVE  /\ log' \in Seq(Recovery)
         /\ Len(log') = Len(log) + 1
         /\ \A i \in 1..Len(log) : log'[i] = log[i]
         /\ log'[Len(log) + 1].key = key
         /\ log'[Len(log) + 1].start = now
         /\ ~log'[Len(log) + 1].ok
         /\ pending' = pending \cup {Len(log) + 1}
<1> DEFINE rec == [key |-> key, start |-> now, expires |-> now + ttl, ok |-> FALSE]
<1>1. rec \in Recovery
  BY DEF Recovery, TypeOK
<1>2. log' = Append(log, rec) /\ pending' = pending \cup {Len(log) + 1}
  BY DEF StartRecord
<1>3. log \in Seq(Recovery)
  BY DEF TypeOK
<1> HIDE DEF rec
<1>4. /\ log' \in Seq(Recovery)
      /\ Len(log') = Len(log) + 1
      /\ \A i \in 1..Len(log) : log'[i] = log[i]
      /\ log'[Len(log) + 1] = rec
  BY <1>1, <1>2, <1>3
<1>5. rec.key = key /\ rec.start = now /\ ~rec.ok
  BY DEF rec
<1>6. QED
  BY <1>2, <1>4, <1>5

\* Marking a recovery changes neither its key nor its times.
LEMMA MarkLemma ==
  ASSUME TypeOK, MarkSuccessful
  PROVE  /\ log' \in Seq(Recovery)
         /\ Len(log') = Len(log)
         /\ \A i \in 1..Len(log) : /\ log'[i].key = log[i].key
                                   /\ log'[i].start = log[i].start
                                   /\ log'[i].expires = log[i].expires
<1>1. log \in Seq(Recovery) /\ DOMAIN log = 1..Len(log) /\ Len(log) \in Nat
  BY DEF TypeOK
<1>2. \A i \in 1..Len(log) : log[i] \in Recovery
  BY <1>1
<1>3. log' = [i \in 1..Len(log) |->
                IF i = Len(log) THEN [log[i] EXCEPT !.ok = TRUE] ELSE log[i]]
  BY <1>1 DEF MarkSuccessful
<1>4. \A i \in 1..Len(log) : [log[i] EXCEPT !.ok = TRUE] \in Recovery
  BY <1>2 DEF Recovery
<1>5. \A i \in 1..Len(log) : log'[i] \in Recovery
  BY <1>2, <1>3, <1>4
<1>6. log' \in Seq(Recovery) /\ Len(log') = Len(log)
  BY <1>1, <1>3, <1>5
<1>7. \A i \in 1..Len(log) : /\ log'[i].key = log[i].key
                             /\ log'[i].start = log[i].start
                             /\ log'[i].expires = log[i].expires
  BY <1>2, <1>3 DEF Recovery
<1>8. QED
  BY <1>6, <1>7

\* The recovery script leaves the nodes' variables well typed.
LEMMA ApplyTypes ==
  ASSUME TypeOK, NEW n \in Node, NEW s \in Set, NEW m \in Storage,
         Apply(n, s, m)
  PROVE  /\ view' \in [Node -> [Set -> Storage]]
         /\ served' \subseteq Storage
  BY DEF Apply, TypeOK

\* So does a request.
LEMMA ExecTypes ==
  ASSUME TypeOK, NEW n \in Node, NEW s \in Set, NEW m \in Storage,
         NEW acked \in BOOLEAN, Exec(n, s, m, acked)
  PROVE  /\ view' \in [Node -> [Set -> Storage]]
         /\ late' \subseteq Node \X Set \X Storage
         /\ served' \subseteq Storage
<1>1. view' \in [Node -> [Set -> Storage]] /\ served' \subseteq Storage
  BY ApplyTypes DEF Exec, TypeOK
<1>2. late' \subseteq Node \X Set \X Storage
  BY DEF Exec, TypeOK
<1>3. QED
  BY <1>1, <1>2

\* What an analysis holds.
LEMMA AnalysisFields ==
  ASSUME NEW a \in Analysis
  PROVE  /\ a.set \in Set
         /\ a.master \in Storage
         /\ a.eligible \subseteq Storage
         /\ a.differing \subseteq Storage
         /\ a.state \in PromoteStates \cup DemoteStates \cup QuietStates
  BY AnalysisAssumption DEF AnalysisType

-----------------------------------------------------------------------------
(* Types.                                                                  *)

LEMMA InitIInv == Init => IInv
<1> SUFFICES ASSUME Init PROVE IInv
  OBVIOUS
<1>1. TypeOK
  <2>1. log \in Seq(Recovery) /\ Len(log) = 0
    BY DEF Init
  <2>2. PICK leader \in [Set -> Storage] :
          view = [n \in Node |-> leader] /\ served = {leader[s] : s \in Set}
    BY DEF Init
  <2>3. view \in [Node -> [Set -> Storage]] /\ served \subseteq Storage
    BY <2>2
  <2>4. born \in 0..Len(log) /\ registry \subseteq DOMAIN log /\ pending \subseteq DOMAIN log
    BY <2>1 DEF Init
  <2>5. late \subseteq Node \X Set \X Storage
    BY DEF Init
  <2>6. QED
    BY <2>1, <2>3, <2>4, <2>5 DEF Init, TypeOK, PcType
<1>2. Flow
  BY DEF Init, Flow, CandPcs, DemotePcs
<1>3. Book
  BY DEF Init, Book, Mine, BlockPeriod
<1>4. QED
  BY <1>1, <1>2, <1>3 DEF IInv

\* Every step of a recovery keeps the types.
LEMMA RecoverTypeOK == TypeOK /\ Flow /\ Recover => TypeOK'
<1> SUFFICES ASSUME TypeOK, Flow, Recover PROVE TypeOK'
  OBVIOUS
<1> USE TopologyAssumption, BlockTimeAssumption
    DEF jobVars, bookVars, procVars, nodeVars, Goto, Hook, PcType
<1>a. pc \notin {"idle", "stopped"} =>
        /\ cur.set \in Set /\ cur.master \in Storage
        /\ cur.eligible \subseteq Storage
  BY AnalysisFields DEF Flow
<1>b. Storage \subseteq Node /\ Router \subseteq Node
  BY DEF Node
<1>1. CASE PromoteBlocked \/ PreFailover \/ ElectNobody \/ ElectPanics
           \/ DemoteHook \/ DemoteDone \/ ForceDiscover
  BY <1>1 DEF TypeOK, PromoteBlocked, PreFailover, ElectNobody, ElectPanics,
              DemoteHook, DemoteDone, ForceDiscover
<1>2. CASE PromoteStart
  <2>1. cur.set \in Set /\ StartRecord(cur.set, SetTTL)
    BY <1>2, <1>a DEF PromoteStart
  <2>2. /\ log' \in Seq(Recovery) /\ Len(log') = Len(log) + 1
        /\ pending' = pending \cup {Len(log) + 1}
    BY <2>1, StartRecordLemma
  <2>3. DOMAIN log = 1..Len(log) /\ DOMAIN log' = 1..Len(log') /\ Len(log) \in Nat
    BY <2>2 DEF TypeOK
  <2>4. QED
    BY <1>2, <2>2, <2>3 DEF TypeOK, PromoteStart
<1>3. CASE Elect
  BY <1>3, <1>a DEF TypeOK, Elect
<1>4. CASE ExecCandidate
  <2>1. cand \in Storage /\ cur.set \in Set
    BY <1>4, <1>a DEF Flow, CandPcs, ExecCandidate
  <2>2. \E acked \in BOOLEAN : Exec(cand, cur.set, cand, acked)
    BY <1>4 DEF ExecCandidate
  <2>3. /\ view' \in [Node -> [Set -> Storage]]
        /\ late' \subseteq Node \X Set \X Storage
        /\ served' \subseteq Storage
    BY <2>1, <2>2, <1>b, ExecTypes
  <2>4. todo' \subseteq Node /\ missed' \subseteq Node
    BY <1>4, <1>b DEF TypeOK, ExecCandidate
  <2>5. pc' \in PcType
    BY <1>4 DEF ExecCandidate
  <2>6. QED
    BY <1>4, <2>3, <2>4, <2>5 DEF TypeOK, ExecCandidate
<1>5. ASSUME NEW n \in Node, pc \in {"routers", "instances"}, ExecNext(n)
      PROVE  TypeOK'
  <2>1. cand \in Storage /\ cur.set \in Set
    BY <1>5, <1>a DEF Flow, CandPcs
  <2>2. PICK acked \in BOOLEAN :
          /\ Exec(n, cur.set, cand, acked)
          /\ missed' = IF acked THEN missed ELSE missed \cup {n}
    BY <1>5 DEF ExecNext
  <2>3. /\ view' \in [Node -> [Set -> Storage]]
        /\ late' \subseteq Node \X Set \X Storage
        /\ served' \subseteq Storage
    BY <2>1, <2>2, ExecTypes
  <2>4. QED
    BY <1>5, <2>2, <2>3 DEF TypeOK, ExecNext
<1>6. CASE RoutersDone
  BY <1>6, <1>b DEF TypeOK, RoutersDone
<1>7. CASE InstancesDone
  <2>1. log' \in Seq(Recovery) /\ Len(log') = Len(log)
    BY <1>7, MarkLemma DEF InstancesDone
  <2>2. DOMAIN log' = DOMAIN log
    BY <2>1 DEF TypeOK
  <2>3. QED
    BY <1>7, <2>1, <2>2 DEF TypeOK, InstancesDone
<1>8. ASSUME NEW n \in Storage, DemoteSkip(n) PROVE TypeOK'
  BY <1>8 DEF TypeOK, DemoteSkip
<1>9. ASSUME NEW n \in Storage, DemoteStart(n) PROVE TypeOK'
  <2>1. StartRecord(n, InstanceTTL)
    BY <1>9 DEF DemoteStart
  <2>2. /\ log' \in Seq(Recovery) /\ Len(log') = Len(log) + 1
        /\ pending' = pending \cup {Len(log) + 1}
    BY <2>1, StartRecordLemma
  <2>3. DOMAIN log = 1..Len(log) /\ DOMAIN log' = 1..Len(log') /\ Len(log) \in Nat
    BY <2>2 DEF TypeOK
  <2>4. QED
    BY <1>9, <2>2, <2>3 DEF TypeOK, DemoteStart
<1>10. CASE DemoteExec
  <2>1. cand \in Node /\ cur.set \in Set /\ cur.master \in Storage
    BY <1>10, <1>a, <1>b DEF Flow, CandPcs, DemoteExec
  <2>2. \E acked \in BOOLEAN : Exec(cand, cur.set, cur.master, acked)
    BY <1>10 DEF DemoteExec
  <2>3. /\ view' \in [Node -> [Set -> Storage]]
        /\ late' \subseteq Node \X Set \X Storage
        /\ served' \subseteq Storage
    BY <2>1, <2>2, ExecTypes
  <2>4. log' \in Seq(Recovery) /\ Len(log') = Len(log)
    BY <1>10, MarkLemma DEF TypeOK, DemoteExec
  <2>5. DOMAIN log' = DOMAIN log
    BY <2>4 DEF TypeOK
  <2>6. QED
    BY <1>10, <2>3, <2>4, <2>5 DEF TypeOK, DemoteExec
<1>11. ASSUME NEW i \in pending, Register(i) PROVE TypeOK'
  BY <1>11 DEF TypeOK, Register
<1>12. CASE Finish
  BY <1>12 DEF TypeOK, Finish, Fresh
<1>13. QED
  BY <1>1, <1>2, <1>3, <1>4, <1>5, <1>6, <1>7, <1>8, <1>9, <1>10, <1>11,
     <1>12, <1>b DEF Recover, ExecRouter, ExecInstance

\* So does every other step.
LEMMA NextTypeOK == TypeOK /\ Flow /\ [Next]_vars => TypeOK'
<1> SUFFICES ASSUME TypeOK, Flow, [Next]_vars PROVE TypeOK'
  OBVIOUS
<1> USE DEF jobVars, bookVars, procVars, nodeVars, Goto, Hook, PcType
<1>1. CASE UNCHANGED vars
  BY <1>1 DEF TypeOK, vars
<1>2. ASSUME NEW a \in Analysis, Receive(a) PROVE TypeOK'
  BY <1>2, AnalysisFields DEF TypeOK, Receive, Node
<1>3. ASSUME NEW a \in Analysis, Ignore(a) PROVE TypeOK'
  BY <1>3 DEF TypeOK, Ignore, vars
<1>4. CASE Cleanup \/ ServeReturns \/ Shutdown \/ ServeStops \/ Tick
  <2>1. CASE Cleanup
    BY <2>1 DEF TypeOK, Cleanup
  <2>2. CASE ServeReturns \/ Shutdown \/ ServeStops
    BY <2>2 DEF TypeOK, ServeReturns, Shutdown, ServeStops
  <2>3. CASE Tick
    BY <2>3 DEF TypeOK, Tick
  <2>4. QED
    BY <1>4, <2>1, <2>2, <2>3
<1>5. CASE Restart
  <2>1. Len(log) \in Nat /\ log' = log
    BY <1>5 DEF TypeOK, Restart
  <2>2. born' \in 0..Len(log') /\ registry' \subseteq DOMAIN log'
    BY <1>5, <2>1 DEF Restart
  <2>3. /\ pc' \in PcType /\ cur' \in Analysis \cup {NoAnalysis}
        /\ cand' \in Storage \cup {NoStorage} /\ todo' \subseteq Node
        /\ active' \in BOOLEAN /\ pending' \subseteq DOMAIN log'
    BY <1>5 DEF Restart, Fresh
  <2>4. restarts' \in Nat
    BY <1>5 DEF Restart, TypeOK
  <2>5. QED
    BY <1>5, <2>1, <2>2, <2>3, <2>4 DEF TypeOK, Restart
<1>6. CASE LateArrives
  <2>1. PICK x \in late :
          /\ late' = late \ {x}
          /\ \/ Apply(x[1], x[2], x[3]) /\ missed' = missed \cup {x[1]}
             \/ UNCHANGED <<view, served, missed>>
    BY <1>6 DEF LateArrives
  <2>2. x[1] \in Node /\ x[2] \in Set /\ x[3] \in Storage
    BY <2>1 DEF TypeOK
  <2>3. /\ view' \in [Node -> [Set -> Storage]]
        /\ served' \subseteq Storage
        /\ missed' \subseteq Node
    BY <2>1, <2>2, ApplyTypes DEF TypeOK
  <2>4. QED
    BY <1>6, <2>1, <2>3 DEF TypeOK, LateArrives
<1>7. QED
  BY <1>1, <1>2, <1>3, <1>4, <1>5, <1>6, RecoverTypeOK DEF Next

-----------------------------------------------------------------------------
(* The block period.                                                       *)

\* Every step keeps what the program counter says of the job.
LEMMA NextFlow == TypeOK /\ Flow /\ [Next]_vars => Flow'
<1> SUFFICES ASSUME TypeOK, Flow, [Next]_vars PROVE Flow'
  OBVIOUS
<1> USE DEF jobVars, bookVars, procVars, nodeVars, Goto, Hook, CandPcs, DemotePcs
<1>1. CASE UNCHANGED vars
  BY <1>1 DEF Flow, vars
<1>2. ASSUME NEW a \in Analysis, Receive(a) PROVE Flow'
  BY <1>2, AnalysisFields DEF Flow, Receive
<1>3. ASSUME NEW a \in Analysis, Ignore(a) PROVE Flow'
  BY <1>3 DEF Flow, Ignore, vars
<1>4. CASE \/ Cleanup \/ ServeReturns \/ Shutdown \/ ServeStops \/ Tick
           \/ LateArrives
  BY <1>4 DEF Flow, Cleanup, ServeReturns, Shutdown, ServeStops, Tick,
       LateArrives
<1>5. CASE Restart
  BY <1>5 DEF Flow, Restart, Fresh
<1>6. CASE Recover
  <2>1. CASE PromoteBlocked \/ PreFailover \/ ElectNobody \/ ElectPanics
             \/ DemoteHook \/ DemoteDone \/ ForceDiscover
    BY <2>1 DEF Flow, PromoteBlocked, PreFailover, ElectNobody, ElectPanics,
                DemoteHook, DemoteDone, ForceDiscover
  <2>2. CASE PromoteStart
    BY <2>2 DEF Flow, PromoteStart
  <2>3. CASE Elect
    BY <2>3, AnalysisFields DEF Flow, Elect
  <2>4. CASE ExecCandidate
    BY <2>4 DEF Flow, ExecCandidate
  <2>5. CASE ExecRouter \/ ExecInstance
    BY <2>5 DEF Flow, ExecRouter, ExecInstance, ExecNext
  <2>6. CASE RoutersDone
    BY <2>6 DEF Flow, RoutersDone
  <2>7. CASE InstancesDone
    BY <2>7 DEF Flow, InstancesDone
  <2>8. ASSUME NEW n \in Storage, DemoteSkip(n) PROVE Flow'
    BY <2>8 DEF Flow, DemoteSkip
  <2>9. ASSUME NEW n \in Storage, DemoteStart(n) PROVE Flow'
    <3>1. StartRecord(n, InstanceTTL)
      BY <2>9 DEF DemoteStart
    <3>2. /\ \A i \in 1..Len(log) : log'[i] = log[i]
          /\ log'[Len(log) + 1].key = n
          /\ pending' = pending \cup {Len(log) + 1}
      BY <3>1, BlockTimeAssumption, StartRecordLemma
    <3>3. pending \subseteq 1..Len(log)
      BY DEF TypeOK
    <3>4. \A i \in pending' : log'[i].key \notin todo'
      BY <2>9, <3>2, <3>3 DEF Flow, DemoteStart
    <3>5. QED
      BY <2>9, <3>4 DEF Flow, DemoteStart
  <2>10. CASE DemoteExec
    <3>1. \A i \in 1..Len(log) : log'[i].key = log[i].key
      BY <2>10, MarkLemma DEF DemoteExec
    <3>2. pending \subseteq 1..Len(log)
      BY DEF TypeOK
    <3>3. QED
      BY <2>10, <3>1, <3>2 DEF Flow, DemoteExec
  <2>11. ASSUME NEW i \in pending, Register(i) PROVE Flow'
    BY <2>11 DEF Flow, Register
  <2>12. CASE Finish
    BY <2>12 DEF Flow, Finish, Fresh
  <2>13. QED
    BY <1>6, <2>1, <2>2, <2>3, <2>4, <2>5, <2>6, <2>7, <2>8, <2>9, <2>10,
       <2>11, <2>12 DEF Recover
<1>7. QED
  BY <1>1, <1>2, <1>3, <1>4, <1>5, <1>6 DEF Next

(* Starting a recovery keeps the book, if its key is not blocked and no    *)
(* recovery still to be registered has it: an earlier recovery of that key *)
(* has expired by now.                                                     *)
LEMMA StartKeepsBook ==
  ASSUME TypeOK, Book, NEW key \in Set \cup Storage, NEW ttl \in Nat,
         StartRecord(key, ttl), ~Blocked(key),
         \A i \in pending : log[i].key # key,
         UNCHANGED <<now, registry, born>>
  PROVE  Book'
<1>1. /\ Len(log') = Len(log) + 1
      /\ \A i \in 1..Len(log) : log'[i] = log[i]
      /\ log'[Len(log) + 1].key = key
      /\ log'[Len(log) + 1].start = now
      /\ pending' = pending \cup {Len(log) + 1}
  BY StartRecordLemma
<1>2. Len(log) \in Nat /\ born \in 0..Len(log)
  BY DEF TypeOK
<1>3. Mine' = Mine \cup {Len(log) + 1} /\ Mine \subseteq 1..Len(log)
  BY <1>1, <1>2 DEF Mine
<1>4. (registry \cup pending \subseteq Mine)'
  BY <1>1, <1>3 DEF Book
<1>5. \A i \in Mine' : i \in registry' \cup pending' \/ Expired(i)'
  BY <1>1, <1>3 DEF Book, Expired
<1>6. \A i \in Mine : log[i].key = key => log[i].expires < now
  BY DEF Book, Blocked, Expired
<1>7. BlockPeriod'
  <2> SUFFICES ASSUME NEW i \in Mine', NEW j \in Mine', i < j,
                      log'[i].key = log'[j].key
               PROVE  log'[i].expires < log'[j].start
    BY DEF BlockPeriod
  <2>1. i \in Mine
    BY <1>2, <1>3 DEF Mine
  <2>2. CASE j \in Mine
    BY <1>1, <1>3, <2>1, <2>2 DEF Book, BlockPeriod
  <2>3. CASE j = Len(log) + 1
    BY <1>1, <1>3, <1>6, <2>1, <2>3
  <2>4. QED
    BY <1>3, <2>2, <2>3
<1>8. QED
  BY <1>4, <1>5, <1>7 DEF Book

\* Marking a recovery successful, or leaving the log alone, keeps the book.
LEMMA MarkKeepsBook ==
  ASSUME TypeOK, Book, MarkSuccessful \/ UNCHANGED log,
         UNCHANGED <<now, registry, pending, born>>
  PROVE  Book'
<1>1. /\ Len(log') = Len(log)
      /\ \A i \in 1..Len(log) : /\ log'[i].key = log[i].key
                                /\ log'[i].start = log[i].start
                                /\ log'[i].expires = log[i].expires
  BY MarkLemma
<1>2. Mine' = Mine /\ Mine \subseteq 1..Len(log)
  BY <1>1 DEF Mine, TypeOK
<1>3. QED
  BY <1>1, <1>2 DEF Book, BlockPeriod, Expired

LEMMA NextBook == TypeOK /\ Flow /\ Book /\ [Next]_vars => Book'
<1> SUFFICES ASSUME TypeOK, Flow, Book, [Next]_vars PROVE Book'
  OBVIOUS
<1> USE DEF jobVars, bookVars, procVars, nodeVars, Goto, Hook
<1>a. Len(log) \in Nat /\ born \in 0..Len(log)
  BY DEF TypeOK
<1>b. \A i \in Mine : log[i] \in Recovery
  BY DEF TypeOK, Mine
<1>1. CASE UNCHANGED <<now, log, registry, pending, born>>
  BY <1>1 DEF Book, BlockPeriod, Mine, Expired
<1>2. CASE Cleanup
  <2>1. UNCHANGED <<now, log, pending, born>>
    BY <1>2 DEF Cleanup
  <2>2. registry' = {i \in registry : ~Expired(i)}
    BY <1>2 DEF Cleanup
  <2>3. QED
    BY <2>1, <2>2 DEF Book, BlockPeriod, Mine, Expired
<1>3. CASE Tick
  <2>1. now' = now + 1 /\ UNCHANGED <<log, registry, pending, born>>
    BY <1>3 DEF Tick
  <2>2. \A i \in Mine : Expired(i) => Expired(i)'
    BY <1>b, <2>1 DEF Expired, Recovery, TypeOK
  <2>3. QED
    BY <2>1, <2>2 DEF Book, BlockPeriod, Mine
<1>4. CASE Restart
  <2>1. log' = log /\ born' = Len(log) /\ registry' = {} /\ pending' = {}
    BY <1>4 DEF Restart, Fresh
  <2>2. Mine' = {}
    BY <1>a, <2>1 DEF Mine
  <2>3. QED
    BY <2>1, <2>2 DEF Book, BlockPeriod
<1>5. CASE PromoteStart
  <2>1. cur.set \in Set
    BY <1>5, AnalysisFields DEF Flow, PromoteStart
  <2>2. pending = {}
    BY <1>5 DEF Flow, PromoteStart
  <2>3. QED
    BY <1>5, <2>1, <2>2, BlockTimeAssumption, StartKeepsBook DEF PromoteStart
<1>6. ASSUME NEW n \in Storage, DemoteStart(n) PROVE Book'
  <2>1. \A i \in pending : log[i].key # n
    BY <1>6 DEF Flow, DemotePcs, DemoteStart
  <2>2. QED
    BY <1>6, <2>1, BlockTimeAssumption, StartKeepsBook DEF DemoteStart
<1>7. CASE InstancesDone \/ DemoteExec
  BY <1>7, MarkKeepsBook DEF InstancesDone, DemoteExec
<1>8. ASSUME NEW i \in pending, Register(i) PROVE Book'
  <2>1. /\ registry' = registry \cup {i} /\ pending' = pending \ {i}
        /\ UNCHANGED <<now, log, born>>
    BY <1>8 DEF Register
  <2>2. QED
    BY <2>1 DEF Book, BlockPeriod, Mine, Expired
<1>9. CASE Finish
  BY <1>1, <1>9 DEF Flow, Finish, Fresh
<1>10. ASSUME NEW a \in Analysis, Receive(a) \/ Ignore(a) PROVE Book'
  BY <1>1, <1>10 DEF Receive, Ignore, vars
<1>11. CASE ServeReturns \/ Shutdown \/ ServeStops \/ LateArrives
  BY <1>1, <1>11 DEF ServeReturns, Shutdown, ServeStops, LateArrives
<1>12. CASE Recover
  <2>1. CASE PromoteBlocked \/ PreFailover \/ ElectNobody \/ Elect \/ ElectPanics
             \/ ExecCandidate \/ RoutersDone \/ DemoteHook \/ DemoteDone
             \/ ForceDiscover
    BY <1>1, <2>1 DEF PromoteBlocked, PreFailover, ElectNobody, Elect,
          ElectPanics, ExecCandidate, RoutersDone, DemoteHook, DemoteDone,
          ForceDiscover
  <2>2. CASE ExecRouter \/ ExecInstance
    BY <1>1, <2>2 DEF ExecRouter, ExecInstance, ExecNext
  <2>3. ASSUME NEW n \in Storage, DemoteSkip(n) PROVE Book'
    BY <1>1, <2>3 DEF DemoteSkip
  <2>4. QED
    BY <1>5, <1>6, <1>7, <1>8, <1>9, <1>12, <2>1, <2>2, <2>3 DEF Recover
<1>13. QED
  BY <1>1, <1>2, <1>3, <1>4, <1>10, <1>11, <1>12 DEF Next, vars

LEMMA SpecIInv == Spec => []IInv
<1>1. IInv /\ [Next]_vars => IInv'
  BY NextTypeOK, NextFlow, NextBook DEF IInv
<1>2. QED
  BY InitIInv, <1>1, PTL DEF Spec

(* Every state of the failover has the declared types: what is registered  *)
(* or still to be registered was started, whatever the order of restarts,  *)
(* cleanups and recoveries.                                                *)
THEOREM FailoverTypes == Spec => []TypeOK
<1>1. IInv => TypeOK
  BY DEF IInv
<1>2. QED
  BY <1>1, SpecIInv, PTL

(* No replica set and no co-master is recovered twice within its block     *)
(* period by one qumomf process, for any block times and analyses.         *)
THEOREM BlockPeriodHolds == Spec => []BlockPeriod
<1>1. IInv => BlockPeriod
  BY DEF IInv, Book
<1>2. QED
  BY <1>1, SpecIInv, PTL

-----------------------------------------------------------------------------
(* Routers.  A script outlives its request, so the scripts on their way to *)
(* a router count as much as what the routers already hold.                *)

RouterInv ==
  /\ RoutersFollowMasters
  /\ \A e \in late : e[1] \in Router => e[3] \in served
  /\ pc = "routers" => cand \in served

\* A script that names m is sent to a storage, or m took the master role.
LEMMA ExecRouterInv ==
  ASSUME TypeOK, RouterInv, NEW n \in Node, NEW s \in Set, NEW m \in Storage,
         NEW acked \in BOOLEAN, Exec(n, s, m, acked),
         n \in Router => m \in served
  PROVE  /\ RoutersFollowMasters'
         /\ \A e \in late' : e[1] \in Router => e[3] \in served'
         /\ served \subseteq served'
         /\ acked /\ n = m => m \in served'
<1>1. served \subseteq served' /\ (acked /\ n = m => m \in served')
  BY DEF Exec, Apply
<1>2. \A r \in Router, t \in Set : view'[r][t] \in served'
  <2> SUFFICES ASSUME NEW r \in Router, NEW t \in Set
               PROVE  view'[r][t] \in served'
    OBVIOUS
  <2>1. view'[r][t] = view[r][t] \/ (r = n /\ view'[r][t] = m)
    BY DEF Exec, Apply, TypeOK, Node
  <2>2. QED
    BY <1>1, <2>1 DEF RouterInv, RoutersFollowMasters
<1>3. \A e \in late' : e[1] \in Router => e[3] \in served'
  <2>1. late' \subseteq late \cup {<<n, s, m>>}
    BY DEF Exec
  <2>2. QED
    BY <1>1, <2>1 DEF RouterInv
<1>4. QED
  BY <1>1, <1>2, <1>3 DEF RoutersFollowMasters

LEMMA NextRouterInv ==
  TypeOK /\ Flow /\ RouterInv /\ [Next]_vars => RouterInv'
<1> SUFFICES ASSUME TypeOK, Flow, RouterInv, [Next]_vars PROVE RouterInv'
  OBVIOUS
<1> USE TopologyAssumption DEF jobVars, bookVars, procVars, nodeVars, Goto, Hook
<1>a. pc \notin {"idle", "stopped"} => cur.set \in Set /\ cur.master \in Storage
  BY AnalysisFields DEF Flow
<1>b. pc \in CandPcs => cand \in Storage /\ cand \in Node /\ cand \notin Router
  BY DEF Flow, Node
<1>1. CASE UNCHANGED nodeVars /\ (pc' = "routers" => pc = "routers" /\ UNCHANGED cand)
  BY <1>1 DEF RouterInv, RoutersFollowMasters
<1>2. CASE ExecCandidate
  <2>1. PICK acked \in BOOLEAN :
          /\ Exec(cand, cur.set, cand, acked)
          /\ pc' = IF acked THEN "routers" ELSE "register"
    BY <1>2 DEF ExecCandidate
  <2>2. cur.set \in Set /\ cand \in Storage /\ cand \in Node /\ cand \notin Router
    BY <1>2, <1>a, <1>b DEF ExecCandidate, CandPcs
  <2>3. /\ RoutersFollowMasters'
        /\ \A e \in late' : e[1] \in Router => e[3] \in served'
        /\ acked => cand \in served'
    BY <2>1, <2>2, ExecRouterInv
  <2>4. cand' = cand
    BY <1>2 DEF ExecCandidate
  <2>5. QED
    BY <2>1, <2>3, <2>4 DEF RouterInv
<1>3. CASE ExecRouter \/ ExecInstance
  <2>1. PICK n \in Node, acked \in BOOLEAN :
          /\ Exec(n, cur.set, cand, acked)
          /\ pc \in {"routers", "instances"}
          /\ n \in todo
          /\ UNCHANGED <<pc, cand>>
    BY <1>3 DEF ExecRouter, ExecInstance, ExecNext, Node
  <2>2. cur.set \in Set /\ cand \in Storage
    BY <2>1, <1>a, <1>b DEF CandPcs
  <2>3. n \in Router => cand \in served
    BY <2>1 DEF Flow, RouterInv
  <2>4. /\ RoutersFollowMasters'
        /\ \A e \in late' : e[1] \in Router => e[3] \in served'
        /\ served \subseteq served'
    BY <2>1, <2>2, <2>3, ExecRouterInv
  <2>5. QED
    BY <2>1, <2>4 DEF RouterInv
<1>4. CASE DemoteExec
  <2>1. PICK acked \in BOOLEAN : Exec(cand, cur.set, cur.master, acked)
    BY <1>4 DEF DemoteExec
  <2>2. /\ cur.set \in Set /\ cur.master \in Storage
        /\ cand \in Node /\ cand \notin Router /\ pc' = "demote"
    BY <1>4, <1>a, <1>b DEF DemoteExec, CandPcs
  <2>3. /\ RoutersFollowMasters'
        /\ \A e \in late' : e[1] \in Router => e[3] \in served'
    BY <2>1, <2>2, ExecRouterInv
  <2>4. QED
    BY <2>2, <2>3 DEF RouterInv
<1>5. CASE LateArrives
  <2>1. PICK e \in late :
          /\ late' = late \ {e}
          /\ Apply(e[1], e[2], e[3]) \/ UNCHANGED <<view, served>>
    BY <1>5 DEF LateArrives
  <2>2. UNCHANGED <<pc, cand>>
    BY <1>5 DEF LateArrives
  <2>3. CASE UNCHANGED <<view, served>>
    BY <2>1, <2>2, <2>3 DEF RouterInv, RoutersFollowMasters
  <2>4. CASE Apply(e[1], e[2], e[3])
    <3>1. e[1] \in Node /\ e[2] \in Set /\ e[3] \in Storage
      BY <2>1 DEF TypeOK
    <3>2. served \subseteq served'
      BY <2>4 DEF Apply
    <3>3. \A r \in Router, t \in Set : view'[r][t] \in served'
      <4> DEFINE n == e[1]
                 s == e[2]
                 m == e[3]
      <4>0. /\ n \in Node /\ s \in Set /\ m \in Storage
            /\ n \in Router => m \in served
            /\ view' = [view EXCEPT ![n][s] = m]
        BY <2>1, <2>4, <3>1 DEF RouterInv, Apply
      <4> HIDE DEF n, s, m
      <4> SUFFICES ASSUME NEW r \in Router, NEW t \in Set
                   PROVE  view'[r][t] \in served'
        OBVIOUS
      <4>1. view'[r][t] = view[r][t] \/ (r = n /\ view'[r][t] = m)
        BY <4>0 DEF TypeOK, Node
      <4>2. QED
        BY <3>2, <4>0, <4>1 DEF RouterInv, RoutersFollowMasters
    <3>4. QED
      BY <2>1, <2>2, <3>2, <3>3 DEF RouterInv, RoutersFollowMasters
  <2>5. QED
    BY <2>1, <2>3, <2>4
<1>6. CASE UNCHANGED vars
  BY <1>1, <1>6 DEF vars
<1>7. ASSUME NEW a \in Analysis, Receive(a) \/ Ignore(a) PROVE RouterInv'
  BY <1>1, <1>7 DEF Receive, Ignore, vars
<1>8. CASE \/ Cleanup \/ ServeReturns \/ Shutdown \/ ServeStops \/ Restart
           \/ Tick
  BY <1>1, <1>8 DEF Cleanup, ServeReturns, Shutdown, ServeStops, Restart, Fresh, Tick
<1>9. CASE Recover
  <2>1. CASE PromoteBlocked \/ PromoteStart \/ PreFailover \/ ElectNobody
             \/ Elect \/ ElectPanics \/ RoutersDone \/ InstancesDone
             \/ DemoteHook \/ DemoteDone \/ ForceDiscover \/ Finish
    BY <1>1, <2>1 DEF PromoteBlocked, PromoteStart, PreFailover, ElectNobody,
          Elect, ElectPanics, RoutersDone, InstancesDone, DemoteHook,
          DemoteDone, ForceDiscover, Finish, Fresh
  <2>2. ASSUME NEW n \in Storage, DemoteSkip(n) \/ DemoteStart(n)
        PROVE  RouterInv'
    BY <1>1, <2>2 DEF DemoteSkip, DemoteStart
  <2>3. ASSUME NEW i \in pending, Register(i) PROVE RouterInv'
    BY <1>1, <2>3 DEF Register
  <2>4. QED
    BY <1>2, <1>3, <1>4, <1>9, <2>1, <2>2, <2>3 DEF Recover
<1>10. QED
  BY <1>5, <1>6, <1>7, <1>8, <1>9 DEF Next

(* A router is only ever pointed at a storage that took the master role,   *)
(* however many requests fail or outlive their timeout.                    *)
THEOREM RoutersFollowMastersHolds == Spec => []RoutersFollowMasters
<1>1. Init => RouterInv
  BY DEF Init, RouterInv, RoutersFollowMasters, Node
<1>2. IInv /\ RouterInv /\ [Next]_vars => RouterInv'
  BY NextRouterInv DEF IInv
<1>3. RouterInv => RoutersFollowMasters
  BY DEF RouterInv
<1>4. QED
  BY <1>1, <1>2, <1>3, SpecIInv, PTL DEF Spec

-----------------------------------------------------------------------------
(* Successful promotions.  While its loops run, a promotion has settled    *)
(* every node it is past, but for those it missed; its recovery does not   *)
(* count as successful before the last loop has ended.                     *)

Settled(n) == view[n][cur.set] = cand

PromotePcs == {"promote", "prehook", "elect", "candidate", "routers", "instances"}

SettleInv ==
  /\ pc \in PromotePcs =>
       cur.state \in PromoteStates /\ \A i \in pending : ~log[i].ok
  /\ pc \in DemotePcs => cur.state \in DemoteStates
  /\ pc = "routers" =>
       \A n \in (Router \cup {cand}) \ (missed \cup todo) : Settled(n)
  /\ pc = "instances" => \A n \in Node \ (missed \cup todo) : Settled(n)
  /\ SuccessSettlesReached

\* The script settles its node and touches no other.
LEMMA ExecSettles ==
  ASSUME TypeOK, NEW n \in Node, cur.set \in Set, cand \in Storage,
         NEW acked \in BOOLEAN, Exec(n, cur.set, cand, acked),
         UNCHANGED <<cur, cand>>
  PROVE  /\ \A k \in Node : Settled(k) => Settled(k)'
         /\ acked => Settled(n)'
<1>1. CASE acked
  <2>1. view' = [view EXCEPT ![n][cur.set] = cand]
    BY <1>1 DEF Exec, Apply
  <2> QED
    BY <2>1 DEF Settled, TypeOK
<1>2. CASE ~acked
  BY <1>2 DEF Exec, Settled
<1> QED
  BY <1>1, <1>2

\* Steps that leave the nodes, the job's data and its records alone.
LEMMA QuietSettles ==
  ASSUME SettleInv, UNCHANGED <<cur, cand, todo, pending, log, view, missed>>,
         \/ UNCHANGED pc
         \/ pc \in PromotePcs \ {"routers", "instances"}
            /\ pc' \in {"prehook", "elect", "candidate", "register", "finish", "dead"}
         \/ pc \in DemotePcs /\ pc' \in DemotePcs \cup {"register", "finish"}
         \/ pc' \in {"discover", "finish", "idle", "stopped", "dead"}
  PROVE  SettleInv'
  BY DEF SettleInv, SuccessSettlesReached, Settled, PromotePcs, DemotePcs,
         PromoteStates, DemoteStates

\* A new record is not successful, and starting it touches no node.
LEMMA StartSettles ==
  ASSUME TypeOK, Flow, SettleInv,
         PromoteStart \/ \E n \in Storage : DemoteStart(n)
  PROVE  SettleInv'
<1>1. CASE PromoteStart
  <2>1. cur.set \in Set
    BY <1>1, AnalysisFields DEF PromoteStart, Goto, Flow
  <2>2. pending = {}
    BY <1>1 DEF PromoteStart, Goto, Flow
  <2>3. pending' = {Len(log) + 1} /\ ~log'[Len(log) + 1].ok
    BY <1>1, <2>1, <2>2, BlockTimeAssumption, StartRecordLemma DEF PromoteStart
  <2> QED
    BY <1>1, <2>3 DEF PromoteStart, Goto, SettleInv, SuccessSettlesReached,
                      Settled, PromotePcs, DemotePcs
<1>2. CASE \E n \in Storage : DemoteStart(n)
  BY <1>2 DEF DemoteStart, Goto, SettleInv, SuccessSettlesReached, Settled,
              PromotePcs, DemotePcs
<1> QED
  BY <1>1, <1>2

\* The candidate is settled, and so are the routers one by one.
LEMMA CandidateSettles ==
  ASSUME TypeOK, Flow, SettleInv, ExecCandidate
  PROVE  SettleInv'
<1>1. cand \in Storage /\ cand \in Node /\ cur.set \in Set /\ pc = "candidate"
  BY AnalysisFields DEF ExecCandidate, Flow, CandPcs, Node
<1>2. PICK acked \in BOOLEAN :
        /\ Exec(cand, cur.set, cand, acked)
        /\ acked => pc' = "routers" /\ \E known \in SUBSET Router :
             todo' = known /\ missed' = missed \cup (Router \ known)
        /\ ~acked => pc' = "register"
  BY DEF ExecCandidate
<1>3. UNCHANGED <<cur, cand, pending, log>>
  BY DEF ExecCandidate, bookVars
<1>4. acked => Settled(cand)'
  BY <1>1, <1>2, <1>3, ExecSettles
<1>5. cur.state \in PromoteStates /\ \A i \in pending : ~log[i].ok
  BY <1>1 DEF SettleInv, PromotePcs
<1>6. CASE acked
  <2>1. \A n \in (Router \cup {cand}) \ (missed' \cup todo') : n = cand
    BY <1>2, <1>6
  <2> QED
    BY <1>2, <1>3, <1>4, <1>5, <1>6, <2>1
    DEF SettleInv, SuccessSettlesReached, Settled, PromotePcs, DemotePcs
<1>7. CASE ~acked
  BY <1>2, <1>3, <1>5, <1>7
  DEF SettleInv, SuccessSettlesReached, PromotePcs, DemotePcs
<1> QED
  BY <1>6, <1>7

\* A node of a loop is settled or missed, the others stay as they are.
LEMMA LoopSettles ==
  ASSUME TypeOK, Flow, SettleInv, ExecRouter \/ ExecInstance
  PROVE  SettleInv'
<1>1. PICK n \in Node, acked \in BOOLEAN :
        /\ Exec(n, cur.set, cand, acked)
        /\ missed' = IF acked THEN missed ELSE missed \cup {n}
        /\ pc \in {"routers", "instances"}
        /\ todo' = todo \ {n}
        /\ UNCHANGED <<pc, cur, cand, pending, log>>
  BY DEF ExecRouter, ExecInstance, ExecNext, Node, bookVars
<1>2. cand \in Storage /\ cand \in Node /\ cur.set \in Set
  BY <1>1, AnalysisFields DEF Flow, CandPcs, Node
<1>3. /\ \A k \in Node : Settled(k) => Settled(k)'
      /\ acked => Settled(n)'
  BY <1>1, <1>2, ExecSettles
<1>4. \A k : k \notin missed' \cup todo' => k \notin missed \cup todo \/ (k = n /\ acked)
  BY <1>1
<1>5. Router \cup {cand} \subseteq Node
  BY <1>2 DEF Node
<1>6. pc = "routers" =>
        \A k \in (Router \cup {cand}) \ (missed' \cup todo') : Settled(k)'
  BY <1>3, <1>4, <1>5 DEF SettleInv
<1>7. pc = "instances" => \A k \in Node \ (missed' \cup todo') : Settled(k)'
  BY <1>3, <1>4 DEF SettleInv
<1> QED
  BY <1>1, <1>6, <1>7
  DEF SettleInv, SuccessSettlesReached, PromotePcs, DemotePcs

\* The end of a loop: the snapshot names the nodes of the next one, and the
\* recovery is successful when there is none.
LEMMA LoopEndSettles ==
  ASSUME TypeOK, Flow, SettleInv, RoutersDone \/ InstancesDone
  PROVE  SettleInv'
<1>1. CASE RoutersDone
  <2>1. PICK known \in SUBSET Storage :
          /\ todo' = known \ {cand}
          /\ missed' = missed \cup (Storage \ (known \cup {cand}))
    BY <1>1 DEF RoutersDone
  <2>2. /\ todo = {} /\ pc = "routers" /\ pc' = "instances"
        /\ UNCHANGED <<cur, cand, pending, log, view>>
    BY <1>1 DEF RoutersDone, Goto, bookVars, nodeVars
  <2>3. \A n \in Node \ (missed' \cup todo') : n \in Router \cup {cand}
    BY <2>1 DEF Node
  <2>4. \A n \in Node \ (missed' \cup todo') : Settled(n)'
    BY <2>1, <2>2, <2>3 DEF SettleInv, Settled
  <2> QED
    BY <2>2, <2>4 DEF SettleInv, SuccessSettlesReached, PromotePcs, DemotePcs
<1>2. CASE InstancesDone
  <2>1. /\ todo = {} /\ pc = "instances" /\ pc' = "register"
        /\ UNCHANGED <<cur, cand, todo, view, missed>>
    BY <1>2 DEF InstancesDone, Goto, nodeVars
  <2>2. \A n \in Node \ missed : view[n][cur.set] = cand
    BY <2>1 DEF SettleInv, Settled
  <2> QED
    BY <2>1, <2>2 DEF SettleInv, SuccessSettlesReached, PromotePcs, DemotePcs
<1> QED
  BY <1>1, <1>2

\* A script that nobody waits for spoils its own node, which then counts as
\* missed.
LEMMA LateSettles ==
  ASSUME TypeOK, Flow, SettleInv, LateArrives
  PROVE  SettleInv'
<1>1. PICK x \in late :
        \/ Apply(x[1], x[2], x[3]) /\ missed' = missed \cup {x[1]}
        \/ UNCHANGED <<view, served, missed>>
  BY DEF LateArrives
<1>2. UNCHANGED <<pc, cur, cand, todo, pending, log>>
  BY DEF LateArrives, jobVars, bookVars
<1>3. missed \subseteq missed' /\ \A n \in Node \ missed' : view'[n] = view[n]
  <2>1. CASE UNCHANGED <<view, missed>>
    BY <2>1
  <2>2. CASE Apply(x[1], x[2], x[3]) /\ missed' = missed \cup {x[1]}
    <3> DEFINE n == x[1]
               s == x[2]
               m == x[3]
    <3>1. view' = [view EXCEPT ![n][s] = m] /\ missed' = missed \cup {n}
      BY <2>2 DEF Apply
    <3> HIDE DEF n, s, m
    <3> QED
      BY <3>1 DEF TypeOK
  <2> QED
    BY <1>1, <2>1, <2>2
<1>4. pc = "routers" => cand \in Node
  BY DEF Flow, CandPcs, Node
<1> QED
  BY <1>2, <1>3, <1>4
  DEF SettleInv, SuccessSettlesReached, Settled, PromotePcs, DemotePcs, Node

LEMMA NextSettles == TypeOK /\ Flow /\ SettleInv /\ [Next]_vars => SettleInv'
<1> SUFFICES ASSUME TypeOK, Flow, SettleInv, [Next]_vars PROVE SettleInv'
  OBVIOUS
<1> USE DEF jobVars, bookVars, procVars, nodeVars, Goto, Hook
<1>1. CASE UNCHANGED vars
  BY <1>1, QuietSettles DEF vars
<1>2. ASSUME NEW a \in Analysis, Receive(a) PROVE SettleInv'
  <2>1. pending' = {}
    BY <1>2 DEF Receive, Flow
  <2> QED
    BY <1>2, <2>1 DEF Receive, SettleInv, SuccessSettlesReached, PromotePcs,
                      DemotePcs
<1>3. ASSUME NEW a \in Analysis, Ignore(a) PROVE SettleInv'
  BY <1>3, QuietSettles DEF Ignore, vars
<1>4. CASE Cleanup \/ ServeReturns \/ Shutdown \/ Tick \/ ServeStops
  BY <1>4, QuietSettles DEF Cleanup, ServeReturns, Shutdown, Tick, ServeStops
<1>5. CASE Restart \/ Finish
  BY <1>5 DEF Restart, Finish, Fresh, SettleInv, SuccessSettlesReached,
              PromotePcs, DemotePcs
<1>6. CASE LateArrives
  BY <1>6, LateSettles
<1>7. CASE Recover
  <2>1. CASE PromoteBlocked \/ PreFailover \/ ElectNobody \/ ElectPanics
    BY <2>1, QuietSettles
    DEF PromoteBlocked, PreFailover, ElectNobody, ElectPanics, PromotePcs
  <2>2. CASE Elect
    BY <2>2 DEF Elect, SettleInv, SuccessSettlesReached, PromotePcs, DemotePcs
  <2>3. CASE DemoteHook \/ DemoteDone
    BY <2>3, QuietSettles DEF DemoteHook, DemoteDone, DemotePcs
  <2>4. ASSUME NEW n \in Storage, DemoteSkip(n) PROVE SettleInv'
    BY <2>4 DEF DemoteSkip, SettleInv, SuccessSettlesReached, PromotePcs,
                DemotePcs
  <2>5. CASE DemoteExec
    BY <2>5 DEF DemoteExec, SettleInv, SuccessSettlesReached, PromotePcs,
                DemotePcs
  <2>6. ASSUME NEW i \in pending, Register(i) PROVE SettleInv'
    BY <2>6 DEF Register, SettleInv, SuccessSettlesReached, PromotePcs,
                DemotePcs
  <2>7. CASE ForceDiscover
    BY <2>7, QuietSettles DEF ForceDiscover
  <2> QED
    BY <1>5, <1>7, <2>1, <2>2, <2>3, <2>4, <2>5, <2>6, <2>7, StartSettles,
       CandidateSettles, LoopSettles, LoopEndSettles DEF Recover
<1> QED
  BY <1>1, <1>2, <1>3, <1>4, <1>5, <1>6, <1>7 DEF Next

(* A promotion that reports success leaves every node it reached with the  *)
(* candidate as the only master of the set, for any topology, whatever     *)
(* requests fail, outlive their timeout or arrive from earlier recoveries. *)
THEOREM SuccessSettlesReachedHolds == Spec => []SuccessSettlesReached
<1>1. Init => SettleInv
  BY DEF Init, SettleInv, SuccessSettlesReached, PromotePcs, DemotePcs
<1>2. IInv /\ SettleInv /\ [Next]_vars => SettleInv'
  BY NextSettles DEF IInv
<1>3. SettleInv => SuccessSettlesReached
  BY DEF SettleInv
<1>4. QED
  BY <1>1, <1>2, <1>3, SpecIInv, PTL DEF Spec
=============================================================================
