-------------------------- MODULE ConnPool_proofs --------------------------
(***************************************************************************)
(* The connection pool hands every caller of a server the same connector,  *)
(* and implements ConnRegistry, for any number of goroutines and servers.  *)
(*                                                                         *)
(* Only Create changes the map, and it overwrites nothing: the second look *)
(* found no connector and the write lock has been held since.  So what a   *)
(* caller has read and not returned yet is still what the map holds.       *)
(***************************************************************************)
EXTENDS ConnPool, TLAPS

\* The goroutines that own the write lock.
Owner(p) == pc[p] \in {"locked", "create", "unlock", "close"}

\* At most one goroutine is between Lock and Unlock.
WriterOwns == \A p \in Proc : Owner(p) => writer = p

\* The second look is still true when the connector is stored.
MissIsFresh == \A p \in Proc : pc[p] = "create" => m[key[p]] = 0

\* What Get is about to return is in the map.
HitIsCurrent ==
  \A p \in Proc :
    \/ pc[p] = "unlock"
    \/ pc[p] = "runlock" /\ conn[p] # 0
    => m[key[p]] = conn[p] /\ conn[p] # 0

\* What Get has returned is in the map.
ReturnedIsCurrent == \A r \in returned : m[r[1]] = r[2] /\ r[2] # 0

IInv == TypeOK /\ WriterOwns /\ MissIsFresh /\ HitIsCurrent /\ ReturnedIsCurrent

\* Initially the pool is empty and nobody is inside.
LEMMA InitIInv == Init => IInv
<1> SUFFICES ASSUME Init PROVE IInv
  OBVIOUS
<1> USE NormaliseAssumption DEF Init
<1>1. TypeOK
  BY DEF TypeOK
<1>2. WriterOwns /\ MissIsFresh /\ HitIsCurrent /\ ReturnedIsCurrent
  BY DEF WriterOwns, Owner, MissIsFresh, HitIsCurrent, ReturnedIsCurrent
<1>3. QED
  BY <1>1, <1>2 DEF IInv

\* Every step keeps the types.
LEMMA NextTypeOK == TypeOK /\ [Next]_vars => TypeOK'
<1> SUFFICES ASSUME TypeOK, [Next]_vars PROVE TypeOK'
  OBVIOUS
<1> USE NormaliseAssumption, NoProcAssumption DEF TypeOK, Goto, Return
<1>1. CASE UNCHANGED vars
  BY <1>1 DEF vars
<1>2. ASSUME NEW p \in Proc, NEW uri \in URI, Get(p, uri) PROVE TypeOK'
  <2>1. Normalise(uri) \in Server
    BY DEF Normalise
  <2>2. QED
    BY <1>2, <2>1 DEF Get
<1>3. ASSUME NEW p \in Proc, Close(p) PROVE TypeOK'
  BY <1>3 DEF Close
<1>4. ASSUME NEW p \in Proc, Step(p) PROVE TypeOK'
  <2>1. CASE RLock(p)
    BY <2>1 DEF RLock
  <2>2. CASE Lookup(p)
    BY <2>2 DEF Lookup
  <2>3. CASE RUnlock(p)
    BY <2>3 DEF RUnlock
  <2>4. CASE Lock(p)
    BY <2>4 DEF Lock
  <2>5. CASE DoubleCheck(p)
    BY <2>5 DEF DoubleCheck
  <2>6. CASE Create(p)
    BY <2>6 DEF Create
  <2>7. CASE Unlock(p)
    BY <2>7 DEF Unlock
  <2>8. CASE CloseLock(p)
    BY <2>8 DEF CloseLock
  <2>9. CASE CloseAll(p)
    BY <2>9 DEF CloseAll
  <2>10. QED
    BY <1>4, <2>1, <2>2, <2>3, <2>4, <2>5, <2>6, <2>7, <2>8, <2>9 DEF Step
<1>5. QED
  BY <1>1, <1>2, <1>3, <1>4 DEF Next

\* Every step keeps the invariant.
LEMMA NextIInv == IInv /\ [Next]_vars => IInv'
<1> SUFFICES ASSUME IInv, [Next]_vars PROVE IInv'
  OBVIOUS
<1>0. TypeOK /\ TypeOK'
  BY NextTypeOK DEF IInv
<1> DEFINE Rest == WriterOwns /\ MissIsFresh /\ HitIsCurrent /\ ReturnedIsCurrent
<1> SUFFICES Rest'
  BY <1>0 DEF IInv
<1>r. Rest
  BY DEF IInv
<1> HIDE DEF Rest
<1> USE <1>0, <1>r, NoProcAssumption
    DEF TypeOK, Rest, WriterOwns, Owner, MissIsFresh, HitIsCurrent,
        ReturnedIsCurrent, Goto, Return
<1>1. CASE UNCHANGED vars
  BY <1>1 DEF vars
<1>2. ASSUME NEW p \in Proc, NEW uri \in URI, Get(p, uri) PROVE Rest'
  BY <1>2 DEF Get
<1>3. ASSUME NEW p \in Proc, Close(p) PROVE Rest'
  BY <1>3 DEF Close
<1>4. ASSUME NEW p \in Proc, Step(p) PROVE Rest'
  <2>1. CASE RLock(p)
    BY <2>1 DEF RLock
  <2>2. CASE Lookup(p)
    BY <2>2 DEF Lookup
  <2>3. CASE RUnlock(p)
    BY <2>3 DEF RUnlock
  <2>4. CASE Lock(p)
    BY <2>4 DEF Lock
  <2>5. CASE DoubleCheck(p)
    BY <2>5 DEF DoubleCheck
  <2>6. CASE Create(p)
    BY <2>6 DEF Create
  <2>7. CASE Unlock(p)
    BY <2>7 DEF Unlock
  <2>8. CASE CloseLock(p)
    BY <2>8 DEF CloseLock
  <2>9. CASE CloseAll(p)
    BY <2>9 DEF CloseAll
  <2>10. QED
    BY <1>4, <2>1, <2>2, <2>3, <2>4, <2>5, <2>6, <2>7, <2>8, <2>9 DEF Step
<1>5. QED
  BY <1>1, <1>2, <1>3, <1>4 DEF Next

LEMMA SpecIInv == Spec => []IInv
  BY InitIInv, NextIInv, PTL DEF Spec

(* Every state of the pool has the declared types.                         *)
THEOREM PoolTypes == Spec => []TypeOK
<1>1. IInv => TypeOK
  BY DEF IInv
<1>2. QED
  BY <1>1, SpecIInv, PTL

(* The connectors Get has returned for one server are one connector, for   *)
(* any number of concurrent callers, leaked lock or not.                   *)
THEOREM OneConnectorPerServer == Spec => []SameConnector
<1>1. IInv => SameConnector
  BY DEF IInv, ReturnedIsCurrent, SameConnector
<1>2. QED
  BY <1>1, SpecIInv, PTL

(* Seen from its callers the pool is a registry with atomic steps: Create  *)
(* is its Open, the returns of Get are its Hand, all else it does not see. *)
THEOREM PoolImplementsRegistry == Spec => ImplementsRegistry
<1>1. Init => Registry!Init
  BY DEF Init, Registry!Init
<1>2. ASSUME IInv, [Next]_vars
      PROVE  [Registry!Next]_(Registry!regVars)
  <2> USE <1>2, NoProcAssumption DEF IInv, TypeOK, Goto, Return, Registry!regVars
  <2>1. CASE UNCHANGED vars
    BY <2>1 DEF vars
  <2>2. ASSUME NEW p \in Proc, NEW uri \in URI, Get(p, uri)
        PROVE  UNCHANGED Registry!regVars
    BY <2>2 DEF Get
  <2>3. ASSUME NEW p \in Proc, Close(p) PROVE UNCHANGED Registry!regVars
    BY <2>3 DEF Close
  <2>4. ASSUME NEW p \in Proc, Step(p)
        PROVE  \/ Registry!Open(key[p])
               \/ Registry!Hand(key[p])
               \/ UNCHANGED Registry!regVars
    <3>1. CASE RLock(p) \/ Lookup(p) \/ Lock(p) \/ CloseLock(p) \/ CloseAll(p)
      BY <3>1 DEF RLock, Lookup, Lock, CloseLock, CloseAll
    <3>2. CASE RUnlock(p)
      BY <3>2 DEF RUnlock, HitIsCurrent, Registry!Hand
    <3>3. CASE DoubleCheck(p)
      BY <3>3 DEF DoubleCheck, Registry!Hand
    <3>4. CASE Create(p)
      BY <3>4 DEF Create, MissIsFresh, Registry!Open
    <3>5. CASE Unlock(p)
      BY <3>5 DEF Unlock, HitIsCurrent, Registry!Hand
    <3>6. QED
      BY <2>4, <3>1, <3>2, <3>3, <3>4, <3>5 DEF Step
  <2>5. QED
    BY <2>1, <2>2, <2>3, <2>4 DEF Next, Registry!Next
<1>3. QED
  BY <1>1, <1>2, SpecIInv, PTL DEF Spec, ImplementsRegistry, Registry!Spec
=============================================================================
