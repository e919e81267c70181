------------------------------ MODULE ConnPool ------------------------------
(***************************************************************************)
(* The connection pool every goroutine of qumomf goes through              *)
(* (internal/vshard/tarantool.go).  Get looks a connector up under the     *)
(* read lock and, when there is none, looks again under the write lock     *)
(* before setting one up.  Close walks the map under the write lock.       *)
(*                                                                         *)
(* sync.RWMutex is modelled by what it guarantees: a writer that has       *)
(* called Lock keeps new readers out (writer # NoProc) and enters once the *)
(* readers inside have left.                                               *)
(***************************************************************************)
EXTENDS Naturals

CONSTANTS Proc,         \* goroutines that use the pool
          URI,          \* the addresses callers pass to Get
          Server,       \* the addresses connections are opened to
          NoUser,       \* what is left of an address after removeUserInfo
          Rules,        \* the OverrideURIRules of the configuration
          NoProc,       \* no goroutine holds the lock
          MaxConn       \* bound on the connectors a wrong pool could open

ASSUME NormaliseAssumption ==
  /\ NoUser \in [URI -> URI]
  /\ Rules \in [URI -> Server]

ASSUME NoProcAssumption == NoProc \notin Proc

VARIABLES m,            \* pool.m: the connector of each server, 0 when absent
          readers,      \* goroutines between RLock and RUnlock
          writer,       \* the goroutine that has called Lock, or NoProc
          pc,           \* where each goroutine is
          key,          \* the normalised address a goroutine asks for
          conn,         \* the local variable conn of Get
          created,      \* connectors set up so far
          returned,     \* the pairs <<key, connector>> Get has returned
          closed        \* Close has run to its end

vars == <<m, readers, writer, pc, key, conn, created, returned, closed>>

-----------------------------------------------------------------------------
\* Mutant: the OverrideURIRules are forgotten.
NormaliseNoRules(uri) == NoUser[uri]

(* The address a connector is kept under: user info is stripped first, the *)
(* configured rule is applied to what is left.                             *)
Normalise(uri) == Rules[NoUser[uri]]

Init == /\ m = [s \in Server |-> 0]
        /\ readers = {}
        /\ writer = NoProc
        /\ pc = [p \in Proc |-> "idle"]
        /\ key \in [Proc -> Server]
        /\ conn = [p \in Proc |-> 0]
        /\ created = 0
        /\ returned = {}
        /\ closed = FALSE

Goto(p, from, to) == pc[p] = from /\ pc' = [pc EXCEPT ![p] = to]

Return(p, c) == returned' = returned \cup {<<key[p], c>>}

\* A caller enters Get.
Get(p, uri) ==
  /\ Goto(p, "idle", "rlock")
  /\ key' = [key EXCEPT ![p] = Normalise(uri)]
  /\ UNCHANGED <<m, readers, writer, conn, created, returned, closed>>

RLock(p) ==
  /\ Goto(p, "rlock", "lookup")
  /\ writer = NoProc
  /\ readers' = readers \cup {p}
  /\ UNCHANGED <<m, writer, key, conn, created, returned, closed>>

\* The first look at the map, under the read lock.
Lookup(p) ==
  /\ Goto(p, "lookup", "runlock")
  /\ conn' = [conn EXCEPT ![p] = m[key[p]]]
  /\ UNCHANGED <<m, readers, writer, key, created, returned, closed>>

\* Mutant: the read lock is given back on a hit only.
RUnlockOnHit(p) ==
  /\ IF conn[p] # 0
     THEN /\ readers' = readers \ {p}
          /\ Goto(p, "runlock", "idle")
          /\ Return(p, conn[p])
     ELSE Goto(p, "runlock", "lock") /\ UNCHANGED <<readers, returned>>
  /\ UNCHANGED <<m, writer, key, conn, created, closed>>

\* The read lock is given back; a hit is returned, a miss goes on to Lock.
RUnlock(p) ==
  /\ readers' = readers \ {p}
  /\ \/ /\ conn[p] # 0
        /\ Goto(p, "runlock", "idle")
        /\ Return(p, conn[p])
     \/ /\ conn[p] = 0
        /\ Goto(p, "runlock", "lock")
        /\ UNCHANGED returned
  /\ UNCHANGED <<m, writer, key, conn, created, closed>>

\* Lock announces the writer: from here on no reader gets in.
Lock(p) ==
  /\ Goto(p, "lock", "locked")
  /\ writer = NoProc
  /\ writer' = p
  /\ UNCHANGED <<m, readers, key, conn, created, returned, closed>>

\* Mutant: no second look under the write lock.
DoubleCheckBlind(p) ==
  /\ readers = {}
  /\ Goto(p, "locked", "create")
  /\ UNCHANGED <<m, readers, writer, key, conn, created, returned, closed>>

\* The double check.  A hit returns at once, and the write lock is kept.
DoubleCheck(p) ==
  /\ readers = {}
  /\ conn' = [conn EXCEPT ![p] = m[key[p]]]
  /\ \/ /\ m[key[p]] # 0
        /\ Goto(p, "locked", "idle")
        /\ Return(p, m[key[p]])
     \/ /\ m[key[p]] = 0
        /\ Goto(p, "locked", "create")
        /\ UNCHANGED returned
  /\ UNCHANGED <<m, readers, writer, key, created, closed>>

\* setupConnection, and the new connector is stored.
Create(p) ==
  /\ created < MaxConn
  /\ Goto(p, "create", "unlock")
  /\ created' = created + 1
  /\ conn' = [conn EXCEPT ![p] = created + 1]
  /\ m' = [m EXCEPT ![key[p]] = created + 1]
  /\ UNCHANGED <<readers, writer, key, returned, closed>>

Unlock(p) ==
  /\ Goto(p, "unlock", "idle")
  /\ writer' = NoProc
  /\ Return(p, conn[p])
  /\ UNCHANGED <<m, readers, key, conn, created, closed>>

\* Close: Lock, the walk over the map, Unlock.  The map keeps its entries.
Close(p) ==
  /\ ~closed
  /\ Goto(p, "idle", "closelock")
  /\ UNCHANGED <<m, readers, writer, key, conn, created, returned, closed>>

CloseLock(p) ==
  /\ Goto(p, "closelock", "close")
  /\ writer = NoProc
  /\ writer' = p
  /\ UNCHANGED <<m, readers, key, conn, created, returned, closed>>

\* Mutant: Close forgets the connectors.
CloseAllForgets(p) ==
  /\ readers = {}
  /\ Goto(p, "close", "idle")
  /\ writer' = NoProc
  /\ closed' = TRUE
  /\ m' = [s \in Server |-> 0]
  /\ UNCHANGED <<readers, key, conn, created, returned>>

CloseAll(p) ==
  /\ readers = {}
  /\ Goto(p, "close", "idle")
  /\ writer' = NoProc
  /\ closed' = TRUE
  /\ UNCHANGED <<m, readers, key, conn, created, returned>>

\* What a goroutine inside Get or Close does next.
Step(p) == \/ RLock(p) \/ Lookup(p) \/ RUnlock(p) \/ Lock(p)
           \/ DoubleCheck(p) \/ Create(p) \/ Unlock(p)
           \/ CloseLock(p) \/ CloseAll(p)

Next == \E p \in Proc : Step(p) \/ Close(p) \/ \E uri \in URI : Get(p, uri)

Spec == Init /\ [][Next]_vars

(* A goroutine runs whenever it can.  sync.RWMutex starves nobody, so the  *)
(* acquisitions, which other goroutines can disable, get strong fairness.  *)
(* Nobody has to call Get or Close.                                        *)
FairSpec == /\ Spec
            /\ \A p \in Proc : /\ WF_vars(Step(p))
                               /\ SF_vars(RLock(p))
                               /\ SF_vars(Lock(p))
                               /\ SF_vars(CloseLock(p))

-----------------------------------------------------------------------------
TypeOK ==
  /\ m \in [Server -> Nat]
  /\ readers \subseteq Proc
  /\ writer \in Proc \cup {NoProc}
  /\ pc \in [Proc -> {"idle", "rlock", "lookup", "runlock", "lock", "locked",
                      "create", "unlock", "closelock", "close"}]
  /\ key \in [Proc -> Server]
  /\ conn \in [Proc -> Nat]
  /\ created \in Nat
  /\ returned \subseteq Server \X Nat
  /\ closed \in BOOLEAN

(* Everybody who ever asked for a server holds the same connector: the     *)
(* require.Same of TestPool_Get, in every interleaving.  The lookup and    *)
(* the creation are separate critical sections, so it rests on the second  *)
(* look under the write lock.                                              *)
SameConnector ==
  \A r, s \in returned : r[1] = s[1] => r[2] = s[2]

(* The pool implements ConnRegistry: seen from its callers, a connector is *)
(* opened at most once per server and handed out in one atomic step.       *)
Registry == INSTANCE ConnRegistry
              WITH registry <- m, opened <- created, handed <- returned
ImplementsRegistry == Registry!Spec

(* The lock is held although no goroutine is between Lock and Unlock.      *)
Leaked ==
  /\ writer # NoProc
  /\ pc[writer] \notin {"locked", "create", "unlock", "close"}

(* Every call of Get returns, as the WaitGroup of TestPool_Get expects of  *)
(* a thousand concurrent callers.  The code breaks it: the caller that     *)
(* finds the connector on its second look returns with the write lock.     *)
GetReturns == \A p \in Proc : pc[p] = "rlock" ~> pc[p] = "idle"

(* That return is the only thing that ever blocks a caller: until the lock *)
(* is left behind, every Get and every Close comes to its end.             *)
BlockedOnlyByLeak ==
  \A p \in Proc : pc[p] \in {"rlock", "closelock"} ~> (pc[p] = "idle" \/ Leaked)
=============================================================================
