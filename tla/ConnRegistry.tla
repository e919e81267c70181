---------------------------- MODULE ConnRegistry ----------------------------
(***************************************************************************)
(* What the connection pool promises its callers: at any time a server has *)
(* at most one connector, it is never replaced, and every caller asking    *)
(* for that server is handed exactly this one.  Nothing is said of locks.  *)
(***************************************************************************)
EXTENDS Naturals

CONSTANTS Server        \* the addresses connections are opened to

VARIABLES registry,     \* the connector of each server, 0 when there is none
          opened,       \* how many connectors have been set up
          handed        \* the pairs <<server, connector>> given to callers

regVars == <<registry, opened, handed>>

Init == /\ registry = [s \in Server |-> 0]
        /\ opened = 0
        /\ handed = {}

\* A connector is set up for a server that has none.
Open(s) == /\ registry[s] = 0
           /\ opened' = opened + 1
           /\ registry' = [registry EXCEPT ![s] = opened + 1]
           /\ UNCHANGED handed

\* A caller is handed the connector of the server it asked for.
Hand(s) == /\ registry[s] # 0
           /\ handed' = handed \cup {<<s, registry[s]>>}
           /\ UNCHANGED <<registry, opened>>

Next == \E s \in Server : Open(s) \/ Hand(s)

Spec == Init /\ [][Next]_regVars
=============================================================================
