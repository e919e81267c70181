---------------------------- MODULE CoordinatorMC ----------------------------
(* Two snapshots, whose saves can overtake each other, and two recoveries. *)
EXTENDS Coordinator

MCSnapshot == [c \in Cluster |-> 2]
MCRecovery == [c \in Cluster |-> 2]
=============================================================================
