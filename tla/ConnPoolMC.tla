----------------------------- MODULE ConnPoolMC -----------------------------
(* Two goroutines; "u@a" and "a" name one server, "b" is overridden.       *)
EXTENDS ConnPool

MCNoUser == [u \in URI |-> IF u = "u@a" THEN "a" ELSE u]
MCRules  == [u \in URI |-> IF u = "b" THEN "srv_b" ELSE "srv_a"]
=============================================================================
