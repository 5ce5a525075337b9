------------------------------- MODULE MCDemo -------------------------------
(* Demo for TLC: the ids are interchangeable; requests and keys are        *)
(* numbers, in the producer's order.                                       *)
EXTENDS Demo, TLC

Symmetry == Permutations(Ids)

(* Bound: at most two attempts are unfinished at once, in the server or in *)
(* Postgres; one that is waited for and one that was given up on.          *)
Backlog == Cardinality({r \in Requests : pc[r] \in InFlight \/ sql[r] = "sent"}) <= 2
=============================================================================
