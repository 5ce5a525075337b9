------------------------------ MODULE MCSubmit ------------------------------
(* Submit for TLC: the requests and ids are interchangeable. *)
EXTENDS Submit, FiniteSets, TLC

Symmetry == Permutations(Requests) \cup Permutations(Ids)

(* Bound: any number of attempts may race in the first second, but only    *)
(* one at a time is unfinished, in the server or in Postgres, afterwards.  *)
Unfinished == {r \in Requests : pc[r] \in InFlight \/ sql[r] = "sent"}
Quiet == clock > 0 => Cardinality(Unfinished) <= 1
=============================================================================
