------------------------------- MODULE MCPool -------------------------------
(* Requests, and calls of StopHTTP and Close, are alike. *)
EXTENDS PoolProps, TLC

Symmetry == Permutations(Requests) \cup Permutations(Stoppers)
=============================================================================
