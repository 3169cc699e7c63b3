------------------------------- MODULE MCAuth -------------------------------
(* An instance of Auth for TLC: the requests and tokens are interchangeable. *)
EXTENDS Auth, TLC

Symmetry == Permutations(Requests) \cup Permutations(Tokens)
=============================================================================
