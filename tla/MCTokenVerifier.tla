-------------------------- MODULE MCTokenVerifier ---------------------------
(* Instances of TokenVerifier for TLC. *)
EXTENDS TokenVerifier, TLC

CONSTANTS q1, q2, q3, t1, t2, NoExp

\* Slots and tokens are interchangeable: no action or property names one.
Interchangeable == Permutations(Requests) \cup Permutations(Tokens)
=============================================================================
