---------------------------- MODULE MCRateLimiter ----------------------------
(* Instances of RateLimiter for TLC. *)
EXTENDS RateLimiter, TLC

CONSTANTS q1, q2, k1, k2, k3

\* Requests and keys are interchangeable: no action or property names one.
Interchangeable == Permutations(Requests) \cup Permutations(Keys)
=============================================================================
