--------------------------- MODULE MCProxySession ---------------------------
(* Instances of ProxySession for TLC. *)
EXTENDS ProxySession, TLC

CONSTANTS q1, q2, q3

\* Request slots are interchangeable: no action or property names one.
RequestSymmetry == Permutations(Requests)
=============================================================================
