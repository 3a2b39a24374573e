--------------------------- MODULE MCRequestRetry ---------------------------
(* Instances of RequestRetry for TLC. *)
EXTENDS RequestRetry
=============================================================================
