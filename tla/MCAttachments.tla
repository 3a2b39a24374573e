---------------------------- MODULE MCAttachments ----------------------------
(* Instances of Attachments for TLC. *)
EXTENDS Attachments, TLC

CONSTANTS h1, h2, u1, u2, sw

\* No action or property names a request or a file.
Interchangeable == Permutations(Uuids) \cup Permutations(Handlers)
==============================================================================
