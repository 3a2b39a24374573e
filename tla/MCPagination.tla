---------------------------- MODULE MCPagination ----------------------------
(* Instances of Pagination for TLC. *)
EXTENDS Pagination

CONSTANTS i1, i2, i3, i4, i5

\* Items are interchangeable: no action or property names one.
ItemSymmetry == Permutations(Items)
=============================================================================
