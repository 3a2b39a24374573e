-------------------------------- MODULE Totals --------------------------------
(* Sums of quantities, as numbers of units. *)
EXTENDS Naturals, FiniteSets

\* The units of the quantities f, each named by its owner and its place.
Units(f) == UNION {{x} \X (1..f[x]) : x \in DOMAIN f}

\* The sum of f[x] over the domain of f, which is finite.
Total(f) == Cardinality(Units(f))
===============================================================================
