--------------------------- MODULE MCClientRegistry ---------------------------
EXTENDS ClientRegistry, TLC

CONSTANTS c1, c2

\* Client ids and handlers are interchangeable.
Interchangeable == Permutations({c1, c2}) \cup Permutations(Handlers)
===============================================================================
