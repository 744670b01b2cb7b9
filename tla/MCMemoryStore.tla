--------------------------- MODULE MCMemoryStore ---------------------------
(* Three coroutines on a store of two records, one of which exists.        *)
EXTENDS MemoryStore, TLC

\* Clients are interchangeable.
ClientSymmetry == Permutations(Clients)
=============================================================================
