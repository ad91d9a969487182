--------------------------- MODULE MCRegistryMemory ---------------------------
(***************************************************************************)
(* RegistryMemory with two threads of a pool.                              *)
(***************************************************************************)
EXTENDS RegistryMemory, TLC

\* The threads are interchangeable, and so are the invariants.
Symmetry == Permutations(Workers) \cup Permutations(Ids)
=============================================================================
