--------------------------- MODULE MCRegistryStore ---------------------------
(***************************************************************************)
(* RegistryStore on small instances: a pool of two threads, and a single   *)
(* thread, for which the store is a serial lifecycle.                      *)
(***************************************************************************)
EXTENDS RegistryVersions, TLC

\* The threads of the pool are interchangeable, and so are the invariants.
Symmetry == Permutations(Workers) \cup Permutations(Ids)

\* The serial run asks also what happens in the end.
FairSpecV == SpecV /\ Fairness
=============================================================================
