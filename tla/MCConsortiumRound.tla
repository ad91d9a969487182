--------------------------- MODULE MCConsortiumRound ---------------------------
(* ConsortiumRound on a small instance.                                    *)
EXTENDS ConsortiumRound, TLC

FamilySymmetry == Permutations(Families)
=============================================================================
