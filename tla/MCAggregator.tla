----------------------------- MODULE MCAggregator -----------------------------
(* Aggregator on a small instance.                                         *)
EXTENDS Aggregator, TLC

WorkerSymmetry == Permutations(Workers)
=============================================================================
