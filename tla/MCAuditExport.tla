---------------------------- MODULE MCAuditExport ----------------------------
(* AuditExport on small instances.                                         *)
EXTENDS AuditExport, TLC

FlusherSymmetry == Permutations(Flushers)
=============================================================================
