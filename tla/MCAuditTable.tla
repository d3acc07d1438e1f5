---------------------------- MODULE MCAuditTable ----------------------------
(* Small instances of AuditTable for TLC. *)
EXTENDS AuditTable, TLC

MCIds == 1..3

HandlerSymmetry == Permutations(Handlers)
=============================================================================
