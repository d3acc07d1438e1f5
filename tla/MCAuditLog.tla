----------------------------- MODULE MCAuditLog -----------------------------
(* Small instances of AuditLog for TLC. *)
EXTENDS AuditLog, TLC

(* Writers are alike, and so are the contents of events.                   *)
LogSymmetry == Permutations(Writers) \cup Permutations(Ids)
=============================================================================
