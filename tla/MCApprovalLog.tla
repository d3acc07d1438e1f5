--------------------------- MODULE MCApprovalLog ---------------------------
(* Small instances of ApprovalLog for TLC. *)
EXTENDS ApprovalLog, TLC

CONSTANTS a1, a2

(* Two of anybody, or one named person.                                    *)
MCNeeds == {[named |-> {}, min |-> 2], [named |-> {a1}, min |-> 1]}

ProcSymmetry == Permutations(Procs)
=============================================================================
