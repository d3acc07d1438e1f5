--------------------------- MODULE MCApprovalTable ---------------------------
(* Small instances of ApprovalTable for TLC: one approval, two approvers.  *)
EXTENDS ApprovalTable, TLC

CONSTANTS a1, a2

(* Two anonymous sign-offs, or one named person. *)
MCNeeds == {[named |-> {}, min |-> 2], [named |-> {a1}, min |-> 1]}

(* No action and no property tells one thread from another.                *)
HandlerSymmetry == Permutations(Handlers)
=============================================================================
