--------------------------- MODULE ApprovalRecords ---------------------------
(***************************************************************************)
(* The approval row and the rules recklock/approvals.py applies to one     *)
(* row: who may sign off, when the row counts as fully approved, when it   *)
(* is stale, and the row each operation stores next.  The JSONL store and  *)
(* the database store apply the same rules.                                *)
(*                                                                         *)
(* Abstractions: an approval id is a model value (the code hashes          *)
(* request_id, agent_id, capability and permission_scope); identifying     *)
(* fields and metadata are left out; approved_by, whose order no rule      *)
(* reads and which never holds a name twice, is a set; time is an integer. *)
(***************************************************************************)
EXTENDS Integers, FiniteSets

CONSTANTS Approvers,   \* human identities (the free-text "approver" argument)
          NoExpiry     \* expires_at = None

ASSUME ApproversFinite == IsFiniteSet(Approvers)
ASSUME NoExpiryIsNoTime == NoExpiry \notin Int

Statuses == {"pending", "approved", "denied", "expired"}

(* What the matched require_approval rules ask for: the named approvers,   *)
(* or, when none is named, a number of distinct ones.                      *)
Requirements == [named : SUBSET Approvers, min : Nat \ {0}]

Rows == [status  : Statuses,
         named   : SUBSET Approvers,
         min     : Nat \ {0},
         by      : SUBSET Approvers,
         expires : Int \cup {NoExpiry}]

-----------------------------------------------------------------------------

Overdue(row, ts) == row.expires # NoExpiry /\ row.expires < ts

(* Named approvers replace the count: with names, only the names matter.   *)
Satisfied(row) ==
  IF row.named # {} THEN row.named \subseteq row.by
                    ELSE Cardinality(row.by) >= row.min

IsFullyApproved(row, ts) ==
  /\ ~Overdue(row, ts)
  /\ \/ row.status = "approved"
     \/ row.status = "pending" /\ Satisfied(row)

-----------------------------------------------------------------------------
(* Mutants of the operators below: plausible bugs the runs must notice.    *)

MaySignOff_AnyStatus(row, a, ts) ==
  ~Overdue(row, ts) /\ a \notin row.by /\ (row.named = {} \/ a \in row.named)

SignedOff_Replaces(row, a, ts) ==
  LET next == [row EXCEPT !.by = {a}]
  IN  IF IsFullyApproved(next, ts) THEN [next EXCEPT !.status = "approved"]
                                   ELSE next

SignedOff_NeverApproves(row, a, ts) == [row EXCEPT !.by = @ \cup {a}]

MayDeny_AnyStatus(row) == TRUE

Grants_NoWindow(row, ts) == row.status = "approved"

-----------------------------------------------------------------------------

NewRow(need, expires) ==
  [status |-> "pending", named |-> need.named, min |-> need.min,
   by |-> {}, expires |-> expires]

MaySignOff(row, a, ts) ==
  /\ row.status = "pending"
  /\ ~Overdue(row, ts)
  /\ a \notin row.by
  /\ row.named = {} \/ a \in row.named

SignedOff(row, a, ts) ==
  LET next == [row EXCEPT !.by = @ \cup {a}]
  IN  IF IsFullyApproved(next, ts) THEN [next EXCEPT !.status = "approved"]
                                   ELSE next

MayDeny(row) == row.status = "pending"

Denied(row) == [row EXCEPT !.status = "denied"]

MayExpire(row, ts) ==
  row.status = "pending" /\ row.expires # NoExpiry /\ ~(row.expires > ts)

Expired(row) == [row EXCEPT !.status = "expired"]

(* The gateway's own test before it asks for an expiry; unlike MayExpire   *)
(* it is strict at expires = ts.                                           *)
Stale(row, ts) == row.status = "pending" /\ Overdue(row, ts)

(* The row lets the action through.                                        *)
Grants(row, ts) == row.status = "approved" /\ IsFullyApproved(row, ts)

=============================================================================
