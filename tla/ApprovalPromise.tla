--------------------------- MODULE ApprovalPromise ---------------------------
(***************************************************************************)
(* What an approval store promises its users, without transactions, time   *)
(* or storage: each sign-off adds one person to an open approval, the last *)
(* one needed approves it, a denial or an expiry is final, and an action   *)
(* is let through only while its approval stands.  An approval whose       *)
(* window has lapsed may be asked for anew.                                *)
(***************************************************************************)
EXTENDS Integers, FiniteSets

CONSTANTS Approvers, Ids, Needs

VARIABLES status, need, signers, granted

vars == <<status, need, signers, granted>>

Enough(n, by) == IF n.named # {} THEN n.named \subseteq by
                                 ELSE Cardinality(by) >= n.min

Init ==
  /\ status = [id \in Ids |-> "none"]
  /\ need = [id \in Ids |-> "none"]
  /\ signers = [id \in Ids |-> {}]
  /\ granted = {}

Open(id, n) ==
  /\ status[id] \in {"none", "approved"}
  /\ status' = [status EXCEPT ![id] = "pending"]
  /\ need' = [need EXCEPT ![id] = n]
  /\ signers' = [signers EXCEPT ![id] = {}]
  /\ UNCHANGED granted

Sign(id, a) ==
  LET by == signers[id] \cup {a}
  IN  /\ status[id] = "pending"
      /\ a \notin signers[id]
      /\ need[id].named = {} \/ a \in need[id].named
      /\ signers' = [signers EXCEPT ![id] = by]
      /\ status' = [status EXCEPT ![id] =
                      IF Enough(need[id], by) THEN "approved" ELSE "pending"]
      /\ UNCHANGED <<need, granted>>

Close(id, outcome) ==
  /\ status[id] = "pending"
  /\ status' = [status EXCEPT ![id] = outcome]
  /\ UNCHANGED <<need, signers, granted>>

Grant(id) ==
  /\ status[id] = "approved"
  /\ granted' = granted \cup {id}
  /\ UNCHANGED <<status, need, signers>>

Next ==
  \E id \in Ids :
    \/ \E n \in Needs : Open(id, n)
    \/ \E a \in Approvers : Sign(id, a)
    \/ \E outcome \in {"denied", "expired"} : Close(id, outcome)
    \/ Grant(id)

Spec == Init /\ [][Next]_vars

=============================================================================
