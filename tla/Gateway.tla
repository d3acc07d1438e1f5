------------------------------ MODULE Gateway ------------------------------
(***************************************************************************)
(* Executions over the HTTP API, together with the approvals they share    *)
(* with every other request (ApprovalTable).  POST /execution/request      *)
(* inserts the request, whose id is a primary key, asks the registry, the  *)
(* policies and the approvals, calls a connector if the decision is        *)
(* allowed, appends the audit events, inserts the response, answers, and   *)
(* commits in the exit code of get_db.  The connector acts outside the     *)
(* transaction: a rollback leaves its effect in the world and no record.   *)
(*                                                                         *)
(* A request is followed from the row up: what it asks of a connector, and *)
(* whether it asks at all, is chosen when the code first looks at it.      *)
(***************************************************************************)
EXTENDS ApprovalTable

CONSTANTS MaxActs,     \* bound of the effects per request id
          NoResponse   \* absence of a row in execution_responses

ASSUME MaxActsIsNat == MaxActs \in Nat

VARIABLES job,         \* per handler: how its execution stands
          acts,        \* per request id: effects connectors have had
          responses,   \* committed rows of execution_responses
          lost         \* ghost: effects whose transaction was rolled back

gwVars == <<job, acts, responses, lost>>
gVars == <<vars, gwVars>>

Decisions == {"allowed", "denied", "pending_approval"}

(* verdict: what the registry and the policies settled without approval.   *)
(* The connector phase: not reached, over without an effect, or over with  *)
(* one.                                                                    *)
Phases == {"none", "quiet", "acted"}

Jobs == [verdict : {"open", "allowed", "denied"}, phase : Phases]

NoJob == [verdict |-> "open", phase |-> "none"]

Responses == [decision : Decisions, phase : Phases]

ASSUME NoResponseIsNone == NoResponse \notin Responses

GatewayTypeOK ==
  /\ job \in [Handlers -> Jobs]
  /\ acts \in [Ids -> Nat]
  /\ responses \in [Ids -> Responses \cup {NoResponse}]
  /\ lost \in [Ids -> Nat]

-----------------------------------------------------------------------------

(* Mutant of Decision: only a recorded refusal stops the action.           *)
Decision_UnlessClosed(h) ==
  LET t == tx[h]
  IN  IF job[h].verdict # "open" THEN job[h].verdict
      ELSE IF t.cur # NoRow /\ t.cur.status \in {"denied", "expired"} THEN "denied"
      ELSE "allowed"

(* The decision execute_request returns.  A row written by the request is  *)
(* the new pending one or the one it has just expired.                     *)
Decision(h) ==
  LET t == tx[h]
      row == IF t.new # NoRow THEN t.new ELSE t.cur
  IN  IF job[h].verdict # "open" THEN job[h].verdict
      ELSE IF row.status \in {"denied", "expired"} THEN "denied"
      ELSE IF Allows(t) /\ t.new = NoRow THEN "allowed"
      ELSE "pending_approval"

(* Some open transaction has acted for id.                                 *)
Unrecorded(id) == \E h \in Handlers : tx[h].id = id /\ job[h].phase = "acted"

-----------------------------------------------------------------------------

GatewayInit ==
  /\ Init
  /\ job = [h \in Handlers |-> NoJob]
  /\ acts = [id \in Ids |-> 0]
  /\ responses = [id \in Ids |-> NoResponse]
  /\ lost = [id \in Ids |-> 0]

(* The steps a request takes before, or without, an execution of its own.  *)
Approvals(h) ==
  /\ \/ Arrive(h)
     \/ ReadApprove(h)
     \/ ReadDeny(h)
     \/ ReadGateway(h)
     \/ ReadExpire(h)
     \/ WriteRow(h)
     \/ WriteConflict(h)
     \/ Answer(h)
  /\ UNCHANGED gwVars

(* An unknown agent, a manifest that does not bear the request out, or     *)
(* policies that allow or deny outright.                                   *)
Settle(h) ==
  /\ ReadSettled(h)
  /\ \E verdict \in {"allowed", "denied"} : job' = [job EXCEPT ![h].verdict = verdict]
  /\ UNCHANGED <<acts, responses, lost>>

(* _apply_connector_phase, inside the request and before anything of it is *)
(* committed; a request that names no connector skips it.  The connector   *)
(* has an effect, whether it then reports success or raises; or it has     *)
(* none: a check refuses the call (action given, connector known, scope,   *)
(* capability, configuration), it is a dry run, or it fails.               *)
CallConnector(h) ==
  LET id == tx[h].id
  IN  /\ tx[h].pc = "ready" /\ tx[h].op = "execute"
      /\ Decision(h) = "allowed"
      /\ job[h].phase = "none"
      /\ \E phase \in {"quiet", "acted"} :
           /\ phase = "acted" => acts[id] < MaxActs
           /\ job' = [job EXCEPT ![h].phase = phase]
           /\ acts' = [acts EXCEPT ![id] = IF phase = "acted" THEN @ + 1 ELSE @]
      /\ UNCHANGED <<vars, responses, lost>>

(* The commit makes the response permanent with everything else.           *)
Record(h) ==
  LET id == tx[h].id
  IN  /\ Commit(h)
      /\ responses' =
           IF tx[h].op = "execute"
             THEN [responses EXCEPT ![id] = [decision |-> Decision(h),
                                             phase |-> job[h].phase]]
             ELSE responses
      /\ job' = [job EXCEPT ![h] = NoJob]
      /\ UNCHANGED <<acts, lost>>

(* The audit insert fails after the connector phase: the request is undone *)
(* but for what the connector did.                                         *)
RollBack(h) ==
  LET id == tx[h].id
  IN  /\ AuditClash(h)
      /\ lost' = [lost EXCEPT ![id] = IF job[h].phase = "acted" THEN @ + 1 ELSE @]
      /\ job' = [job EXCEPT ![h] = NoJob]
      /\ UNCHANGED <<acts, responses>>

StopServer ==
  /\ Crash
  /\ lost' = [id \in Ids |-> IF Unrecorded(id) THEN lost[id] + 1 ELSE lost[id]]
  /\ job' = [h \in Handlers |-> NoJob]
  /\ UNCHANGED <<acts, responses>>

-----------------------------------------------------------------------------

Serve(h) == Approvals(h) \/ Settle(h) \/ CallConnector(h) \/ Record(h)

GatewayNext ==
  \/ Tick /\ UNCHANGED gwVars
  \/ StopServer
  \/ \E h \in Handlers : Serve(h) \/ RollBack(h)

GatewaySpec == GatewayInit /\ [][GatewayNext]_gVars

(* A thread that has begun a request runs on; a connector call returns     *)
(* (its failures are caught).                                              *)
GatewayFairSpec ==
  GatewaySpec /\ \A h \in Handlers : WF_gVars(InFlight(h) /\ Serve(h))

-----------------------------------------------------------------------------

(* A connector acts only for an execution that registry and policies let   *)
(* through, or whose approval had its whole quorum and an open window when *)
(* it was read.                                                            *)
OnlyClearedAct ==
  \A h \in Handlers : job[h].phase = "acted" =>
    \/ job[h].verdict = "allowed"
    \/ LET row == tx[h].cur
       IN  /\ job[h].verdict = "open" /\ row # NoRow
           /\ row.status = "approved" /\ Satisfied(row)
           /\ ~Overdue(row, tx[h].ts)

(* Every effect is accounted for: it is that of the one open transaction   *)
(* of its request, it is in the recorded response, or its transaction was  *)
(* rolled back.  So a request acts twice only after a rollback.            *)
ActsAccountedFor ==
  \A id \in Ids :
    LET recorded == responses[id] # NoResponse /\ responses[id].phase = "acted"
    IN  acts[id] = lost[id] + (IF recorded \/ Unrecorded(id) THEN 1 ELSE 0)

(* Once the response of a request is stored, the request never acts again  *)
(* and its response never changes.                                         *)
RecordedIsFinal ==
  [][\A id \in Ids : responses[id] # NoResponse =>
       responses'[id] = responses[id] /\ acts'[id] = acts[id]]_gVars

(* "Completed approvals satisfy subsequent executions with the same        *)
(* deterministic approval id": the id covers the request id, so while the  *)
(* approval of an execution that was told to wait stands, a POST of that   *)
(* execution is taken up.                                                  *)
ApprovedRunsOnRepost ==
  \A id \in Ids :
    /\ responses[id] # NoResponse /\ responses[id].decision = "pending_approval"
    /\ table[id] # NoRow /\ Grants(table[id], now)
    => FreshRequest(id)

=============================================================================
