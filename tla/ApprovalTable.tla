---------------------------- MODULE ApprovalTable ----------------------------
(***************************************************************************)
(* Approvals in the database, as the HTTP API and the web dashboard use    *)
(* them.  Each request runs in a worker thread of its own, in one          *)
(* transaction: it reads the approvals table, decides, replaces the row by *)
(* DELETE and INSERT, answers, and commits in the exit code of get_db.     *)
(* Nothing locks the row between the read and the write, so two requests   *)
(* may decide on the same old row.                                         *)
(*                                                                         *)
(*   "approve", "deny"   the sign-off endpoints (API and dashboard)        *)
(*   "execute"           POST /execution/request; the request id is a      *)
(*                       primary key                                       *)
(*   "issue"             POST /credentials/request                         *)
(*                                                                         *)
(* Each id stands for one execution fingerprint, its request id included.  *)
(***************************************************************************)
EXTENDS ApprovalRecords

CONSTANTS Handlers,   \* request-handling threads
          Ids,        \* approval ids
          Needs,      \* requirements the callers' policies may yield
          Expiries,   \* approval_expires_at values callers may send
          MaxTime,    \* bound of the clock
          NoRow       \* absence of a row

ASSUME NeedsAreRequirements == Needs \subseteq Requirements
ASSUME ExpiriesAreTimes == Expiries \subseteq Int
ASSUME MaxTimeIsNat == MaxTime \in Nat
ASSUME NoRowIsNoRow == NoRow \notin Rows

VARIABLES table,      \* committed approvals rows
          executed,   \* committed primary keys of execution_requests
          now,        \* the clock
          tx,         \* per handler: the request and transaction in flight
          signed,     \* ghost: sign-offs committed since the row was opened
          denials,    \* ghost: ids with a committed denial
          granted     \* ghost: ids an answer ever let through

vars == <<table, executed, now, tx, signed, denials, granted>>

Gateway == {"execute", "issue"}
Ops == {"approve", "deny"} \cup Gateway

(* pc: begun (ts taken) -> [restale (second read, before an expiry)] ->    *)
(* writing (new row decided) -> ready (row replaced, uncommitted, or       *)
(* nothing to write) -> answered (response sent, commit outstanding).      *)
Txs == [pc : {"begun", "restale", "writing", "ready", "answered"},
        op : Ops, id : Ids, who : Approvers, ts : Int,
        cur : Rows \cup {NoRow}, new : Rows \cup {NoRow}]

Idle == [pc |-> "idle", op |-> "none", id |-> NoRow, who |-> NoRow, ts |-> 0,
         cur |-> NoRow, new |-> NoRow]

TypeOK ==
  /\ table \in [Ids -> Rows \cup {NoRow}]
  /\ executed \subseteq Ids
  /\ now \in 0..MaxTime
  /\ tx \in [Handlers -> Txs \cup {Idle}]
  /\ signed \subseteq Ids \X Approvers
  /\ denials \subseteq Ids
  /\ granted \subseteq Ids

-----------------------------------------------------------------------------

InFlight(h) == tx[h].pc # "idle"

(* h has replaced the row of id in its open transaction.                   *)
HoldsRow(h, id) ==
  tx[h].pc \in {"ready", "answered"} /\ tx[h].new # NoRow /\ tx[h].id = id

Blocked(h) == \E g \in Handlers \ {h} : HoldsRow(g, tx[h].id)

(* Mutant of Vacant: the window of the approval is not looked at.          *)
Vacant_Approved(row, ts) == row # NoRow => row.status = "approved"

(* Mutant of Vacant: any decided row may be opened anew.                   *)
Vacant_AnyDecided(row, ts) == row # NoRow => row.status # "pending" /\ ~Grants(row, ts)

(* No row stands in the way of a new one: there is none, or its approval   *)
(* has lapsed.                                                             *)
Vacant(row, ts) == row # NoRow => row.status = "approved" /\ ~Grants(row, ts)

(* The answer of h lets the action through.                                *)
Allows(t) == t.op \in Gateway /\ t.cur # NoRow /\ Grants(t.cur, t.ts)

End(h) == tx' = [tx EXCEPT ![h] = Idle]

Decide(h, pc, cur, new) ==
  tx' = [tx EXCEPT ![h] = [@ EXCEPT !.pc = pc, !.cur = cur, !.new = new]]

-----------------------------------------------------------------------------

Init ==
  /\ table = [id \in Ids |-> NoRow]
  /\ executed = {}
  /\ now = 0
  /\ tx = [h \in Handlers |-> Idle]
  /\ signed = {}
  /\ denials = {}
  /\ granted = {}

Tick ==
  /\ now < MaxTime
  /\ now' = now + 1
  /\ UNCHANGED <<table, executed, tx, signed, denials, granted>>

(* Mutant of FreshRequest: the insert replaces an earlier request.         *)
FreshRequest_Replaces(id) == TRUE

(* The primary key of execution_requests is free.                          *)
FreshRequest(id) == id \notin executed

(* Mutant of Begin: an uncommitted request of the same id is not seen.     *)
Begin_NoWait(h, op, id, who) ==
  /\ ~InFlight(h)
  /\ op = "execute" => FreshRequest(id)
  /\ tx' = [tx EXCEPT ![h] = [pc |-> "begun", op |-> op, id |-> id, who |-> who,
                              ts |-> now, cur |-> NoRow, new |-> NoRow]]
  /\ UNCHANGED <<table, executed, now, signed, denials, granted>>

(* A request arrives and takes its timestamp.  An execution first inserts  *)
(* its request id: it waits for, and then fails behind, an uncommitted one. *)
Begin(h, op, id, who) ==
  /\ ~InFlight(h)
  /\ op = "execute" =>
       /\ FreshRequest(id)
       /\ \A g \in Handlers : ~(InFlight(g) /\ tx[g].op = "execute" /\ tx[g].id = id)
  /\ tx' = [tx EXCEPT ![h] = [pc |-> "begun", op |-> op, id |-> id, who |-> who,
                              ts |-> now, cur |-> NoRow, new |-> NoRow]]
  /\ UNCHANGED <<table, executed, now, signed, denials, granted>>

(* approve_request_db up to its upsert; a refused guard is a 400.          *)
ReadApprove(h) ==
  LET t == tx[h]
      row == table[t.id]
  IN  /\ t.pc = "begun" /\ t.op = "approve"
      /\ IF row # NoRow /\ MaySignOff(row, t.who, t.ts)
           THEN Decide(h, "writing", row, SignedOff(row, t.who, t.ts))
           ELSE End(h)
      /\ UNCHANGED <<table, executed, now, signed, denials, granted>>

(* deny_request_db up to its upsert: no expiry check.                      *)
ReadDeny(h) ==
  LET t == tx[h]
      row == table[t.id]
  IN  /\ t.pc = "begun" /\ t.op = "deny"
      /\ IF row # NoRow /\ MayDeny(row)
           THEN Decide(h, "writing", row, Denied(row))
           ELSE End(h)
      /\ UNCHANGED <<table, executed, now, signed, denials, granted>>

(* The require_approval branch of execute_request and issue_credential.    *)
(* No row, or an approved row that has lapsed, opens a new pending row;    *)
(* a stale pending row is expired first; otherwise the row is the answer.  *)
ReadGateway(h) ==
  LET t == tx[h]
      row == table[t.id]
  IN  /\ t.pc = "begun" /\ t.op \in Gateway
      /\ \/ /\ Vacant(row, t.ts)
            /\ \E need \in Needs,
                  e \in {NoExpiry} \cup (IF t.op = "execute" THEN Expiries ELSE {}) :
                 Decide(h, "writing", row, NewRow(need, e))
         \/ /\ row # NoRow /\ Stale(row, t.ts)
            /\ Decide(h, "restale", row, NoRow)
         \/ /\ ~Vacant(row, t.ts) /\ ~Stale(row, t.ts)
            /\ Decide(h, "ready", row, NoRow)
      /\ UNCHANGED <<table, executed, now, signed, denials, granted>>

(* The registry checks or the policies settle the request: no approval is  *)
(* looked up.                                                              *)
ReadSettled(h) ==
  /\ tx[h].pc = "begun" /\ tx[h].op \in Gateway
  /\ Decide(h, "ready", NoRow, NoRow)
  /\ UNCHANGED <<table, executed, now, signed, denials, granted>>

(* Mutant of ReadExpire: a row that moved on is waited for, not refused.   *)
ReadExpire_Waits(h) ==
  LET t == tx[h]
      row == table[t.id]
  IN  /\ t.pc = "restale"
      /\ row # NoRow /\ MayExpire(row, t.ts)
      /\ Decide(h, "writing", row, Expired(row))
      /\ UNCHANGED <<table, executed, now, signed, denials, granted>>

(* expire_request_db reads the table again and raises if the row moved on. *)
ReadExpire(h) ==
  LET t == tx[h]
      row == table[t.id]
  IN  /\ t.pc = "restale"
      /\ IF row # NoRow /\ MayExpire(row, t.ts)
           THEN Decide(h, "writing", row, Expired(row))
           ELSE End(h)
      /\ UNCHANGED <<table, executed, now, signed, denials, granted>>

(* upsert_approval: DELETE then INSERT, inside the open transaction.       *)
WriteRow(h) ==
  /\ tx[h].pc = "writing"
  /\ ~Blocked(h)
  /\ tx' = [tx EXCEPT ![h].pc = "ready"]
  /\ UNCHANGED <<table, executed, now, signed, denials, granted>>

(* A writer that met another's uncommitted row loses: a duplicate key once *)
(* that one commits, or a busy database.                                   *)
WriteConflict(h) ==
  /\ tx[h].pc = "writing"
  /\ Blocked(h)
  /\ End(h)
  /\ UNCHANGED <<table, executed, now, signed, denials, granted>>

(* The audit insert of a gateway request clashes on event_id.              *)
AuditClash(h) ==
  /\ tx[h].pc = "ready" /\ tx[h].op \in Gateway
  /\ End(h)
  /\ UNCHANGED <<table, executed, now, signed, denials, granted>>

(* The response leaves before the exit code of get_db commits.             *)
Answer(h) ==
  /\ tx[h].pc = "ready"
  /\ tx' = [tx EXCEPT ![h].pc = "answered"]
  /\ granted' = IF Allows(tx[h]) THEN granted \cup {tx[h].id} ELSE granted
  /\ UNCHANGED <<table, executed, now, signed, denials>>

Commit(h) ==
  LET t == tx[h]
      opens == t.op \in Gateway /\ t.new # NoRow /\ t.new.status = "pending"
  IN  /\ t.pc = "answered"
      /\ table' = IF t.new = NoRow THEN table ELSE [table EXCEPT ![t.id] = t.new]
      /\ executed' = IF t.op = "execute" THEN executed \cup {t.id} ELSE executed
      /\ signed' = CASE t.op = "approve" -> signed \cup {<<t.id, t.who>>}
                     [] opens -> {s \in signed : s[1] # t.id}
                     [] OTHER -> signed
      /\ denials' = IF t.op = "deny" THEN denials \cup {t.id} ELSE denials
      /\ End(h)
      /\ UNCHANGED <<now, granted>>

(* The server stops: every open transaction is rolled back.                *)
Crash ==
  /\ \E h \in Handlers : InFlight(h)
  /\ tx' = [h \in Handlers |-> Idle]
  /\ UNCHANGED <<table, executed, now, signed, denials, granted>>

-----------------------------------------------------------------------------

(* Only a sign-off records who made it; for the other requests one name    *)
(* stands for all.                                                         *)
AnyOne == CHOOSE a \in Approvers : TRUE

Arrive(h) ==
  \E op \in Ops, id \in Ids, who \in Approvers :
    (op = "approve" \/ who = AnyOne) /\ Begin(h, op, id, who)

Progress(h) ==
  \/ ReadApprove(h)
  \/ ReadDeny(h)
  \/ ReadGateway(h)
  \/ ReadSettled(h)
  \/ ReadExpire(h)
  \/ WriteRow(h)
  \/ WriteConflict(h)
  \/ Answer(h)
  \/ Commit(h)

Next ==
  \/ Tick
  \/ Crash
  \/ \E h \in Handlers : Arrive(h) \/ Progress(h) \/ AuditClash(h)

Spec == Init /\ [][Next]_vars

(* One request at a time: what a single worker, or the tests, exercise.    *)
Alone(h) == \A g \in Handlers \ {h} : ~InFlight(g)

SerialNext ==
  \/ Tick
  \/ Crash
  \/ \E h \in Handlers : Alone(h) /\ (Arrive(h) \/ Progress(h) \/ AuditClash(h))

SerialSpec == Init /\ [][SerialNext]_vars

-----------------------------------------------------------------------------
(* Under every interleaving of requests (Spec). *)

(* An approved row carries the sign-offs its own requirement asks for,     *)
(* whatever two racing requests wrote: approve_request_db tests the very   *)
(* row it stores, so a lost sign-off can only delay an approval.           *)
QuorumBacked ==
  \A id \in Ids : table[id] # NoRow /\ table[id].status = "approved"
                    => Satisfied(table[id])

(* An answer lets an action through only on a row whose quorum is complete *)
(* and whose window was open at the request's timestamp, and, when the row *)
(* names its approvers, nobody else is counted.                            *)
GrantsAreBacked ==
  \A h \in Handlers : tx[h].pc = "answered" /\ Allows(tx[h]) =>
    /\ Satisfied(tx[h].cur)
    /\ ~Overdue(tx[h].cur, tx[h].ts)
    /\ tx[h].cur.named # {} => tx[h].cur.by \subseteq tx[h].cur.named

Terminal(row) == row # NoRow /\ row.status \in {"denied", "expired"}

(* What may overwrite a denied or expired row: only a request that had     *)
(* read the row while it was still open, never one that saw the outcome.   *)
OnlyRacesOverwriteTerminal ==
  [][\A id \in Ids : Terminal(table[id]) /\ table'[id] # table[id] =>
       \E h \in Handlers : /\ tx[h].id = id
                           /\ tx[h].pc = "answered"
                           /\ ~Terminal(tx[h].cur)]_vars

(* A committed sign-off is lost only to a request that had read the row    *)
(* without it, so was in flight when it was given, or that opens anew an   *)
(* approval whose window has closed: no request, however it is delayed and *)
(* overtaken, drops a sign-off that it has seen and that still counts.     *)
OnlyRacesLoseSignoffs ==
  [][\A id \in Ids : table[id] # NoRow /\ table'[id] # table[id] =>
       \A a \in table[id].by \ table'[id].by :
         \E h \in Handlers :
           LET row == tx[h].cur
           IN  /\ tx[h].id = id
               /\ tx[h].pc = "answered"
               /\ \/ row = NoRow \/ a \notin row.by
                  \/ row.status = "approved" /\ Overdue(row, now)]_vars

(* Every request that began is over some day: it answers and commits, is   *)
(* refused, loses a write conflict or dies with the server.  Since only    *)
(* the end of a request frees its thread, this is to say that each thread  *)
(* is free again and again.  Under the fairness of GatewayFairSpec.        *)
RequestsFinish == \A h \in Handlers : []<>~InFlight(h)

-----------------------------------------------------------------------------
(* One request at a time (SerialSpec); under Spec each of these fails. *)

(* "Finalize an approval as denied (terminal)": a denied or expired row    *)
(* never changes again.                                                    *)
TerminalIsFinal ==
  [][\A id \in Ids : Terminal(table[id]) => table'[id] = table[id]]_vars

(* The row and the committed sign-offs since it was opened agree exactly:  *)
(* none is lost and none is carried over from an earlier opening.          *)
SignoffsExact ==
  \A id \in Ids : table[id] # NoRow =>
    table[id].by = {a \in Approvers : <<id, a>> \in signed}

(* Once a denial is committed no later answer lets the action through, in  *)
(* whichever order the other requests come.                                *)
DenialStands ==
  [][\A h \in Handlers : Answer(h) /\ Allows(tx[h]) => tx[h].id \notin denials]_vars

(* An approved row is left alone until its window has lapsed.              *)
ApprovalHoldsUntilLapse ==
  [][\A id \in Ids :
       table[id] # NoRow /\ table[id].status = "approved" /\ table'[id] # table[id]
         => Overdue(table[id], now)]_vars

(* Refinement mapping: the row without its times.                          *)
AbsStatus == [id \in Ids |-> IF table[id] = NoRow THEN "none" ELSE table[id].status]
AbsNeed == [id \in Ids |-> IF table[id] = NoRow THEN "none"
                           ELSE [named |-> table[id].named, min |-> table[id].min]]
AbsSigners == [id \in Ids |-> IF table[id] = NoRow THEN {} ELSE table[id].by]

Promise == INSTANCE ApprovalPromise
           WITH status <- AbsStatus, need <- AbsNeed, signers <- AbsSigners

(* The serial store keeps the abstract promise.                            *)
KeepsPromise == Promise!Spec

=============================================================================
