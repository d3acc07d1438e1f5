---------------------------- MODULE ApprovalLog ----------------------------
(***************************************************************************)
(* The approvals file of the command line, and the gateway above it.  One  *)
(* process per command: it takes the time, loads the file (the last line   *)
(* of an id is its row), decides, appends one line, and then appends the   *)
(* audit events of what it did, one by one.  Nothing is locked; a process  *)
(* may die between any two steps, or in the middle of a write.             *)
(*                                                                         *)
(*   "create", "approve", "deny"   create-approval, approve-request,       *)
(*                                 deny-request                            *)
(*   "execute"                     execute-request                         *)
(*                                                                         *)
(* Abstractions: the registry checks and the policies, which are arguments *)
(* of the command, are one verdict; a command that raises before it wrote  *)
(* anything leaves no trace and is no step; the audit file is the set of   *)
(* events it holds and whether append_event can still read it (AuditLog    *)
(* has its lines and its chain).                                           *)
(***************************************************************************)
EXTENDS ApprovalRecords, Sequences, FiniteSetsExt, Functions

CONSTANTS Procs,      \* processes
          Ids,        \* approval ids
          Needs,      \* requirements of rules and of create-approval files
          Expiries,   \* expiry times callers may ask for, or NoExpiry
          MaxTime,    \* bound of the clock
          MaxLines,   \* bound of the approvals file
          MaxActs,    \* bound of the connector calls
          NoRow,      \* absence of a row
          Damaged     \* a line that is not JSON

ASSUME NeedsAreRequirements == Needs \subseteq Requirements
ASSUME ExpiriesAreTimes == Expiries \subseteq Int \cup {NoExpiry}
ASSUME BoundsAreNat == MaxTime \in Nat /\ MaxLines \in Nat /\ MaxActs \in Nat
ASSUME NoRowIsNoRow == NoRow \notin Rows
ASSUME DamagedIsNoLine == Damaged \notin [id : Ids, row : Rows]

VARIABLES lines,      \* the approvals file
          ended,      \* it ends with a newline
          intact,     \* the audit file can be read
          audit,      \* the events it holds, answers apart
          acts,       \* ghost: what each connector call with an effect rested on
          now,        \* the clock
          ps,         \* per process: the command it runs
          cutShort    \* ghost: a process ended before its last audit event

vars == <<lines, ended, intact, audit, acts, now, ps, cutShort>>

File == <<lines, ended>>
Trail == <<intact, audit, cutShort>>

(* An audit event is about a line of the file or about a connector call;   *)
(* the gateway's event when no connector acted is an Answer.               *)
Events == {"created", "signoff", "resolved", "act"} \X Nat
Answer == <<"answer", 0>>

(* A command that writes: the row to append, and how many lines had been   *)
(* loaded when it was decided (0: the command loads nothing).              *)
Writing == [pc : {"writing"}, op : {"create", "approve", "deny", "execute"},
            id : Ids, new : Rows, read : Nat]

(* execute-request about to expire a row, or to call a connector on the    *)
(* ground of a row (NoRow: of a policy); the rest of a command's events.   *)
Expiring == [pc : {"expiring"}, id : Ids, ts : Int]
Cleared == [pc : {"cleared"}, row : Rows \cup {NoRow}, ts : Int]
Auditing == [pc : {"auditing"}, todo : Seq(Events \cup {Answer})]

Idle == [pc |-> "idle"]

TypeOK ==
  /\ lines \in Seq([id : Ids, row : Rows] \cup {Damaged})
  /\ ended \in BOOLEAN
  /\ intact \in BOOLEAN
  /\ audit \subseteq Events
  /\ acts \in Seq([row : Rows \cup {NoRow}, ts : Int])
  /\ now \in 0..MaxTime
  /\ ps \in [Procs -> {Idle} \cup Writing \cup Expiring \cup Cleared \cup Auditing]
  /\ cutShort \in BOOLEAN

-----------------------------------------------------------------------------
(* The file. *)

Readable == \A n \in DOMAIN lines : lines[n] # Damaged

LinesOf(id) == {n \in DOMAIN lines : lines[n] # Damaged /\ lines[n].id = id}

Latest(id) == IF LinesOf(id) = {} THEN NoRow ELSE lines[Max(LinesOf(id))].row

(* Text appended to the file: a line of its own, or glued to the end of a  *)
(* last line that lost its newline.                                        *)
Extended(line) ==
  IF ended THEN Append(lines, line) ELSE [lines EXCEPT ![Len(lines)] = Damaged]

-----------------------------------------------------------------------------
(* Commands up to their first effect. *)

Free(p) == ps[p] = Idle

Goes(p, state) == ps' = [ps EXCEPT ![p] = state]

Writes(p, op, id, new, read) ==
  Goes(p, [pc |-> "writing", op |-> op, id |-> id, new |-> new, read |-> read])

Answers(p) == Goes(p, [pc |-> "auditing", todo |-> <<Answer>>])

Nothing == UNCHANGED <<File, Trail, acts, now>>

Init ==
  /\ lines = <<>>
  /\ ended = TRUE
  /\ intact = TRUE
  /\ audit = {}
  /\ acts = <<>>
  /\ now = 0
  /\ ps = [p \in Procs |-> Idle]
  /\ cutShort = FALSE

Tick ==
  /\ now < MaxTime
  /\ now' = now + 1
  /\ UNCHANGED <<File, Trail, acts, ps>>

(* Rows that create-approval or the gateway may open.                      *)
Openings == {NewRow(need, e) : need \in Needs, e \in Expiries}

(* create_approval_request loads nothing.                                  *)
CreateApproval(p, id) ==
  /\ Free(p)
  /\ \E row \in Openings : Writes(p, "create", id, row, 0)
  /\ Nothing

(* approve_request up to its append; ts was taken some time before.        *)
ApproveRequest(p, id, who, ts) ==
  LET row == Latest(id)
  IN  /\ Free(p) /\ Readable
      /\ row # NoRow /\ MaySignOff(row, who, ts)
      /\ Writes(p, "approve", id, SignedOff(row, who, ts), Len(lines))
      /\ Nothing

DenyRequest(p, id) ==
  LET row == Latest(id)
  IN  /\ Free(p) /\ Readable
      /\ row # NoRow /\ MayDeny(row)
      /\ Writes(p, "deny", id, Denied(row), Len(lines))
      /\ Nothing

(* execute_request without approvals: the registry or a policy denies, or  *)
(* the policies allow outright.                                            *)
DecideByPolicy(p) ==
  /\ Free(p)
  /\ Answers(p) \/ Goes(p, [pc |-> "cleared", row |-> NoRow, ts |-> 0])
  /\ Nothing

(* No row stands in the way of a new one: none, or an approval that lapsed. *)
Vacant(row, ts) == row # NoRow => row.status = "approved" /\ ~Grants(row, ts)

(* Mutant of ConsultApproval: lines that are not JSON are skipped.         *)
ConsultApproval_SkipsDamage(p, id, ts) ==
  LET row == Latest(id)
  IN  /\ Free(p)
      /\ \/ /\ Vacant(row, ts)
            /\ \E new \in Openings : Writes(p, "execute", id, new, Len(lines))
         \/ /\ row # NoRow /\ Stale(row, ts)
            /\ Goes(p, [pc |-> "expiring", id |-> id, ts |-> ts])
         \/ /\ row # NoRow /\ Grants(row, ts)
            /\ Goes(p, [pc |-> "cleared", row |-> row, ts |-> ts])
         \/ /\ row # NoRow /\ row.status # "approved" /\ ~Stale(row, ts)
            /\ Answers(p)
      /\ Nothing

(* execute_request when the policies require approval: a missing or lapsed *)
(* approval is opened, a stale one expired, a complete one clears the call; *)
(* any other is the answer.                                                *)
ConsultApproval(p, id, ts) ==
  LET row == Latest(id)
  IN  /\ Free(p) /\ Readable
      /\ \/ /\ Vacant(row, ts)
            /\ \E new \in Openings : Writes(p, "execute", id, new, Len(lines))
         \/ /\ row # NoRow /\ Stale(row, ts)
            /\ Goes(p, [pc |-> "expiring", id |-> id, ts |-> ts])
         \/ /\ row # NoRow /\ Grants(row, ts)
            /\ Goes(p, [pc |-> "cleared", row |-> row, ts |-> ts])
         \/ /\ row # NoRow /\ row.status # "approved" /\ ~Stale(row, ts)
            /\ Answers(p)
      /\ Nothing

(* Mutant of Expire: the row loaded before is written, moved on or not.    *)
Expire_Unchecked(p) ==
  LET t == ps[p]
      row == Latest(t.id)
  IN  /\ t.pc = "expiring"
      /\ IF Readable
           THEN Writes(p, "execute", t.id, Expired(row), Len(lines))
           ELSE Goes(p, Idle)
      /\ Nothing

(* expire_request loads the file again and raises if the row moved on.     *)
Expire(p) ==
  LET t == ps[p]
      row == Latest(t.id)
  IN  /\ t.pc = "expiring"
      /\ IF Readable /\ row # NoRow /\ MayExpire(row, t.ts)
           THEN Writes(p, "execute", t.id, Expired(row), Len(lines))
           ELSE Goes(p, Idle)
      /\ Nothing

-----------------------------------------------------------------------------
(* Effects. *)

(* Mutant of EventsOf: the gateway's own event is the only one it appends. *)
EventsOf_GatewayOnly(t, n) ==
  CASE t.op = "create"  -> <<<<"created", n>>>>
    [] t.op = "approve" -> IF t.new.status = "approved"
                             THEN <<<<"signoff", n>>, <<"resolved", n>>>>
                             ELSE <<<<"signoff", n>>>>
    [] t.op = "deny"    -> <<<<"resolved", n>>>>
    [] t.op = "execute" -> <<Answer>>

(* The audit events of a command that has written line n.                  *)
EventsOf(t, n) ==
  CASE t.op = "create"  -> <<<<"created", n>>>>
    [] t.op = "approve" -> IF t.new.status = "approved"
                             THEN <<<<"signoff", n>>, <<"resolved", n>>>>
                             ELSE <<<<"signoff", n>>>>
    [] t.op = "deny"    -> <<<<"resolved", n>>>>
    [] t.op = "execute" ->
         <<Answer, <<IF t.new.status = "pending" THEN "created" ELSE "resolved", n>>>>

(* append_approval_record.                                                 *)
AppendRecord(p) ==
  LET t == ps[p]
  IN  /\ t.pc = "writing" /\ Len(lines) < MaxLines
      /\ lines' = Extended([id |-> t.id, row |-> t.new])
      /\ ended' = TRUE
      /\ Goes(p, [pc |-> "auditing", todo |-> EventsOf(t, Len(lines'))])
      /\ UNCHANGED <<Trail, acts, now>>

(* The process dies in its write: inside the line, or before the newline.  *)
CutRecord(p) ==
  LET t == ps[p]
  IN  /\ t.pc = "writing" /\ Len(lines) < MaxLines
      /\ \E line \in {[id |-> t.id, row |-> t.new], Damaged} : lines' = Extended(line)
      /\ ended' = FALSE
      /\ Goes(p, Idle)
      /\ cutShort' = TRUE
      /\ UNCHANGED <<intact, audit, acts, now>>

(* _apply_connector_phase: no connector, a refused call, a dry run or an   *)
(* error without effect leave nothing behind; any other call acts.         *)
CallConnector(p) ==
  LET t == ps[p]
  IN  /\ t.pc = "cleared"
      /\ \/ Answers(p) /\ acts' = acts
         \/ /\ Len(acts) < MaxActs
            /\ acts' = Append(acts, [row |-> t.row, ts |-> t.ts])
            /\ Goes(p, [pc |-> "auditing", todo |-> <<<<"act", Len(acts')>>>>])
      /\ UNCHANGED <<File, Trail, now>>

(* append_event of the next event; the command ends after the last.        *)
AppendAudit(p) ==
  LET t == ps[p]
  IN  /\ t.pc = "auditing" /\ intact
      /\ audit' = audit \cup ({Head(t.todo)} \ {Answer})
      /\ Goes(p, IF Len(t.todo) = 1 THEN Idle ELSE [t EXCEPT !.todo = Tail(@)])
      /\ UNCHANGED <<File, intact, cutShort, acts, now>>

(* append_event raises on an audit file it cannot read, or the process     *)
(* dies, perhaps in its write.                                             *)
AuditFails(p) ==
  /\ ps[p].pc = "auditing"
  /\ intact' \in {intact, FALSE}
  /\ cutShort' = TRUE
  /\ Goes(p, Idle)
  /\ UNCHANGED <<File, audit, acts, now>>

(* The process dies before it has done anything that lasts.                *)
Die(p) ==
  /\ ps[p].pc \in {"writing", "expiring", "cleared"}
  /\ Goes(p, Idle)
  /\ Nothing

Command(p) ==
  \/ \E id \in Ids : CreateApproval(p, id) \/ DenyRequest(p, id)
  \/ \E id \in Ids, who \in Approvers, ts \in 0..now : ApproveRequest(p, id, who, ts)
  \/ DecideByPolicy(p)
  \/ \E id \in Ids, ts \in 0..now : ConsultApproval(p, id, ts)

Next ==
  \/ Tick
  \/ \E p \in Procs :
       \/ Command(p) \/ Expire(p)
       \/ AppendRecord(p) \/ CallConnector(p) \/ AppendAudit(p)
       \/ CutRecord(p) \/ AuditFails(p) \/ Die(p)

Spec == Init /\ [][Next]_vars

-----------------------------------------------------------------------------

Quorum(row) ==
  IF row.named # {} THEN row.named = row.by ELSE Cardinality(row.by) >= row.min

(* What one person, or the clock, may do to an open approval: add one      *)
(* sign-off that was asked for, which approves it exactly when it completes *)
(* the quorum, or close it; the terms of the approval never change.        *)
Follows(old, new) ==
  /\ old.status = "pending"
  /\ <<new.named, new.min, new.expires>> = <<old.named, old.min, old.expires>>
  /\ \/ \E a \in Approvers \ old.by :
          /\ new.by = old.by \cup {a}
          /\ old.named # {} => a \in old.named
          /\ new.status = IF Quorum(new) THEN "approved" ELSE "pending"
     \/ new.by = old.by /\ new.status \in {"denied", "expired"}

(* However processes interleave and die, every line opens an approval or   *)
(* follows lawfully from an earlier line of the same id: racing writers    *)
(* lose each other's work but never invent any.                            *)
HistoryIsLawful ==
  Readable => \A n \in DOMAIN lines :
    LET new == lines[n].row
    IN  \/ new.status = "pending" /\ new.by = {}
        \/ \E m \in 1..(n - 1) : lines[m].id = lines[n].id /\ Follows(lines[m].row, new)

(* "No execution is implicitly allowed until either policy allows outright *)
(* or an approval row is fully satisfied": behind every connector call is  *)
(* a policy, or a row with its quorum and an open window.                  *)
ActsAreCleared ==
  \A k \in DOMAIN acts : LET row == acts[k].row IN
    row # NoRow => /\ row.status = "approved"
                   /\ Quorum(row)
                   /\ row.expires # NoExpiry => acts[k].ts <= row.expires

(* What happened to approvals and connectors, in the words of the trail.   *)
Happened ==
  LET status(n) == lines[n].row.status
      unsigned(n) == lines[n].row.by = {}
  IN  ({"act"} \X DOMAIN acts)
      \cup ({"created"} \X {n \in DOMAIN lines : status(n) = "pending" /\ unsigned(n)})
      \cup ({"signoff"} \X {n \in DOMAIN lines : status(n) \in {"pending", "approved"} /\ ~unsigned(n)})
      \cup ({"resolved"} \X {n \in DOMAIN lines : status(n) # "pending"})

InHand(p) == IF ps[p].pc = "auditing" THEN Range(ps[p].todo) ELSE {}

(* The trail says nothing that did not happen and, unless a process was    *)
(* cut short, all that did: each transition of an approval and each        *)
(* connector call is recorded, or about to be by the process that did it.  *)
AuditTellsAll ==
  LET told == (audit \cup UNION {InHand(p) : p \in Procs}) \ {Answer}
  IN  Readable => told \subseteq Happened /\ (~cutShort => Happened \subseteq told)

(* A damaged approvals file fails closed, for good: from then on nothing   *)
(* is cleared by an approval that was not read before the damage.          *)
DamageFailsClosed ==
  [][~Readable =>
       /\ ~Readable'
       /\ \A p \in Procs : Free(p) /\ ps'[p].pc = "cleared" => ps'[p].row = NoRow]_vars

Opening(row) == row.status = "pending" /\ row.by = {}

(* A command that had loaded the last line of its approval continues it:   *)
(* its own line adds one sign-off to those that were there, or closes what *)
(* was open, or opens anew what has lapsed by now.  A sign-off, a denial or *)
(* an expiry is lost only to create-approval, which starts over unasked,   *)
(* or to a command that had loaded the file before it was written.         *)
FollowsUnlessRaced ==
  [][\A id \in Ids :
       LET old == Latest(id)
           new == Latest(id)'
       IN  Readable /\ Readable' /\ LinesOf(id)' # LinesOf(id) =>
             \/ Opening(new) /\ Vacant(old, now)
             \/ old # NoRow /\ Follows(old, new)
             \/ \E p \in Procs :
                  /\ ps[p].pc = "writing" /\ ps[p].id = id
                  /\ IF ps[p].op = "create" THEN Opening(new)
                                            ELSE ps[p].read < Max(LinesOf(id))]_vars

=============================================================================
