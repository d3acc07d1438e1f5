-------------------------- MODULE CredentialBroker --------------------------
(***************************************************************************)
(* Temporary credentials: issue, verify and revoke, as concurrent requests *)
(* over the temporary_credentials and audit_events tables.  Each request   *)
(* is one database transaction; issue and verify first sweep the overdue   *)
(* credentials, row by row, under row locks taken by the UPDATEs.  Audit   *)
(* rows of one kind for one subject share a primary key within a second.   *)
(*                                                                         *)
(* Abstractions: a token is its credential (the hash is injective); agent, *)
(* scopes, resource and environment are the request fingerprint; registry  *)
(* checks and policy evaluation are the three outcomes they can have; the  *)
(* approval row is its status (ApprovalTable models it in full).           *)
(***************************************************************************)
EXTENDS Integers, FiniteSets, Sequences, SequencesExt

CONSTANTS Handlers,     \* request-handling threads
          Creds,        \* pool of credential ids
          Requests,     \* request fingerprints
          Durations,    \* duration_seconds values asked for
          NoDuration,   \* duration_seconds = None
          DefaultTtl,   \* DEFAULT_TTL_SECONDS
          MaxDuration,  \* MAX_DURATION_SECONDS
          TicksPerSec,  \* clock ticks in a second
          MaxTime,      \* bound of the clock, in ticks
          None          \* absence of a row

ASSUME TtlsPositive == DefaultTtl \in Nat \ {0} /\ MaxDuration \in Nat \ {0}
ASSUME DurationsPositive == Durations \subseteq (Nat \ {0}) \cup {NoDuration}
ASSUME ClockOK == TicksPerSec \in Nat \ {0} /\ MaxTime \in Nat

VARIABLES creds,      \* committed temporary_credentials rows
          approvals,  \* committed approval status of each request
          audit,      \* committed audit keys <<kind, subject, second>>
          now,        \* the clock, in ticks
          tx,         \* per handler: the request and transaction in flight
          minted,     \* ghost: what each mint told its caller, and its ground
          closed,     \* ghost: credentials ever revoked or expired
          withdrawn   \* ghost: when each request's approval last ceased to stand

vars == <<creds, approvals, audit, now, tx, minted, closed, withdrawn>>

Sec(t) == t \div TicksPerSec
Floor(t) == Sec(t) * TicksPerSec    \* timestamps are stored to the second

Policies == {"allow", "deny", "require_approval"}
Rows == [status : {"active", "revoked", "expired"}, issued : Nat, expires : Nat]
Keys == ({"expired", "revoked"} \X Creds \X Nat) \cup ({"denied", "created"} \X Requests \X Nat)

Mints == [at : Nat, told : Nat, ground : {"policy", "approval"}, req : Requests]

ASSUME NoneApart == None \notin Creds \cup Requests \cup Nat /\ None \notin Rows /\ None \notin Mints

Idle == [pc |-> "idle", op |-> "none", ts |-> 0, cred |-> None, req |-> None,
         due |-> <<>>, swept |-> {}, keys |-> {}, mint |-> None, said |-> "none"]

Txs == [pc : {"idle", "list", "sweep", "revoke", "write", "answered"},
        op : {"none", "issue", "verify", "revoke"},
        ts : Nat, cred : Creds \cup {None}, req : Requests \cup {None},
        due : Seq(Creds), swept : SUBSET Creds, keys : SUBSET Keys,
        mint : Mints \cup {None},
        said : {"none", "valid", "invalid", "issued", "denied", "pending", "opened", "revoked"}]

TypeOK ==
  /\ creds \in [Creds -> Rows \cup {None}]
  /\ approvals \in [Requests -> {"none", "pending", "approved", "denied"}]
  /\ audit \subseteq Keys
  /\ now \in 0..MaxTime
  /\ tx \in [Handlers -> Txs]
  /\ minted \in [Creds -> Mints \cup {None}]
  /\ closed \subseteq Creds
  /\ withdrawn \in [Requests -> Nat \cup {None}]

-----------------------------------------------------------------------------
(* Rules on one row. *)

(* Mutant of ClampTtl: the cap is forgotten.                               *)
ClampTtl_NoCap(d) == IF d = NoDuration THEN DefaultTtl ELSE d

ClampTtl(d) ==
  LET raw == IF d = NoDuration THEN DefaultTtl ELSE d
  IN  CASE raw > MaxDuration -> MaxDuration
        [] raw < 1 -> 1
        [] OTHER -> raw

Overdue(row, ts) == row.expires < ts

(* Mutant of Verdict: only the clock is asked.                             *)
Verdict_ClockOnly(row, ts) == IF Overdue(row, ts) THEN "expired" ELSE "valid"

(* verify_credential on a stored row; the clock is asked before the status. *)
Verdict(row, ts) ==
  IF Overdue(row, ts) THEN "expired"
  ELSE IF row.status = "active" THEN "valid" ELSE row.status

(* Mutant of Shown: the boundary instant is shown as over.                 *)
Shown_ClosedBoundary(row, ts) ==
  IF row.status = "active" /\ row.expires <= ts THEN "expired" ELSE row.status

(* _credential_status_row: the status column of the dashboard.             *)
Shown(row, ts) ==
  IF row.status = "active" /\ Overdue(row, ts) THEN "expired" ELSE row.status

-----------------------------------------------------------------------------
(* Transactions. *)

End(h) == tx' = [tx EXCEPT ![h] = Idle]

Busy(h) == tx[h].pc # "idle"

(* Rows h has written and not committed, by primary key.                   *)
Locks(h) ==
  LET t == tx[h]
  IN  t.swept
      \cup (IF t.said = "revoked" THEN {t.cred} ELSE {})
      \cup (IF t.said = "opened" THEN {t.req} ELSE {})
      \cup t.keys

(* Another open transaction holds one of xs.                               *)
Locked(h, xs) == \E g \in Handlers \ {h} : Locks(g) \cap xs # {}

Key(kind, subject, ts) == <<kind, subject, Sec(ts)>>

(* What the open transaction of h sees of credential c.                    *)
Seen(h, c) ==
  IF c \in tx[h].swept THEN [creds[c] EXCEPT !.status = "expired"] ELSE creds[c]

Answer(h, said, keys) ==
  tx' = [tx EXCEPT ![h].pc = "answered", ![h].said = said, ![h].keys = @ \cup keys]

(* Adds an audit row of that kind, then answers; a key already taken fails *)
(* the insert and with it the request.                                     *)
AuditAnd(h, said, key) ==
  /\ ~Locked(h, {key})
  /\ IF key \in audit THEN End(h) ELSE Answer(h, said, {key})

-----------------------------------------------------------------------------

Init ==
  /\ creds = [c \in Creds |-> None]
  /\ approvals = [r \in Requests |-> "none"]
  /\ audit = {}
  /\ now = 0
  /\ tx = [h \in Handlers |-> Idle]
  /\ minted = [c \in Creds |-> None]
  /\ closed = {}
  /\ withdrawn = [r \in Requests |-> None]

Stored == <<creds, approvals, audit, now, minted, closed, withdrawn>>

Tick ==
  /\ now < MaxTime
  /\ now' = now + 1
  /\ UNCHANGED <<creds, approvals, audit, tx, minted, closed, withdrawn>>

BeginIssue(h, r) ==
  /\ ~Busy(h)
  /\ tx' = [tx EXCEPT ![h] = [Idle EXCEPT !.pc = "list", !.op = "issue", !.ts = now,
                                          !.req = r]]
  /\ UNCHANGED Stored

BeginVerify(h, c) ==
  /\ ~Busy(h)
  /\ tx' = [tx EXCEPT ![h] = [Idle EXCEPT !.pc = "list", !.op = "verify", !.ts = now,
                                          !.cred = c]]
  /\ UNCHANGED Stored

BeginRevoke(h, c) ==
  /\ ~Busy(h)
  /\ tx' = [tx EXCEPT ![h] = [Idle EXCEPT !.pc = "revoke", !.op = "revoke", !.ts = now,
                                          !.cred = c]]
  /\ UNCHANGED Stored

(* expire_credentials, first query: the active rows past their time, in    *)
(* whatever order the table yields them.                                   *)
ListDue(h) ==
  LET due == {c \in Creds : creds[c] # None /\ creds[c].status = "active"
                            /\ Overdue(creds[c], tx[h].ts)}
  IN  /\ tx[h].pc = "list"
      /\ \E s \in SetToSeqs(due) : tx' = [tx EXCEPT ![h].pc = "sweep", ![h].due = s]
      /\ UNCHANGED Stored

(* Mutant of SweepOne: the audit row is left out.                          *)
SweepOne_Silent(h) ==
  /\ tx[h].pc = "sweep" /\ tx[h].due # <<>>
  /\ ~Locked(h, {Head(tx[h].due)})
  /\ tx' = [tx EXCEPT ![h].due = Tail(@), ![h].swept = @ \cup {Head(tx[h].due)}]
  /\ UNCHANGED Stored

(* expire_credentials, one row: UPDATE (which waits for the row's lock and *)
(* does not look at its status again), then the audit row.                 *)
SweepOne(h) ==
  LET c == Head(tx[h].due)
      key == Key("expired", c, tx[h].ts)
  IN  /\ tx[h].pc = "sweep" /\ tx[h].due # <<>>
      /\ ~Locked(h, {c, key})
      /\ IF key \in audit
           THEN End(h)
           ELSE tx' = [tx EXCEPT ![h].due = Tail(@), ![h].swept = @ \cup {c},
                                 ![h].keys = @ \cup {key}]
      /\ UNCHANGED Stored

Swept(h) == tx[h].pc = "sweep" /\ tx[h].due = <<>>

Verify(h) ==
  LET row == Seen(h, tx[h].cred)
  IN  /\ Swept(h) /\ tx[h].op = "verify"
      /\ Answer(h, IF row # None /\ Verdict(row, tx[h].ts) = "valid" THEN "valid" ELSE "invalid", {})
      /\ UNCHANGED Stored

(* _mint_credential: a fresh random id and token; the caller is told the   *)
(* exact expiry.                                                           *)
Mint(h, ground) ==
  LET t == tx[h]
  IN  \E c \in Creds, d \in Durations :
        /\ creds[c] = None
        /\ \A g \in Handlers \ {h} : tx[g].said = "issued" => tx[g].cred # c
        /\ tx' = [tx EXCEPT ![h].pc = "answered", ![h].said = "issued", ![h].cred = c,
                            ![h].mint = [at |-> t.ts, told |-> t.ts + ClampTtl(d) * TicksPerSec,
                                         ground |-> ground, req |-> t.req]]

(* insert_credential: times are cut to the second.                         *)
StoredRow(m) == [status |-> "active", issued |-> Floor(m.at), expires |-> Floor(m.told)]

(* Mutant of ApprovalClears: any answered approval will do.                *)
ApprovalClears_Answered(status) == status \in {"approved", "denied"}

(* Approvals of credentials have no expires_at, so approved is enough.     *)
ApprovalClears(status) == status = "approved"

(* issue_credential after the sweep; p is what the policies in the body    *)
(* decide (deny also stands for a failed registry check).                  *)
Issue(h, p) ==
  LET t == tx[h]
      status == approvals[t.req]
      Refuse == AuditAnd(h, "denied", Key("denied", t.req, t.ts))
      Gated == p = "require_approval"
  IN  /\ Swept(h) /\ t.op = "issue"
      /\ \/ p = "allow" /\ Mint(h, "policy")
         \/ p = "deny" /\ Refuse
         \/ Gated /\ ApprovalClears(status) /\ Mint(h, "approval")
         \/ Gated /\ ~ApprovalClears(status) /\ status = "denied" /\ Refuse
         \/ Gated /\ status = "pending" /\ Answer(h, "pending", {})
         \/ /\ Gated /\ status = "none" /\ ~Locked(h, {t.req})
            /\ AuditAnd(h, "opened", Key("created", t.req, t.ts))
      /\ UNCHANGED Stored

(* revoke_credential: only an active row; anything else is a 400.          *)
RevokeRead(h) ==
  LET row == creds[tx[h].cred]
  IN  /\ tx[h].pc = "revoke"
      /\ IF row # None /\ row.status = "active"
           THEN tx' = [tx EXCEPT ![h].pc = "write"]
           ELSE End(h)
      /\ UNCHANGED Stored

(* The UPDATE has no status in its WHERE clause.                           *)
RevokeWrite(h) ==
  /\ tx[h].pc = "write" /\ ~Locked(h, {tx[h].cred})
  /\ AuditAnd(h, "revoked", Key("revoked", tx[h].cred, tx[h].ts))
  /\ UNCHANGED Stored

(* What the next write of h needs.                                         *)
Wants(h) ==
  LET t == tx[h]
  IN  CASE t.pc = "sweep" /\ t.due # <<>> -> {Head(t.due), Key("expired", Head(t.due), t.ts)}
        [] t.pc = "write" -> {t.cred, Key("revoked", t.cred, t.ts)}
        [] Swept(h) /\ t.op = "issue" ->
             {t.req, Key("denied", t.req, t.ts), Key("created", t.req, t.ts)}
        [] OTHER -> {}

(* A request that waits for a lock may lose: the database breaks a cycle,  *)
(* reports a duplicate key, or gives up as busy.                           *)
LockAbort(h) ==
  /\ Locked(h, Wants(h))
  /\ End(h)
  /\ UNCHANGED Stored

(* The exit code of get_db, after the answer has been sent.                *)
Commit(h) ==
  LET t == tx[h]
      over == t.swept \cup (IF t.said = "revoked" THEN {t.cred} ELSE {})
  IN  /\ t.pc = "answered"
      /\ creds' = [c \in Creds |->
                     CASE t.said = "issued" /\ c = t.cred -> StoredRow(t.mint)
                       [] c \in t.swept -> [creds[c] EXCEPT !.status = "expired"]
                       [] t.said = "revoked" /\ c = t.cred -> [creds[c] EXCEPT !.status = "revoked"]
                       [] OTHER -> creds[c]]
      /\ approvals' = IF t.said = "opened" THEN [approvals EXCEPT ![t.req] = "pending"]
                                           ELSE approvals
      /\ audit' = audit \cup t.keys
      /\ minted' = IF t.said = "issued"
                     THEN [minted EXCEPT ![t.cred] = t.mint]
                     ELSE minted
      /\ closed' = closed \cup over
      /\ End(h)
      /\ UNCHANGED <<now, withdrawn>>

(* The server stops; open transactions are rolled back.                    *)
Crash ==
  /\ \E h \in Handlers : Busy(h)
  /\ tx' = [h \in Handlers |-> Idle]
  /\ UNCHANGED Stored

(* Requests of ApprovalTable move a row that is there.  The first to       *)
(* commit signs it off or denies it; one that had read the row before may  *)
(* still write over that, so any status may follow any other.              *)
ApprovalAnswered(r) ==
  /\ approvals[r] # "none"
  /\ \E s \in {"pending", "approved", "denied"} \ {approvals[r]} :
       approvals' = [approvals EXCEPT ![r] = s]
  /\ withdrawn' = IF approvals[r] = "approved" THEN [withdrawn EXCEPT ![r] = now]
                                               ELSE withdrawn
  /\ UNCHANGED <<creds, audit, now, tx, minted, closed>>

Next ==
  \/ Tick
  \/ Crash
  \/ \E r \in Requests : ApprovalAnswered(r)
  \/ \E h \in Handlers :
       \/ \E r \in Requests : BeginIssue(h, r)
       \/ \E c \in Creds : BeginVerify(h, c) \/ BeginRevoke(h, c)
       \/ ListDue(h)
       \/ SweepOne(h)
       \/ Verify(h)
       \/ \E p \in Policies : Issue(h, p)
       \/ RevokeRead(h)
       \/ RevokeWrite(h)
       \/ LockAbort(h)
       \/ Commit(h)

Spec == Init /\ [][Next]_vars

-----------------------------------------------------------------------------

SaysValid(h) == Verify(h) /\ tx'[h].said = "valid"

(* Once a revocation or an expiry of a credential is committed, no check   *)
(* of its token succeeds any more, whatever races with it.  The mark of a  *)
(* revocation may be replaced by a sweep that had listed the row before,   *)
(* but only as "expired" and only when the credential had run out by then. *)
ClosedStaysClosed ==
  [][/\ \A h \in Handlers : SaysValid(h) => tx[h].cred \notin closed
     /\ \A c \in Creds : creds[c] # None /\ creds[c].status = "revoked" /\ creds'[c] # creds[c] =>
          creds'[c].status = "expired" /\ Overdue(creds[c], now)]_vars

(* No token is accepted past the expiry its holder was told, nor longer    *)
(* than the maximum duration after it was issued.                          *)
NeverOutlives ==
  [][\A h \in Handlers : SaysValid(h) =>
       LET m == minted[tx[h].cred]
       IN  tx[h].ts <= m.told /\ tx[h].ts <= m.at + MaxDuration * TicksPerSec]_vars

(* A credential minted on the ground of an approval is stored while the    *)
(* approval stands or, if it was withdrawn after the broker had read it,   *)
(* for a request that had come before: whoever asks after a denial gets no *)
(* token, whatever still races with it.                                    *)
MintsAreCleared ==
  [][\A c \in Creds :
       LET m == minted'[c] IN minted[c] = None /\ m # None /\ m.ground = "approval" =>
         \/ approvals[m.req] = "approved"
         \/ withdrawn[m.req] # None /\ m.at <= withdrawn[m.req]]_vars

(* Every revoked or expired row has the audit row that says so.            *)
StatusIsAudited ==
  \A c \in Creds : creds[c] # None /\ creds[c].status # "active" =>
    \E k \in audit : k[1] = creds[c].status /\ k[2] = c

(* The dashboard shows a credential as active exactly when its token would *)
(* be accepted at that instant.                                            *)
DashboardAgrees ==
  \A c \in Creds : creds[c] # None =>
    (Shown(creds[c], now) = "active" <=> Verdict(creds[c], now) = "valid")

=============================================================================
