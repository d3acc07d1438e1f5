----------------------- MODULE CredentialBrokerProofs -----------------------
(***************************************************************************)
(* Theorems about CredentialBroker, for every set of handlers, credential  *)
(* ids, requests and durations, every clock and every limit.               *)
(***************************************************************************)
EXTENDS CredentialBroker, FiniteSetTheorems, TLAPS

-----------------------------------------------------------------------------
(* Times and durations. *)

(* Seconds and stored times are numbers, and cutting never adds time.      *)
LEMMA FloorIsEarlier ==
  ASSUME NEW t \in Nat
  PROVE  Sec(t) \in Nat /\ Floor(t) \in Nat /\ Floor(t) <= t
<1>1. TicksPerSec \in Nat \ {0}
  BY ClockOK
<1>2. Sec(t) \in Int /\ Sec(t) >= 0 /\ TicksPerSec * Sec(t) <= t
  BY <1>1 DEF Sec
<1>3. Sec(t) * TicksPerSec = TicksPerSec * Sec(t)
  BY <1>1, <1>2
<1>4. Sec(t) * TicksPerSec \in Nat
  BY <1>1, <1>2
<1> QED
  BY <1>2, <1>3, <1>4 DEF Floor

(* _mint_credential never grants more than the maximum.                    *)
LEMMA ClampIsBounded ==
  ASSUME NEW d \in Durations
  PROVE  ClampTtl(d) \in Nat /\ ClampTtl(d) <= MaxDuration
BY TtlsPositive, DurationsPositive DEF ClampTtl

(* The expiry that is told lies within the maximum of the time of issue.   *)
LEMMA ToldIsBounded ==
  ASSUME NEW t \in Nat, NEW d \in Durations
  PROVE  /\ t + ClampTtl(d) * TicksPerSec \in Nat
         /\ t + ClampTtl(d) * TicksPerSec <= t + MaxDuration * TicksPerSec
<1> DEFINE c == ClampTtl(d)
<1>1. c \in Nat /\ c <= MaxDuration
  BY ClampIsBounded
<1>2. MaxDuration \in Nat /\ TicksPerSec \in Nat
  BY TtlsPositive, ClockOK
<1> HIDE DEF c
<1>3. c * TicksPerSec \in Nat /\ c * TicksPerSec <= MaxDuration * TicksPerSec
  BY <1>1, <1>2
<1>4. MaxDuration * TicksPerSec \in Nat
  BY <1>2
<1>5. t + c * TicksPerSec \in Nat /\ t + c * TicksPerSec <= t + MaxDuration * TicksPerSec
  BY <1>3, <1>4
<1> QED
  BY <1>5 DEF c

-----------------------------------------------------------------------------
(* The inductive invariant. *)

(* Only so many credentials have been stored.                              *)
StoreFinite == IsFiniteSet({c \in Creds : creds[c] # None})

(* A mint the broker may make: within the maximum.                         *)
MintOK(m) ==
  /\ m \in Mints
  /\ m.told <= m.at + MaxDuration * TicksPerSec

(* The approval a mint rests on stands, or stood when its request came.    *)
Stands(m) ==
  m.ground = "approval" =>
    \/ approvals[m.req] = "approved"
    \/ withdrawn[m.req] # None /\ m.at <= withdrawn[m.req]

(* A stored credential runs out when its holder was told it would, to the  *)
(* second.                                                                 *)
RowsAsMinted ==
  \A c \in Creds :
    /\ creds[c] = None <=> minted[c] = None
    /\ creds[c] # None => MintOK(minted[c]) /\ creds[c].expires = Floor(minted[c].told)

ClosedAreOver == \A c \in closed : creds[c] # None /\ creds[c].status # "active"

RunOut(c, ts) == creds[c] # None /\ Overdue(creds[c], ts)

(* A transaction in flight: it began in the past; what it listed and swept *)
(* had run out by then and stays so, since no step moves an expiry; the    *)
(* audit rows of what it writes are written with it.                       *)
InFlight(t) ==
  /\ t.ts <= now
  /\ t.pc = "answered" <=> t.said # "none"
  /\ t.op = "issue" => t.req \in Requests
  /\ t.op \in {"verify", "revoke"} => t.cred \in Creds
  /\ t.pc \in {"list", "sweep"} => t.op # "revoke"
  /\ t.pc \in {"revoke", "write"} => t.op = "revoke" /\ t.swept = {}
  /\ \A i \in DOMAIN t.due : RunOut(t.due[i], t.ts)
  /\ \A c \in t.swept : RunOut(c, t.ts) /\ Key("expired", c, t.ts) \in t.keys
  /\ t.pc = "write" => creds[t.cred] # None
  /\ t.said = "revoked" => /\ t.cred \in Creds /\ creds[t.cred] # None
                           /\ Key("revoked", t.cred, t.ts) \in t.keys
                           /\ t.swept = {}
  /\ t.said = "opened" => t.req \in Requests /\ approvals[t.req] = "none"
  /\ t.said = "issued" => t.cred \in Creds /\ creds[t.cred] = None
                          /\ MintOK(t.mint) /\ Stands(t.mint) /\ t.mint.at = t.ts

(* No two open transactions mint the same id.                              *)
MintsApart ==
  \A g, h \in Handlers :
    g # h /\ tx[g].said = "issued" /\ tx[h].said = "issued" => tx[g].cred # tx[h].cred

(* Nor do two open an approval for the same request: the insert of one     *)
(* waits for the other.                                                    *)
OpensApart ==
  \A g, h \in Handlers :
    g # h /\ tx[g].said = "opened" /\ tx[h].said = "opened" => tx[g].req # tx[h].req

IInv ==
  /\ TypeOK
  /\ StoreFinite
  /\ RowsAsMinted
  /\ ClosedAreOver
  /\ StatusIsAudited
  /\ \A h \in Handlers : InFlight(tx[h])
  /\ MintsApart
  /\ OpensApart

-----------------------------------------------------------------------------
(* Steps that only move the transaction of one handler. *)

LEMMA IdleIsTx == Idle \in Txs
<1>1. <<>> \in Seq(Creds)
  OBVIOUS
<1> QED
  BY <1>1 DEF Idle, Txs

LEMMA IdleInFlight ==
  ASSUME TypeOK
  PROVE  InFlight(Idle)
BY DEF Idle, InFlight, TypeOK

(* The key of an audit row is a key.                                       *)
LEMMA KeyType ==
  ASSUME NEW ts \in Nat
  PROVE  /\ \A c \in Creds : Key("expired", c, ts) \in Keys /\ Key("revoked", c, ts) \in Keys
         /\ \A r \in Requests : Key("denied", r, ts) \in Keys /\ Key("created", r, ts) \in Keys
BY FloorIsEarlier DEF Key, Keys

(* Such a step keeps the invariant if the new transaction is one of Txs,   *)
(* InFlight, and mints or opens nothing that another one does.             *)
LEMMA OneMoves ==
  ASSUME IInv, NEW h \in Handlers, NEW t \in Txs, InFlight(t),
         t.said = "issued" => \A g \in Handlers \ {h} : tx[g].said = "issued" => tx[g].cred # t.cred,
         t.said = "opened" => \A g \in Handlers \ {h} : tx[g].said = "opened" => tx[g].req # t.req,
         tx' = [tx EXCEPT ![h] = t], UNCHANGED Stored
  PROVE  IInv'
<1>1. tx \in [Handlers -> Txs]
  BY DEF IInv, TypeOK
<1>2. tx' \in [Handlers -> Txs]
  BY <1>1
<1>3. UNCHANGED <<creds, approvals, audit, now, minted, closed, withdrawn>>
  BY DEF Stored
<1>4. TypeOK'
  BY <1>2, <1>3 DEF IInv, TypeOK
<1>5. /\ StoreFinite' /\ RowsAsMinted' /\ ClosedAreOver' /\ StatusIsAudited'
  BY <1>3 DEF IInv, StoreFinite, RowsAsMinted, ClosedAreOver, StatusIsAudited, MintOK
<1>6. ASSUME NEW g \in Handlers PROVE InFlight(tx[g])'
  <2>1. InFlight(tx'[g])
    BY <1>1 DEF IInv
  <2> QED
    BY <1>3, <2>1 DEF InFlight, RunOut, MintOK, Stands
<1>7. MintsApart' /\ OpensApart'
  BY <1>1 DEF IInv, MintsApart, OpensApart
<1> QED
  BY <1>4, <1>5, <1>6, <1>7 DEF IInv

LEMMA EndKeeps ==
  ASSUME IInv, NEW h \in Handlers, End(h), UNCHANGED Stored
  PROVE  IInv'
<1>1. InFlight(Idle)
  BY IdleInFlight DEF IInv
<1>2. Idle.said # "issued" /\ Idle.said # "opened"
  BY DEF Idle
<1> QED
  BY <1>1, <1>2, IdleIsTx, OneMoves DEF End

(* A step that answers or fails, in the middle of a transaction that       *)
(* writes nothing yet but audit rows.                                      *)
LEMMA AnswerKeeps ==
  ASSUME IInv, NEW h \in Handlers, tx[h].pc # "idle",
         NEW said \in {"valid", "invalid", "denied", "pending", "opened", "revoked"},
         NEW keys \in SUBSET Keys,
         said = "opened" =>
           /\ tx[h].req \in Requests /\ approvals[tx[h].req] = "none"
           /\ \A g \in Handlers \ {h} : tx[g].said = "opened" => tx[g].req # tx[h].req,
         said = "revoked" => /\ tx[h].cred \in Creds /\ creds[tx[h].cred] # None
                             /\ Key("revoked", tx[h].cred, tx[h].ts) \in keys
                             /\ tx[h].swept = {},
         Answer(h, said, keys), UNCHANGED Stored
  PROVE  IInv'
<1> DEFINE t == [tx[h] EXCEPT !.pc = "answered", !.said = said, !.keys = @ \cup keys]
<1>1. tx[h] \in Txs /\ InFlight(tx[h])
  BY DEF IInv, TypeOK
<1>2. t \in Txs
  BY <1>1 DEF Txs
<1>3. InFlight(t)
  BY <1>1 DEF Txs, InFlight
<1>4. tx' = [tx EXCEPT ![h] = t] /\ t.said = said /\ t.req = tx[h].req
  BY <1>1 DEF Answer, Txs
<1> HIDE DEF t
<1> QED
  BY <1>2, <1>3, <1>4, OneMoves

LEMMA AuditAndKeeps ==
  ASSUME IInv, NEW h \in Handlers, tx[h].pc # "idle",
         NEW said \in {"valid", "invalid", "denied", "pending", "opened", "revoked"},
         NEW key \in Keys,
         said = "opened" =>
           /\ tx[h].req \in Requests /\ approvals[tx[h].req] = "none"
           /\ \A g \in Handlers \ {h} : tx[g].said = "opened" => tx[g].req # tx[h].req,
         said = "revoked" => /\ tx[h].cred \in Creds /\ creds[tx[h].cred] # None
                             /\ key = Key("revoked", tx[h].cred, tx[h].ts)
                             /\ tx[h].swept = {},
         AuditAnd(h, said, key), UNCHANGED Stored
  PROVE  IInv'
<1>1. CASE key \in audit
  BY <1>1, EndKeeps DEF AuditAnd
<1>2. CASE key \notin audit
  BY <1>2, AnswerKeeps DEF AuditAnd
<1> QED
  BY <1>1, <1>2

-----------------------------------------------------------------------------
(* The steps of a transaction. *)

LEMMA BeginIssueKeeps ==
  ASSUME IInv, NEW h \in Handlers, NEW r \in Requests, BeginIssue(h, r)
  PROVE  IInv'
<1> DEFINE t == [Idle EXCEPT !.pc = "list", !.op = "issue", !.ts = now, !.req = r]
<1>1. now \in Nat
  BY DEF IInv, TypeOK
<1>2. t \in Txs
  BY <1>1, IdleIsTx DEF Txs, Idle
<1>3. InFlight(t)
  BY <1>1 DEF InFlight, Idle
<1>4. tx' = [tx EXCEPT ![h] = t] /\ t.said \notin {"issued", "opened"} /\ UNCHANGED Stored
  BY DEF BeginIssue, Idle
<1> HIDE DEF t
<1> QED
  BY <1>2, <1>3, <1>4, OneMoves

LEMMA BeginVerifyKeeps ==
  ASSUME IInv, NEW h \in Handlers, NEW c \in Creds, BeginVerify(h, c)
  PROVE  IInv'
<1> DEFINE t == [Idle EXCEPT !.pc = "list", !.op = "verify", !.ts = now, !.cred = c]
<1>1. now \in Nat
  BY DEF IInv, TypeOK
<1>2. t \in Txs
  BY <1>1, IdleIsTx DEF Txs, Idle
<1>3. InFlight(t)
  BY <1>1 DEF InFlight, Idle
<1>4. tx' = [tx EXCEPT ![h] = t] /\ t.said \notin {"issued", "opened"} /\ UNCHANGED Stored
  BY DEF BeginVerify, Idle
<1> HIDE DEF t
<1> QED
  BY <1>2, <1>3, <1>4, OneMoves

LEMMA BeginRevokeKeeps ==
  ASSUME IInv, NEW h \in Handlers, NEW c \in Creds, BeginRevoke(h, c)
  PROVE  IInv'
<1> DEFINE t == [Idle EXCEPT !.pc = "revoke", !.op = "revoke", !.ts = now, !.cred = c]
<1>1. now \in Nat
  BY DEF IInv, TypeOK
<1>2. t \in Txs
  BY <1>1, IdleIsTx DEF Txs, Idle
<1>3. InFlight(t)
  BY <1>1 DEF InFlight, Idle
<1>4. tx' = [tx EXCEPT ![h] = t] /\ t.said \notin {"issued", "opened"} /\ UNCHANGED Stored
  BY DEF BeginRevoke, Idle
<1> HIDE DEF t
<1> QED
  BY <1>2, <1>3, <1>4, OneMoves

(* What the first query of the sweep yields is a finite list of overdue    *)
(* credentials, since only so many are stored.                             *)
LEMMA ListDueKeeps ==
  ASSUME IInv, NEW h \in Handlers, ListDue(h)
  PROVE  IInv'
<1> DEFINE due == {c \in Creds : creds[c] # None /\ creds[c].status = "active"
                                 /\ Overdue(creds[c], tx[h].ts)}
<1>1. tx[h] \in Txs /\ InFlight(tx[h]) /\ tx[h].pc = "list" /\ UNCHANGED Stored
  BY DEF IInv, TypeOK, ListDue
<1>2. PICK s \in SetToSeqs(due) : tx' = [tx EXCEPT ![h].pc = "sweep", ![h].due = s]
  BY DEF ListDue
<1>3. Cardinality(due) \in Nat
  <2>1. due \subseteq {c \in Creds : creds[c] # None}
    OBVIOUS
  <2> QED
    BY <2>1, FS_Subset, FS_CardinalityType DEF IInv, StoreFinite
<1>4. s \in [1..Cardinality(due) -> due]
  BY <1>2 DEF SetToSeqs
<1>5. s \in Seq(Creds) /\ \A i \in DOMAIN s : RunOut(s[i], tx[h].ts)
  <2>1. \A c \in due : c \in Creds /\ RunOut(c, tx[h].ts)
    BY DEF RunOut
  <2> HIDE DEF due
  <2>2. s \in Seq(due) /\ DOMAIN s = 1..Cardinality(due)
    BY <1>3, <1>4
  <2>3. s \in [1..Cardinality(due) -> Creds]
    BY <1>4, <2>1
  <2>4. s \in Seq(Creds)
    BY <1>3, <2>3
  <2> QED
    BY <1>4, <2>1, <2>2, <2>4
<1> HIDE DEF due
<1> DEFINE t == [tx[h] EXCEPT !.pc = "sweep", !.due = s]
<1>6. t \in Txs
  BY <1>1, <1>5 DEF Txs
<1>7. InFlight(t) /\ t.said \notin {"issued", "opened"}
  BY <1>1, <1>5 DEF Txs, InFlight
<1>8. tx' = [tx EXCEPT ![h] = t]
  BY <1>1, <1>2 DEF Txs
<1> HIDE DEF t
<1> QED
  BY <1>1, <1>6, <1>7, <1>8, OneMoves

(* A row the sweep has reached: it had run out when it was listed.         *)
LEMMA SweepOneKeeps ==
  ASSUME IInv, NEW h \in Handlers, SweepOne(h)
  PROVE  IInv'
<1> DEFINE c == Head(tx[h].due)
           key == Key("expired", c, tx[h].ts)
           t == [tx[h] EXCEPT !.due = Tail(@), !.swept = @ \cup {c}, !.keys = @ \cup {key}]
<1>1. /\ tx[h] \in Txs /\ InFlight(tx[h]) /\ tx[h].pc = "sweep" /\ tx[h].due # <<>>
      /\ UNCHANGED Stored
  BY DEF IInv, TypeOK, SweepOne
<1>2. /\ tx[h].due \in Seq(Creds) /\ tx[h].ts \in Nat
      /\ tx[h].swept \in SUBSET Creds /\ tx[h].keys \in SUBSET Keys
  BY <1>1 DEF Txs
<1>3. c \in Creds /\ Tail(tx[h].due) \in Seq(Creds) /\ c = tx[h].due[1] /\ 1 \in DOMAIN tx[h].due
  BY <1>1, <1>2
<1>4. \A i \in DOMAIN Tail(tx[h].due) : RunOut(Tail(tx[h].due)[i], tx[h].ts)
  BY <1>1, <1>2 DEF InFlight
<1>5. RunOut(c, tx[h].ts)
  BY <1>1, <1>3 DEF InFlight
<1>6. key \in Keys
  BY <1>2, <1>3, KeyType
<1> HIDE DEF c
<1>7. CASE key \in audit
  BY <1>1, <1>7, EndKeeps DEF SweepOne, c
<1>8. CASE key \notin audit
  <2>1. tx' = [tx EXCEPT ![h] = t]
    BY <1>1, <1>8 DEF SweepOne, c, Txs
  <2>2. t \in Txs
    BY <1>1, <1>2, <1>3, <1>6 DEF Txs
  <2>3. InFlight(t) /\ t.said \notin {"issued", "opened"}
    <3>1. /\ t.ts = tx[h].ts /\ t.due = Tail(tx[h].due) /\ t.swept = tx[h].swept \cup {c}
          /\ t.keys = tx[h].keys \cup {key} /\ t.pc = tx[h].pc /\ t.said = tx[h].said
          /\ t.op = tx[h].op /\ t.cred = tx[h].cred /\ t.req = tx[h].req /\ t.mint = tx[h].mint
      BY <1>1 DEF Txs
    <3>2. \A d \in t.swept : RunOut(d, t.ts) /\ Key("expired", d, t.ts) \in t.keys
      BY <1>1, <1>5, <3>1 DEF InFlight
    <3> QED
      BY <1>1, <1>4, <3>1, <3>2 DEF InFlight
  <2> HIDE DEF t
  <2> QED
    BY <1>1, <2>1, <2>2, <2>3, OneMoves
<1> QED
  BY <1>7, <1>8

LEMMA VerifyKeeps ==
  ASSUME IInv, NEW h \in Handlers, Verify(h)
  PROVE  IInv'
<1>1. tx[h].pc # "idle" /\ UNCHANGED Stored
  BY DEF Verify, Swept
<1>2. \E said \in {"valid", "invalid"} : Answer(h, said, {})
  BY DEF Verify
<1> QED
  BY <1>1, <1>2, AnswerKeeps

(* A mint on a good ground: the id is new and the expiry within bounds.    *)
LEMMA MintKeeps ==
  ASSUME IInv, NEW h \in Handlers, NEW ground \in {"policy", "approval"},
         tx[h].pc = "sweep", tx[h].op = "issue", tx[h].due = <<>>,
         ground = "approval" => approvals[tx[h].req] = "approved",
         Mint(h, ground), UNCHANGED Stored
  PROVE  IInv'
<1>1. tx[h] \in Txs /\ InFlight(tx[h])
  BY DEF IInv, TypeOK
<1>2. PICK c \in Creds, d \in Durations :
        /\ creds[c] = None
        /\ \A g \in Handlers \ {h} : tx[g].said = "issued" => tx[g].cred # c
        /\ tx' = [tx EXCEPT ![h].pc = "answered", ![h].said = "issued", ![h].cred = c,
                            ![h].mint = [at |-> tx[h].ts,
                                         told |-> tx[h].ts + ClampTtl(d) * TicksPerSec,
                                         ground |-> ground, req |-> tx[h].req]]
  BY DEF Mint
<1> DEFINE m == [at |-> tx[h].ts, told |-> tx[h].ts + ClampTtl(d) * TicksPerSec,
                 ground |-> ground, req |-> tx[h].req]
           t == [tx[h] EXCEPT !.pc = "answered", !.said = "issued", !.cred = c, !.mint = m]
<1>3. MintOK(m)
  <2>1. tx[h].ts \in Nat /\ tx[h].req \in Requests
    BY <1>1 DEF Txs, InFlight
  <2> QED
    BY <2>1, ToldIsBounded DEF MintOK, Mints
<1>4. tx' = [tx EXCEPT ![h] = t]
  BY <1>1, <1>2 DEF Txs
<1> HIDE DEF m
<1>5. t \in Txs
  BY <1>1, <1>3 DEF Txs, MintOK
<1>5a. Stands(m) /\ m.at = tx[h].ts
  BY DEF Stands, m
<1>6. InFlight(t)
  <2>1. /\ t.ts = tx[h].ts /\ t.due = tx[h].due /\ t.swept = tx[h].swept
        /\ t.keys = tx[h].keys /\ t.pc = "answered" /\ t.said = "issued"
        /\ t.op = tx[h].op /\ t.cred = c /\ t.req = tx[h].req /\ t.mint = m
    BY <1>1 DEF Txs
  <2> HIDE DEF t
  <2> QED
    BY <1>1, <1>2, <1>3, <1>5a, <2>1 DEF InFlight
<1>7. t.cred = c /\ t.said = "issued"
  BY <1>1 DEF Txs
<1> HIDE DEF t
<1> QED
  BY <1>2, <1>4, <1>5, <1>6, <1>7, OneMoves

(* Every outcome of issue_credential.                                      *)
LEMMA IssueKeeps ==
  ASSUME IInv, NEW h \in Handlers, NEW p \in Policies, Issue(h, p)
  PROVE  IInv'
<1>1. /\ tx[h] \in Txs /\ InFlight(tx[h]) /\ tx[h].pc = "sweep" /\ tx[h].due = <<>>
      /\ tx[h].op = "issue" /\ UNCHANGED Stored
  BY DEF IInv, TypeOK, Issue, Swept
<1>2. tx[h].req \in Requests /\ tx[h].ts \in Nat
  BY <1>1 DEF InFlight, Txs
<1>3. /\ Key("denied", tx[h].req, tx[h].ts) \in Keys
      /\ Key("created", tx[h].req, tx[h].ts) \in Keys
  BY <1>2, KeyType
<1>4. CASE Mint(h, "policy")
  BY <1>1, <1>4, MintKeeps
<1>5. CASE ApprovalClears(approvals[tx[h].req]) /\ Mint(h, "approval")
  <2>1. approvals[tx[h].req] = "approved"
    BY <1>5 DEF ApprovalClears
  <2> QED
    BY <1>1, <1>5, <2>1, MintKeeps
<1>6. CASE AuditAnd(h, "denied", Key("denied", tx[h].req, tx[h].ts))
  BY <1>1, <1>3, <1>6, AuditAndKeeps
<1>7. CASE Answer(h, "pending", {})
  BY <1>1, <1>7, AnswerKeeps
<1>8. CASE /\ approvals[tx[h].req] = "none" /\ ~Locked(h, {tx[h].req})
           /\ AuditAnd(h, "opened", Key("created", tx[h].req, tx[h].ts))
  <2>1. ASSUME NEW g \in Handlers \ {h}, tx[g].said = "opened" PROVE tx[g].req # tx[h].req
    BY <1>8, <2>1 DEF Locked, Locks
  <2> QED
    BY <1>1, <1>2, <1>3, <1>8, <2>1, AuditAndKeeps
<1> QED
  BY <1>4, <1>5, <1>6, <1>7, <1>8 DEF Issue

LEMMA RevokeReadKeeps ==
  ASSUME IInv, NEW h \in Handlers, RevokeRead(h)
  PROVE  IInv'
<1> DEFINE row == creds[tx[h].cred]
           t == [tx[h] EXCEPT !.pc = "write"]
<1>1. tx[h] \in Txs /\ InFlight(tx[h]) /\ tx[h].pc = "revoke" /\ UNCHANGED Stored
  BY DEF IInv, TypeOK, RevokeRead
<1>2. CASE row # None /\ row.status = "active"
  <2>1. tx' = [tx EXCEPT ![h] = t]
    BY <1>2 DEF RevokeRead
  <2>2. t \in Txs
    BY <1>1 DEF Txs
  <2>3. InFlight(t) /\ t.said \notin {"issued", "opened"}
    <3>1. /\ t.ts = tx[h].ts /\ t.due = tx[h].due /\ t.swept = tx[h].swept
          /\ t.keys = tx[h].keys /\ t.pc = "write" /\ t.said = tx[h].said
          /\ t.op = tx[h].op /\ t.cred = tx[h].cred /\ t.req = tx[h].req /\ t.mint = tx[h].mint
      BY <1>1 DEF Txs
    <3> HIDE DEF t
    <3> QED
      BY <1>1, <1>2, <3>1 DEF InFlight
  <2> HIDE DEF t
  <2> QED
    BY <1>1, <2>1, <2>2, <2>3, OneMoves
<1>3. CASE ~(row # None /\ row.status = "active")
  BY <1>1, <1>3, EndKeeps DEF RevokeRead
<1> QED
  BY <1>2, <1>3

LEMMA RevokeWriteKeeps ==
  ASSUME IInv, NEW h \in Handlers, RevokeWrite(h)
  PROVE  IInv'
<1> DEFINE key == Key("revoked", tx[h].cred, tx[h].ts)
<1>1. tx[h] \in Txs /\ InFlight(tx[h]) /\ tx[h].pc = "write" /\ UNCHANGED Stored
  BY DEF IInv, TypeOK, RevokeWrite
<1>2. tx[h].cred \in Creds /\ creds[tx[h].cred] # None /\ tx[h].ts \in Nat /\ tx[h].swept = {}
  BY <1>1 DEF InFlight, Txs
<1>3. key \in Keys
  BY <1>2, KeyType
<1>4. AuditAnd(h, "revoked", key)
  BY DEF RevokeWrite
<1> HIDE DEF key
<1>5. key = Key("revoked", tx[h].cred, tx[h].ts)
  BY DEF key
<1> QED
  BY <1>1, <1>2, <1>3, <1>4, <1>5, AuditAndKeeps

-----------------------------------------------------------------------------
(* The commit. *)

(* No commit removes a credential or moves its expiry.                     *)
LEMMA CommitKeepsRows ==
  ASSUME IInv, NEW h \in Handlers, Commit(h)
  PROVE  /\ creds' \in [Creds -> Rows \cup {None}]
         /\ \A c \in Creds : creds[c] # None =>
              creds'[c] \in Rows /\ creds'[c].expires = creds[c].expires
         /\ \A c \in Creds : creds[c] = None =>
              IF tx[h].said = "issued" /\ c = tx[h].cred
                THEN creds'[c] = StoredRow(tx[h].mint) /\ creds'[c] \in Rows
                ELSE creds'[c] = None
<1>1. tx[h] \in Txs /\ InFlight(tx[h]) /\ creds \in [Creds -> Rows \cup {None}]
  BY DEF IInv, TypeOK
<1>2. \A c \in Creds : creds'[c] =
        CASE tx[h].said = "issued" /\ c = tx[h].cred -> StoredRow(tx[h].mint)
          [] c \in tx[h].swept -> [creds[c] EXCEPT !.status = "expired"]
          [] tx[h].said = "revoked" /\ c = tx[h].cred -> [creds[c] EXCEPT !.status = "revoked"]
          [] OTHER -> creds[c]
  BY DEF Commit
<1>3. DOMAIN creds' = Creds /\ creds' = [c \in Creds |-> creds'[c]]
  BY DEF Commit
<1>4. ASSUME tx[h].said = "issued" PROVE StoredRow(tx[h].mint) \in Rows
  BY <1>1, <1>4, FloorIsEarlier DEF InFlight, MintOK, Mints, StoredRow, Rows
<1>5. ASSUME NEW c \in Creds, creds[c] # None
      PROVE  creds'[c] \in Rows /\ creds'[c].expires = creds[c].expires
  <2>1. creds[c] \in Rows
    BY <1>1, <1>5
  <2>2. ~(tx[h].said = "issued" /\ c = tx[h].cred)
    BY <1>1, <1>5 DEF InFlight
  <2>3. \A st \in {"expired", "revoked"} :
           /\ [creds[c] EXCEPT !.status = st] \in Rows
           /\ [creds[c] EXCEPT !.status = st].expires = creds[c].expires
    BY <2>1 DEF Rows
  <2> QED
    BY <1>2, <2>1, <2>2, <2>3
<1>6. ASSUME NEW c \in Creds, creds[c] = None
      PROVE  IF tx[h].said = "issued" /\ c = tx[h].cred
               THEN creds'[c] = StoredRow(tx[h].mint) /\ creds'[c] \in Rows
               ELSE creds'[c] = None
  <2>1. c \notin tx[h].swept /\ ~(tx[h].said = "revoked" /\ c = tx[h].cred)
    BY <1>1, <1>6 DEF InFlight, RunOut
  <2> QED
    BY <1>2, <1>4, <1>6, <2>1
<1>7. \A c \in Creds : creds'[c] \in Rows \cup {None}
  BY <1>5, <1>6
<1> QED
  BY <1>3, <1>5, <1>6, <1>7

(* The status of a row after a commit.                                     *)
LEMMA CommitStatus ==
  ASSUME IInv, NEW h \in Handlers, Commit(h), NEW c \in Creds, creds[c] # None
  PROVE  IF c \in tx[h].swept THEN creds'[c].status = "expired"
         ELSE IF tx[h].said = "revoked" /\ c = tx[h].cred THEN creds'[c].status = "revoked"
         ELSE creds'[c] = creds[c]
<1>1. tx[h] \in Txs /\ InFlight(tx[h]) /\ creds[c] \in Rows
  BY DEF IInv, TypeOK
<1>2. ~(tx[h].said = "issued" /\ c = tx[h].cred)
  BY <1>1 DEF InFlight
<1>3. tx[h].said = "revoked" => c \notin tx[h].swept
  BY <1>1 DEF InFlight
<1>4. creds'[c] =
        CASE tx[h].said = "issued" /\ c = tx[h].cred -> StoredRow(tx[h].mint)
          [] c \in tx[h].swept -> [creds[c] EXCEPT !.status = "expired"]
          [] tx[h].said = "revoked" /\ c = tx[h].cred -> [creds[c] EXCEPT !.status = "revoked"]
          [] OTHER -> creds[c]
  BY DEF Commit
<1>5. /\ [creds[c] EXCEPT !.status = "expired"].status = "expired"
      /\ [creds[c] EXCEPT !.status = "revoked"].status = "revoked"
  BY <1>1 DEF Rows
<1>6. CASE c \in tx[h].swept
  <2>1. creds'[c] = [creds[c] EXCEPT !.status = "expired"]
    BY <1>2, <1>4, <1>6, <1>3
  <2> QED
    BY <1>5, <1>6, <2>1
<1>7. CASE c \notin tx[h].swept /\ tx[h].said = "revoked" /\ c = tx[h].cred
  BY <1>2, <1>4, <1>5, <1>7
<1>8. CASE c \notin tx[h].swept /\ ~(tx[h].said = "revoked" /\ c = tx[h].cred)
  BY <1>2, <1>4, <1>8
<1> QED
  BY <1>6, <1>7, <1>8

LEMMA CommitKeeps ==
  ASSUME IInv, NEW h \in Handlers, Commit(h)
  PROVE  IInv'
<1> DEFINE t == tx[h]
<1>1. t \in Txs /\ InFlight(t) /\ TypeOK
  BY DEF IInv, TypeOK
<1>2. tx' = [tx EXCEPT ![h] = Idle] /\ now' = now /\ withdrawn' = withdrawn
  BY DEF Commit, End
<1>3. /\ creds' \in [Creds -> Rows \cup {None}]
      /\ \A c \in Creds : creds[c] # None =>
           creds'[c] \in Rows /\ creds'[c].expires = creds[c].expires
      /\ \A c \in Creds : creds[c] = None =>
           IF t.said = "issued" /\ c = t.cred
             THEN creds'[c] = StoredRow(t.mint) /\ creds'[c] \in Rows
             ELSE creds'[c] = None
  BY CommitKeepsRows
<1>4. None \notin Rows /\ None \notin Mints
  BY NoneApart
<1>5. TypeOK'
  <2>1. tx' \in [Handlers -> Txs]
    BY <1>1, <1>2, IdleIsTx DEF TypeOK
  <2>2. approvals' \in [Requests -> {"none", "pending", "approved", "denied"}]
    BY <1>1 DEF TypeOK, Commit, InFlight
  <2>3. audit' \subseteq Keys /\ closed' \subseteq Creds
    BY <1>1 DEF TypeOK, Commit, InFlight, Txs
  <2>4. minted' \in [Creds -> Mints \cup {None}]
    BY <1>1 DEF TypeOK, Commit, InFlight, MintOK
  <2> QED
    BY <1>1, <1>2, <1>3, <2>1, <2>2, <2>3, <2>4 DEF TypeOK
<1>6. StoreFinite'
  <2>1. {c \in Creds : creds'[c] # None} \subseteq {c \in Creds : creds[c] # None} \cup {t.cred}
    BY <1>3
  <2>2. IsFiniteSet({c \in Creds : creds[c] # None} \cup {t.cred})
    BY FS_AddElement DEF IInv, StoreFinite
  <2> QED
    BY <2>1, <2>2, FS_Subset DEF StoreFinite
<1>7. RowsAsMinted'
  <2> SUFFICES ASSUME NEW c \in Creds
               PROVE  /\ creds'[c] = None <=> minted'[c] = None
                      /\ creds'[c] # None =>
                           MintOK(minted[c])' /\ creds'[c].expires = Floor(minted'[c].told)
    BY DEF RowsAsMinted
  <2>1. /\ creds[c] = None <=> minted[c] = None
        /\ creds[c] # None => MintOK(minted[c]) /\ creds[c].expires = Floor(minted[c].told)
    BY DEF IInv, RowsAsMinted
  <2>2. ASSUME t.said = "issued", c = t.cred
        PROVE  /\ minted'[c] = t.mint /\ MintOK(t.mint)
               /\ creds'[c] = StoredRow(t.mint) /\ creds'[c] \in Rows
    BY <1>1, <1>3, <2>2 DEF InFlight, Commit, TypeOK
  <2>3. ASSUME ~(t.said = "issued" /\ c = t.cred) PROVE minted'[c] = minted[c]
    BY <1>1, <2>3 DEF Commit, TypeOK
  <2>4. CASE t.said = "issued" /\ c = t.cred
    BY <1>2, <1>4, <2>2, <2>4 DEF MintOK, StoredRow
  <2>5. CASE ~(t.said = "issued" /\ c = t.cred)
    BY <1>2, <1>3, <1>4, <2>1, <2>3, <2>5 DEF MintOK
  <2> QED
    BY <2>4, <2>5
<1>8. \A r \in Requests : approvals[r] # "none" => approvals'[r] = approvals[r]
  BY <1>1 DEF InFlight, Commit, TypeOK
<1>9. ClosedAreOver'
  <2> SUFFICES ASSUME NEW c \in closed'
               PROVE  creds'[c] # None /\ creds'[c].status # "active"
    BY DEF ClosedAreOver
  <2>1. c \in closed \/ c \in t.swept \/ (t.said = "revoked" /\ c = t.cred)
    BY DEF Commit
  <2>2. c \in Creds /\ creds[c] # None
    BY <1>1, <2>1 DEF IInv, ClosedAreOver, InFlight, RunOut, Txs, TypeOK
  <2>3. IF c \in t.swept THEN creds'[c].status = "expired"
        ELSE IF t.said = "revoked" /\ c = t.cred THEN creds'[c].status = "revoked"
        ELSE creds'[c] = creds[c]
    BY <2>2, CommitStatus
  <2> QED
    BY <1>3, <1>4, <2>1, <2>2, <2>3 DEF IInv, ClosedAreOver
<1>10. StatusIsAudited'
  <2> SUFFICES ASSUME NEW c \in Creds, creds'[c] # None, creds'[c].status # "active"
               PROVE  \E k \in audit' : k[1] = creds'[c].status /\ k[2] = c
    BY DEF StatusIsAudited
  <2>1. audit' = audit \cup t.keys
    BY DEF Commit
  <2>2. creds[c] # None
    BY <1>3 DEF StoredRow
  <2>3. IF c \in t.swept THEN creds'[c].status = "expired"
        ELSE IF t.said = "revoked" /\ c = t.cred THEN creds'[c].status = "revoked"
        ELSE creds'[c] = creds[c]
    BY <2>2, CommitStatus
  <2>4. CASE c \in t.swept
    <3>1. Key("expired", c, t.ts) \in audit'
      BY <1>1, <2>1, <2>4 DEF InFlight
    <3> QED
      BY <2>3, <2>4, <3>1 DEF Key
  <2>5. CASE c \notin t.swept /\ t.said = "revoked" /\ c = t.cred
    BY <1>1, <2>1, <2>3, <2>5 DEF InFlight, Key
  <2>6. CASE c \notin t.swept /\ ~(t.said = "revoked" /\ c = t.cred)
    BY <2>1, <2>2, <2>3, <2>6 DEF IInv, StatusIsAudited
  <2> QED
    BY <2>4, <2>5, <2>6
<1>11. ASSUME NEW g \in Handlers PROVE InFlight(tx[g])'
  <2>1. CASE g = h
    <3>1. tx'[g] = Idle /\ now' \in 0..MaxTime
      BY <1>1, <1>2, <2>1 DEF TypeOK
    <3> QED
      BY <3>1 DEF InFlight, Idle
  <2>2. CASE g # h
    <3>1. tx'[g] = tx[g] /\ InFlight(tx[g]) /\ tx[g] \in Txs
      BY <1>1, <1>2, <2>2 DEF IInv, TypeOK
    <3>2. ASSUME NEW c \in Creds, NEW ts \in Nat, RunOut(c, ts) PROVE RunOut(c, ts)'
      BY <1>3, <1>4, <3>2 DEF RunOut, Overdue
    <3>3. ASSUME tx[g].said = "issued" PROVE creds'[tx[g].cred] = None
      BY <1>3, <2>2, <3>1, <3>3 DEF IInv, MintsApart, InFlight
    <3>4. \A i \in DOMAIN tx[g].due : RunOut(tx[g].due[i], tx[g].ts)'
      BY <1>1, <1>2, <2>2, <3>1, <3>2 DEF InFlight, Txs
    <3>5. \A c \in tx[g].swept : RunOut(c, tx[g].ts)'
      BY <1>1, <1>2, <2>2, <3>1, <3>2 DEF InFlight, Txs
    <3>6. ASSUME tx[g].said = "issued" PROVE Stands(tx[g].mint)'
      BY <1>2, <1>8, <3>1, <3>6 DEF InFlight, MintOK, Mints, Stands
    <3>7. ASSUME tx[g].said = "opened" PROVE approvals'[tx[g].req] = "none"
      BY <1>1, <2>2, <3>1, <3>7 DEF IInv, OpensApart, InFlight, Commit, TypeOK
    <3> QED
      BY <1>2, <1>3, <1>4, <3>1, <3>3, <3>4, <3>5, <3>6, <3>7 DEF InFlight, MintOK
  <2> QED
    BY <2>1, <2>2
<1>12. MintsApart' /\ OpensApart'
  <2>1. Idle.said \notin {"issued", "opened"}
    BY DEF Idle
  <2> QED
    BY <1>1, <1>2, <2>1 DEF IInv, MintsApart, OpensApart, TypeOK
<1> QED
  BY <1>5, <1>6, <1>7, <1>9, <1>10, <1>11, <1>12 DEF IInv

-----------------------------------------------------------------------------
(* The invariant holds of every reachable state. *)

LEMMA InitKeeps == Init => IInv
<1> SUFFICES ASSUME Init PROVE IInv
  OBVIOUS
<1>1. TypeOK
  BY IdleIsTx, ClockOK DEF Init, TypeOK
<1>2. StoreFinite
  <2>1. {c \in Creds : creds[c] # None} = {}
    BY DEF Init
  <2> QED
    BY <2>1, FS_EmptySet DEF StoreFinite
<1>3. RowsAsMinted /\ ClosedAreOver /\ StatusIsAudited
  BY DEF Init, RowsAsMinted, ClosedAreOver, StatusIsAudited
<1>4. \A h \in Handlers : InFlight(tx[h])
  BY <1>1, IdleInFlight DEF Init
<1>5. MintsApart /\ OpensApart
  BY DEF Init, MintsApart, OpensApart, Idle
<1> QED
  BY <1>1, <1>2, <1>3, <1>4, <1>5 DEF IInv

LEMMA TickKeeps ==
  ASSUME IInv, Tick
  PROVE  IInv'
<1>1. now \in 0..MaxTime /\ now' = now + 1 /\ now' \in 0..MaxTime
  BY ClockOK DEF IInv, TypeOK, Tick
<1>2. UNCHANGED <<creds, approvals, audit, tx, minted, closed, withdrawn>>
  BY DEF Tick
<1>3. TypeOK'
  BY <1>1, <1>2 DEF IInv, TypeOK
<1>4. /\ StoreFinite' /\ RowsAsMinted' /\ ClosedAreOver' /\ StatusIsAudited'
      /\ MintsApart' /\ OpensApart'
  BY <1>2 DEF IInv, StoreFinite, RowsAsMinted, ClosedAreOver, StatusIsAudited,
              MintOK, MintsApart, OpensApart
<1>5. ASSUME NEW h \in Handlers PROVE InFlight(tx[h])'
  <2>1. InFlight(tx[h]) /\ tx[h] \in Txs
    BY DEF IInv, TypeOK
  <2>2. tx[h].ts <= now'
    BY <1>1, <2>1 DEF InFlight, Txs
  <2> QED
    BY <1>2, <2>1, <2>2 DEF InFlight, RunOut, MintOK, Stands
<1> QED
  BY <1>3, <1>4, <1>5 DEF IInv

LEMMA CrashKeeps ==
  ASSUME IInv, Crash
  PROVE  IInv'
<1>1. tx' = [h \in Handlers |-> Idle] /\ UNCHANGED <<creds, approvals, audit, now, minted, closed, withdrawn>>
  BY DEF Crash, Stored
<1>2. TypeOK'
  BY <1>1, IdleIsTx DEF IInv, TypeOK
<1>3. /\ StoreFinite' /\ RowsAsMinted' /\ ClosedAreOver' /\ StatusIsAudited'
  BY <1>1 DEF IInv, StoreFinite, RowsAsMinted, ClosedAreOver, StatusIsAudited,
              MintOK
<1>4. ASSUME NEW h \in Handlers PROVE InFlight(tx[h])'
  BY <1>1 DEF IInv, TypeOK, InFlight, Idle
<1>5. MintsApart' /\ OpensApart'
  BY <1>1 DEF MintsApart, OpensApart, Idle
<1> QED
  BY <1>2, <1>3, <1>4, <1>5 DEF IInv

(* A withdrawal comes after every request that has read the approval.      *)
LEMMA ApprovalAnsweredKeeps ==
  ASSUME IInv, NEW r \in Requests, ApprovalAnswered(r)
  PROVE  IInv'
<1>1. UNCHANGED <<creds, audit, now, tx, minted, closed>>
  BY DEF ApprovalAnswered
<1>2. /\ approvals' \in [Requests -> {"none", "pending", "approved", "denied"}]
      /\ approvals[r] # "none"
      /\ \A q \in Requests \ {r} : approvals'[q] = approvals[q]
  BY DEF IInv, TypeOK, ApprovalAnswered
<1>3. /\ withdrawn' \in [Requests -> Nat \cup {None}]
      /\ approvals[r] = "approved" => withdrawn'[r] = now
      /\ approvals[r] # "approved" => withdrawn'[r] = withdrawn[r]
      /\ \A q \in Requests \ {r} : withdrawn'[q] = withdrawn[q]
  BY DEF IInv, TypeOK, ApprovalAnswered
<1>4. TypeOK'
  BY <1>1, <1>2, <1>3 DEF IInv, TypeOK
<1>5. StoreFinite' /\ RowsAsMinted' /\ ClosedAreOver' /\ StatusIsAudited' /\ MintsApart' /\ OpensApart'
  BY <1>1 DEF IInv, StoreFinite, RowsAsMinted, ClosedAreOver, StatusIsAudited, MintOK, MintsApart,
              OpensApart
<1>6. ASSUME NEW m \in Mints, m.at <= now, Stands(m) PROVE Stands(m)'
  <2>1. m.req \in Requests /\ now \in Nat
    BY DEF Mints, IInv, TypeOK
  <2>2. CASE m.req # r
    BY <1>2, <1>3, <1>6, <2>1, <2>2 DEF Stands
  <2>3. CASE m.req = r /\ approvals[r] = "approved"
    BY <1>3, <1>6, <2>1, <2>3, NoneApart DEF Stands
  <2>4. CASE m.req = r /\ approvals[r] # "approved"
    BY <1>3, <1>6, <2>4 DEF Stands
  <2> QED
    BY <2>2, <2>3, <2>4
<1>7. ASSUME NEW h \in Handlers PROVE InFlight(tx[h])'
  <2>1. InFlight(tx[h]) /\ tx[h] \in Txs
    BY DEF IInv, TypeOK
  <2>2. ASSUME tx[h].said = "issued" PROVE Stands(tx[h].mint)'
    <3>1. PICK m \in Mints : m = tx[h].mint
      BY <2>1, <2>2 DEF InFlight, MintOK
    <3>2. m.at <= now /\ Stands(m)
      BY <2>1, <2>2, <3>1 DEF InFlight
    <3>3. Stands(m)'
      BY <1>6, <3>2
    <3> QED
      BY <1>1, <3>1, <3>3 DEF Stands
  <2>3. tx[h].said = "opened" => approvals'[tx[h].req] = "none"
    BY <1>2, <2>1 DEF InFlight
  <2> QED
    BY <1>1, <2>1, <2>2, <2>3 DEF InFlight, RunOut, MintOK
<1> QED
  BY <1>4, <1>5, <1>7 DEF IInv

LEMMA NextKeeps == IInv /\ [Next]_vars => IInv'
<1> SUFFICES ASSUME IInv, [Next]_vars PROVE IInv'
  OBVIOUS
<1>1. CASE Tick
  BY <1>1, TickKeeps
<1>2. CASE Crash
  BY <1>2, CrashKeeps
<1>3. ASSUME NEW r \in Requests, ApprovalAnswered(r) PROVE IInv'
  BY <1>3, ApprovalAnsweredKeeps
<1>4. ASSUME NEW h \in Handlers, NEW r \in Requests, BeginIssue(h, r) PROVE IInv'
  BY <1>4, BeginIssueKeeps
<1>5. ASSUME NEW h \in Handlers, NEW c \in Creds, BeginVerify(h, c) \/ BeginRevoke(h, c) PROVE IInv'
  BY <1>5, BeginVerifyKeeps, BeginRevokeKeeps
<1>6. ASSUME NEW h \in Handlers, ListDue(h) PROVE IInv'
  BY <1>6, ListDueKeeps
<1>7. ASSUME NEW h \in Handlers, SweepOne(h) PROVE IInv'
  BY <1>7, SweepOneKeeps
<1>8. ASSUME NEW h \in Handlers, Verify(h) PROVE IInv'
  BY <1>8, VerifyKeeps
<1>9. ASSUME NEW h \in Handlers, NEW p \in Policies, Issue(h, p) PROVE IInv'
  BY <1>9, IssueKeeps
<1>10. ASSUME NEW h \in Handlers, RevokeRead(h) \/ RevokeWrite(h) PROVE IInv'
  BY <1>10, RevokeReadKeeps, RevokeWriteKeeps
<1>11. ASSUME NEW h \in Handlers, LockAbort(h) PROVE IInv'
  BY <1>11, EndKeeps DEF LockAbort
<1>12. ASSUME NEW h \in Handlers, Commit(h) PROVE IInv'
  BY <1>12, CommitKeeps
<1>13. CASE UNCHANGED vars
  BY <1>13 DEF vars, IInv, TypeOK, StoreFinite, RowsAsMinted, ClosedAreOver,
               StatusIsAudited, InFlight, RunOut, MintOK, Stands, MintsApart, OpensApart
<1> QED
  BY <1>1, <1>2, <1>3, <1>4, <1>5, <1>6, <1>7, <1>8, <1>9, <1>10, <1>11, <1>12, <1>13 DEF Next

-----------------------------------------------------------------------------
(* The theorems. *)

(* Every state of the broker is one of the shapes the code builds.         *)
THEOREM TypeCorrect == Spec => []TypeOK
<1>1. IInv => TypeOK
  BY DEF IInv
<1> QED
  BY <1>1, InitKeeps, NextKeeps, PTL DEF Spec

(* A credential minted on the ground of an approval is stored while the    *)
(* approval stands, or for a request that had come before it was withdrawn, *)
(* whoever answers between issue_credential's check and the commit.        *)
THEOREM MintsAreAlwaysCleared == Spec => MintsAreCleared
<1> DEFINE Step ==
      \A c \in Creds :
        LET m == minted'[c] IN minted[c] = None /\ m # None /\ m.ground = "approval" =>
          \/ approvals[m.req] = "approved"
          \/ withdrawn[m.req] # None /\ m.at <= withdrawn[m.req]
<1>1. ASSUME IInv, [Next]_vars PROVE [Step]_vars
  <2> SUFFICES ASSUME NEW c \in Creds, minted[c] = None, minted'[c] # None,
                      minted'[c].ground = "approval"
               PROVE  \/ approvals[minted'[c].req] = "approved"
                      \/ /\ withdrawn[minted'[c].req] # None
                         /\ minted'[c].at <= withdrawn[minted'[c].req]
    OBVIOUS
  <2>1. PICK h \in Handlers : Commit(h)
    BY <1>1 DEF Next, vars, Stored, Tick, Crash, ApprovalAnswered, BeginIssue, BeginVerify,
                BeginRevoke, ListDue, SweepOne, Verify, Issue, RevokeRead, RevokeWrite,
                LockAbort
  <2>2. InFlight(tx[h]) /\ tx[h].said = "issued" /\ minted'[c] = tx[h].mint
    BY <1>1, <2>1 DEF IInv, TypeOK, Commit
  <2> QED
    BY <2>2 DEF InFlight, Stands
<1> QED
  BY <1>1, InitKeeps, NextKeeps, PTL DEF Spec, MintsAreCleared

(* Every revoked or expired row has the audit row that says so, whichever  *)
(* requests clash, fail or crash on the way.                               *)
THEOREM StatusIsAlwaysAudited == Spec => []StatusIsAudited
<1>1. IInv => StatusIsAudited
  BY DEF IInv
<1> QED
  BY <1>1, InitKeeps, NextKeeps, PTL DEF Spec

(* The dashboard and the check of a token agree at every instant.          *)
THEOREM DashboardAlwaysAgrees == Spec => []DashboardAgrees
<1>1. TypeOK => DashboardAgrees
  <2> SUFFICES ASSUME TypeOK, NEW c \in Creds, creds[c] # None
               PROVE  Shown(creds[c], now) = "active" <=> Verdict(creds[c], now) = "valid"
    BY DEF DashboardAgrees
  <2>1. creds[c].status \in {"active", "revoked", "expired"}
    BY DEF TypeOK, Rows
  <2> QED
    BY <2>1 DEF Shown, Verdict
<1> QED
  BY <1>1, TypeCorrect, PTL

(* A check that succeeds has seen an active row that had not run out.      *)
LEMMA ValidMeansActive ==
  ASSUME IInv, NEW h \in Handlers, SaysValid(h)
  PROVE  /\ tx[h].cred \in Creds /\ creds[tx[h].cred] \in Rows
         /\ creds[tx[h].cred].status = "active"
         /\ tx[h].ts <= creds[tx[h].cred].expires
         /\ tx[h].ts \in Nat
<1> DEFINE c == tx[h].cred
           row == Seen(h, c)
<1>1. tx[h] \in Txs /\ InFlight(tx[h]) /\ tx[h].op = "verify"
  BY DEF IInv, TypeOK, SaysValid, Verify
<1>2. c \in Creds /\ tx[h].ts \in Nat
  BY <1>1 DEF InFlight, Txs
<1>3. row # None /\ Verdict(row, tx[h].ts) = "valid"
  BY <1>1 DEF SaysValid, Verify, Answer, Txs, IInv, TypeOK
<1>4. CASE c \in tx[h].swept
  <2>1. creds[c] \in Rows
    BY <1>1, <1>2, <1>4 DEF InFlight, RunOut, IInv, TypeOK
  <2>2. row = [creds[c] EXCEPT !.status = "expired"]
    BY <1>4 DEF Seen
  <2>3. row.status = "expired"
    BY <2>1, <2>2 DEF Rows
  <2> QED
    BY <1>3, <2>3 DEF Verdict
<1>5. CASE c \notin tx[h].swept
  <2>1. row = creds[c] /\ creds[c] \in Rows
    BY <1>2, <1>3, <1>5 DEF Seen, IInv, TypeOK
  <2>2. creds[c].status \in {"active", "revoked", "expired"} /\ creds[c].expires \in Nat
    BY <2>1 DEF Rows
  <2> QED
    BY <1>2, <1>3, <2>1, <2>2 DEF Verdict, Overdue
<1> QED
  BY <1>4, <1>5

(* Once a revocation or an expiry is committed, no check of the token      *)
(* succeeds any more; and a revocation mark is only ever replaced by the   *)
(* expiry of a credential that had run out.                                *)
THEOREM ClosedAlwaysStaysClosed == Spec => ClosedStaysClosed
<1> DEFINE Step ==
      /\ \A h \in Handlers : SaysValid(h) => tx[h].cred \notin closed
      /\ \A c \in Creds : creds[c] # None /\ creds[c].status = "revoked" /\ creds'[c] # creds[c] =>
           creds'[c].status = "expired" /\ Overdue(creds[c], now)
<1>1. ASSUME IInv, [Next]_vars PROVE [Step]_vars
  <2>1. ASSUME NEW h \in Handlers, SaysValid(h) PROVE tx[h].cred \notin closed
    BY <1>1, <2>1, ValidMeansActive DEF IInv, ClosedAreOver
  <2>2. ASSUME NEW c \in Creds, creds[c] # None, creds[c].status = "revoked", creds'[c] # creds[c]
        PROVE  creds'[c].status = "expired" /\ Overdue(creds[c], now)
    <3>1. PICK h \in Handlers : Commit(h)
      BY <1>1, <2>2 DEF Next, vars, Stored, Tick, Crash, ApprovalAnswered, BeginIssue, BeginVerify,
                        BeginRevoke, ListDue, SweepOne, Verify, Issue, RevokeRead, RevokeWrite,
                        LockAbort
    <3>2. tx[h] \in Txs /\ InFlight(tx[h]) /\ creds[c] \in Rows /\ now \in Nat
      BY <1>1, <2>2 DEF IInv, TypeOK
    <3>3. IF c \in tx[h].swept THEN creds'[c].status = "expired"
          ELSE IF tx[h].said = "revoked" /\ c = tx[h].cred THEN creds'[c].status = "revoked"
          ELSE creds'[c] = creds[c]
      BY <1>1, <2>2, <3>1, CommitStatus
    <3>4. CASE c \in tx[h].swept
      <4>1. creds[c].expires \in Nat /\ tx[h].ts \in Nat
        BY <3>2 DEF Rows, Txs
      <4>2. creds[c].expires < tx[h].ts /\ tx[h].ts <= now
        BY <3>2, <3>4 DEF InFlight, RunOut, Overdue
      <4> QED
        BY <3>2, <3>3, <3>4, <4>1, <4>2 DEF Overdue
    <3>5. CASE c \notin tx[h].swept /\ tx[h].said = "revoked" /\ c = tx[h].cred
      <4>1. creds'[c] = [creds[c] EXCEPT !.status = "revoked"]
        BY <2>2, <3>1, <3>2, <3>5 DEF Commit
      <4>2. creds'[c] = creds[c]
        BY <2>2, <3>2, <4>1 DEF Rows
      <4> QED
        BY <2>2, <4>2
    <3>6. CASE c \notin tx[h].swept /\ ~(tx[h].said = "revoked" /\ c = tx[h].cred)
      BY <2>2, <3>3, <3>6
    <3> QED
      BY <3>4, <3>5, <3>6
  <2> QED
    BY <2>1, <2>2
<1> QED
  BY <1>1, InitKeeps, NextKeeps, PTL DEF Spec, ClosedStaysClosed

(* No token is accepted past the expiry its holder was told, nor longer    *)
(* than the maximum after it was issued: what is lost when the expiry is   *)
(* stored to the second only ever shortens a credential.                   *)
THEOREM NeverEverOutlives == Spec => NeverOutlives
<1> DEFINE Step ==
      \A h \in Handlers : SaysValid(h) =>
        LET m == minted[tx[h].cred]
        IN  tx[h].ts <= m.told /\ tx[h].ts <= m.at + MaxDuration * TicksPerSec
<1>1. ASSUME IInv, [Next]_vars PROVE [Step]_vars
  <2> SUFFICES ASSUME NEW h \in Handlers, SaysValid(h)
               PROVE  /\ tx[h].ts <= minted[tx[h].cred].told
                      /\ tx[h].ts <= minted[tx[h].cred].at + MaxDuration * TicksPerSec
    OBVIOUS
  <2> DEFINE c == tx[h].cred
             m == minted[c]
  <2>1. /\ c \in Creds /\ creds[c] \in Rows /\ tx[h].ts <= creds[c].expires /\ tx[h].ts \in Nat
    BY <1>1, ValidMeansActive
  <2>2. MintOK(m) /\ creds[c].expires = Floor(m.told)
    BY <1>1, <2>1, NoneApart DEF IInv, RowsAsMinted
  <2>3. m.told \in Nat /\ m.at \in Nat /\ m.told <= m.at + MaxDuration * TicksPerSec
    BY <2>2 DEF MintOK, Mints
  <2>4. Floor(m.told) \in Nat /\ Floor(m.told) <= m.told
    BY <2>3, FloorIsEarlier
  <2>5. MaxDuration * TicksPerSec \in Nat
    BY TtlsPositive, ClockOK
  <2> HIDE DEF m, c
  <2>6. tx[h].ts <= m.told /\ tx[h].ts <= m.at + MaxDuration * TicksPerSec
    BY <2>1, <2>2, <2>3, <2>4, <2>5
  <2> QED
    BY <2>6 DEF m, c
<1> QED
  BY <1>1, InitKeeps, NextKeeps, PTL DEF Spec, NeverOutlives

=============================================================================
