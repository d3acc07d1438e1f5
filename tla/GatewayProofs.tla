---------------------------- MODULE GatewayProofs ----------------------------
(***************************************************************************)
(* Theorems about ApprovalTable and about Gateway, which runs on top of    *)
(* it, for every set of approvers, handlers, approvals, request ids and    *)
(* requirements and every bound.  The first part is about the approvals    *)
(* alone, the second about the gateway.                                    *)
(***************************************************************************)
EXTENDS Gateway, TLAPS

-----------------------------------------------------------------------------
(* The row operators stay within Rows. *)

(* NewRow, what create_approval_request_db stores, is a row.               *)
LEMMA NewRowType ==
  ASSUME NEW need \in Requirements, NEW e \in Int \cup {NoExpiry}
  PROVE  NewRow(need, e) \in Rows
BY DEF NewRow, Rows, Requirements, Statuses

(* SignedOff, what approve_request_db stores, is a row.                    *)
LEMMA SignedOffType ==
  ASSUME NEW row \in Rows, NEW a \in Approvers, NEW ts \in Int
  PROVE  SignedOff(row, a, ts) \in Rows
BY DEF SignedOff, Rows, Statuses

(* Denied and Expired, what deny_request_db and expire_request_db store,   *)
(* are rows.                                                               *)
LEMMA ClosedType ==
  ASSUME NEW row \in Rows
  PROVE  Denied(row) \in Rows /\ Expired(row) \in Rows
BY DEF Denied, Expired, Rows, Statuses

-----------------------------------------------------------------------------
(* Type correctness. *)

(* A busy handler holds a Txs record, an idle one holds none.              *)
LEMMA BusyTx ==
  ASSUME TypeOK, NEW h \in Handlers, tx[h].pc # "idle"
  PROVE  tx[h] \in Txs
BY DEF TypeOK, Idle

(* Decide on a busy handler stores a well-typed transaction.               *)
LEMMA DecideType ==
  ASSUME TypeOK, NEW h \in Handlers, tx[h] \in Txs,
         NEW pc \in {"begun", "restale", "writing", "ready", "answered"},
         NEW cur \in Rows \cup {NoRow}, NEW new \in Rows \cup {NoRow},
         Decide(h, pc, cur, new)
  PROVE  tx' \in [Handlers -> Txs \cup {Idle}]
<1>1. [tx[h] EXCEPT !.pc = pc, !.cur = cur, !.new = new] \in Txs
  BY DEF Txs
<1>2. QED
  BY <1>1 DEF TypeOK, Decide

(* Ending a request stores the idle record.                                *)
LEMMA EndType ==
  ASSUME TypeOK, NEW h \in Handlers, End(h)
  PROVE  tx' \in [Handlers -> Txs \cup {Idle}]
BY DEF TypeOK, End

(* No step of the table leaves the types: the induction step of the type   *)
(* theorem.                                                                *)
LEMMA TypeStep == TypeOK /\ [Next]_vars => TypeOK'
<1> SUFFICES ASSUME TypeOK, [Next]_vars PROVE TypeOK'
  OBVIOUS
<1> USE DEF Gateway, Ops
<1>1. CASE Tick
  BY <1>1, MaxTimeIsNat DEF Tick, TypeOK
<1>2. CASE Crash
  BY <1>2 DEF Crash, TypeOK
<1>3. ASSUME NEW h \in Handlers, Arrive(h) PROVE TypeOK'
  <2>1. PICK op \in Ops, id \in Ids, who \in Approvers : Begin(h, op, id, who)
    BY <1>3 DEF Arrive
  <2>2. [pc |-> "begun", op |-> op, id |-> id, who |-> who, ts |-> now,
         cur |-> NoRow, new |-> NoRow] \in Txs
    BY MaxTimeIsNat DEF Txs, TypeOK
  <2>3. QED
    BY <2>1, <2>2 DEF Begin, TypeOK
<1>4. ASSUME NEW h \in Handlers, ReadApprove(h) PROVE TypeOK'
  <2>1. tx[h] \in Txs
    BY <1>4, BusyTx DEF ReadApprove
  <2>2. table[tx[h].id] \in Rows \cup {NoRow} /\ tx[h].who \in Approvers /\ tx[h].ts \in Int
    BY <2>1 DEF Txs, TypeOK
  <2>3. tx' \in [Handlers -> Txs \cup {Idle}]
    BY <1>4, <2>1, <2>2, EndType, DecideType, SignedOffType DEF ReadApprove
  <2>4. QED
    BY <1>4, <2>3 DEF ReadApprove, TypeOK
<1>5. ASSUME NEW h \in Handlers, ReadDeny(h) PROVE TypeOK'
  <2>1. tx[h] \in Txs
    BY <1>5, BusyTx DEF ReadDeny
  <2>2. table[tx[h].id] \in Rows \cup {NoRow}
    BY <2>1 DEF Txs, TypeOK
  <2>3. tx' \in [Handlers -> Txs \cup {Idle}]
    BY <1>5, <2>1, <2>2, EndType, DecideType, ClosedType DEF ReadDeny
  <2>4. QED
    BY <1>5, <2>3 DEF ReadDeny, TypeOK
<1>6. ASSUME NEW h \in Handlers, ReadGateway(h) PROVE TypeOK'
  <2>1. tx[h] \in Txs
    BY <1>6, BusyTx DEF ReadGateway
  <2>2. table[tx[h].id] \in Rows \cup {NoRow}
    BY <2>1 DEF Txs, TypeOK
  <2>3. \A need \in Needs, e \in {NoExpiry} \cup (IF tx[h].op = "execute" THEN Expiries ELSE {}) :
          NewRow(need, e) \in Rows
    BY NewRowType, NeedsAreRequirements, ExpiriesAreTimes
  <2>4. tx' \in [Handlers -> Txs \cup {Idle}]
    BY <1>6, <2>1, <2>2, <2>3, DecideType DEF ReadGateway
  <2>5. QED
    BY <1>6, <2>4 DEF ReadGateway, TypeOK
<1>7. ASSUME NEW h \in Handlers, ReadExpire(h) PROVE TypeOK'
  <2>1. tx[h] \in Txs
    BY <1>7, BusyTx DEF ReadExpire
  <2>2. table[tx[h].id] \in Rows \cup {NoRow}
    BY <2>1 DEF Txs, TypeOK
  <2>3. tx' \in [Handlers -> Txs \cup {Idle}]
    BY <1>7, <2>1, <2>2, EndType, DecideType, ClosedType DEF ReadExpire
  <2>4. QED
    BY <1>7, <2>3 DEF ReadExpire, TypeOK
<1>8. ASSUME NEW h \in Handlers, WriteRow(h) PROVE TypeOK'
  <2>1. tx[h] \in Txs
    BY <1>8, BusyTx DEF WriteRow
  <2>2. [tx[h] EXCEPT !.pc = "ready"] \in Txs
    BY <2>1 DEF Txs
  <2>3. QED
    BY <1>8, <2>2 DEF WriteRow, TypeOK
<1>14. ASSUME NEW h \in Handlers, ReadSettled(h) PROVE TypeOK'
  <2>1. tx[h] \in Txs
    BY <1>14, BusyTx DEF ReadSettled
  <2>2. tx' \in [Handlers -> Txs \cup {Idle}]
    BY <1>14, <2>1, DecideType DEF ReadSettled
  <2>3. QED
    BY <1>14, <2>2 DEF ReadSettled, TypeOK
<1>9. ASSUME NEW h \in Handlers, WriteConflict(h) \/ AuditClash(h) PROVE TypeOK'
  BY <1>9, EndType DEF WriteConflict, AuditClash, TypeOK
<1>10. ASSUME NEW h \in Handlers, Answer(h) PROVE TypeOK'
  <2>1. tx[h] \in Txs
    BY <1>10, BusyTx DEF Answer
  <2>2. [tx[h] EXCEPT !.pc = "answered"] \in Txs /\ tx[h].id \in Ids
    BY <2>1 DEF Txs
  <2>3. QED
    BY <1>10, <2>2 DEF Answer, TypeOK
<1>11. ASSUME NEW h \in Handlers, Commit(h) PROVE TypeOK'
  <2>1. tx[h] \in Txs
    BY <1>11, BusyTx DEF Commit
  <2>2. tx[h].new \in Rows \cup {NoRow} /\ tx[h].id \in Ids /\ tx[h].who \in Approvers
    BY <2>1 DEF Txs
  <2>3. tx' \in [Handlers -> Txs \cup {Idle}]
    BY <1>11, EndType DEF Commit
  <2>4. QED
    BY <1>11, <2>2, <2>3 DEF Commit, TypeOK
<1>12. CASE UNCHANGED vars
  BY <1>12 DEF vars, TypeOK
<1>13. QED
  BY <1>1, <1>2, <1>3, <1>4, <1>5, <1>6, <1>7, <1>8, <1>9, <1>10, <1>11, <1>12,
     <1>14 DEF Next, Progress

(* Whatever the requests and their interleaving, the table, the clock, the *)
(* transactions and the ghosts keep their types.                           *)
THEOREM TypeCorrect == Spec => []TypeOK
<1>1. Init => TypeOK
  BY MaxTimeIsNat DEF Init, TypeOK
<1>2. QED
  BY <1>1, TypeStep, PTL DEF Spec

-----------------------------------------------------------------------------
(***************************************************************************)
(* Safety under every interleaving.  QuorumBacked alone is not inductive:  *)
(* a commit stores what the transaction decided earlier.  The invariant    *)
(* adds that every row a handler has read was sound, and that every        *)
(* decided row follows by the rules from the row that was read.            *)
(***************************************************************************)

RowSound(row) ==
  /\ row.status = "approved" => Satisfied(row)
  /\ row.named # {} => row.by \subseteq row.named

HasDecided(t) == t.pc \in {"writing", "ready", "answered"}

DecisionOK(t) ==
  /\ t.pc = "idle" \/ ~HasDecided(t) => t.new = NoRow
  /\ t.pc = "restale" => t.op \in Gateway
  /\ HasDecided(t) /\ t.op = "approve" =>
       t.cur # NoRow /\ MaySignOff(t.cur, t.who, t.ts) /\ t.new = SignedOff(t.cur, t.who, t.ts)
  /\ HasDecided(t) /\ t.op = "deny" =>
       t.cur # NoRow /\ MayDeny(t.cur) /\ t.new = Denied(t.cur)
  /\ HasDecided(t) /\ t.op \in Gateway /\ t.new # NoRow =>
       \/ /\ Vacant(t.cur, t.ts)
          /\ \E need \in Needs, e \in Int \cup {NoExpiry} : t.new = NewRow(need, e)
       \/ t.cur # NoRow /\ MayExpire(t.cur, t.ts) /\ t.new = Expired(t.cur)

TableSound == \A id \in Ids : table[id] # NoRow => RowSound(table[id])
ReadsSound == \A h \in Handlers : tx[h].cur # NoRow => RowSound(tx[h].cur)
DecisionsOK == \A h \in Handlers : DecisionOK(tx[h])
StampsPast == \A h \in Handlers : tx[h].pc # "idle" => tx[h].ts <= now

IInv == TypeOK /\ TableSound /\ ReadsSound /\ DecisionsOK /\ StampsPast

(* What a transaction decided from a sound row is sound, and it decided on *)
(* a row that was not yet closed.                                          *)
LEMMA DecidedRows ==
  ASSUME NEW t \in Txs, HasDecided(t), DecisionOK(t), t.new # NoRow,
         t.cur # NoRow => RowSound(t.cur)
  PROVE  RowSound(t.new) /\ ~Terminal(t.cur)
<1>0. t.op \in Ops /\ t.cur \in Rows \cup {NoRow} /\ t.who \in Approvers
  BY DEF Txs
<1>1. CASE t.op = "approve"
  <2>1. /\ t.cur \in Rows /\ MaySignOff(t.cur, t.who, t.ts)
        /\ t.new = SignedOff(t.cur, t.who, t.ts) /\ RowSound(t.cur)
    BY <1>0, <1>1 DEF DecisionOK
  <2> DEFINE next == [t.cur EXCEPT !.by = @ \cup {t.who}]
  <2>2. /\ next.status = "pending" /\ next.named = t.cur.named
        /\ next.by = t.cur.by \cup {t.who}
    BY <2>1 DEF MaySignOff, Rows
  <2>3. next.named # {} => next.by \subseteq next.named
    BY <2>1, <2>2 DEF MaySignOff, RowSound
  <2>4. CASE IsFullyApproved(next, t.ts)
    <3>1. Satisfied(next)
      BY <2>2, <2>4 DEF IsFullyApproved
    <3>2. t.new = [next EXCEPT !.status = "approved"]
      BY <2>1, <2>4 DEF SignedOff
    <3>3. t.new.named = next.named /\ t.new.by = next.by /\ t.new.min = next.min
      BY <2>1, <3>2 DEF Rows
    <3>4. QED
      BY <2>1, <2>3, <3>1, <3>3 DEF RowSound, Satisfied, Terminal, MaySignOff
  <2>5. CASE ~IsFullyApproved(next, t.ts)
    <3>1. t.new = next
      BY <2>1, <2>5 DEF SignedOff
    <3>2. QED
      BY <2>1, <2>2, <2>3, <3>1 DEF RowSound, Terminal, MaySignOff
  <2>6. QED
    BY <2>4, <2>5
<1>2. CASE t.op = "deny"
  BY <1>0, <1>2 DEF DecisionOK, MayDeny, Denied, Rows, RowSound, Terminal
<1>3. CASE t.op \in Gateway
  <2>1. CASE Vacant(t.cur, t.ts) /\ \E need \in Needs, e \in Int \cup {NoExpiry} :
                                      t.new = NewRow(need, e)
    BY <2>1 DEF Vacant, NewRow, RowSound, Terminal
  <2>2. CASE t.cur # NoRow /\ MayExpire(t.cur, t.ts) /\ t.new = Expired(t.cur)
    BY <1>0, <2>2 DEF MayExpire, Expired, Rows, RowSound, Terminal
  <2>3. QED
    BY <1>3, <2>1, <2>2 DEF DecisionOK
<1>4. QED
  BY <1>0, <1>1, <1>2, <1>3 DEF Ops

(* A handler that decides keeps the invariants if its own new record does. *)
LEMMA TxFrame ==
  ASSUME IInv, TypeOK', UNCHANGED table, now' = now,
         NEW h \in Handlers, NEW t, tx' = [tx EXCEPT ![h] = t],
         DecisionOK(t), t.cur # NoRow => RowSound(t.cur),
         t.pc # "idle" => t.ts <= now
  PROVE  IInv'
<1>1. tx'[h] = t /\ \A g \in Handlers \ {h} : tx'[g] = tx[g]
  BY DEF IInv, TypeOK
<1>2. DecisionsOK'
  <2> SUFFICES ASSUME NEW g \in Handlers PROVE DecisionOK(tx'[g])
    BY DEF DecisionsOK
  <2> QED
    BY <1>1 DEF IInv, DecisionsOK
<1>3. ReadsSound'
  <2> SUFFICES ASSUME NEW g \in Handlers, tx'[g].cur # NoRow PROVE RowSound(tx'[g].cur)
    BY DEF ReadsSound
  <2> QED
    BY <1>1 DEF IInv, ReadsSound
<1>4. StampsPast'
  BY <1>1 DEF IInv, StampsPast
<1>5. QED
  BY <1>2, <1>3, <1>4 DEF IInv, TableSound

(* Idle satisfies the conditions on a transaction record.                  *)
LEMMA IdleOK == DecisionOK(Idle) /\ Idle.cur = NoRow /\ Idle.pc = "idle"
BY DEF DecisionOK, Idle, HasDecided

(* The readers decide by the rules, on a sound row.                   *)
LEMMA ReadersKeep ==
  ASSUME IInv, TypeOK', NEW h \in Handlers,
         ReadApprove(h) \/ ReadDeny(h) \/ ReadGateway(h) \/ ReadSettled(h) \/ ReadExpire(h)
  PROVE  IInv'
<1> DEFINE row == table[tx[h].id]
           rec(pc, cur, new) == [tx[h] EXCEPT !.pc = pc, !.cur = cur, !.new = new]
<1>1. /\ tx[h] \in Txs /\ tx[h].id \in Ids /\ tx[h].ts \in Int
      /\ row \in Rows \cup {NoRow} /\ (row # NoRow => RowSound(row))
      /\ tx[h].ts <= now /\ tx[h].pc # "idle" /\ ~HasDecided(tx[h])
      /\ UNCHANGED table /\ now' = now
  <2>1. tx[h] \in Txs /\ tx[h].pc \in {"begun", "restale"}
    BY BusyTx DEF IInv, ReadApprove, ReadDeny, ReadGateway, ReadSettled, ReadExpire
  <2>2. tx[h].id \in Ids /\ tx[h].ts \in Int
    BY <2>1 DEF Txs
  <2>3. tx[h].ts <= now
    BY <2>1 DEF IInv, StampsPast
  <2>4. QED
    BY <2>1, <2>2, <2>3
    DEF IInv, TypeOK, TableSound, HasDecided, ReadApprove, ReadDeny, ReadGateway,
        ReadSettled, ReadExpire
<1>2. ASSUME NEW pc, NEW cur, NEW new
      PROVE  /\ rec(pc, cur, new).pc = pc /\ rec(pc, cur, new).cur = cur
             /\ rec(pc, cur, new).new = new /\ rec(pc, cur, new).op = tx[h].op
             /\ rec(pc, cur, new).who = tx[h].who /\ rec(pc, cur, new).ts = tx[h].ts
  BY <1>1 DEF Txs
<1>3. ASSUME NEW pc, NEW cur, NEW new, tx' = [tx EXCEPT ![h] = rec(pc, cur, new)],
             DecisionOK(rec(pc, cur, new)), cur # NoRow => RowSound(cur)
      PROVE  IInv'
  <2>2. rec(pc, cur, new).cur # NoRow => RowSound(rec(pc, cur, new).cur)
    BY <1>2, <1>3
  <2>3. rec(pc, cur, new).ts <= now
    BY <1>1, <1>2
  <2> HIDE DEF rec
  <2>4. QED
    BY <1>1, <1>3, <2>2, <2>3, TxFrame
<1>4. ASSUME End(h) PROVE IInv'
  BY <1>1, <1>4, IdleOK, TxFrame DEF End
<1>5. CASE ReadApprove(h)
  <2>1. CASE row # NoRow /\ MaySignOff(row, tx[h].who, tx[h].ts)
    <3> DEFINE new == SignedOff(row, tx[h].who, tx[h].ts)
    <3>1. tx' = [tx EXCEPT ![h] = rec("writing", row, new)] /\ tx[h].op = "approve"
      BY <1>5, <2>1 DEF ReadApprove, Decide
    <3>2. DecisionOK(rec("writing", row, new))
      <4> HIDE DEF rec, row, new
      <4>1. /\ rec("writing", row, new).pc = "writing"
            /\ rec("writing", row, new).op = "approve"
            /\ rec("writing", row, new).cur = row
            /\ rec("writing", row, new).new = new
            /\ rec("writing", row, new).who = tx[h].who
            /\ rec("writing", row, new).ts = tx[h].ts
        BY <1>2, <3>1
      <4>2. QED
        BY <2>1, <4>1 DEF DecisionOK, HasDecided, Gateway, new
    <3> HIDE DEF rec, row
    <3>3. QED
      BY <1>1, <1>3, <3>1, <3>2
  <2>2. CASE ~(row # NoRow /\ MaySignOff(row, tx[h].who, tx[h].ts))
    BY <1>4, <1>5, <2>2 DEF ReadApprove
  <2>3. QED
    BY <2>1, <2>2
<1>6. CASE ReadDeny(h)
  <2>1. CASE row # NoRow /\ MayDeny(row)
    <3>0. tx[h].op = "deny"
      BY <1>6 DEF ReadDeny
    <3>1. tx' = [tx EXCEPT ![h] = rec("writing", row, Denied(row))]
      BY <1>6, <2>1 DEF ReadDeny, Decide
    <3>2. DecisionOK(rec("writing", row, Denied(row)))
      <4> HIDE DEF rec, row
      <4>1. /\ rec("writing", row, Denied(row)).pc = "writing"
            /\ rec("writing", row, Denied(row)).op = "deny"
            /\ rec("writing", row, Denied(row)).cur = row
            /\ rec("writing", row, Denied(row)).new = Denied(row)
        BY <1>2, <3>0
      <4>2. QED
        BY <2>1, <4>1 DEF DecisionOK, HasDecided, Gateway
    <3> HIDE DEF rec, row
    <3>3. QED
      BY <1>1, <1>3, <3>1, <3>2
  <2>2. CASE ~(row # NoRow /\ MayDeny(row))
    BY <1>4, <1>6, <2>2 DEF ReadDeny
  <2>3. QED
    BY <2>1, <2>2
<1>7. CASE ReadGateway(h)
  <2>0. tx[h].op \in Gateway
    BY <1>7 DEF ReadGateway
  <2>1. ASSUME Vacant(row, tx[h].ts), NEW need \in Needs, NEW e \in Int \cup {NoExpiry},
               tx' = [tx EXCEPT ![h] = rec("writing", row, NewRow(need, e))]
        PROVE  IInv'
    <3>1. DecisionOK(rec("writing", row, NewRow(need, e)))
      <4> HIDE DEF rec, row
      <4>1. /\ rec("writing", row, NewRow(need, e)).pc = "writing"
            /\ rec("writing", row, NewRow(need, e)).op \in Gateway
            /\ rec("writing", row, NewRow(need, e)).cur = row
            /\ rec("writing", row, NewRow(need, e)).new = NewRow(need, e)
            /\ rec("writing", row, NewRow(need, e)).ts = tx[h].ts
        BY <1>2, <2>0
      <4>2. QED
        BY <2>1, <4>1 DEF DecisionOK, HasDecided, Gateway
    <3> HIDE DEF rec, row
    <3>2. QED
      BY <1>1, <1>3, <2>1, <3>1
  <2>2. ASSUME tx' = [tx EXCEPT ![h] = rec("restale", row, NoRow)] PROVE IInv'
    <3>1. DecisionOK(rec("restale", row, NoRow))
      <4> HIDE DEF rec, row
      <4>1. /\ rec("restale", row, NoRow).pc = "restale"
            /\ rec("restale", row, NoRow).op \in Gateway
            /\ rec("restale", row, NoRow).new = NoRow
        BY <1>2, <2>0
      <4>2. QED
        BY <4>1 DEF DecisionOK, HasDecided
    <3> HIDE DEF rec, row
    <3>2. QED
      BY <1>1, <1>3, <2>2, <3>1
  <2>3. ASSUME tx' = [tx EXCEPT ![h] = rec("ready", row, NoRow)] PROVE IInv'
    <3>1. DecisionOK(rec("ready", row, NoRow))
      <4> HIDE DEF rec, row
      <4>1. /\ rec("ready", row, NoRow).pc = "ready"
            /\ rec("ready", row, NoRow).op \in Gateway
            /\ rec("ready", row, NoRow).new = NoRow
        BY <1>2, <2>0
      <4>2. QED
        BY <4>1 DEF DecisionOK, HasDecided, Gateway
    <3> HIDE DEF rec, row
    <3>2. QED
      BY <1>1, <1>3, <2>3, <3>1
  <2>4. CASE Vacant(row, tx[h].ts) /\
             \E need \in Needs,
                e \in {NoExpiry} \cup (IF tx[h].op = "execute" THEN Expiries ELSE {}) :
               Decide(h, "writing", row, NewRow(need, e))
    <3>1. PICK need \in Needs,
               e \in {NoExpiry} \cup (IF tx[h].op = "execute" THEN Expiries ELSE {}) :
                 Decide(h, "writing", row, NewRow(need, e))
      BY <2>4
    <3>2. e \in Int \cup {NoExpiry}
      BY ExpiriesAreTimes
    <3>3. tx' = [tx EXCEPT ![h] = rec("writing", row, NewRow(need, e))]
      BY <3>1 DEF Decide
    <3> HIDE DEF rec, row
    <3>4. QED
      BY <2>1, <2>4, <3>2, <3>3
  <2>5. CASE Decide(h, "restale", row, NoRow)
    <3>1. tx' = [tx EXCEPT ![h] = rec("restale", row, NoRow)]
      BY <2>5 DEF Decide
    <3> HIDE DEF rec, row
    <3>2. QED
      BY <2>2, <3>1
  <2>6. CASE Decide(h, "ready", row, NoRow)
    <3>1. tx' = [tx EXCEPT ![h] = rec("ready", row, NoRow)]
      BY <2>6 DEF Decide
    <3> HIDE DEF rec, row
    <3>2. QED
      BY <2>3, <3>1
  <2>7. QED
    BY <1>7, <2>4, <2>5, <2>6 DEF ReadGateway
<1>10. CASE ReadSettled(h)
  <2>1. tx' = [tx EXCEPT ![h] = rec("ready", NoRow, NoRow)] /\ tx[h].op \in Gateway
    BY <1>10 DEF ReadSettled, Decide
  <2>2. DecisionOK(rec("ready", NoRow, NoRow))
    <3> HIDE DEF rec
    <3>1. /\ rec("ready", NoRow, NoRow).pc = "ready"
          /\ rec("ready", NoRow, NoRow).op \in Gateway
          /\ rec("ready", NoRow, NoRow).new = NoRow
      BY <1>2, <2>1
    <3>2. QED
      BY <3>1 DEF DecisionOK, HasDecided, Gateway
  <2> HIDE DEF rec
  <2>3. QED
    BY <1>3, <2>1, <2>2
<1>8. CASE ReadExpire(h)
  <2>0. tx[h].op \in Gateway
    BY <1>8 DEF ReadExpire, IInv, DecisionsOK, DecisionOK
  <2>1. CASE row # NoRow /\ MayExpire(row, tx[h].ts)
    <3>1. tx' = [tx EXCEPT ![h] = rec("writing", row, Expired(row))]
      BY <1>8, <2>1 DEF ReadExpire, Decide
    <3>2. DecisionOK(rec("writing", row, Expired(row)))
      <4> HIDE DEF rec, row
      <4>1. /\ rec("writing", row, Expired(row)).pc = "writing"
            /\ rec("writing", row, Expired(row)).op \in Gateway
            /\ rec("writing", row, Expired(row)).cur = row
            /\ rec("writing", row, Expired(row)).new = Expired(row)
            /\ rec("writing", row, Expired(row)).ts = tx[h].ts
        BY <1>2, <2>0
      <4>2. QED
        BY <2>1, <4>1 DEF DecisionOK, HasDecided, Gateway
    <3> HIDE DEF rec, row
    <3>3. QED
      BY <1>1, <1>3, <3>1, <3>2
  <2>2. CASE ~(row # NoRow /\ MayExpire(row, tx[h].ts))
    BY <1>4, <1>8, <2>2 DEF ReadExpire
  <2>3. QED
    BY <2>1, <2>2
<1>9. QED
  BY <1>5, <1>6, <1>7, <1>8, <1>10

(* The decision travels unchanged to the answer.                           *)
LEMMA MoversKeep ==
  ASSUME IInv, TypeOK', NEW h \in Handlers, WriteRow(h) \/ Answer(h)
  PROVE  IInv'
<1>1. PICK pc \in {"ready", "answered"} : tx' = [tx EXCEPT ![h] = [tx[h] EXCEPT !.pc = pc]]
  BY DEF WriteRow, Answer
<1>2. tx[h] \in Txs /\ HasDecided(tx[h]) /\ UNCHANGED table /\ now' = now
  BY BusyTx DEF IInv, WriteRow, Answer, HasDecided
<1> DEFINE t == [tx[h] EXCEPT !.pc = pc]
<1>3. /\ t.pc = pc /\ t.op = tx[h].op /\ t.who = tx[h].who /\ t.ts = tx[h].ts
      /\ t.cur = tx[h].cur /\ t.new = tx[h].new
  BY <1>2 DEF Txs
<1>4. DecisionOK(tx[h]) /\ (tx[h].cur # NoRow => RowSound(tx[h].cur)) /\ tx[h].ts <= now
  BY <1>2 DEF IInv, DecisionsOK, ReadsSound, StampsPast, HasDecided
<1> HIDE DEF t
<1>5. DecisionOK(t)
  BY <1>2, <1>3, <1>4 DEF DecisionOK, HasDecided
<1>6. (t.cur # NoRow => RowSound(t.cur)) /\ t.ts <= now
  BY <1>3, <1>4
<1>7. QED
  BY <1>1, <1>2, <1>5, <1>6, TxFrame DEF t

(* A commit stores a sound row.                                            *)
LEMMA CommitKeeps ==
  ASSUME IInv, TypeOK', NEW h \in Handlers, Commit(h)
  PROVE  IInv'
<1>1. tx[h] \in Txs /\ HasDecided(tx[h]) /\ tx[h].id \in Ids
  <2>1. tx[h] \in Txs /\ HasDecided(tx[h])
    BY BusyTx DEF IInv, Commit, HasDecided
  <2>2. QED
    BY <2>1 DEF Txs
<1>2. tx[h].new # NoRow => RowSound(tx[h].new)
  BY <1>1, DecidedRows DEF IInv, DecisionsOK, ReadsSound
<1>3. TableSound'
  BY <1>1, <1>2 DEF IInv, TypeOK, TableSound, Commit
<1>4. tx' = [tx EXCEPT ![h] = Idle] /\ now' = now
  BY DEF Commit, End
<1>5. \A g \in Handlers : tx'[g] = tx[g] \/ tx'[g] = Idle
  BY <1>4 DEF IInv, TypeOK
<1>6. DecisionsOK' /\ ReadsSound' /\ StampsPast'
  BY <1>4, <1>5, IdleOK DEF IInv, DecisionsOK, ReadsSound, StampsPast
<1>7. QED
  BY <1>3, <1>6 DEF IInv

(* The invariant is inductive.                                             *)
LEMMA SafetyStep == IInv /\ [Next]_vars => IInv'
<1> SUFFICES ASSUME IInv, [Next]_vars PROVE IInv'
  OBVIOUS
<1>0. TypeOK'
  BY TypeStep DEF IInv
<1>1. CASE Tick
  <2>1. now' = now + 1 /\ UNCHANGED <<table, tx>>
    BY <1>1 DEF Tick
  <2>2. StampsPast'
    <3> SUFFICES ASSUME NEW h \in Handlers, tx[h].pc # "idle" PROVE tx[h].ts <= now + 1
      BY <2>1 DEF StampsPast
    <3>1. tx[h] \in Txs /\ tx[h].ts <= now
      BY BusyTx DEF IInv, StampsPast
    <3>2. tx[h].ts \in Int /\ now \in Int
      BY <3>1, MaxTimeIsNat DEF Txs, IInv, TypeOK
    <3>3. QED
      BY <3>1, <3>2
  <2>3. QED
    BY <1>0, <2>1, <2>2 DEF IInv, TableSound, ReadsSound, DecisionsOK
<1>2. CASE Crash
  <2>1. UNCHANGED table /\ \A h \in Handlers : tx'[h] = Idle
    BY <1>2 DEF Crash
  <2>2. QED
    BY <1>0, <2>1, IdleOK DEF IInv, TableSound, ReadsSound, DecisionsOK, StampsPast
<1>3. ASSUME NEW h \in Handlers, Arrive(h) PROVE IInv'
  <2>1. PICK op \in Ops, id \in Ids, who \in Approvers : Begin(h, op, id, who)
    BY <1>3 DEF Arrive
  <2> DEFINE t == [pc |-> "begun", op |-> op, id |-> id, who |-> who, ts |-> now,
                   cur |-> NoRow, new |-> NoRow]
  <2>2. DecisionOK(t) /\ t.cur = NoRow /\ t.ts <= now
    BY MaxTimeIsNat DEF DecisionOK, HasDecided, IInv, TypeOK
  <2>3. QED
    BY <1>0, <2>1, <2>2, TxFrame DEF Begin
<1>4. ASSUME NEW h \in Handlers, WriteConflict(h) \/ AuditClash(h) PROVE IInv'
  BY <1>0, <1>4, IdleOK, TxFrame DEF WriteConflict, AuditClash, End
<1>5. CASE UNCHANGED vars
  BY <1>0, <1>5 DEF vars, IInv, TableSound, ReadsSound, DecisionsOK, StampsPast
<1>6. QED
  BY <1>0, <1>1, <1>2, <1>3, <1>4, <1>5, ReadersKeep, MoversKeep, CommitKeeps
  DEF Next, Progress

(* The initial state satisfies the invariant.                              *)
LEMMA SafetyInit == Init => IInv
<1> SUFFICES ASSUME Init PROVE IInv
  OBVIOUS
<1>1. TypeOK
  BY MaxTimeIsNat DEF Init, TypeOK
<1>2. \A h \in Handlers : tx[h] = Idle
  BY DEF Init
<1>3. QED
  BY <1>1, <1>2, IdleOK DEF Init, IInv, TableSound, ReadsSound, DecisionsOK, StampsPast

(* The inductive invariant holds throughout every interleaving.            *)
LEMMA Safety == Spec => []IInv
BY SafetyInit, SafetyStep, PTL DEF Spec

(* Under every interleaving an approved row carries the sign-offs its own  *)
(* requirement asks for.                                                   *)
THEOREM ApprovedMeansQuorum == Spec => []QuorumBacked
<1>1. IInv => QuorumBacked
  BY DEF IInv, TableSound, RowSound, QuorumBacked
<1>2. QED
  BY <1>1, Safety, PTL

(* Under every interleaving an answer lets an action through only on a     *)
(* complete quorum, within its window, counting nobody who was not named.  *)
THEOREM GrantsNeedQuorum == Spec => []GrantsAreBacked
<1>1. IInv => GrantsAreBacked
  <2> SUFFICES ASSUME IInv, NEW h \in Handlers, tx[h].pc = "answered", Allows(tx[h])
               PROVE  /\ Satisfied(tx[h].cur)
                      /\ ~Overdue(tx[h].cur, tx[h].ts)
                      /\ tx[h].cur.named # {} => tx[h].cur.by \subseteq tx[h].cur.named
    BY DEF GrantsAreBacked
  <2>1. RowSound(tx[h].cur) /\ Grants(tx[h].cur, tx[h].ts)
    BY DEF Allows, IInv, ReadsSound
  <2>2. QED
    BY <2>1 DEF RowSound, Grants, IsFullyApproved
<1>2. QED
  BY <1>1, Safety, PTL

(* Under every interleaving, a denied or expired row is overwritten only   *)
(* by a request that had read it while it was still open.                  *)
THEOREM TerminalOnlyLostToRaces == Spec => OnlyRacesOverwriteTerminal
<1> DEFINE A == \A id \in Ids : Terminal(table[id]) /\ table'[id] # table[id] =>
                  \E h \in Handlers : /\ tx[h].id = id
                                      /\ tx[h].pc = "answered"
                                      /\ ~Terminal(tx[h].cur)
<1>1. IInv /\ [Next]_vars => A
  <2> SUFFICES ASSUME IInv, [Next]_vars, NEW id \in Ids, table'[id] # table[id]
               PROVE  \E h \in Handlers : /\ tx[h].id = id
                                          /\ tx[h].pc = "answered"
                                          /\ ~Terminal(tx[h].cur)
    OBVIOUS
  <2>1. PICK h \in Handlers : Commit(h)
    BY DEF Next, Progress, Tick, Crash, Arrive, Begin, ReadApprove, ReadDeny, ReadGateway,
           ReadSettled, ReadExpire, WriteRow, WriteConflict, AuditClash, Answer, vars
  <2>2. tx[h] \in Txs /\ HasDecided(tx[h]) /\ tx[h].pc = "answered"
    BY <2>1, BusyTx DEF IInv, Commit, HasDecided
  <2>3. tx[h].id = id /\ tx[h].new # NoRow
    BY <2>1 DEF Commit, IInv, TypeOK
  <2>4. ~Terminal(tx[h].cur)
    BY <2>2, <2>3, DecidedRows DEF IInv, DecisionsOK, ReadsSound
  <2>5. QED
    BY <2>2, <2>3, <2>4
<1>2. QED
  BY <1>1, Safety, PTL DEF Spec, OnlyRacesOverwriteTerminal

(* What a transaction decided keeps the sign-offs it has read, unless it   *)
(* opens anew an approval that has lapsed.                                 *)
LEMMA DecidedSignoffs ==
  ASSUME NEW t \in Txs, HasDecided(t), DecisionOK(t), t.new # NoRow, t.cur # NoRow
  PROVE  t.cur.by \subseteq t.new.by \/ (t.cur.status = "approved" /\ Overdue(t.cur, t.ts))
<1>0. t.op \in Ops /\ t.cur \in Rows /\ t.who \in Approvers
  BY DEF Txs
<1>1. CASE t.op = "approve"
  <2> DEFINE next == [t.cur EXCEPT !.by = @ \cup {t.who}]
  <2>1. t.new = next \/ t.new = [next EXCEPT !.status = "approved"]
    BY <1>1 DEF DecisionOK, SignedOff
  <2>2. t.new.by = t.cur.by \cup {t.who}
    BY <1>0, <2>1 DEF Rows
  <2> QED
    BY <2>2
<1>2. CASE t.op = "deny"
  BY <1>0, <1>2 DEF DecisionOK, Denied, Rows
<1>3. CASE t.op \in Gateway
  <2>1. CASE Vacant(t.cur, t.ts)
    BY <2>1 DEF Vacant, Grants, IsFullyApproved
  <2>2. CASE t.new = Expired(t.cur)
    BY <1>0, <2>2 DEF Expired, Rows
  <2> QED
    BY <1>3, <2>1, <2>2 DEF DecisionOK
<1> QED
  BY <1>0, <1>1, <1>2, <1>3 DEF Ops

(* Under every interleaving, a sign-off is lost only to a request that had *)
(* read the row without it, or that opens anew an approval that lapsed.    *)
THEOREM SignoffsOnlyLostToRaces == Spec => OnlyRacesLoseSignoffs
<1> DEFINE A == \A id \in Ids : table[id] # NoRow /\ table'[id] # table[id] =>
                  \A a \in table[id].by \ table'[id].by :
                    \E h \in Handlers :
                      LET row == tx[h].cur
                      IN  /\ tx[h].id = id
                          /\ tx[h].pc = "answered"
                          /\ \/ row = NoRow \/ a \notin row.by
                             \/ row.status = "approved" /\ Overdue(row, now)
<1>1. IInv /\ [Next]_vars => A
  <2> SUFFICES ASSUME IInv, [Next]_vars, NEW id \in Ids, table'[id] # table[id],
                      NEW a \in table[id].by \ table'[id].by
               PROVE  \E h \in Handlers :
                        /\ tx[h].id = id
                        /\ tx[h].pc = "answered"
                        /\ \/ tx[h].cur = NoRow \/ a \notin tx[h].cur.by
                           \/ tx[h].cur.status = "approved" /\ Overdue(tx[h].cur, now)
    OBVIOUS
  <2>1. PICK h \in Handlers : Commit(h)
    BY DEF Next, Progress, Tick, Crash, Arrive, Begin, ReadApprove, ReadDeny, ReadGateway,
           ReadSettled, ReadExpire, WriteRow, WriteConflict, AuditClash, Answer, vars
  <2>2. tx[h] \in Txs /\ HasDecided(tx[h]) /\ tx[h].pc = "answered"
    BY <2>1, BusyTx DEF IInv, Commit, HasDecided
  <2>3. tx[h].id = id /\ tx[h].new # NoRow /\ table'[id] = tx[h].new
    BY <2>1 DEF Commit, IInv, TypeOK
  <2>4. CASE tx[h].cur = NoRow \/ a \notin tx[h].cur.by
    BY <2>2, <2>3, <2>4
  <2>5. CASE tx[h].cur # NoRow /\ a \in tx[h].cur.by
    <3>1. tx[h].cur.status = "approved" /\ Overdue(tx[h].cur, tx[h].ts)
      BY <2>2, <2>3, <2>5, DecidedSignoffs DEF IInv, DecisionsOK
    <3>2. /\ tx[h].cur \in Rows /\ tx[h].ts \in Int /\ now \in Int
          /\ tx[h].ts <= now
      BY <2>2, <2>5, MaxTimeIsNat DEF IInv, TypeOK, StampsPast, Txs
    <3>3. Overdue(tx[h].cur, now)
      BY <3>1, <3>2 DEF Overdue, Rows
    <3> QED
      BY <2>2, <2>3, <3>1, <3>3
  <2> QED
    BY <2>4, <2>5
<1>2. QED
  BY <1>1, Safety, PTL DEF Spec, OnlyRacesLoseSignoffs

-----------------------------------------------------------------------------
(***************************************************************************)
(* Requests one at a time (SerialSpec).  The theorems below are what each  *)
(* single operation was written to guarantee; under Spec, where requests   *)
(* interleave, they fail.                                                  *)
(***************************************************************************)

(* A serial run is a run: the safety invariant carries over.               *)
LEMMA SerialSafety == SerialSpec => []IInv
<1>1. SerialNext => Next
  BY DEF SerialNext, Next
<1>2. IInv /\ [SerialNext]_vars => IInv'
  BY <1>1, SafetyStep
<1>3. QED
  BY <1>2, SafetyInit, PTL DEF SerialSpec

-----------------------------------------------------------------------------
(***************************************************************************)
(* With one request in flight, what it read is what is there: the row a    *)
(* commit replaces is the row the decision was made on.  From that follow  *)
(* the exact bookkeeping of sign-offs and the finality of outcomes.        *)
(***************************************************************************)

OneInFlight == \A g, h \in Handlers : InFlight(g) /\ InFlight(h) => g = h

NothingRead(t) == t.op \in Gateway /\ t.cur = NoRow /\ t.new = NoRow

Fresh == \A h \in Handlers : tx[h].pc = "restale" \/ HasDecided(tx[h]) =>
           tx[h].cur = table[tx[h].id] \/ NothingRead(tx[h])

DenialsClosed == \A id \in denials : table[id] # NoRow /\ table[id].status = "denied"

SInv == OneInFlight /\ Fresh /\ SignoffsExact /\ DenialsClosed

(* Every request that is not a commit leaves the table and the ghosts of   *)
(* the bookkeeping alone.                                                  *)
LEMMA OnlyCommitsWrite ==
  ASSUME NEW h \in Handlers, Arrive(h) \/ ReadApprove(h) \/ ReadDeny(h) \/ ReadGateway(h)
         \/ ReadSettled(h) \/ ReadExpire(h) \/ WriteRow(h) \/ WriteConflict(h) \/ AuditClash(h) \/ Answer(h)
  PROVE  UNCHANGED <<table, signed, denials>>
BY DEF Arrive, Begin, ReadApprove, ReadDeny, ReadGateway, ReadSettled, ReadExpire, WriteRow,
       WriteConflict, AuditClash, Answer

(* A reader ends its request, keeps as read the row that is in the table,  *)
(* or has read none; no other transaction moves.                           *)
LEMMA ReaderSteps ==
  ASSUME IInv, NEW h \in Handlers,
         ReadApprove(h) \/ ReadDeny(h) \/ ReadGateway(h) \/ ReadSettled(h) \/ ReadExpire(h)
  PROVE  /\ \/ tx'[h] = Idle
            \/ tx'[h].id = tx[h].id /\ tx'[h].cur = table[tx[h].id]
            \/ NothingRead(tx'[h])
         /\ \A g \in Handlers \ {h} : tx'[g] = tx[g]
<1> DEFINE row == table[tx[h].id]
<1>1. tx \in [Handlers -> Txs \cup {Idle}] /\ tx[h] \in Txs
  BY BusyTx DEF IInv, TypeOK, ReadApprove, ReadDeny, ReadGateway, ReadSettled, ReadExpire
<1>2. CASE End(h)
  BY <1>1, <1>2 DEF End
<1>3. CASE ReadApprove(h)
  <2> DEFINE new == SignedOff(row, tx[h].who, tx[h].ts)
  <2>1. CASE Decide(h, "writing", row, new)
    <3>1. tx'[h] = [tx[h] EXCEPT !.pc = "writing", !.cur = row, !.new = new]
      BY <1>1, <2>1 DEF Decide
    <3>2. \A g \in Handlers \ {h} : tx'[g] = tx[g]
      BY <1>1, <2>1 DEF Decide
    <3> HIDE DEF new
    <3>3. QED
      BY <1>1, <3>1, <3>2 DEF Txs
  <2>2. QED
    BY <1>2, <1>3, <2>1 DEF ReadApprove
<1>4. CASE ReadDeny(h)
  <2>1. CASE Decide(h, "writing", row, Denied(row))
    <3>1. tx'[h] = [tx[h] EXCEPT !.pc = "writing", !.cur = row, !.new = Denied(row)]
      BY <1>1, <2>1 DEF Decide
    <3>2. \A g \in Handlers \ {h} : tx'[g] = tx[g]
      BY <1>1, <2>1 DEF Decide
    <3>3. QED
      BY <1>1, <3>1, <3>2 DEF Txs
  <2>2. QED
    BY <1>2, <1>4, <2>1 DEF ReadDeny
<1>5. CASE ReadGateway(h)
  <2>1. CASE \E need \in Needs,
                e \in {NoExpiry} \cup (IF tx[h].op = "execute" THEN Expiries ELSE {}) :
               Decide(h, "writing", row, NewRow(need, e))
    <3>1. PICK need \in Needs,
               e \in {NoExpiry} \cup (IF tx[h].op = "execute" THEN Expiries ELSE {}) :
                 Decide(h, "writing", row, NewRow(need, e))
      BY <2>1
    <3>2. tx'[h] = [tx[h] EXCEPT !.pc = "writing", !.cur = row, !.new = NewRow(need, e)]
      BY <1>1, <3>1 DEF Decide
    <3>3. \A g \in Handlers \ {h} : tx'[g] = tx[g]
      BY <1>1, <3>1 DEF Decide
    <3>4. QED
      BY <1>1, <3>2, <3>3 DEF Txs
  <2>2. CASE Decide(h, "restale", row, NoRow)
    BY <1>1, <2>2 DEF Decide, Txs
  <2>3. CASE Decide(h, "ready", row, NoRow)
    BY <1>1, <2>3 DEF Decide, Txs
  <2>4. QED
    BY <1>5, <2>1, <2>2, <2>3 DEF ReadGateway
<1>6. CASE ReadExpire(h)
  <2>1. CASE Decide(h, "writing", row, Expired(row))
    <3>1. tx'[h] = [tx[h] EXCEPT !.pc = "writing", !.cur = row, !.new = Expired(row)]
      BY <1>1, <2>1 DEF Decide
    <3>2. \A g \in Handlers \ {h} : tx'[g] = tx[g]
      BY <1>1, <2>1 DEF Decide
    <3>3. QED
      BY <1>1, <3>1, <3>2 DEF Txs
  <2>2. QED
    BY <1>2, <1>6, <2>1 DEF ReadExpire
<1>7. CASE ReadSettled(h)
  BY <1>1, <1>7 DEF ReadSettled, Decide, NothingRead, Txs
<1>8. QED
  BY <1>3, <1>4, <1>5, <1>6, <1>7

(* A handler's step touches its own transaction only.                      *)
LEMMA OwnTx ==
  ASSUME IInv, NEW h \in Handlers, Arrive(h) \/ Progress(h) \/ AuditClash(h)
  PROVE  \A g \in Handlers \ {h} : tx'[g] = tx[g]
<1>1. tx \in [Handlers -> Txs \cup {Idle}]
  BY DEF IInv, TypeOK
<1>2. CASE Arrive(h)
  BY <1>1, <1>2 DEF Arrive, Begin
<1>3. CASE AuditClash(h) \/ WriteConflict(h)
  BY <1>1, <1>3 DEF AuditClash, WriteConflict, End
<1>4. CASE WriteRow(h) \/ Answer(h)
  <2>1. PICK pc \in {"ready", "answered"} : tx' = [tx EXCEPT ![h].pc = pc]
    BY <1>4 DEF WriteRow, Answer
  <2>2. QED
    BY <1>1, <2>1
<1>5. CASE Commit(h)
  <2>1. tx' = [tx EXCEPT ![h] = Idle]
    BY <1>5 DEF Commit, End
  <2>2. QED
    BY <1>1, <2>1
<1>6. CASE ReadApprove(h) \/ ReadDeny(h) \/ ReadGateway(h) \/ ReadSettled(h) \/ ReadExpire(h)
  BY <1>6, ReaderSteps
<1>7. QED
  BY <1>2, <1>3, <1>4, <1>5, <1>6 DEF Progress

(* One in flight stays one in flight.                                      *)
LEMMA AloneStep ==
  ASSUME IInv, SInv, [SerialNext]_vars
  PROVE  OneInFlight'
<1>1. CASE Tick \/ UNCHANGED vars
  BY <1>1 DEF Tick, vars, SInv, OneInFlight, InFlight
<1>2. CASE Crash
  BY <1>2, IdleOK DEF Crash, OneInFlight, InFlight
<1>3. ASSUME NEW h \in Handlers, Alone(h), Arrive(h) \/ Progress(h) \/ AuditClash(h)
      PROVE  OneInFlight'
  <2>1. \A g \in Handlers \ {h} : tx'[g] = tx[g] /\ tx[g].pc = "idle"
    BY <1>3, OwnTx DEF Alone, InFlight
  <2>2. QED
    BY <2>1 DEF OneInFlight, InFlight
<1>4. QED
  BY <1>1, <1>2, <1>3 DEF SerialNext

(* What the commit of a lone handler does to the row and the ghosts.       *)
LEMMA SerialCommit ==
  ASSUME IInv, SInv, NEW h \in Handlers, Commit(h)
  PROVE  LET t == tx[h]
             row == table[t.id]
         IN  /\ t \in Txs
             /\ \A id \in Ids \ {t.id} : table'[id] = table[id]
             /\ \/ /\ t.op \in Gateway /\ t.new = NoRow
                   /\ UNCHANGED <<table, signed, denials>>
                \/ /\ t.op = "approve" /\ row # NoRow /\ MaySignOff(row, t.who, t.ts)
                   /\ table'[t.id] = SignedOff(row, t.who, t.ts)
                   /\ signed' = signed \cup {<<t.id, t.who>>} /\ UNCHANGED denials
                \/ /\ t.op = "deny" /\ row # NoRow /\ MayDeny(row)
                   /\ table'[t.id] = Denied(row)
                   /\ denials' = denials \cup {t.id} /\ UNCHANGED signed
                \/ /\ t.op \in Gateway /\ row # NoRow /\ MayExpire(row, t.ts)
                   /\ table'[t.id] = Expired(row) /\ UNCHANGED <<signed, denials>>
                \/ /\ t.op \in Gateway /\ Vacant(row, t.ts)
                   /\ \E need \in Needs, e \in Int \cup {NoExpiry} :
                        table'[t.id] = NewRow(need, e)
                   /\ signed' = {s \in signed : s[1] # t.id} /\ UNCHANGED denials
<1> DEFINE t == tx[h]
           row == table[t.id]
<1>1. /\ t \in Txs /\ HasDecided(t) /\ DecisionOK(t) /\ t.pc = "answered"
      /\ t.cur = row \/ NothingRead(t)
  BY BusyTx DEF IInv, DecisionsOK, SInv, Fresh, Commit, HasDecided
<1>2. t.id \in Ids /\ t.op \in Ops /\ t.new \in Rows \cup {NoRow} /\ t.who \in Approvers
      /\ t.ts \in Int /\ row \in Rows \cup {NoRow}
  BY <1>1 DEF Txs, IInv, TypeOK
<1>0. t.cur = row \/ (t.op \in Gateway /\ t.new = NoRow)
  BY <1>1 DEF NothingRead
<1>3. table' = IF t.new = NoRow THEN table ELSE [table EXCEPT ![t.id] = t.new]
  BY DEF Commit
<1>4. \A id \in Ids \ {t.id} : table'[id] = table[id]
  BY <1>3 DEF IInv, TypeOK
<1>5. t.new # NoRow => table'[t.id] = t.new
  BY <1>2, <1>3 DEF IInv, TypeOK
<1>6. CASE t.op = "approve"
  <2>1. row \in Rows /\ MaySignOff(row, t.who, t.ts) /\ t.new = SignedOff(row, t.who, t.ts)
    BY <1>0, <1>1, <1>2, <1>6 DEF DecisionOK, Gateway
  <2>2. t.new # NoRow
    BY <1>2, <2>1, SignedOffType, NoRowIsNoRow
  <2>3. signed' = signed \cup {<<t.id, t.who>>} /\ UNCHANGED denials
    BY <1>6 DEF Commit, Gateway
  <2>4. row # NoRow
    BY <2>1, NoRowIsNoRow
  <2>5. QED
    BY <1>1, <1>4, <1>5, <1>6, <2>1, <2>2, <2>3, <2>4
<1>7. CASE t.op = "deny"
  <2>1. row \in Rows /\ MayDeny(row) /\ t.new = Denied(row)
    BY <1>0, <1>1, <1>2, <1>7 DEF DecisionOK, Gateway
  <2>2. t.new # NoRow
    BY <2>1, ClosedType, NoRowIsNoRow
  <2>3. denials' = denials \cup {t.id} /\ UNCHANGED signed
    BY <1>7 DEF Commit, Gateway
  <2>4. row # NoRow
    BY <2>1, NoRowIsNoRow
  <2>5. QED
    BY <1>1, <1>4, <1>5, <1>7, <2>1, <2>2, <2>3, <2>4
<1>8. CASE t.op \in Gateway
  <2>1. UNCHANGED denials
    BY <1>8 DEF Commit, Gateway
  <2>2. CASE t.new = NoRow
    <3>1. UNCHANGED <<table, signed>>
      BY <1>8, <2>2 DEF Commit, Gateway
    <3>2. QED
      BY <1>1, <1>4, <1>8, <2>1, <2>2, <3>1
  <2>3. CASE t.new # NoRow /\ row # NoRow /\ MayExpire(row, t.ts) /\ t.new = Expired(row)
    <3>1. t.new.status = "expired"
      BY <1>2, <2>3 DEF Expired, Rows
    <3>2. UNCHANGED signed
      BY <1>8, <3>1 DEF Commit, Gateway
    <3>3. QED
      BY <1>1, <1>4, <1>5, <1>8, <2>1, <2>3, <3>2
  <2>4. CASE t.new # NoRow /\ Vacant(row, t.ts) /\
             \E need \in Needs, e \in Int \cup {NoExpiry} : t.new = NewRow(need, e)
    <3>1. t.new.status = "pending"
      BY <2>4 DEF NewRow
    <3>2. signed' = {s \in signed : s[1] # t.id}
      BY <1>8, <2>4, <3>1 DEF Commit, Gateway
    <3>3. QED
      BY <1>1, <1>4, <1>5, <1>8, <2>1, <2>4, <3>2
  <2>5. QED
    BY <1>0, <1>1, <1>8, <2>2, <2>3, <2>4 DEF DecisionOK
<1>9. QED
  BY <1>2, <1>6, <1>7, <1>8 DEF Ops

(* A sign-off adds one name, a closing none.                               *)
LEMMA SignersOf ==
  ASSUME NEW row \in Rows, NEW a \in Approvers, NEW ts \in Int
  PROVE  /\ SignedOff(row, a, ts).by = row.by \cup {a}
         /\ SignedOff(row, a, ts).named = row.named
         /\ SignedOff(row, a, ts).min = row.min
         /\ Denied(row).by = row.by /\ Denied(row).status = "denied"
         /\ Expired(row).by = row.by /\ Expired(row).status = "expired"
         /\ Denied(row).named = row.named /\ Denied(row).min = row.min
         /\ Expired(row).named = row.named /\ Expired(row).min = row.min
BY DEF SignedOff, Denied, Expired, Rows

(* The serial invariant is inductive, given the safety invariant.          *)
LEMMA SerialStep == IInv /\ IInv' /\ SInv /\ [SerialNext]_vars => SInv'
<1> SUFFICES ASSUME IInv, IInv', SInv, [SerialNext]_vars PROVE SInv'
  OBVIOUS
<1>0. OneInFlight'
  BY AloneStep
<1>1. CASE Tick \/ UNCHANGED vars
  BY <1>0, <1>1 DEF Tick, vars, SInv, Fresh, SignoffsExact, DenialsClosed
<1>2. CASE Crash
  BY <1>0, <1>2, IdleOK DEF Crash, SInv, Fresh, SignoffsExact, DenialsClosed, Idle, HasDecided
<1>3. ASSUME NEW h \in Handlers, Alone(h), Arrive(h) \/ Progress(h) \/ AuditClash(h), ~Commit(h)
      PROVE  SInv'
  <2>1. UNCHANGED <<table, signed, denials>>
    BY <1>3, OnlyCommitsWrite DEF Progress
  <2>2. \A g \in Handlers \ {h} : tx'[g] = tx[g]
    BY <1>3, OwnTx
  <2>3. tx'[h].pc = "restale" \/ HasDecided(tx'[h]) =>
          tx'[h].cur = table[tx'[h].id] \/ NothingRead(tx'[h])
    <3>1. CASE Arrive(h)
      <4>1. tx'[h].pc = "begun"
        BY <3>1 DEF Arrive, Begin, IInv, TypeOK
      <4>2. QED
        BY <4>1 DEF HasDecided
    <3>2. CASE AuditClash(h) \/ WriteConflict(h)
      <4>1. tx'[h].pc = "idle"
        BY <3>2 DEF AuditClash, WriteConflict, End, IInv, TypeOK, Idle
      <4>2. QED
        BY <4>1 DEF HasDecided
    <3>3. CASE WriteRow(h) \/ Answer(h)
      <4>1. PICK pc \in {"ready", "answered"} : tx' = [tx EXCEPT ![h].pc = pc]
        BY <3>3 DEF WriteRow, Answer
      <4>2. tx[h] \in Txs /\ HasDecided(tx[h])
        BY <3>3, BusyTx DEF IInv, WriteRow, Answer, HasDecided
      <4>3. /\ tx'[h].cur = tx[h].cur /\ tx'[h].id = tx[h].id
            /\ tx'[h].new = tx[h].new /\ tx'[h].op = tx[h].op
        BY <4>1, <4>2 DEF IInv, TypeOK, Txs
      <4>4. QED
        BY <4>2, <4>3 DEF SInv, Fresh, NothingRead
    <3>4. CASE ReadApprove(h) \/ ReadDeny(h) \/ ReadGateway(h) \/ ReadSettled(h) \/ ReadExpire(h)
      BY <3>4, ReaderSteps, IdleOK DEF HasDecided
    <3>5. QED
      BY <1>3, <3>1, <3>2, <3>3, <3>4 DEF Progress
  <2>4. Fresh'
    <3> SUFFICES ASSUME NEW g \in Handlers, tx'[g].pc = "restale" \/ HasDecided(tx'[g])
                 PROVE  tx'[g].cur = table[tx'[g].id] \/ NothingRead(tx'[g])
      BY <2>1 DEF Fresh
    <3> QED
      BY <2>2, <2>3 DEF SInv, Fresh
  <2>5. QED
    BY <1>0, <2>1, <2>4 DEF SInv, SignoffsExact, DenialsClosed
<1>4. ASSUME NEW h \in Handlers, Alone(h), Commit(h) PROVE SInv'
  <2> DEFINE t == tx[h]
             row == table[t.id]
  <2>1. t \in Txs /\ t.id \in Ids /\ t.who \in Approvers /\ t.ts \in Int
        /\ row \in Rows \cup {NoRow} /\ signed \subseteq Ids \X Approvers
        /\ table \in [Ids -> Rows \cup {NoRow}] /\ denials \subseteq Ids
    BY <1>4, SerialCommit DEF Txs, IInv, TypeOK
  <2>2. \A id \in Ids \ {t.id} : table'[id] = table[id]
    BY <1>4, SerialCommit
  <2>3. Fresh'
    <3>1. tx'[h] = Idle /\ \A g \in Handlers \ {h} : tx'[g] = tx[g] /\ tx[g].pc = "idle"
      BY <1>4, OwnTx DEF Commit, End, Alone, InFlight, IInv, TypeOK, Progress
    <3>2. QED
      BY <3>1, IdleOK DEF Fresh, HasDecided
  <2>4. row # NoRow => row.by = {a \in Approvers : <<t.id, a>> \in signed}
    BY <2>1 DEF SInv, SignoffsExact
  <2>5. SignoffsExact' /\ DenialsClosed'
    <3>1. CASE UNCHANGED <<table, signed, denials>>
      BY <3>1 DEF SInv, SignoffsExact, DenialsClosed
    <3>2. CASE row # NoRow /\ MaySignOff(row, t.who, t.ts)
               /\ table'[t.id] = SignedOff(row, t.who, t.ts)
               /\ signed' = signed \cup {<<t.id, t.who>>} /\ UNCHANGED denials
      <4>1. table'[t.id].by = row.by \cup {t.who}
        BY <2>1, <3>2, SignersOf
      <4>2. table'[t.id].by = {a \in Approvers : <<t.id, a>> \in signed'}
        BY <2>1, <2>4, <3>2, <4>1
      <4>3. SignoffsExact'
        BY <2>1, <2>2, <3>2, <4>2 DEF SInv, SignoffsExact
      <4>4. t.id \notin denials
        BY <3>2 DEF SInv, DenialsClosed, MaySignOff
      <4>5. QED
        BY <2>1, <2>2, <3>2, <4>3, <4>4 DEF SInv, DenialsClosed
    <3>3. CASE row # NoRow /\ MayDeny(row) /\ table'[t.id] = Denied(row)
               /\ denials' = denials \cup {t.id} /\ UNCHANGED signed
      <4>1. table'[t.id].by = row.by /\ table'[t.id].status = "denied" /\ table'[t.id] # NoRow
        BY <2>1, <3>3, SignersOf, ClosedType, NoRowIsNoRow
      <4>2. SignoffsExact'
        BY <2>1, <2>2, <2>4, <3>3, <4>1 DEF SInv, SignoffsExact
      <4>3. QED
        BY <2>1, <2>2, <3>3, <4>1, <4>2 DEF SInv, DenialsClosed
    <3>4. CASE row # NoRow /\ MayExpire(row, t.ts) /\ table'[t.id] = Expired(row)
               /\ UNCHANGED <<signed, denials>>
      <4>1. table'[t.id].by = row.by
        BY <2>1, <3>4, SignersOf
      <4>2. SignoffsExact'
        BY <2>1, <2>2, <2>4, <3>4, <4>1 DEF SInv, SignoffsExact
      <4>3. t.id \notin denials
        BY <3>4 DEF SInv, DenialsClosed, MayExpire
      <4>4. QED
        BY <2>1, <2>2, <3>4, <4>2, <4>3 DEF SInv, DenialsClosed
    <3>5. CASE /\ Vacant(row, t.ts)
               /\ \E need \in Needs, e \in Int \cup {NoExpiry} : table'[t.id] = NewRow(need, e)
               /\ signed' = {s \in signed : s[1] # t.id} /\ UNCHANGED denials
      <4>1. table'[t.id].by = {}
        BY <3>5 DEF NewRow
      <4>2. \A id \in Ids, a \in Approvers :
              <<id, a>> \in signed' <=> <<id, a>> \in signed /\ id # t.id
        BY <3>5
      <4>3. SignoffsExact'
        BY <2>1, <2>2, <4>1, <4>2 DEF SInv, SignoffsExact
      <4>4. t.id \notin denials
        BY <3>5 DEF SInv, DenialsClosed, Vacant
      <4>5. QED
        BY <2>1, <2>2, <3>5, <4>3, <4>4 DEF SInv, DenialsClosed
    <3>6. QED
      BY <1>4, SerialCommit, <3>1, <3>2, <3>3, <3>4, <3>5
  <2>6. QED
    BY <1>0, <2>3, <2>5 DEF SInv
<1>5. QED
  BY <1>1, <1>2, <1>3, <1>4 DEF SerialNext

(* Both invariants hold throughout every serial run.                       *)
LEMMA Serial == SerialSpec => [](IInv /\ SInv)
<1>1. Init => SInv
  <2> SUFFICES ASSUME Init PROVE SInv
    OBVIOUS
  <2>1. \A h \in Handlers : tx[h] = Idle
    BY DEF Init
  <2>2. QED
    BY <2>1, IdleOK DEF Init, SInv, OneInFlight, InFlight, Fresh, HasDecided,
                        SignoffsExact, DenialsClosed
<1>2. QED
  BY <1>1, SerialSafety, SerialStep, PTL DEF SerialSpec

-----------------------------------------------------------------------------
(* The properties. *)

(* One request at a time, the row and the committed sign-offs since it was *)
(* opened agree exactly.                                                   *)
THEOREM SignoffsAreExact == SerialSpec => []SignoffsExact
<1>1. SInv => SignoffsExact
  BY DEF SInv
<1>2. QED
  BY <1>1, Serial, PTL

(* Only a commit changes the table.                                        *)
LEMMA TableWriters ==
  ASSUME [SerialNext]_vars, table' # table
  PROVE  \E h \in Handlers : Commit(h)
BY OnlyCommitsWrite DEF SerialNext, Progress, Tick, Crash, vars

(* One request at a time, a denied or expired row never changes again.     *)
THEOREM TerminalStays == SerialSpec => TerminalIsFinal
<1> DEFINE A == \A id \in Ids : Terminal(table[id]) => table'[id] = table[id]
<1>1. IInv /\ SInv /\ [SerialNext]_vars => A
  <2> SUFFICES ASSUME IInv, SInv, [SerialNext]_vars, NEW id \in Ids, Terminal(table[id]),
                      table'[id] # table[id]
               PROVE  FALSE
    OBVIOUS
  <2>1. PICK h \in Handlers : Commit(h)
    BY TableWriters
  <2>2. tx[h].id = id
    BY <2>1, SerialCommit
  <2>3. QED
    BY <2>1, <2>2, SerialCommit DEF Terminal, MaySignOff, MayDeny, MayExpire, Vacant
<1>2. QED
  BY <1>1, Serial, PTL DEF SerialSpec, TerminalIsFinal

(* One request at a time, no answer lets an action through once a denial   *)
(* of its approval is committed.                                           *)
THEOREM DenialsStand == SerialSpec => DenialStands
<1> DEFINE A == \A h \in Handlers : Answer(h) /\ Allows(tx[h]) => tx[h].id \notin denials
<1>1. IInv /\ SInv => A
  <2> SUFFICES ASSUME IInv, SInv, NEW h \in Handlers, Answer(h), Allows(tx[h])
               PROVE  tx[h].id \notin denials
    OBVIOUS
  <2>1. tx[h].cur = table[tx[h].id] /\ tx[h].cur.status = "approved"
    BY DEF Answer, HasDecided, SInv, Fresh, NothingRead, Allows, Grants
  <2>2. QED
    BY <2>1 DEF SInv, DenialsClosed
<1>2. QED
  BY <1>1, Serial, PTL DEF DenialStands

(* One request at a time, an approved row is left alone until its window   *)
(* has lapsed.                                                             *)
THEOREM ApprovalsHold == SerialSpec => ApprovalHoldsUntilLapse
<1> DEFINE A == \A id \in Ids :
                  table[id] # NoRow /\ table[id].status = "approved" /\ table'[id] # table[id]
                    => Overdue(table[id], now)
<1>1. IInv /\ SInv /\ [SerialNext]_vars => A
  <2> SUFFICES ASSUME IInv, SInv, [SerialNext]_vars, NEW id \in Ids, table[id] # NoRow,
                      table[id].status = "approved", table'[id] # table[id]
               PROVE  Overdue(table[id], now)
    OBVIOUS
  <2>1. PICK h \in Handlers : Commit(h)
    BY TableWriters
  <2>2. tx[h].id = id /\ tx[h] \in Txs
    BY <2>1, SerialCommit
  <2>3. Vacant(table[id], tx[h].ts)
    BY <2>1, <2>2, SerialCommit DEF MaySignOff, MayDeny, MayExpire
  <2>4. Overdue(table[id], tx[h].ts)
    BY <2>3 DEF Vacant, Grants, IsFullyApproved
  <2>5. tx[h].ts <= now /\ tx[h].ts \in Int /\ now \in Int
    BY <2>1, <2>2, MaxTimeIsNat DEF IInv, StampsPast, TypeOK, Txs, Commit
  <2>6. table[id] \in Rows
    BY DEF IInv, TypeOK
  <2>7. QED
    BY <2>4, <2>5, <2>6 DEF Overdue, Rows
<1>2. QED
  BY <1>1, Serial, PTL DEF SerialSpec, ApprovalHoldsUntilLapse

-----------------------------------------------------------------------------
(* Refinement: the serial store implements ApprovalPromise. *)

(* Storing in a function what it already holds leaves it as it is.          *)
LEMMA StoreSame ==
  ASSUME NEW S, NEW f, f = [x \in S |-> f[x]], NEW i \in S
  PROVE  [f EXCEPT ![i] = f[i]] = f
OBVIOUS

(* A step of one row is a step of the promise.                             *)
LEMMA PromiseCommit ==
  ASSUME IInv, SInv, NEW h \in Handlers, Commit(h)
  PROVE  [Promise!Next]_(Promise!vars)
<1> DEFINE t == tx[h]
           i == t.id
           row == table[i]
<1>0. /\ t \in Txs /\ i \in Ids /\ t.who \in Approvers /\ t.ts \in Int
      /\ row \in Rows \cup {NoRow} /\ granted' = granted
      /\ \A id \in Ids \ {i} : table'[id] = table[id]
  BY SerialCommit DEF Txs, IInv, TypeOK, Commit
<1>1. ASSUME UNCHANGED table PROVE UNCHANGED Promise!vars
  BY <1>0, <1>1 DEF Promise!vars, AbsStatus, AbsNeed, AbsSigners
<1>2. ASSUME NEW new \in Rows, table'[i] = new
      PROVE  /\ AbsStatus' = [AbsStatus EXCEPT ![i] = new.status]
             /\ AbsNeed' = [AbsNeed EXCEPT ![i] = [named |-> new.named, min |-> new.min]]
             /\ AbsSigners' = [AbsSigners EXCEPT ![i] = new.by]
  <2>1. table'[i] # NoRow
    BY <1>2, NoRowIsNoRow
  <2>2. AbsStatus' = [AbsStatus EXCEPT ![i] = new.status]
    BY <1>0, <1>2, <2>1 DEF AbsStatus
  <2>3. AbsNeed' = [AbsNeed EXCEPT ![i] = [named |-> new.named, min |-> new.min]]
    BY <1>0, <1>2, <2>1 DEF AbsNeed
  <2>4. AbsSigners' = [AbsSigners EXCEPT ![i] = new.by]
    BY <1>0, <1>2, <2>1 DEF AbsSigners
  <2>5. QED
    BY <2>2, <2>3, <2>4
<1>3. ASSUME row # NoRow, MaySignOff(row, t.who, t.ts),
             table'[i] = SignedOff(row, t.who, t.ts)
      PROVE  Promise!Sign(i, t.who)
  <2> DEFINE new == SignedOff(row, t.who, t.ts)
             by == row.by \cup {t.who}
             n == [named |-> row.named, min |-> row.min]
  <2>1. row \in Rows /\ new \in Rows /\ new.by = by /\ new.named = row.named /\ new.min = row.min
    BY <1>0, <1>3, SignedOffType, SignersOf
  <2>2. new.status = IF Promise!Enough(n, by) THEN "approved" ELSE "pending"
    <3> DEFINE next == [row EXCEPT !.by = @ \cup {t.who}]
    <3>1. /\ next.status = "pending" /\ next.named = row.named /\ next.min = row.min
          /\ next.by = by /\ next.expires = row.expires
      BY <1>3, <2>1 DEF MaySignOff, Rows
    <3>2. ~Overdue(next, t.ts)
      BY <1>3, <3>1 DEF MaySignOff, Overdue
    <3>3. IsFullyApproved(next, t.ts) <=> Promise!Enough(n, by)
      <4>1. n.named = row.named /\ n.min = row.min
        OBVIOUS
      <4> HIDE DEF n, next, by
      <4>2. Satisfied(next) <=> Promise!Enough(n, by)
        <5>1. Promise!Cardinality(by) = Cardinality(by)
          BY DEF Cardinality, Promise!Cardinality
        <5>2. QED
          BY <3>1, <4>1, <5>1 DEF Satisfied, Promise!Enough
      <4>3. QED
        BY <3>1, <3>2, <4>2 DEF IsFullyApproved
    <3>4. new = IF IsFullyApproved(next, t.ts) THEN [next EXCEPT !.status = "approved"] ELSE next
      BY DEF SignedOff
    <3>5. [next EXCEPT !.status = "approved"].status = "approved"
      BY <2>1 DEF Rows
    <3> HIDE DEF new, next, by, n
    <3>6. QED
      BY <3>1, <3>3, <3>4, <3>5
  <2>3. /\ AbsStatus[i] = "pending" /\ AbsSigners[i] = row.by /\ AbsNeed[i] = n
    BY <1>0, <1>3 DEF AbsStatus, AbsSigners, AbsNeed, MaySignOff
  <2>4. AbsNeed' = AbsNeed
    <3>1. AbsNeed' = [AbsNeed EXCEPT ![i] = AbsNeed[i]]
      BY <1>2, <1>3, <2>1, <2>3
    <3>2. AbsNeed = [id \in Ids |-> AbsNeed[id]]
      BY DEF AbsNeed
    <3>3. QED
      BY <1>0, <3>1, <3>2, StoreSame
  <2>5. row.named = {} \/ t.who \in row.named
    BY <1>3 DEF MaySignOff
  <2>6. t.who \notin row.by
    BY <1>3 DEF MaySignOff
  <2>7. QED
    BY <1>0, <1>2, <1>3, <2>1, <2>2, <2>3, <2>4, <2>5, <2>6
    DEF Promise!Sign
<1>4. ASSUME NEW outcome \in {"denied", "expired"}, NEW new \in Rows, row # NoRow,
             row.status = "pending", table'[i] = new, new.status = outcome,
             new.by = row.by, new.named = row.named, new.min = row.min
      PROVE  Promise!Close(i, outcome)
  <2>1. AbsStatus[i] = "pending"
    BY <1>0, <1>4 DEF AbsStatus
  <2>2. AbsNeed' = AbsNeed /\ AbsSigners' = AbsSigners
    <3>1. /\ AbsNeed[i] = [named |-> row.named, min |-> row.min]
          /\ AbsSigners[i] = row.by
      BY <1>0, <1>4 DEF AbsNeed, AbsSigners
    <3>2. /\ AbsNeed' = [AbsNeed EXCEPT ![i] = AbsNeed[i]]
          /\ AbsSigners' = [AbsSigners EXCEPT ![i] = AbsSigners[i]]
      BY <1>2, <1>4, <3>1
    <3>3. /\ AbsNeed = [id \in Ids |-> AbsNeed[id]]
          /\ AbsSigners = [id \in Ids |-> AbsSigners[id]]
      BY DEF AbsNeed, AbsSigners
    <3>4. QED
      BY <1>0, <3>2, <3>3, StoreSame
  <2>3. AbsStatus' = [AbsStatus EXCEPT ![i] = outcome]
    BY <1>2, <1>4
  <2>4. QED
    BY <1>0, <2>1, <2>2, <2>3 DEF Promise!Close
<1>5. ASSUME Vacant(row, t.ts), NEW need \in Needs, NEW e \in Int \cup {NoExpiry},
             table'[i] = NewRow(need, e)
      PROVE  Promise!Open(i, need)
  <2>1. NewRow(need, e) \in Rows /\ need \in Requirements
    BY NewRowType, NeedsAreRequirements
  <2>2. /\ NewRow(need, e).status = "pending" /\ NewRow(need, e).by = {}
        /\ [named |-> NewRow(need, e).named, min |-> NewRow(need, e).min] = need
    BY <2>1 DEF NewRow, Requirements
  <2>3. AbsStatus[i] \in {"none", "approved"}
    BY <1>0, <1>5 DEF AbsStatus, Vacant
  <2>4. QED
    BY <1>0, <1>2, <1>5, <2>1, <2>2, <2>3 DEF Promise!Open
<1>6. CASE row # NoRow /\ MayDeny(row) /\ table'[i] = Denied(row)
  <2>1. Promise!Close(i, "denied")
    BY <1>0, <1>4, <1>6, ClosedType, SignersOf DEF MayDeny
  <2>2. QED
    BY <1>0, <2>1 DEF Promise!Next
<1>7. CASE row # NoRow /\ MayExpire(row, t.ts) /\ table'[i] = Expired(row)
  <2>1. Promise!Close(i, "expired")
    BY <1>0, <1>4, <1>7, ClosedType, SignersOf DEF MayExpire
  <2>2. QED
    BY <1>0, <2>1 DEF Promise!Next
<1>8. CASE /\ Vacant(row, t.ts)
           /\ \E need \in Needs, e \in Int \cup {NoExpiry} : table'[i] = NewRow(need, e)
  BY <1>0, <1>5, <1>8 DEF Promise!Next
<1>9. CASE row # NoRow /\ MaySignOff(row, t.who, t.ts) /\ table'[i] = SignedOff(row, t.who, t.ts)
  <2>1. Promise!Sign(i, t.who)
    BY <1>3, <1>9
  <2>2. QED
    BY <1>0, <2>1 DEF Promise!Next
<1>10. QED
  BY <1>1, <1>6, <1>7, <1>8, <1>9, SerialCommit

(* Every serial run of the table keeps the abstract promise of an approval *)
(* store: every step is a step of ApprovalPromise or leaves it unchanged.  *)
THEOREM TableKeepsPromise == SerialSpec => KeepsPromise
<1>1. Init => Promise!Init
  BY DEF Init, Promise!Init, AbsStatus, AbsNeed, AbsSigners
<1>2. IInv /\ SInv /\ [SerialNext]_vars => [Promise!Next]_(Promise!vars)
  <2> SUFFICES ASSUME IInv, SInv, [SerialNext]_vars PROVE [Promise!Next]_(Promise!vars)
    OBVIOUS
  <2>1. ASSUME NEW h \in Handlers, Commit(h) PROVE [Promise!Next]_(Promise!vars)
    BY <2>1, PromiseCommit
  <2>2. CASE UNCHANGED <<table, granted>>
    BY <2>2 DEF Promise!vars, AbsStatus, AbsNeed, AbsSigners
  <2>3. ASSUME NEW h \in Handlers, Answer(h) PROVE [Promise!Next]_(Promise!vars)
    <3>1. UNCHANGED table
      BY <2>3 DEF Answer
    <3>2. CASE ~Allows(tx[h])
      BY <2>2, <2>3, <3>1, <3>2 DEF Answer
    <3>3. CASE Allows(tx[h])
      <4>1. tx[h].id \in Ids
        BY <2>3, BusyTx DEF Answer, IInv, Txs
      <4>2. table[tx[h].id] # NoRow /\ table[tx[h].id].status = "approved"
        BY <2>3, <3>3 DEF Answer, Allows, Grants, SInv, Fresh, NothingRead, HasDecided
      <4>3. granted' = granted \cup {tx[h].id}
        BY <2>3, <3>3 DEF Answer
      <4>4. Promise!Grant(tx[h].id)
        BY <3>1, <4>1, <4>2, <4>3 DEF Promise!Grant, AbsStatus, AbsNeed, AbsSigners
      <4>5. QED
        BY <4>1, <4>4 DEF Promise!Next
    <3>4. QED
      BY <3>2, <3>3
  <2>4. ASSUME NEW h \in Handlers,
               Arrive(h) \/ ReadApprove(h) \/ ReadDeny(h) \/ ReadGateway(h) \/ ReadSettled(h)
               \/ ReadExpire(h) \/ WriteRow(h) \/ WriteConflict(h) \/ AuditClash(h)
        PROVE  UNCHANGED <<table, granted>>
    BY <2>4 DEF Arrive, Begin, ReadApprove, ReadDeny, ReadGateway, ReadSettled, ReadExpire,
                WriteRow, WriteConflict, AuditClash
  <2>5. CASE Tick \/ Crash \/ UNCHANGED vars
    BY <2>2, <2>5 DEF Tick, Crash, vars
  <2>6. QED
    BY <2>1, <2>2, <2>3, <2>4, <2>5 DEF SerialNext, Progress
<1>3. QED
  BY <1>1, <1>2, Serial, PTL DEF SerialSpec, KeepsPromise, Promise!Spec

-----------------------------------------------------------------------------
(* The gateway on top of the approvals is still the approvals. *)

(* Seen from the approvals, a step of the gateway is one of their own or   *)
(* none.                                                                   *)
LEMMA StepBelow == [GatewayNext]_gVars => [Next]_vars
<1> SUFFICES ASSUME [GatewayNext]_gVars PROVE [Next]_vars
  OBVIOUS
<1>1. ASSUME NEW h \in Handlers, Approvals(h) PROVE Next
  BY <1>1 DEF Approvals, Next, Progress
<1>2. ASSUME NEW h \in Handlers, Settle(h) PROVE Next
  BY <1>2 DEF Settle, Next, Progress
<1>3. ASSUME NEW h \in Handlers, CallConnector(h) PROVE UNCHANGED vars
  BY <1>3 DEF CallConnector
<1>4. ASSUME NEW h \in Handlers, Record(h) PROVE Next
  BY <1>4 DEF Record, Next, Progress
<1>5. ASSUME NEW h \in Handlers, RollBack(h) PROVE Next
  BY <1>5 DEF RollBack, Next
<1>6. CASE StopServer
  BY <1>6 DEF StopServer, Next
<1>7. CASE Tick /\ UNCHANGED gwVars
  BY <1>7 DEF Next
<1>8. CASE UNCHANGED gVars
  BY <1>8 DEF gVars, vars
<1>9. QED
  BY <1>1, <1>2, <1>3, <1>4, <1>5, <1>6, <1>7, <1>8 DEF GatewayNext, Serve

(* The executions, their connectors and their responses add nothing to     *)
(* what the requests do to the approvals: every run of the gateway is a    *)
(* run of ApprovalTable, and what is proved of that one holds of it.       *)
THEOREM GatewayRunsApprovals == GatewaySpec => Spec
<1>1. GatewayInit => Init
  BY DEF GatewayInit
<1>2. QED
  BY <1>1, StepBelow, PTL DEF GatewaySpec, Spec

(* The invariant of the approvals holds of the gateway.                    *)
LEMMA SafetyBelow == GatewaySpec => []IInv
BY GatewayRunsApprovals, Safety, PTL

-----------------------------------------------------------------------------
(***************************************************************************)
(* The inductive invariant.  A request has at most one execution in flight *)
(* and none once it is stored, because Begin finds the primary key free    *)
(* and the insert holds it; so the effect an open transaction has had is   *)
(* the only one that neither a response nor a rollback accounts for.       *)
(***************************************************************************)

Running(h) == InFlight(h) /\ tx[h].op = "execute"

Cleared(h) ==
  \/ job[h].verdict = "allowed"
  \/ job[h].verdict = "open" /\ tx[h].cur # NoRow /\ Grants(tx[h].cur, tx[h].ts)

JobOK(h) ==
  /\ job[h] # NoJob => tx[h].pc \in {"ready", "answered"} /\ tx[h].op \in Gateway
  /\ job[h].phase = "acted" => tx[h].op = "execute" /\ Cleared(h)

JobsOK == \A h \in Handlers : JobOK(h)

RunsOnce ==
  \A g, h \in Handlers : Running(g) /\ Running(h) /\ tx[g].id = tx[h].id => g = h

KeysHeld == \A h \in Handlers : Running(h) => tx[h].id \notin executed

StoredTogether == \A id \in Ids : responses[id] # NoResponse <=> id \in executed

GInv ==
  /\ GatewayTypeOK
  /\ JobsOK
  /\ RunsOnce
  /\ KeysHeld
  /\ StoredTogether
  /\ ActsAccountedFor

(* GInv holds initially.                                                   *)
LEMMA GInit == GatewayInit => GInv
<1> SUFFICES ASSUME GatewayInit PROVE GInv
  OBVIOUS
<1>1. \A h \in Handlers : job[h] = NoJob /\ tx[h] = Idle
  BY DEF GatewayInit, Init
<1>2. JobsOK /\ RunsOnce /\ KeysHeld
  BY <1>1 DEF JobsOK, JobOK, RunsOnce, KeysHeld, Running, InFlight, NoJob, Idle
<1>3. GatewayTypeOK
  BY DEF GatewayInit, GatewayTypeOK, Jobs, Phases, NoJob
<1>4. StoredTogether /\ ActsAccountedFor
  BY <1>1 DEF GatewayInit, Init, StoredTogether, ActsAccountedFor, Unrecorded, NoJob
<1>5. QED
  BY <1>2, <1>3, <1>4 DEF GInv

(* A step of a request that began ends it or leaves it the same request.   *)
LEMMA SameRequest ==
  ASSUME IInv, NEW h \in Handlers, Progress(h), ~Commit(h)
  PROVE  /\ tx[h] \in Txs
         /\ \/ tx'[h] = Idle
            \/ tx'[h].id = tx[h].id /\ tx'[h].op = tx[h].op
<1>1. tx \in [Handlers -> Txs \cup {Idle}] /\ tx[h] \in Txs
  BY BusyTx DEF IInv, TypeOK, Progress, ReadApprove, ReadDeny, ReadGateway, ReadSettled,
                ReadExpire, WriteRow, WriteConflict, Answer
<1>2. CASE End(h)
  BY <1>1, <1>2 DEF End
<1>3. ASSUME NEW pc, NEW cur, NEW new, Decide(h, pc, cur, new)
      PROVE  tx'[h].id = tx[h].id /\ tx'[h].op = tx[h].op
  <2>1. tx'[h] = [tx[h] EXCEPT !.pc = pc, !.cur = cur, !.new = new]
    BY <1>1, <1>3 DEF Decide
  <2>2. QED
    BY <1>1, <2>1 DEF Txs
<1>4. ASSUME NEW pc, tx' = [tx EXCEPT ![h].pc = pc]
      PROVE  tx'[h].id = tx[h].id /\ tx'[h].op = tx[h].op
  BY <1>1, <1>4 DEF Txs
<1>5. CASE ReadApprove(h) \/ ReadDeny(h) \/ ReadExpire(h)
  BY <1>1, <1>2, <1>3, <1>5 DEF ReadApprove, ReadDeny, ReadExpire
<1>6. CASE ReadGateway(h)
  BY <1>1, <1>3, <1>6 DEF ReadGateway
<1>7. CASE ReadSettled(h)
  BY <1>1, <1>3, <1>7 DEF ReadSettled
<1>8. CASE WriteRow(h) \/ Answer(h)
  BY <1>1, <1>4, <1>8 DEF WriteRow, Answer
<1>9. CASE WriteConflict(h)
  BY <1>1, <1>2, <1>9 DEF WriteConflict
<1>10. QED
  BY <1>5, <1>6, <1>7, <1>8, <1>9 DEF Progress

(* A step of h that leaves the gateway's own state alone keeps the         *)
(* invariant if an execution that has been decided goes on unchanged and a *)
(* new one finds its key free.                                             *)
LEMMA Undisturbed ==
  ASSUME GInv, UNCHANGED <<gwVars, executed>>, NEW h \in Handlers,
         \A g \in Handlers \ {h} : tx'[g] = tx[g],
         job[h] # NoJob => /\ tx'[h].id = tx[h].id /\ tx'[h].op = tx[h].op
                           /\ tx'[h].cur = tx[h].cur /\ tx'[h].ts = tx[h].ts
                           /\ tx'[h].pc \in {"ready", "answered"},
         Running(h)' => /\ tx'[h].id \notin executed
                        /\ \A g \in Handlers \ {h} : Running(g) => tx[g].id # tx'[h].id
  PROVE  GInv'
<1>1. GatewayTypeOK' /\ StoredTogether'
  BY DEF GInv, GatewayTypeOK, StoredTogether, gwVars
<1>2. \A g \in Handlers : job[g].phase = "acted" => job[g] # NoJob
  BY DEF NoJob
<1>3. JobsOK'
  <2> SUFFICES ASSUME NEW g \in Handlers PROVE JobOK(g)'
    BY DEF JobsOK
  <2>1. JobOK(g) /\ job'[g] = job[g]
    BY DEF GInv, JobsOK, gwVars
  <2>2. QED
    BY <1>2, <2>1 DEF JobOK, Cleared
<1>4. RunsOnce'
  BY DEF GInv, RunsOnce, Running, InFlight
<1>5. KeysHeld'
  BY DEF GInv, KeysHeld, Running, InFlight
<1>6. ASSUME NEW id \in Ids PROVE Unrecorded(id)' <=> Unrecorded(id)
  BY <1>2 DEF Unrecorded, gwVars
<1>7. ActsAccountedFor'
  BY <1>6 DEF GInv, ActsAccountedFor, gwVars
<1>8. QED
  BY <1>1, <1>3, <1>4, <1>5, <1>7 DEF GInv

(* The steps of the approvals disturb no execution.                        *)
LEMMA ApprovalsKeep ==
  ASSUME IInv, GInv, NEW h \in Handlers, Approvals(h)
  PROVE  GInv'
<1>0. UNCHANGED <<gwVars, executed>>
  BY DEF Approvals, Arrive, Begin, ReadApprove, ReadDeny, ReadGateway, ReadExpire, WriteRow,
         WriteConflict, Answer
<1>1. \A g \in Handlers \ {h} : tx'[g] = tx[g]
  BY OwnTx DEF Approvals, Progress
<1>2. JobOK(h) /\ tx \in [Handlers -> Txs \cup {Idle}]
  BY DEF GInv, JobsOK, IInv, TypeOK
<1>3. CASE Arrive(h)
  <2>1. PICK op \in Ops, id \in Ids, who \in Approvers : Begin(h, op, id, who)
    BY <1>3 DEF Arrive
  <2>2. job[h] = NoJob
    BY <1>2, <2>1 DEF Begin, InFlight, JobOK
  <2>3. tx'[h].op = op /\ tx'[h].id = id
    BY <1>2, <2>1 DEF Begin
  <2>4. Running(h)' => /\ id \notin executed
                       /\ \A g \in Handlers \ {h} : Running(g) => tx[g].id # id
    BY <2>1, <2>3 DEF Begin, FreshRequest, Running, InFlight
  <2>5. QED
    BY <1>0, <1>1, <2>2, <2>3, <2>4, Undisturbed
<1>4. ASSUME Progress(h), ~Commit(h),
             job[h] # NoJob => /\ tx'[h].cur = tx[h].cur /\ tx'[h].ts = tx[h].ts
                               /\ tx'[h].pc \in {"ready", "answered"}
      PROVE  GInv'
  <2>1. tx[h] \in Txs /\ (tx'[h] = Idle \/ (tx'[h].id = tx[h].id /\ tx'[h].op = tx[h].op))
    BY <1>4, SameRequest
  <2>2. InFlight(h)
    BY <2>1 DEF InFlight, Txs
  <2>3. Running(h)' => /\ tx'[h].id = tx[h].id /\ Running(h)
    BY <2>1, <2>2 DEF Running, InFlight, Idle
  <2>4. Running(h)' => /\ tx'[h].id \notin executed
                       /\ \A g \in Handlers \ {h} : Running(g) => tx[g].id # tx'[h].id
    BY <2>3 DEF GInv, KeysHeld, RunsOnce
  <2>5. job[h] # NoJob => tx'[h].id = tx[h].id /\ tx'[h].op = tx[h].op
    BY <1>4, <2>1 DEF Idle
  <2>6. QED
    BY <1>0, <1>1, <1>4, <2>4, <2>5, Undisturbed
<1>5. CASE Answer(h)
  <2>1. tx' = [tx EXCEPT ![h].pc = "answered"] /\ tx[h].pc = "ready"
    BY <1>5 DEF Answer
  <2>2. tx[h] \in Txs
    BY <2>1, BusyTx DEF IInv
  <2>3. tx'[h].cur = tx[h].cur /\ tx'[h].ts = tx[h].ts /\ tx'[h].pc = "answered"
    BY <1>2, <2>1, <2>2 DEF Txs
  <2>4. ~Commit(h) /\ Progress(h)
    BY <1>5, <2>1 DEF Commit, Progress
  <2>5. QED
    BY <1>4, <2>3, <2>4
<1>6. CASE ReadApprove(h) \/ ReadDeny(h) \/ ReadGateway(h) \/ ReadExpire(h)
           \/ WriteRow(h) \/ WriteConflict(h)
  <2>1. tx[h].pc \in {"begun", "restale", "writing"}
    BY <1>6 DEF ReadApprove, ReadDeny, ReadGateway, ReadExpire, WriteRow, WriteConflict
  <2>2. job[h] = NoJob
    BY <1>2, <2>1 DEF JobOK
  <2>3. ~Commit(h) /\ Progress(h)
    BY <1>6, <2>1 DEF Commit, Progress
  <2>4. QED
    BY <1>4, <2>2, <2>3
<1>7. QED
  BY <1>3, <1>5, <1>6 DEF Approvals

(* A settled request has called no connector yet.                          *)
LEMMA SettleKeeps ==
  ASSUME IInv, GInv, NEW h \in Handlers, Settle(h)
  PROVE  GInv'
<1>1. PICK verdict \in {"allowed", "denied"} : job' = [job EXCEPT ![h].verdict = verdict]
  BY DEF Settle
<1>2. /\ tx[h].pc = "begun" /\ tx[h].op \in Gateway /\ tx[h] \in Txs
      /\ tx' = [tx EXCEPT ![h] = [tx[h] EXCEPT !.pc = "ready", !.cur = NoRow, !.new = NoRow]]
      /\ UNCHANGED <<executed, acts, responses, lost>>
  BY BusyTx DEF Settle, ReadSettled, Decide, IInv
<1>3. /\ tx'[h].pc = "ready" /\ tx'[h].op = tx[h].op /\ tx'[h].id = tx[h].id
      /\ \A g \in Handlers \ {h} : tx'[g] = tx[g]
  BY <1>2 DEF IInv, TypeOK, Txs
<1>4. job[h] = NoJob
  BY <1>2 DEF GInv, JobsOK, JobOK
<1>5. /\ job' \in [Handlers -> Jobs] /\ job[h].phase = "none" /\ job'[h].phase = "none"
      /\ \A g \in Handlers \ {h} : job'[g] = job[g]
  BY <1>1, <1>4 DEF GInv, GatewayTypeOK, Jobs, Phases, NoJob
<1>6. GatewayTypeOK' /\ StoredTogether'
  BY <1>2, <1>5 DEF GInv, GatewayTypeOK, StoredTogether
<1>7. JobsOK'
  <2> SUFFICES ASSUME NEW g \in Handlers PROVE JobOK(g)'
    BY DEF JobsOK
  <2>1. CASE g = h
    BY <1>2, <1>3, <1>5, <2>1 DEF JobOK
  <2>2. CASE g # h
    BY <1>3, <1>5, <2>2 DEF GInv, JobsOK, JobOK, Cleared
  <2>3. QED
    BY <2>1, <2>2
<1>8. RunsOnce' /\ KeysHeld'
  BY <1>2, <1>3 DEF GInv, RunsOnce, KeysHeld, Running, InFlight
<1>9. \A id \in Ids : Unrecorded(id)' <=> Unrecorded(id)
  BY <1>3, <1>5 DEF Unrecorded
<1>10. ActsAccountedFor'
  BY <1>2, <1>9 DEF GInv, ActsAccountedFor
<1>11. QED
  BY <1>6, <1>7, <1>8, <1>10 DEF GInv

(* An effect of a connector is the first of its request that neither a     *)
(* response nor a rollback accounts for.                                   *)
LEMMA CallKeeps ==
  ASSUME IInv, GInv, NEW h \in Handlers, CallConnector(h)
  PROVE  GInv'
<1> DEFINE id == tx[h].id
<1>1. PICK phase \in {"quiet", "acted"} :
        /\ job' = [job EXCEPT ![h].phase = phase]
        /\ acts' = [acts EXCEPT ![id] = IF phase = "acted" THEN @ + 1 ELSE @]
  BY DEF CallConnector
<1>2. /\ tx[h].pc = "ready" /\ tx[h].op = "execute" /\ Decision(h) = "allowed"
      /\ job[h].phase = "none" /\ UNCHANGED <<tx, executed, responses, lost>>
  BY DEF CallConnector, vars
<1>3. tx[h] \in Txs /\ id \in Ids /\ Running(h)
  <2>1. tx[h] \in Txs
    BY <1>2, BusyTx DEF IInv
  <2>2. QED
    BY <1>2, <2>1 DEF Txs, Running, InFlight
<1>4. /\ job \in [Handlers -> Jobs] /\ job' \in [Handlers -> Jobs]
      /\ job'[h].phase = phase /\ job'[h].verdict = job[h].verdict
      /\ \A g \in Handlers \ {h} : job'[g] = job[g]
  BY <1>1 DEF GInv, GatewayTypeOK, Jobs, Phases
<1>5. /\ acts \in [Ids -> Nat] /\ acts' \in [Ids -> Nat] /\ lost \in [Ids -> Nat]
      /\ acts'[id] = (IF phase = "acted" THEN acts[id] + 1 ELSE acts[id])
      /\ \A i \in Ids \ {id} : acts'[i] = acts[i]
  BY <1>1, <1>3 DEF GInv, GatewayTypeOK
<1>6. Cleared(h)
  BY <1>2, <1>3 DEF Decision, Cleared, Allows, GInv, GatewayTypeOK, Jobs
<1>7. GatewayTypeOK' /\ StoredTogether' /\ RunsOnce' /\ KeysHeld'
  BY <1>2, <1>4, <1>5 DEF GInv, GatewayTypeOK, StoredTogether, RunsOnce, KeysHeld, Running, InFlight
<1>8. JobsOK'
  <2> SUFFICES ASSUME NEW g \in Handlers PROVE JobOK(g)'
    BY DEF JobsOK
  <2>1. CASE g = h
    BY <1>2, <1>4, <1>6, <2>1 DEF JobOK, Cleared, Gateway
  <2>2. CASE g # h
    BY <1>2, <1>4, <2>2 DEF GInv, JobsOK, JobOK, Cleared
  <2>3. QED
    BY <2>1, <2>2
<1>9. \A g \in Handlers \ {h} : tx[g].id = id => job[g].phase # "acted"
  BY <1>3 DEF GInv, JobsOK, JobOK, RunsOnce, Running, InFlight, NoJob
<1>10. ASSUME NEW i \in Ids, i = id
       PROVE  ~Unrecorded(i) /\ (Unrecorded(i)' <=> phase = "acted") /\ responses[i] = NoResponse
  BY <1>2, <1>3, <1>4, <1>9, <1>10 DEF Unrecorded, GInv, KeysHeld, StoredTogether
<1>11. \A i \in Ids \ {id} : Unrecorded(i)' <=> Unrecorded(i)
  BY <1>2, <1>4 DEF Unrecorded
<1>12. ActsAccountedFor'
  <2> SUFFICES ASSUME NEW i \in Ids
               PROVE  acts'[i] = lost[i] + (IF (responses[i] # NoResponse /\ responses[i].phase = "acted")
                                               \/ Unrecorded(i)' THEN 1 ELSE 0)
    BY <1>2 DEF ActsAccountedFor
  <2>1. acts[i] = lost[i] + (IF (responses[i] # NoResponse /\ responses[i].phase = "acted")
                                \/ Unrecorded(i) THEN 1 ELSE 0)
    BY DEF GInv, ActsAccountedFor
  <2>2. CASE i = id
    <3>1. acts[id] = lost[id] /\ lost[id] \in Nat
      BY <1>3, <1>5, <1>10, <2>1, <2>2
    <3>2. CASE phase = "acted"
      BY <1>5, <1>10, <2>2, <3>1, <3>2
    <3>3. CASE phase # "acted"
      BY <1>5, <1>10, <2>2, <3>1, <3>3
    <3>4. QED
      BY <3>2, <3>3
  <2>3. CASE i # id
    BY <1>5, <1>11, <2>1, <2>3
  <2>4. QED
    BY <2>2, <2>3
<1>13. QED
  BY <1>7, <1>8, <1>12 DEF GInv

(* A transaction that ends and leaves the table of requests as it was      *)
(* keeps what is said of the executions.                                   *)
LEMMA EndKeeps ==
  ASSUME IInv, GInv, NEW h \in Handlers, End(h), job' = [job EXCEPT ![h] = NoJob]
  PROVE  /\ tx' \in [Handlers -> Txs \cup {Idle}] /\ tx'[h] = Idle
         /\ job' \in [Handlers -> Jobs] /\ job'[h] = NoJob
         /\ \A g \in Handlers \ {h} : tx'[g] = tx[g] /\ job'[g] = job[g]
         /\ JobsOK' /\ RunsOnce'
<1>1. /\ tx' \in [Handlers -> Txs \cup {Idle}] /\ tx'[h] = Idle
      /\ job' \in [Handlers -> Jobs] /\ job'[h] = NoJob
      /\ \A g \in Handlers \ {h} : tx'[g] = tx[g] /\ job'[g] = job[g]
  BY DEF End, IInv, TypeOK, GInv, GatewayTypeOK, Jobs, Phases, NoJob
<1>2. JobsOK'
  <2> SUFFICES ASSUME NEW g \in Handlers PROVE JobOK(g)'
    BY DEF JobsOK
  <2>1. CASE g = h
    BY <1>1, <2>1 DEF JobOK, NoJob
  <2>2. CASE g # h
    BY <1>1, <2>2 DEF GInv, JobsOK, JobOK, Cleared
  <2>3. QED
    BY <2>1, <2>2
<1>3. RunsOnce'
  BY <1>1 DEF GInv, RunsOnce, Running, InFlight, Idle
<1>4. QED
  BY <1>1, <1>2, <1>3

(* The one open transaction that may have acted for its request.           *)
LEMMA OneActs ==
  ASSUME IInv, GInv, NEW h \in Handlers, tx[h].pc # "idle", NEW i \in Ids, i = tx[h].id,
         tx[h].op = "execute"
  PROVE  /\ Unrecorded(i) <=> job[h].phase = "acted"
         /\ \A g \in Handlers \ {h} : tx[g].id = i => job[g].phase # "acted"
<1>1. \A g \in Handlers \ {h} : tx[g].id = i => job[g].phase # "acted"
  BY DEF GInv, JobsOK, JobOK, RunsOnce, Running, InFlight, NoJob
<1>2. QED
  BY <1>1 DEF Unrecorded

(* The commit of an execution records its effect with its response.        *)
LEMMA RecordKeeps ==
  ASSUME IInv, GInv, NEW h \in Handlers, Record(h)
  PROVE  GInv'
<1> DEFINE id == tx[h].id
           response == [decision |-> Decision(h), phase |-> job[h].phase]
<1>1. /\ tx[h].pc = "answered" /\ End(h) /\ job' = [job EXCEPT ![h] = NoJob]
      /\ UNCHANGED <<acts, lost>>
      /\ executed' = IF tx[h].op = "execute" THEN executed \cup {id} ELSE executed
      /\ responses' = IF tx[h].op = "execute" THEN [responses EXCEPT ![id] = response]
                                              ELSE responses
  BY DEF Record, Commit
<1>2. tx[h] \in Txs /\ id \in Ids
  <2>1. tx[h] \in Txs
    BY <1>1, BusyTx DEF IInv
  <2>2. QED
    BY <2>1 DEF Txs
<1>3. /\ tx'[h] = Idle /\ job' \in [Handlers -> Jobs] /\ job'[h] = NoJob
      /\ \A g \in Handlers \ {h} : tx'[g] = tx[g] /\ job'[g] = job[g]
      /\ JobsOK' /\ RunsOnce'
  BY <1>1, EndKeeps
<1>4. response \in Responses
  BY DEF GInv, GatewayTypeOK, Jobs, Responses, Decision, Decisions
<1>5. /\ responses' \in [Ids -> Responses \cup {NoResponse}]
      /\ \A i \in Ids \ {id} : responses'[i] = responses[i]
      /\ tx[h].op = "execute" => responses'[id] = response
      /\ tx[h].op # "execute" => responses' = responses
  BY <1>1, <1>2, <1>4 DEF GInv, GatewayTypeOK
<1>6. GatewayTypeOK'
  BY <1>1, <1>3, <1>5 DEF GInv, GatewayTypeOK
<1>7. KeysHeld'
  <2> SUFFICES ASSUME NEW g \in Handlers, Running(g)' PROVE tx'[g].id \notin executed'
    BY DEF KeysHeld
  <2>1. g # h
    BY <1>3 DEF Running, InFlight, Idle
  <2>2. Running(g) /\ tx'[g].id = tx[g].id /\ tx[g].id \notin executed
    BY <1>3, <2>1 DEF Running, InFlight, GInv, KeysHeld
  <2>3. tx[h].op = "execute" => tx[g].id # id
    BY <1>1, <2>1, <2>2 DEF GInv, RunsOnce, Running, InFlight
  <2>4. QED
    BY <1>1, <2>2, <2>3
<1>8. StoredTogether'
  <2> SUFFICES ASSUME NEW i \in Ids PROVE responses'[i] # NoResponse <=> i \in executed'
    BY DEF StoredTogether
  <2>1. responses[i] # NoResponse <=> i \in executed
    BY DEF GInv, StoredTogether
  <2>2. QED
    BY <1>1, <1>4, <1>5, <2>1, NoResponseIsNone
<1>9. \A i \in Ids \ {id} : Unrecorded(i)' <=> Unrecorded(i)
  BY <1>3 DEF Unrecorded, NoJob, Idle
<1>10. ASSUME NEW i \in Ids, i = id, tx[h].op = "execute"
       PROVE  /\ responses[i] = NoResponse /\ responses'[i] # NoResponse
              /\ responses'[i].phase = "acted" <=> Unrecorded(i)
              /\ ~Unrecorded(i)'
  <2>1. /\ Unrecorded(i) <=> job[h].phase = "acted"
        /\ \A g \in Handlers \ {h} : tx[g].id = i => job[g].phase # "acted"
    BY <1>1, <1>10, OneActs
  <2>2. ~Unrecorded(i)'
    BY <1>3, <2>1 DEF Unrecorded, NoJob
  <2>3. responses[i] = NoResponse
    BY <1>1, <1>10 DEF GInv, KeysHeld, StoredTogether, Running, InFlight
  <2>4. responses'[i] = response
    BY <1>5, <1>10
  <2>5. QED
    BY <1>4, <2>1, <2>2, <2>3, <2>4, NoResponseIsNone
<1>11. ASSUME NEW i \in Ids, i = id, tx[h].op # "execute"
       PROVE  Unrecorded(i)' <=> Unrecorded(i)
  <2>1. job[h].phase # "acted"
    BY <1>11 DEF GInv, JobsOK, JobOK
  <2>2. QED
    BY <1>3, <2>1 DEF Unrecorded, NoJob
<1>12. ActsAccountedFor'
  <2> SUFFICES ASSUME NEW i \in Ids
               PROVE  acts[i] = lost[i] + (IF (responses'[i] # NoResponse /\ responses'[i].phase = "acted")
                                              \/ Unrecorded(i)' THEN 1 ELSE 0)
    BY <1>1 DEF ActsAccountedFor
  <2>1. acts[i] = lost[i] + (IF (responses[i] # NoResponse /\ responses[i].phase = "acted")
                                \/ Unrecorded(i) THEN 1 ELSE 0)
    BY DEF GInv, ActsAccountedFor
  <2>2. CASE i = id /\ tx[h].op = "execute"
    BY <1>10, <2>1, <2>2
  <2>3. CASE i = id /\ tx[h].op # "execute"
    BY <1>5, <1>11, <2>1, <2>3
  <2>4. CASE i # id
    BY <1>5, <1>9, <2>1, <2>4
  <2>5. QED
    BY <2>2, <2>3, <2>4
<1>13. QED
  BY <1>3, <1>6, <1>7, <1>8, <1>12 DEF GInv

(* A rollback after the connector phase counts its effect as lost.         *)
LEMMA RollBackKeeps ==
  ASSUME IInv, GInv, NEW h \in Handlers, RollBack(h)
  PROVE  GInv'
<1> DEFINE id == tx[h].id
<1>1. /\ tx[h].pc = "ready" /\ End(h) /\ job' = [job EXCEPT ![h] = NoJob]
      /\ UNCHANGED <<acts, responses, executed>>
      /\ lost' = [lost EXCEPT ![id] = IF job[h].phase = "acted" THEN @ + 1 ELSE @]
  BY DEF RollBack, AuditClash
<1>2. tx[h] \in Txs /\ id \in Ids
  <2>1. tx[h] \in Txs
    BY <1>1, BusyTx DEF IInv
  <2>2. QED
    BY <2>1 DEF Txs
<1>3. /\ tx'[h] = Idle /\ job' \in [Handlers -> Jobs] /\ job'[h] = NoJob
      /\ \A g \in Handlers \ {h} : tx'[g] = tx[g] /\ job'[g] = job[g]
      /\ JobsOK' /\ RunsOnce'
  BY <1>1, EndKeeps
<1>4. /\ lost \in [Ids -> Nat] /\ lost' \in [Ids -> Nat] /\ acts \in [Ids -> Nat]
      /\ lost'[id] = (IF job[h].phase = "acted" THEN lost[id] + 1 ELSE lost[id])
      /\ \A i \in Ids \ {id} : lost'[i] = lost[i]
  BY <1>1, <1>2 DEF GInv, GatewayTypeOK
<1>5. GatewayTypeOK' /\ StoredTogether'
  BY <1>1, <1>3, <1>4 DEF GInv, GatewayTypeOK, StoredTogether
<1>6. KeysHeld'
  BY <1>1, <1>3 DEF GInv, KeysHeld, Running, InFlight, Idle
<1>7. \A i \in Ids \ {id} : Unrecorded(i)' <=> Unrecorded(i)
  BY <1>3 DEF Unrecorded, NoJob, Idle
<1>8. ASSUME NEW i \in Ids, i = id, job[h].phase = "acted"
      PROVE  Unrecorded(i) /\ ~Unrecorded(i)' /\ responses[i] = NoResponse
  <2>1. tx[h].op = "execute"
    BY <1>8 DEF GInv, JobsOK, JobOK
  <2>2. \A g \in Handlers \ {h} : tx[g].id = i => job[g].phase # "acted"
    BY <1>1, <1>8, <2>1, OneActs
  <2>3. responses[i] = NoResponse
    BY <1>1, <1>8, <2>1 DEF GInv, KeysHeld, StoredTogether, Running, InFlight
  <2>4. QED
    BY <1>3, <1>8, <2>2, <2>3 DEF Unrecorded, NoJob
<1>9. ASSUME NEW i \in Ids, i = id, job[h].phase # "acted"
      PROVE  Unrecorded(i)' <=> Unrecorded(i)
  BY <1>3, <1>9 DEF Unrecorded, NoJob
<1>10. ActsAccountedFor'
  <2> SUFFICES ASSUME NEW i \in Ids
               PROVE  acts[i] = lost'[i] + (IF (responses[i] # NoResponse /\ responses[i].phase = "acted")
                                               \/ Unrecorded(i)' THEN 1 ELSE 0)
    BY <1>1 DEF ActsAccountedFor
  <2>1. acts[i] = lost[i] + (IF (responses[i] # NoResponse /\ responses[i].phase = "acted")
                                \/ Unrecorded(i) THEN 1 ELSE 0)
    BY DEF GInv, ActsAccountedFor
  <2>2. CASE i = id /\ job[h].phase = "acted"
    BY <1>2, <1>4, <1>8, <2>1, <2>2
  <2>3. CASE i = id /\ job[h].phase # "acted"
    BY <1>4, <1>9, <2>1, <2>3
  <2>4. CASE i # id
    BY <1>4, <1>7, <2>1, <2>4
  <2>5. QED
    BY <2>2, <2>3, <2>4
<1>11. QED
  BY <1>3, <1>5, <1>6, <1>10 DEF GInv

(* So does a stop of the server, for every open transaction at once.       *)
LEMMA StopKeeps ==
  ASSUME IInv, GInv, StopServer
  PROVE  GInv'
<1>1. /\ \A h \in Handlers : tx'[h] = Idle /\ job'[h] = NoJob
      /\ job' = [h \in Handlers |-> NoJob]
      /\ lost' = [i \in Ids |-> IF Unrecorded(i) THEN lost[i] + 1 ELSE lost[i]]
      /\ UNCHANGED <<acts, responses, executed>>
  BY DEF StopServer, Crash
<1>2. JobsOK' /\ RunsOnce' /\ KeysHeld'
  BY <1>1 DEF JobsOK, JobOK, RunsOnce, KeysHeld, Running, InFlight, NoJob, Idle
<1>3. GatewayTypeOK' /\ StoredTogether'
  BY <1>1 DEF GInv, GatewayTypeOK, StoredTogether, Jobs, Phases, NoJob
<1>4. \A i \in Ids : ~Unrecorded(i)'
  BY <1>1 DEF Unrecorded, NoJob
<1>5. ASSUME NEW i \in Ids, Unrecorded(i) PROVE responses[i] = NoResponse
  <2>1. PICK h \in Handlers : tx[h].id = i /\ job[h].phase = "acted"
    BY <1>5 DEF Unrecorded
  <2>2. QED
    BY <2>1 DEF GInv, JobsOK, JobOK, NoJob, KeysHeld, StoredTogether, Running, InFlight
<1>6. ActsAccountedFor'
  <2> SUFFICES ASSUME NEW i \in Ids
               PROVE  acts[i] = lost'[i] + (IF responses[i] # NoResponse /\ responses[i].phase = "acted"
                                              THEN 1 ELSE 0)
    BY <1>1, <1>4 DEF ActsAccountedFor
  <2>1. /\ acts[i] = lost[i] + (IF (responses[i] # NoResponse /\ responses[i].phase = "acted")
                                   \/ Unrecorded(i) THEN 1 ELSE 0)
        /\ lost[i] \in Nat /\ acts[i] \in Nat
    BY DEF GInv, ActsAccountedFor, GatewayTypeOK
  <2>2. CASE Unrecorded(i)
    BY <1>1, <1>5, <2>1, <2>2
  <2>3. CASE ~Unrecorded(i)
    BY <1>1, <2>1, <2>3
  <2>4. QED
    BY <2>2, <2>3
<1>7. QED
  BY <1>2, <1>3, <1>6 DEF GInv

(* Every step of the gateway keeps the invariant.                          *)
LEMMA GStep == IInv /\ GInv /\ [GatewayNext]_gVars => GInv'
<1> SUFFICES ASSUME IInv, GInv, [GatewayNext]_gVars PROVE GInv'
  OBVIOUS
<1>1. CASE UNCHANGED <<tx, executed, gwVars>>
  <2>1. JobsOK' /\ RunsOnce' /\ KeysHeld' /\ StoredTogether' /\ GatewayTypeOK'
    BY <1>1 DEF gwVars, GInv, JobsOK, JobOK, Cleared, RunsOnce, KeysHeld, StoredTogether,
                GatewayTypeOK, Running, InFlight
  <2>2. \A i \in Ids : Unrecorded(i)' <=> Unrecorded(i)
    BY <1>1 DEF gwVars, Unrecorded
  <2>3. ActsAccountedFor'
    BY <1>1, <2>2 DEF gwVars, GInv, ActsAccountedFor
  <2>4. QED
    BY <2>1, <2>3 DEF GInv
<1>2. CASE Tick /\ UNCHANGED gwVars
  BY <1>1, <1>2 DEF Tick
<1>3. CASE StopServer
  BY <1>3, StopKeeps
<1>4. ASSUME NEW h \in Handlers, Serve(h) \/ RollBack(h) PROVE GInv'
  BY <1>4, ApprovalsKeep, SettleKeeps, CallKeeps, RecordKeeps, RollBackKeeps DEF Serve
<1>5. CASE UNCHANGED gVars
  BY <1>1, <1>5 DEF gVars, vars
<1>6. QED
  BY <1>2, <1>3, <1>4, <1>5 DEF GatewayNext

LEMMA GatewaySafety == GatewaySpec => [](IInv /\ GInv)
<1>1. GatewayInit => IInv
  BY SafetyInit DEF GatewayInit
<1>2. IInv /\ [GatewayNext]_gVars => IInv'
  BY StepBelow, SafetyStep
<1>3. QED
  BY <1>1, <1>2, GInit, GStep, PTL DEF GatewaySpec

-----------------------------------------------------------------------------
(* What the gateway promises. *)

(* The jobs, the effects and the stored responses keep their types.        *)
THEOREM GatewayTypeCorrect == GatewaySpec => []GatewayTypeOK
<1>1. GInv => GatewayTypeOK
  BY DEF GInv
<1>2. QED
  BY <1>1, GatewaySafety, PTL

(* However requests, rollbacks and stops of the server interleave, every   *)
(* effect of a connector has its response, its open transaction or its     *)
(* rollback, and no request acts twice without a rollback in between.      *)
THEOREM ActsAreAccountedFor == GatewaySpec => []ActsAccountedFor
<1>1. GInv => ActsAccountedFor
  BY DEF GInv
<1>2. QED
  BY <1>1, GatewaySafety, PTL

(* A connector acts only where the registry and the policies allow it or   *)
(* an approval with its whole quorum stood open when it was read.          *)
THEOREM ActsAreCleared == GatewaySpec => []OnlyClearedAct
<1>1. IInv /\ GInv => OnlyClearedAct
  <2> SUFFICES ASSUME IInv, GInv, NEW h \in Handlers, job[h].phase = "acted",
                      job[h].verdict # "allowed"
               PROVE  /\ job[h].verdict = "open" /\ tx[h].cur # NoRow
                      /\ tx[h].cur.status = "approved" /\ Satisfied(tx[h].cur)
                      /\ ~Overdue(tx[h].cur, tx[h].ts)
    BY DEF OnlyClearedAct
  <2>1. /\ job[h].verdict = "open" /\ tx[h].cur # NoRow
        /\ Grants(tx[h].cur, tx[h].ts)
    BY DEF GInv, JobsOK, JobOK, Cleared
  <2>2. RowSound(tx[h].cur)
    BY <2>1 DEF IInv, ReadsSound
  <2>3. QED
    BY <2>1, <2>2 DEF Grants, IsFullyApproved, RowSound
<1>2. QED
  BY <1>1, GatewaySafety, PTL

(* Only an answered request is recorded.                                   *)
LEMMA RecordsAnswered ==
  ASSUME NEW h \in Handlers, Record(h)
  PROVE  tx[h].pc = "answered"
BY DEF Record, Commit

(* A stored response is never replaced and its request never acts again:   *)
(* the primary key of execution_requests is taken for good.                *)
THEOREM RecordedStays == GatewaySpec => RecordedIsFinal
<1> DEFINE A == \A id \in Ids : responses[id] # NoResponse =>
                  responses'[id] = responses[id] /\ acts'[id] = acts[id]
<1>1. IInv /\ GInv /\ [GatewayNext]_gVars => [A]_gVars
  <2> SUFFICES ASSUME IInv, GInv, GatewayNext, NEW id \in Ids, responses[id] # NoResponse
               PROVE  responses'[id] = responses[id] /\ acts'[id] = acts[id]
    BY DEF gVars
  <2>1. id \in executed
    BY DEF GInv, StoredTogether
  <2>2. ASSUME NEW h \in Handlers, tx[h].pc # "idle", tx[h].op = "execute"
        PROVE  tx[h].id # id
    BY <2>1, <2>2 DEF GInv, KeysHeld, Running, InFlight
  <2>3. ASSUME NEW h \in Handlers, CallConnector(h)
        PROVE  responses'[id] = responses[id] /\ acts'[id] = acts[id]
    <3>1. tx[h].id # id
      BY <2>2, <2>3 DEF CallConnector
    <3>2. QED
      BY <2>3, <3>1 DEF CallConnector, GInv, GatewayTypeOK
  <2>4. ASSUME NEW h \in Handlers, Record(h)
        PROVE  responses'[id] = responses[id] /\ acts'[id] = acts[id]
    <3>1. tx[h].op = "execute" => tx[h].id # id
      BY <2>2, <2>4, RecordsAnswered
    <3>2. QED
      BY <2>4, <3>1 DEF Record, GInv, GatewayTypeOK
  <2>5. QED
    BY <2>3, <2>4 DEF GatewayNext, Serve, Approvals, Settle, RollBack, StopServer, gwVars
<1>2. QED
  BY <1>1, GatewaySafety, PTL DEF GatewaySpec, RecordedIsFinal

-----------------------------------------------------------------------------
(* Requests come to an end. *)

(* Steps that a request in flight has left at most, its connector call     *)
(* included.                                                               *)
StepsLeft(pc, phase) ==
  CASE pc = "begun" -> 6
    [] pc = "restale" -> 5
    [] pc = "writing" -> 4
    [] pc = "ready" -> IF phase = "none" THEN 3 ELSE 2
    [] pc = "answered" -> 1
    [] pc = "idle" -> 0

Left(h) == StepsLeft(tx[h].pc, job[h].phase)

(* Where a step of its own takes the request of h.                         *)
LEMMA OwnStep ==
  ASSUME TypeOK, GatewayTypeOK, NEW h \in Handlers, InFlight(h), Serve(h)
  PROVE  \/ tx'[h].pc = "idle"
         \/ tx[h].pc = "begun" /\ tx'[h].pc \in {"restale", "writing", "ready"}
         \/ tx[h].pc = "restale" /\ tx'[h].pc = "writing"
         \/ tx[h].pc = "writing" /\ tx'[h].pc = "ready"
         \/ tx[h].pc = "ready" /\ tx'[h].pc = "answered"
         \/ /\ tx[h].pc = "ready" /\ tx'[h].pc = "ready"
            /\ job[h].phase = "none" /\ job'[h].phase # "none"
<1>1. tx \in [Handlers -> Txs \cup {Idle}] /\ tx[h] \in Txs
  BY BusyTx DEF TypeOK, InFlight
<1>2. ASSUME End(h) PROVE tx'[h].pc = "idle"
  BY <1>1, <1>2 DEF End, Idle
<1>3. ASSUME NEW pc, NEW cur, NEW new, Decide(h, pc, cur, new)
      PROVE  tx'[h].pc = pc
  <2>1. tx'[h] = [tx[h] EXCEPT !.pc = pc, !.cur = cur, !.new = new]
    BY <1>1, <1>3 DEF Decide
  <2> QED
    BY <1>1, <2>1 DEF Txs
<1>4. ASSUME NEW pc, tx' = [tx EXCEPT ![h].pc = pc] PROVE tx'[h].pc = pc
  BY <1>1, <1>4 DEF Txs
<1>5. CASE ReadApprove(h) \/ ReadDeny(h)
  BY <1>2, <1>3, <1>5 DEF ReadApprove, ReadDeny
<1>6. CASE ReadGateway(h)
  BY <1>3, <1>6 DEF ReadGateway
<1>7. CASE Settle(h)
  BY <1>3, <1>7 DEF Settle, ReadSettled
<1>8. CASE ReadExpire(h)
  BY <1>2, <1>3, <1>8 DEF ReadExpire
<1>9. CASE WriteRow(h) \/ Answer(h)
  BY <1>4, <1>9 DEF WriteRow, Answer
<1>10. CASE WriteConflict(h) \/ Record(h)
  BY <1>2, <1>10 DEF WriteConflict, Record, Commit
<1>11. CASE CallConnector(h)
  <2>1. tx' = tx /\ tx[h].pc = "ready" /\ job[h].phase = "none"
    BY <1>11 DEF CallConnector, vars
  <2>2. job'[h].phase # "none"
    BY <1>11 DEF CallConnector, GatewayTypeOK, Jobs
  <2> QED
    BY <2>1, <2>2
<1>12. ~Arrive(h)
  BY DEF Arrive, Begin
<1> QED
  BY <1>5, <1>6, <1>7, <1>8, <1>9, <1>10, <1>11, <1>12 DEF Serve, Approvals

(* What another thread does leaves the request where it was.               *)
LEMMA OthersStep ==
  ASSUME IInv, GatewayTypeOK, NEW h \in Handlers, NEW g \in Handlers, g # h,
         Serve(g) \/ RollBack(g)
  PROVE  tx'[h] = tx[h] /\ job'[h] = job[h]
<1>1. tx'[h] = tx[h]
  <2>1. CASE Arrive(g) \/ Progress(g) \/ AuditClash(g)
    BY <2>1, OwnTx
  <2>2. CASE CallConnector(g)
    BY <2>2 DEF CallConnector, vars
  <2> QED
    BY <2>1, <2>2 DEF Serve, Approvals, Settle, Record, RollBack, Progress
<1>2. job'[h] = job[h]
  BY DEF GatewayTypeOK, Serve, Approvals, Settle, CallConnector, Record, RollBack, gwVars
<1> QED
  BY <1>1, <1>2

(* Every step of its own brings a request nearer to its end, and nothing   *)
(* else, be it another request, the clock, a failed audit insert or the    *)
(* end of the server, ever takes it back: no request takes more than six   *)
(* steps, whatever races with it.                                          *)
THEOREM RequestsOnlyAdvance ==
  GatewaySpec => [][\A h \in Handlers : InFlight(h) =>
                      /\ Left(h)' <= Left(h)
                      /\ Serve(h) => Left(h)' < Left(h)]_gVars
<1> DEFINE Nearer(h) == Left(h)' <= Left(h) /\ (Serve(h) => Left(h)' < Left(h))
<1>1. ASSUME IInv, IInv', GInv, GInv', GatewayNext, NEW h \in Handlers, InFlight(h)
      PROVE  Nearer(h)
  <2>1. TypeOK /\ TypeOK' /\ GatewayTypeOK
    BY <1>1 DEF IInv, GInv
  <2>2. /\ tx[h].pc \in {"begun", "restale", "writing", "ready", "answered"}
        /\ tx'[h].pc \in {"idle", "begun", "restale", "writing", "ready", "answered"}
    BY <1>1, <2>1, BusyTx DEF TypeOK, Txs, Idle, InFlight
  <2>3. CASE Serve(h)
    <3>1. Left(h)' < Left(h)
      BY <1>1, <2>1, <2>2, <2>3, OwnStep DEF Left, StepsLeft
    <3>2. Left(h) \in Int /\ Left(h)' \in Int
      BY <2>2 DEF Left, StepsLeft
    <3> QED
      BY <3>1, <3>2
  <2>4. CASE ~Serve(h)
    <3>1. tx'[h].pc = "idle" \/ (tx'[h] = tx[h] /\ job'[h] = job[h])
      <4>1. CASE Tick /\ UNCHANGED gwVars
        BY <4>1 DEF Tick, gwVars
      <4>2. CASE StopServer
        BY <4>2 DEF StopServer, Crash, Idle
      <4>3. ASSUME NEW g \in Handlers, Serve(g) \/ RollBack(g), g # h
            PROVE  tx'[h] = tx[h] /\ job'[h] = job[h]
        BY <1>1, <2>1, <4>3, OthersStep
      <4>4. CASE RollBack(h)
        BY <2>1, <4>4 DEF RollBack, AuditClash, End, TypeOK, Idle
      <4> QED
        BY <1>1, <2>4, <4>1, <4>2, <4>3, <4>4 DEF GatewayNext
    <3>2. Left(h)' <= Left(h)
      BY <2>2, <3>1 DEF Left, StepsLeft
    <3> QED
      BY <2>4, <3>2
  <2> QED
    BY <2>3, <2>4
<1>2. IInv /\ IInv' /\ GInv /\ GInv' /\ [GatewayNext]_gVars =>
        [\A h \in Handlers : InFlight(h) =>
           /\ Left(h)' <= Left(h)
           /\ Serve(h) => Left(h)' < Left(h)]_gVars
  BY <1>1
<1> QED
  BY <1>2, GatewaySafety, PTL DEF GatewaySpec

=============================================================================
