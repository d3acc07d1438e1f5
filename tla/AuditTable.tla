----------------------------- MODULE AuditTable -----------------------------
(***************************************************************************)
(* The audit_events table, appended to by concurrent requests.             *)
(* append_audit_event reads every row it can see, links to the last one in *)
(* the order (created_at, event_id) and inserts a row; times are stored to *)
(* the second.  A request appends one event or more in one transaction and *)
(* commits after it has answered.                                          *)
(***************************************************************************)
EXTENDS AuditEvents, FiniteSets, SequencesExt

CONSTANTS Handlers,   \* request-handling threads
          EventIds,   \* event ids, in their order as primary keys
          TimeKinds,  \* kinds of time events carry
          MaxSec,     \* bound of the times events carry, in seconds
          MaxEvents   \* bound of the events one request appends

ASSUME IdsOrdered == EventIds \subseteq Nat
ASSUME TableBoundsOK == TimeKinds \subseteq Fractions /\ MaxSec \in Nat /\ MaxEvents \in Nat

VARIABLES table,    \* committed rows
          own,      \* per handler: rows inserted and not committed
          ts,       \* per handler: the time its events carry, or None
          crowded   \* ghost: some events did not come one by one, each in
                    \* a second of its own

tableVars == <<table, own, ts, crowded>>

IsRow(r) ==
  /\ r.id \in EventIds
  /\ r.stamp \in [sec : 0..MaxSec, frac : {"whole"}]

TableTypeOK ==
  /\ \A r \in table : IsRow(r)
  /\ DOMAIN own = Handlers /\ \A h \in Handlers : \A r \in own[h] : IsRow(r)
  /\ ts \in [Handlers -> [sec : 0..MaxSec, frac : TimeKinds] \cup {None}]
  /\ crowded \in BOOLEAN

-----------------------------------------------------------------------------

Before(r, s) == r.stamp.sec < s.stamp.sec \/ (r.stamp.sec = s.stamp.sec /\ r.id < s.id)

(* list_audit_events: ORDER BY created_at, event_id; the row at place i    *)
(* has i - 1 rows before it.                                               *)
ListAuditEvents(rows) ==
  [i \in 1..Cardinality(rows) |->
     CHOOSE r \in rows : Cardinality({s \in rows : Before(s, r)}) = i - 1]

(* What is inserted, as it will be read: the time loses its fraction.      *)
StoredRow(e) == [e EXCEPT !.stamp.frac = "whole"]

(* Mutant of Visible: rows of open transactions are read too.              *)
Visible_Dirty(h) == table \cup UNION {own[g] : g \in Handlers}

Visible(h) == table \cup own[h]

Taken(rows) == {r.id : r \in rows}

TableInit ==
  /\ table = {}
  /\ own = [h \in Handlers |-> {}]
  /\ ts = [h \in Handlers |-> None]
  /\ crowded = FALSE

(* A request begins.  The time of its events is the server's, or for the   *)
(* events posted to the audit route the one their sender wrote into them:  *)
(* any time.                                                               *)
Begin(h, s, f) ==
  /\ ts[h] = None
  /\ ts' = [ts EXCEPT ![h] = [sec |-> s, frac |-> f]]
  /\ UNCHANGED <<table, own, crowded>>

(* Some event is not strictly older than the one h appends, or is in an    *)
(* open transaction, or the one h appends is not on the full second.       *)
Crowds(h) ==
  \/ \E r \in Visible(h) : r.stamp.sec >= ts[h].sec
  \/ \E g \in Handlers \ {h} : own[g] # {}
  \/ ts[h].frac # "whole"

(* Mutant of AppendAuditEvent: the first row is taken for the tail.        *)
AppendAuditEvent_LinksToFirst(h, id) ==
  /\ ts[h] # None /\ Cardinality(own[h]) < MaxEvents
  /\ id \notin Taken(table) \cup UNION {Taken(own[g]) : g \in Handlers}
  /\ own' = [own EXCEPT ![h] = @ \cup
       {StoredRow(SealEvent(id, ts[h], TailHash(Reverse(ListAuditEvents(Visible(h))))))}]
  /\ crowded' = (crowded \/ Crowds(h))
  /\ UNCHANGED <<table, ts>>

(* append_audit_event with an id nobody holds.                             *)
AppendAuditEvent(h, id) ==
  /\ ts[h] # None /\ Cardinality(own[h]) < MaxEvents
  /\ id \notin Taken(table) \cup UNION {Taken(own[g]) : g \in Handlers}
  /\ own' = [own EXCEPT ![h] = @ \cup
       {StoredRow(SealEvent(id, ts[h], TailHash(ListAuditEvents(Visible(h)))))}]
  /\ crowded' = (crowded \/ Crowds(h))
  /\ UNCHANGED <<table, ts>>

Rollback(h) ==
  /\ own' = [own EXCEPT ![h] = {}]
  /\ ts' = [ts EXCEPT ![h] = None]
  /\ UNCHANGED <<table, crowded>>

(* append_audit_event with an id that is taken: the insert fails, at once  *)
(* or when the transaction that holds the id commits, and the request with *)
(* it.                                                                     *)
DuplicateId(h, id) ==
  /\ ts[h] # None /\ id \in Taken(Visible(h))
  /\ Rollback(h)

(* A request that fails for another reason, or a crash.                    *)
Fail(h) == own[h] # {} /\ Rollback(h)

Commit(h) ==
  /\ ts[h] # None
  /\ table' = table \cup own[h]
  /\ own' = [own EXCEPT ![h] = {}]
  /\ ts' = [ts EXCEPT ![h] = None]
  /\ UNCHANGED crowded

TableNext ==
  \E h \in Handlers :
    \/ \E s \in 0..MaxSec, f \in TimeKinds : Begin(h, s, f)
    \/ \E id \in EventIds : AppendAuditEvent(h, id) \/ DuplicateId(h, id)
    \/ Fail(h)
    \/ Commit(h)

TableSpec == TableInit /\ [][TableNext]_tableVars

-----------------------------------------------------------------------------

(* Whatever requests race and fail, the link of a committed event leads to *)
(* a committed event: nothing is linked to a row that was rolled back.     *)
LinksAreCommitted ==
  \A r \in table : r.prev = None \/ \E s \in table : s.hash = r.prev

(* Events that come one by one, each on a full second of its own, make a   *)
(* table that verifies.                                                    *)
PacedEventsVerify == ~crowded => VerifyEventChain(ListAuditEvents(table))

=============================================================================
