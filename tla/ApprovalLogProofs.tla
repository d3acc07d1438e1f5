------------------------- MODULE ApprovalLogProofs -------------------------
(***************************************************************************)
(* Proofs about ApprovalLog, for any processes, ids, requirements and      *)
(* bounds.                                                                 *)
(***************************************************************************)
EXTENDS ApprovalLog, WellFoundedInduction, TLAPS

-----------------------------------------------------------------------------
(* The last of a set of lines. *)

(* Max, which is a CHOOSE, of a set of line numbers.                       *)
LEMMA MaxOfLines ==
  ASSUME NEW n \in Nat, NEW S \in SUBSET (1..n), S # {}
  PROVE  /\ Max(S) \in S
         /\ \A x \in S : x <= Max(S)
<1> DEFINE T == {n - x : x \in S}
<1>1. T \subseteq Nat /\ T # {}
  OBVIOUS
<1>2. PICK t \in T : \A u \in T : ~ (u < t)
  <2> DEFINE R == {ss \in Nat \X Nat : ss[1] < ss[2]}
  <2>1. IsWellFoundedOn(R, Nat)
    BY NatLessThanWellFounded DEF OpToRel
  <2> HIDE DEF R, T
  <2>2. \E t \in T : \A u \in T : ~ (<<u, t>> \in R)
    BY <1>1, <2>1, WFMin
  <2> QED
    BY <1>1, <2>2 DEF R
<1>3. PICK x \in S : t = n - x
  OBVIOUS
<1>4. \A y \in S : x >= y
  <2> TAKE y \in S
  <2>1. n - y \in T
    OBVIOUS
  <2> QED
    BY <1>2, <1>3, <2>1
<1>5. \E m \in S : \A y \in S : m >= y
  BY <1>4
<1> QED
  BY <1>5 DEF Max

-----------------------------------------------------------------------------
(* The inductive invariant. What a process will write, or was cleared by,  *)
(* was decided from lines that may be old by now, so the invariant says of *)
(* the decision what the properties say of the file. The trail is not part *)
(* of it: see TrailOK.                                                     *)

LineSet == [id : Ids, row : Rows]
States == {Idle} \cup Writing \cup Expiring \cup Cleared \cup Auditing

(* Nobody is counted who was not asked for, and approval means a quorum.   *)
RowSound(row) ==
  /\ row.named # {} => row.by \subseteq row.named
  /\ row.status = "approved" => Satisfied(row)

(* What may be written after old by who has seen it.                       *)
Continues(old, new) == (Opening(new) /\ Vacant(old, now)) \/ Follows(old, new)

(* new continues the row of id among the first k lines, if there is one.   *)
ContinuesAt(k, id, new) ==
  \A n \in LinesOf(id) :
    n <= k /\ (\A m \in LinesOf(id) : m <= k => m <= n) => Continues(lines[n].row, new)

Window(row, ts) ==
  row.status = "approved" /\ Quorum(row) /\ (row.expires # NoExpiry => ts <= row.expires)

WriteSound(t) ==
  /\ RowSound(t.new)
  /\ t.op = "create" => Opening(t.new)
  /\ t.op # "create" => t.read <= Len(lines)
  /\ Readable =>
       /\ \/ Opening(t.new)
          \/ \E m \in DOMAIN lines : lines[m].id = t.id /\ Follows(lines[m].row, t.new)
       /\ t.op # "create" => ContinuesAt(t.read, t.id, t.new)

ProcOK(t) ==
  /\ t.pc = "writing" => WriteSound(t)
  /\ t.pc = "cleared" /\ t.row # NoRow => Window(t.row, t.ts)
  /\ t.pc = "auditing" => t.todo # <<>>

FileOK ==
  /\ lines \in Seq(LineSet \cup {Damaged})
  /\ ended \in BOOLEAN
  /\ ~ended => lines # <<>>
  /\ \A n \in DOMAIN lines : lines[n] # Damaged => RowSound(lines[n].row)

RestOK ==
  /\ intact \in BOOLEAN
  /\ audit \subseteq Events
  /\ acts \in Seq([row : Rows \cup {NoRow}, ts : Int])
  /\ now \in 0..MaxTime
  /\ cutShort \in BOOLEAN

IInv ==
  /\ FileOK
  /\ RestOK
  /\ ps \in [Procs -> States]
  /\ \A p \in Procs : ProcOK(ps[p])
  /\ HistoryIsLawful
  /\ ActsAreCleared

(* The invariant is well typed.                                            *)
LEMMA Typed == IInv => TypeOK
BY DEF IInv, TypeOK, FileOK, RestOK, ProcOK, States, LineSet

(* The pc of a process tells what it holds.                                *)
LEMMA StateKinds ==
  ASSUME NEW t \in States
  PROVE  /\ t.pc = "writing" => t \in Writing
         /\ t.pc = "expiring" => t \in Expiring
         /\ t.pc = "cleared" => t \in Cleared
         /\ t.pc = "auditing" => t \in Auditing
         /\ t.pc \in {"idle", "writing", "expiring", "cleared", "auditing"}
BY DEF States, Idle, Writing, Expiring, Cleared, Auditing

-----------------------------------------------------------------------------
(* Rows. *)

(* Of a sound row, the quorum of the properties and _quorum_met agree.     *)
LEMMA QuorumIsSatisfied ==
  ASSUME NEW row \in Rows, RowSound(row)
  PROVE  Quorum(row) <=> Satisfied(row)
BY DEF RowSound, Quorum, Satisfied, Rows

(* What approve_request stores follows from the row it was decided on.     *)
LEMMA SignOffFollows ==
  ASSUME NEW row \in Rows, RowSound(row), NEW who \in Approvers, NEW ts \in Int,
         MaySignOff(row, who, ts)
  PROVE  /\ SignedOff(row, who, ts) \in Rows
         /\ RowSound(SignedOff(row, who, ts))
         /\ Follows(row, SignedOff(row, who, ts))
<1> DEFINE next == [row EXCEPT !.by = @ \cup {who}]
           new == SignedOff(row, who, ts)
<1>1. /\ next \in Rows /\ next.by = row.by \cup {who}
      /\ next.named = row.named /\ next.min = row.min
      /\ next.expires = row.expires /\ next.status = "pending"
  BY DEF Rows, MaySignOff, Statuses
<1>2. ~Overdue(next, ts)
  BY <1>1 DEF MaySignOff, Overdue
<1>3. IsFullyApproved(next, ts) <=> Satisfied(next)
  BY <1>1, <1>2 DEF IsFullyApproved
<1>4. new = IF Satisfied(next) THEN [next EXCEPT !.status = "approved"] ELSE next
  BY <1>3 DEF SignedOff
<1>5. /\ new \in Rows /\ new.by = next.by /\ new.named = next.named
      /\ new.min = next.min /\ new.expires = next.expires
      /\ new.status = IF Satisfied(next) THEN "approved" ELSE "pending"
  <2> HIDE DEF next
  <2> QED
    BY <1>1, <1>4 DEF Rows, Statuses
<1>6. Satisfied(new) <=> Satisfied(next)
  BY <1>5 DEF Satisfied
<1>7. RowSound(new)
  <2>1. new.named # {} => new.by \subseteq new.named
    BY <1>1, <1>5 DEF RowSound, MaySignOff
  <2> QED
    BY <2>1, <1>5, <1>6 DEF RowSound
<1>8. Quorum(new) <=> Satisfied(next)
  BY <1>5, <1>6, <1>7, QuorumIsSatisfied
<1>9. Follows(row, new)
  <2>1. who \in Approvers \ row.by /\ row.status = "pending"
    BY DEF MaySignOff
  <2>2. new.by = row.by \cup {who} /\ (row.named # {} => who \in row.named)
    BY <1>1, <1>5 DEF MaySignOff
  <2>3. new.status = IF Quorum(new) THEN "approved" ELSE "pending"
    BY <1>5, <1>8
  <2>4. <<new.named, new.min, new.expires>> = <<row.named, row.min, row.expires>>
    BY <1>1, <1>5
  <2> HIDE DEF new
  <2> QED
    BY <2>1, <2>2, <2>3, <2>4 DEF Follows
<1> QED
  BY <1>5, <1>7, <1>9

(* So does what deny_request and expire_request store.                     *)
LEMMA CloseFollows ==
  ASSUME NEW row \in Rows, RowSound(row), row.status = "pending",
         NEW s \in {"denied", "expired"}
  PROVE  LET new == [row EXCEPT !.status = s]
         IN  new \in Rows /\ RowSound(new) /\ Follows(row, new)
<1> DEFINE new == [row EXCEPT !.status = s]
<1>1. /\ new \in Rows /\ new.by = row.by /\ new.named = row.named
      /\ new.min = row.min /\ new.expires = row.expires /\ new.status = s
  BY DEF Rows, Statuses
<1> HIDE DEF new
<1>2. RowSound(new)
  BY <1>1 DEF RowSound
<1>3. Follows(row, new)
  BY <1>1 DEF Follows
<1> QED
  BY <1>1, <1>2, <1>3 DEF new

(* What create_approval_request stores opens an approval.                  *)
LEMMA OpeningsAreSound ==
  ASSUME NEW row \in Openings
  PROVE  row \in Rows /\ RowSound(row) /\ Opening(row)
<1>1. PICK need \in Needs, e \in Expiries : row = NewRow(need, e)
  BY DEF Openings
<1>2. need \in Requirements /\ e \in Int \cup {NoExpiry}
  BY NeedsAreRequirements, ExpiriesAreTimes
<1> QED
  BY <1>1, <1>2 DEF NewRow, Rows, Statuses, Requirements, RowSound, Opening

(* A row that evaluate_for_execution accepts has quorum and open window.   *)
LEMMA GrantsOpenWindow ==
  ASSUME NEW row \in Rows, RowSound(row), NEW ts \in Int, Grants(row, ts)
  PROVE  Window(row, ts)
<1>1. Quorum(row)
  BY QuorumIsSatisfied DEF RowSound, Grants
<1>2. row.expires # NoExpiry => ts <= row.expires
  BY DEF Grants, IsFullyApproved, Overdue, Rows
<1> QED
  BY <1>1, <1>2 DEF Window, Grants

-----------------------------------------------------------------------------
(* The file. *)

(* load_approvals gives the last line of an id.                            *)
LEMMA LatestLine ==
  ASSUME FileOK, NEW id \in Ids, Latest(id) # NoRow
  PROVE  /\ Latest(id) \in Rows /\ RowSound(Latest(id))
         /\ \E m \in LinesOf(id) :
              /\ m \in DOMAIN lines /\ lines[m].id = id /\ lines[m].row = Latest(id)
              /\ \A k \in LinesOf(id) : k <= m
<1>1. LinesOf(id) \in SUBSET (1..Len(lines)) /\ Len(lines) \in Nat
  BY DEF LinesOf, FileOK
<1>2. LinesOf(id) # {}
  BY DEF Latest
<1> DEFINE m == Max(LinesOf(id))
<1>3. m \in LinesOf(id) /\ \A k \in LinesOf(id) : k <= m
  BY <1>1, <1>2, MaxOfLines
<1>4. Latest(id) = lines[m].row
  BY <1>2 DEF Latest
<1>5. m \in DOMAIN lines /\ lines[m] # Damaged /\ lines[m].id = id
  BY <1>3 DEF LinesOf
<1>6. lines[m] \in LineSet
  BY <1>5 DEF FileOK
<1>7. lines[m].row \in Rows /\ RowSound(lines[m].row)
  BY <1>5, <1>6 DEF FileOK, LineSet
<1> HIDE DEF m
<1> QED
  BY <1>3, <1>4, <1>5, <1>7

(* An approval that has lapsed stays so.                                   *)
LEMMA VacantLater ==
  ASSUME NEW row, row # NoRow => row \in Rows, NEW s \in Int, NEW t \in Int, s <= t,
         Vacant(row, s)
  PROVE  Vacant(row, t)
BY DEF Vacant, Grants, IsFullyApproved, Overdue, Rows

(* What was decided on the row load_approvals gives continues it.          *)
LEMMA LatestContinues ==
  ASSUME FileOK, NEW id \in Ids, NEW new, Latest(id) # NoRow => Continues(Latest(id), new)
  PROVE  ContinuesAt(Len(lines), id, new)
<1> SUFFICES ASSUME NEW n \in LinesOf(id), n <= Len(lines),
                    \A k \in LinesOf(id) : k <= Len(lines) => k <= n
             PROVE  Continues(lines[n].row, new)
  BY DEF ContinuesAt
<1>1. \A k \in LinesOf(id) : k \in 1..Len(lines)
  BY DEF LinesOf, FileOK
<1>2. LinesOf(id) # {} /\ LinesOf(id) \in SUBSET (1..Len(lines)) /\ Len(lines) \in Nat
  BY <1>1 DEF FileOK
<1>3. Max(LinesOf(id)) \in LinesOf(id) /\ \A k \in LinesOf(id) : k <= Max(LinesOf(id))
  BY <1>2, MaxOfLines
<1>4. n = Max(LinesOf(id))
  BY <1>1, <1>3
<1>5. lines[n].row = Latest(id)
  BY <1>2, <1>4 DEF Latest
<1>6. lines[n].row \in Rows
  BY DEF LinesOf, FileOK, LineSet
<1> QED
  BY <1>5, <1>6, NoRowIsNoRow

(* append_approval_record: a readable file stays as it was but for one     *)
(* more line; a file that is damaged stays damaged.                        *)
LEMMA Grown ==
  ASSUME FileOK, NEW line \in LineSet \cup {Damaged},
         line # Damaged => RowSound(line.row),
         lines' = Extended(line), ended' \in BOOLEAN
  PROVE  /\ FileOK'
         /\ Len(lines) <= Len(lines')
         /\ ~Readable => ~Readable'
         /\ Readable' => /\ Readable /\ line # Damaged
                         /\ lines' = Append(lines, line)
         /\ Len(lines') \in Nat \ {0}
<1>0. lines \in Seq(LineSet \cup {Damaged}) /\ Len(lines) \in Nat
  BY DEF FileOK
<1>1. CASE ended
  <2>1. lines' = Append(lines, line)
    BY <1>1 DEF Extended
  <2>2. /\ lines' \in Seq(LineSet \cup {Damaged})
        /\ Len(lines') = Len(lines) + 1
        /\ DOMAIN lines' = 1..(Len(lines) + 1) /\ DOMAIN lines = 1..Len(lines)
        /\ \A n \in 1..Len(lines) : lines'[n] = lines[n]
        /\ lines'[Len(lines) + 1] = line
    BY <1>0, <2>1
  <2>3. \A n \in DOMAIN lines' : n \in DOMAIN lines \/ n = Len(lines) + 1
    BY <1>0, <2>2
  <2>4. \A n \in DOMAIN lines' : lines'[n] # Damaged => RowSound(lines'[n].row)
    BY <2>2, <2>3 DEF FileOK
  <2>5. lines' # <<>>
    BY <1>0, <2>2
  <2>6. FileOK'
    BY <2>2, <2>4, <2>5 DEF FileOK, RowSound, Satisfied
  <2>7. Readable' <=> Readable /\ line # Damaged
    BY <1>0, <2>2, <2>3 DEF Readable
  <2> QED
    BY <1>0, <2>1, <2>2, <2>6, <2>7
<1>2. CASE ~ended
  <2>1. lines' = [lines EXCEPT ![Len(lines)] = Damaged] /\ lines # <<>>
    BY <1>2 DEF Extended, FileOK
  <2>2. /\ lines' \in Seq(LineSet \cup {Damaged})
        /\ Len(lines') = Len(lines)
        /\ DOMAIN lines' = DOMAIN lines /\ DOMAIN lines = 1..Len(lines)
        /\ \A n \in DOMAIN lines : n # Len(lines) => lines'[n] = lines[n]
    BY <1>0, <2>1
  <2>3. Len(lines) # 0 /\ lines' # <<>>
    BY <1>0, <2>1, <2>2
  <2>4. Len(lines) \in DOMAIN lines' /\ lines'[Len(lines)] = Damaged
    BY <1>0, <2>1, <2>2, <2>3
  <2>5. \A n \in DOMAIN lines' : lines'[n] # Damaged => RowSound(lines'[n].row)
    <3> TAKE n \in DOMAIN lines'
    <3> HAVE lines'[n] # Damaged
    <3>1. n \in DOMAIN lines /\ lines'[n] = lines[n]
      BY <2>2, <2>4
    <3> QED
      BY <3>1 DEF FileOK
  <2>6. FileOK'
    BY <2>2, <2>3, <2>5 DEF FileOK, RowSound, Satisfied
  <2>7. ~Readable'
    BY <2>4 DEF Readable
  <2>8. ~Readable => ~Readable'
    BY <2>7
  <2>9. Len(lines) <= Len(lines') /\ Len(lines') \in Nat \ {0}
    BY <1>0, <2>2, <2>3
  <2> HIDE DEF Readable
  <2> QED
    BY <2>6, <2>7, <2>8, <2>9
<1> QED
  BY <1>1, <1>2

(* A decision stays what it was when the file grows.                       *)
LEMMA WriteStaysSound ==
  ASSUME FileOK, NEW t \in Writing, WriteSound(t),
         NEW line \in LineSet \cup {Damaged}, lines' = Extended(line), now' = now,
         Len(lines) <= Len(lines'), Len(lines') \in Nat,
         Readable' => Readable /\ line # Damaged /\ lines' = Append(lines, line)
  PROVE  WriteSound(t)'
<1>1. RowSound(t.new)'
  BY DEF WriteSound, RowSound, Satisfied
<1>2. (t.op # "create" => t.read <= Len(lines))'
  <2>1. t.read \in Nat /\ Len(lines) \in Nat
    BY DEF Writing, FileOK
  <2> QED
    BY <2>1 DEF WriteSound
<1>3. ASSUME Readable'
      PROVE  /\ \/ Opening(t.new)
                \/ \E m \in DOMAIN lines' : lines'[m].id = t.id /\ Follows(lines'[m].row, t.new)
             /\ t.op # "create" => ContinuesAt(t.read, t.id, t.new)'
  <2>1. /\ Readable /\ DOMAIN lines' = 1..(Len(lines) + 1) /\ DOMAIN lines = 1..Len(lines)
        /\ \A n \in 1..Len(lines) : lines'[n] = lines[n]
        /\ Len(lines) \in Nat
    BY <1>3 DEF FileOK
  <2>2. \/ Opening(t.new)
        \/ \E m \in DOMAIN lines' : lines'[m].id = t.id /\ Follows(lines'[m].row, t.new)
    <3>1. CASE Opening(t.new)
      BY <3>1
    <3>2. CASE \E m \in DOMAIN lines : lines[m].id = t.id /\ Follows(lines[m].row, t.new)
      <4>1. PICK m \in DOMAIN lines : lines[m].id = t.id /\ Follows(lines[m].row, t.new)
        BY <3>2
      <4>2. m \in DOMAIN lines' /\ lines'[m] = lines[m]
        BY <2>1
      <4> QED
        BY <4>1, <4>2
    <3> QED
      BY <2>1, <3>1, <3>2 DEF WriteSound
  <2>3. ASSUME t.op # "create"
        PROVE  ContinuesAt(t.read, t.id, t.new)'
    <3>1. ContinuesAt(t.read, t.id, t.new) /\ t.read <= Len(lines) /\ t.read \in Nat
      BY <2>1, <2>3 DEF WriteSound, Writing
    <3>2. \A n : n \in LinesOf(t.id)' /\ n <= t.read => n \in LinesOf(t.id) /\ lines'[n] = lines[n]
      BY <2>1, <3>1 DEF LinesOf
    <3>3. \A n : n \in LinesOf(t.id) => n \in LinesOf(t.id)'
      BY <2>1 DEF LinesOf
    <3> QED
      BY <3>1, <3>2, <3>3 DEF ContinuesAt, Continues, Opening, Vacant, Grants, IsFullyApproved,
         Overdue, Satisfied, Follows, Quorum
  <2> QED
    BY <2>2, <2>3
<1> QED
  BY <1>1, <1>2, <1>3 DEF WriteSound, Opening, Follows, Quorum

-----------------------------------------------------------------------------
(* Steps. *)

(* A step that leaves the file alone keeps what holds of the processes it  *)
(* does not touch.                                                         *)
LEMMA FileKept ==
  ASSUME IInv, UNCHANGED File, now' = now, RestOK', ActsAreCleared',
         NEW p \in Procs, NEW t \in States, ProcOK(t), Goes(p, t)
  PROVE  IInv'
<1>1. UNCHANGED lines /\ UNCHANGED ended
  BY DEF File
<1>2. FileOK' /\ HistoryIsLawful'
  <2>1. FileOK'
    BY <1>1 DEF IInv, FileOK, RowSound, Satisfied
  <2>2. HistoryIsLawful'
    BY <1>1 DEF IInv, HistoryIsLawful, Readable, Follows, Quorum
  <2> QED
    BY <2>1, <2>2
<1>3. ps' \in [Procs -> States]
  BY DEF IInv, Goes
<1>4. ASSUME NEW q \in Procs PROVE ProcOK(ps[q])'
  <2>1. PICK u \in States : u = ps'[q]
    BY <1>3
  <2>2. ProcOK(u)
    BY <2>1 DEF IInv, Goes
  <2> QED
    BY <1>1, <2>1, <2>2 DEF ProcOK, WriteSound, ContinuesAt, Continues, LinesOf, Readable,
       RowSound, Satisfied, Opening, Vacant, Grants, IsFullyApproved, Overdue, Follows, Quorum,
       Window
<1> QED
  BY <1>2, <1>3, <1>4 DEF IInv

(* A line written down is lawful if its writer was sound, and leaves the   *)
(* decisions of the others sound.                                          *)
LEMMA FileGrows ==
  ASSUME IInv, NEW p \in Procs, ps[p].pc = "writing",
         NEW line \in {[id |-> ps[p].id, row |-> ps[p].new], Damaged},
         lines' = Extended(line), ended' \in BOOLEAN, UNCHANGED acts, now' = now, RestOK',
         NEW t \in States, t.pc \in {"idle", "auditing"},
         t.pc = "auditing" => t.todo # <<>>, Goes(p, t)
  PROVE  IInv'
<1>1. ps[p] \in Writing /\ WriteSound(ps[p]) /\ FileOK
  BY StateKinds DEF IInv, ProcOK
<1>2. line \in LineSet \cup {Damaged} /\ (line # Damaged => RowSound(line.row))
  BY <1>1 DEF Writing, LineSet, WriteSound
<1>3. /\ FileOK' /\ Len(lines) <= Len(lines') /\ Len(lines') \in Nat
      /\ Readable' => Readable /\ line # Damaged /\ lines' = Append(lines, line)
  BY <1>1, <1>2, Grown
<1>4. ps' \in [Procs -> States]
  BY DEF IInv, Goes
<1>5. ASSUME NEW q \in Procs PROVE ProcOK(ps[q])'
  <2>1. PICK u \in States : u = ps'[q]
    BY <1>4
  <2>2. u = t \/ u = ps[q]
    BY <2>1 DEF IInv, Goes
  <2>3. /\ u.pc = "writing" => u \in Writing /\ WriteSound(u)
        /\ u.pc = "cleared" /\ u.row # NoRow => Window(u.row, u.ts)
        /\ u.pc = "auditing" => u.todo # <<>>
    BY <2>2, StateKinds DEF IInv, ProcOK
  <2>4. u.pc = "writing" => WriteSound(u)'
    BY <1>1, <1>2, <1>3, <2>3, WriteStaysSound
  <2> QED
    BY <2>1, <2>3, <2>4 DEF ProcOK, WriteSound, ContinuesAt, Continues, LinesOf, Readable,
       RowSound, Satisfied, Opening, Vacant, Grants, IsFullyApproved, Overdue, Follows, Quorum,
       Window
<1>6. HistoryIsLawful'
  <2> SUFFICES ASSUME Readable', NEW n \in DOMAIN lines'
               PROVE  \/ lines'[n].row.status = "pending" /\ lines'[n].row.by = {}
                      \/ \E m \in 1..(n - 1) :
                           lines'[m].id = lines'[n].id /\ Follows(lines'[m].row, lines'[n].row)
    BY DEF HistoryIsLawful, Follows, Quorum
  <2>1. Readable /\ line = [id |-> ps[p].id, row |-> ps[p].new] /\ lines' = Append(lines, line)
    BY <1>3
  <2>2. /\ Len(lines) \in Nat /\ DOMAIN lines = 1..Len(lines) /\ DOMAIN lines' = 1..(Len(lines) + 1)
        /\ \A k \in 1..Len(lines) : lines'[k] = lines[k]
        /\ lines'[Len(lines) + 1] = line
    BY <1>1, <1>2, <2>1 DEF FileOK
  <2>3. CASE n \in DOMAIN lines
    <3>1. \A m \in 1..(n - 1) : lines'[m] = lines[m]
      BY <2>2, <2>3
    <3>2. \/ lines[n].row.status = "pending" /\ lines[n].row.by = {}
          \/ \E m \in 1..(n - 1) : lines[m].id = lines[n].id /\ Follows(lines[m].row, lines[n].row)
      BY <2>1, <2>3 DEF IInv, HistoryIsLawful
    <3> QED
      BY <2>2, <2>3, <3>1, <3>2
  <2>4. CASE n = Len(lines) + 1
    <3>1. lines'[n].id = ps[p].id /\ lines'[n].row = ps[p].new
      BY <2>1, <2>2, <2>4
    <3>2. \/ Opening(ps[p].new)
          \/ \E m \in DOMAIN lines : lines[m].id = ps[p].id /\ Follows(lines[m].row, ps[p].new)
      BY <1>1, <2>1 DEF WriteSound
    <3>3. CASE Opening(ps[p].new)
      BY <3>1, <3>3 DEF Opening
    <3>4. ASSUME NEW m \in DOMAIN lines, lines[m].id = ps[p].id, Follows(lines[m].row, ps[p].new)
          PROVE  m \in 1..(n - 1) /\ lines'[m].id = lines'[n].id
                 /\ Follows(lines'[m].row, lines'[n].row)
      BY <2>2, <2>4, <3>1, <3>4
    <3> QED
      BY <3>2, <3>3, <3>4
  <2> QED
    BY <2>2, <2>3, <2>4
<1>7. ActsAreCleared'
  BY DEF IInv, ActsAreCleared, Quorum
<1> QED
  BY <1>3, <1>4, <1>5, <1>6, <1>7 DEF IInv

(* A step that changes one process and nothing else.                       *)
LEMMA ProcMoves ==
  ASSUME IInv, Nothing, UNCHANGED cutShort,
         NEW p \in Procs, NEW t \in States, ProcOK(t), Goes(p, t)
  PROVE  IInv'
<1>1. UNCHANGED File /\ now' = now /\ RestOK' /\ ActsAreCleared'
  BY DEF IInv, Nothing, File, Trail, RestOK, ActsAreCleared, Quorum
<1> QED
  BY <1>1, FileKept

(* A process that has decided what to write.                               *)
LEMMA Decides ==
  ASSUME IInv, Nothing, NEW p \in Procs, NEW id \in Ids, NEW new \in Rows,
         NEW op \in {"create", "approve", "deny", "execute"}, NEW read \in Nat,
         RowSound(new), read <= Len(lines),
         \/ Opening(new)
         \/ Latest(id) # NoRow /\ Follows(Latest(id), new),
         op = "create" => Opening(new),
         op # "create" => /\ read = Len(lines)
                          /\ Latest(id) # NoRow => Continues(Latest(id), new),
         Writes(p, op, id, new, read)
  PROVE  IInv'
<1> DEFINE t == [pc |-> "writing", op |-> op, id |-> id, new |-> new, read |-> read]
<1>1. t \in Writing /\ t \in States /\ t.pc = "writing" /\ t.op = op /\ t.id = id
      /\ t.new = new /\ t.read = read
  BY DEF Writing, States
<1>2. Goes(p, t)
  BY DEF Writes
<1> HIDE DEF t
<1>3. FileOK
  BY DEF IInv
<1>4. \/ Opening(new)
      \/ \E m \in DOMAIN lines : lines[m].id = id /\ Follows(lines[m].row, new)
  BY <1>3, LatestLine
<1>5. op # "create" => ContinuesAt(read, id, new)
  BY <1>3, LatestContinues
<1>6. WriteSound(t)
  BY <1>1, <1>4, <1>5 DEF WriteSound
<1>7. ProcOK(t)
  BY <1>1, <1>6 DEF ProcOK
<1> QED
  BY <1>1, <1>2, <1>7, ProcMoves DEF Nothing, Trail

(* The states of a process that writes nothing.                            *)
LEMMA OtherStates ==
  /\ Idle \in States /\ ProcOK(Idle)
  /\ [pc |-> "auditing", todo |-> <<Answer>>] \in States
  /\ ProcOK([pc |-> "auditing", todo |-> <<Answer>>])
  /\ [pc |-> "cleared", row |-> NoRow, ts |-> 0] \in States
  /\ ProcOK([pc |-> "cleared", row |-> NoRow, ts |-> 0])
<1>1. <<Answer>> \in Seq(Events \cup {Answer}) /\ <<Answer>> # <<>>
  OBVIOUS
<1>2. [pc |-> "auditing", todo |-> <<Answer>>] \in States
  BY <1>1 DEF States, Auditing
<1>3. [pc |-> "cleared", row |-> NoRow, ts |-> 0] \in States
  BY DEF States, Cleared
<1> QED
  BY <1>1, <1>2, <1>3 DEF ProcOK, Idle, States

(* The commands up to their first effect.                                  *)
LEMMA CommandStep ==
  ASSUME IInv, NEW p \in Procs, Command(p)
  PROVE  IInv'
<1>0. FileOK /\ Len(lines) \in Nat /\ now \in Int
  BY BoundsAreNat DEF IInv, FileOK, RestOK
<1>1. ASSUME NEW id \in Ids, CreateApproval(p, id) PROVE IInv'
  <2>1. PICK row \in Openings : Writes(p, "create", id, row, 0)
    BY <1>1 DEF CreateApproval
  <2> QED
    BY <1>0, <1>1, <2>1, OpeningsAreSound, Decides DEF CreateApproval
<1>2. ASSUME NEW id \in Ids, DenyRequest(p, id) PROVE IInv'
  <2> DEFINE row == Latest(id)
  <2>1. row # NoRow /\ row.status = "pending" /\ Nothing /\ Writes(p, "deny", id, Denied(row), Len(lines))
    BY <1>2 DEF DenyRequest, MayDeny
  <2>2. row \in Rows /\ RowSound(row)
    BY <1>0, <2>1, LatestLine
  <2>3. Denied(row) \in Rows /\ RowSound(Denied(row)) /\ Follows(row, Denied(row))
    BY <2>1, <2>2, CloseFollows DEF Denied
  <2>4. Continues(row, Denied(row))
    BY <2>3 DEF Continues
  <2> HIDE DEF row
  <2> QED
    BY <1>0, <2>1, <2>3, <2>4, Decides DEF row
<1>3. ASSUME NEW id \in Ids, NEW who \in Approvers, NEW ts \in 0..now,
             ApproveRequest(p, id, who, ts)
      PROVE  IInv'
  <2> DEFINE row == Latest(id)
  <2>1. /\ row # NoRow /\ MaySignOff(row, who, ts) /\ Nothing /\ ts \in Int
        /\ Writes(p, "approve", id, SignedOff(row, who, ts), Len(lines))
    BY <1>0, <1>3 DEF ApproveRequest
  <2>2. row \in Rows /\ RowSound(row)
    BY <1>0, <2>1, LatestLine
  <2>3. /\ SignedOff(row, who, ts) \in Rows /\ RowSound(SignedOff(row, who, ts))
        /\ Follows(row, SignedOff(row, who, ts))
    BY <2>1, <2>2, SignOffFollows
  <2>4. Continues(row, SignedOff(row, who, ts))
    BY <2>3 DEF Continues
  <2> HIDE DEF row
  <2> QED
    BY <1>0, <2>1, <2>3, <2>4, Decides DEF row
<1>4. CASE DecideByPolicy(p)
  BY <1>4, OtherStates, ProcMoves DEF DecideByPolicy, Answers, Nothing, Trail
<1>5. ASSUME NEW id \in Ids, NEW ts \in 0..now, ConsultApproval(p, id, ts) PROVE IInv'
  <2> DEFINE row == Latest(id)
  <2>0. Nothing /\ UNCHANGED cutShort /\ ts \in Int
    BY <1>0, <1>5 DEF ConsultApproval, Nothing, Trail
  <2>1. row # NoRow => row \in Rows /\ RowSound(row)
    BY <1>0, LatestLine
  <2>2. ASSUME Vacant(row, ts), NEW new \in Openings, Writes(p, "execute", id, new, Len(lines))
        PROVE  IInv'
    <3>1. Opening(new) /\ Vacant(row, now)
      BY <1>0, <1>5, <2>0, <2>1, <2>2, OpeningsAreSound, VacantLater
    <3>2. Continues(row, new)
      BY <3>1 DEF Continues
    <3> HIDE DEF row
    <3> QED
      BY <1>0, <2>0, <2>2, <3>2, OpeningsAreSound, Decides DEF row
  <2>3. CASE Goes(p, [pc |-> "expiring", id |-> id, ts |-> ts])
    <3>1. [pc |-> "expiring", id |-> id, ts |-> ts] \in States
      BY <2>0 DEF States, Expiring
    <3>2. ProcOK([pc |-> "expiring", id |-> id, ts |-> ts])
      BY DEF ProcOK
    <3> QED
      BY <2>0, <2>3, <3>1, <3>2, ProcMoves
  <2>4. CASE row # NoRow /\ Grants(row, ts) /\ Goes(p, [pc |-> "cleared", row |-> row, ts |-> ts])
    <3>1. Window(row, ts)
      BY <2>0, <2>1, <2>4, GrantsOpenWindow
    <3> HIDE DEF row
    <3>2. [pc |-> "cleared", row |-> row, ts |-> ts] \in States
      BY <2>0, <2>1, <2>4 DEF States, Cleared
    <3>3. ProcOK([pc |-> "cleared", row |-> row, ts |-> ts])
      BY <3>1 DEF ProcOK
    <3> QED
      BY <2>0, <2>4, <3>2, <3>3, ProcMoves
  <2>5. CASE Answers(p)
    BY <2>0, <2>5, OtherStates, ProcMoves DEF Answers
  <2> QED
    BY <1>5, <2>2, <2>3, <2>4, <2>5 DEF ConsultApproval
<1> QED
  BY <1>1, <1>2, <1>3, <1>4, <1>5 DEF Command

(* expire_request, called by the gateway.                                  *)
LEMMA ExpireStep ==
  ASSUME IInv, NEW p \in Procs, Expire(p)
  PROVE  IInv'
<1> DEFINE id == ps[p].id
           ts == ps[p].ts
           row == Latest(id)
<1>1. ps[p] \in Expiring /\ id \in Ids /\ Nothing /\ UNCHANGED cutShort
  BY StateKinds DEF IInv, Expire, Expiring, Nothing, Trail
<1>2. FileOK /\ Len(lines) \in Nat
  BY DEF IInv, FileOK
<1>3. CASE row # NoRow /\ MayExpire(row, ts)
           /\ Writes(p, "execute", id, Expired(row), Len(lines))
  <2>1. row \in Rows /\ RowSound(row) /\ row.status = "pending"
    BY <1>1, <1>2, <1>3, LatestLine DEF MayExpire
  <2>2. Expired(row) \in Rows /\ RowSound(Expired(row)) /\ Follows(row, Expired(row))
    BY <2>1, CloseFollows DEF Expired
  <2>3. Continues(row, Expired(row))
    BY <2>2 DEF Continues
  <2> HIDE DEF row, id
  <2> QED
    BY <1>1, <1>2, <1>3, <2>2, <2>3, Decides DEF row
<1>4. CASE Goes(p, Idle)
  BY <1>1, <1>4, OtherStates, ProcMoves
<1> QED
  BY <1>3, <1>4 DEF Expire

(* Every sequence of events of a command begins with one.                  *)
LEMMA EventsOfType ==
  ASSUME NEW t \in Writing, NEW n \in Nat
  PROVE  EventsOf(t, n) \in Seq(Events \cup {Answer}) /\ EventsOf(t, n) # <<>>
<1>1. \A k \in {"created", "signoff", "resolved"} : <<k, n>> \in Events
  BY DEF Events
<1>2. t.op \in {"create", "approve", "deny", "execute"}
  BY DEF Writing
<1> HIDE DEF Events, Answer
<1>3. CASE t.op = "create"
  BY <1>1, <1>3 DEF EventsOf
<1>4. CASE t.op = "approve"
  <2>1. CASE t.new.status = "approved"
    BY <1>1, <1>4, <2>1 DEF EventsOf
  <2>2. CASE t.new.status # "approved"
    BY <1>1, <1>4, <2>2 DEF EventsOf
  <2> QED
    BY <2>1, <2>2
<1>5. CASE t.op = "deny"
  BY <1>1, <1>5 DEF EventsOf
<1>6. CASE t.op = "execute"
  BY <1>1, <1>6 DEF EventsOf
<1> QED
  BY <1>2, <1>3, <1>4, <1>5, <1>6

(* append_approval_record.                                                 *)
LEMMA AppendRecordStep ==
  ASSUME IInv, NEW p \in Procs, AppendRecord(p)
  PROVE  IInv'
<1> DEFINE line == [id |-> ps[p].id, row |-> ps[p].new]
           t == [pc |-> "auditing", todo |-> EventsOf(ps[p], Len(lines'))]
<1>1. ps[p] \in Writing /\ WriteSound(ps[p]) /\ FileOK /\ ps[p].pc = "writing"
  BY StateKinds DEF IInv, ProcOK, AppendRecord
<1>2. line \in LineSet /\ RowSound(line.row)
  BY <1>1 DEF Writing, LineSet, WriteSound
<1>3. lines' = Extended(line) /\ ended' \in BOOLEAN /\ Goes(p, t) /\ UNCHANGED acts
  BY DEF AppendRecord
<1>4. Len(lines') \in Nat
  BY <1>1, <1>2, <1>3, Grown
<1>5. EventsOf(ps[p], Len(lines')) \in Seq(Events \cup {Answer})
      /\ EventsOf(ps[p], Len(lines')) # <<>>
  BY <1>1, <1>4, EventsOfType
<1>6. t \in States /\ t.pc = "auditing" /\ t.todo # <<>>
  BY <1>5 DEF States, Auditing
<1>7. RestOK' /\ now' = now
  BY DEF IInv, RestOK, AppendRecord, Trail
<1> HIDE DEF t
<1> QED
  BY <1>1, <1>3, <1>6, <1>7, FileGrows

(* A death in append_approval_record.                                      *)
LEMMA CutRecordStep ==
  ASSUME IInv, NEW p \in Procs, CutRecord(p)
  PROVE  IInv'
<1>1. PICK line \in {[id |-> ps[p].id, row |-> ps[p].new], Damaged} : lines' = Extended(line)
  BY DEF CutRecord
<1>2. RestOK' /\ ended' \in BOOLEAN /\ Goes(p, Idle) /\ UNCHANGED <<acts, now>> /\ ps[p].pc = "writing"
  BY DEF IInv, RestOK, CutRecord
<1>3. Idle \in States /\ Idle.pc = "idle"
  BY DEF States, Idle
<1> QED
  BY <1>1, <1>2, <1>3, FileGrows

(* The connector phase.                                                    *)
LEMMA CallConnectorStep ==
  ASSUME IInv, NEW p \in Procs, CallConnector(p)
  PROVE  IInv'
<1> DEFINE act == [row |-> ps[p].row, ts |-> ps[p].ts]
<1>1. ps[p] \in Cleared /\ (ps[p].row # NoRow => Window(ps[p].row, ps[p].ts))
  BY StateKinds DEF IInv, ProcOK, CallConnector
<1>2. act \in [row : Rows \cup {NoRow}, ts : Int]
  BY <1>1 DEF Cleared
<1>3. UNCHANGED File /\ UNCHANGED Trail
  BY DEF CallConnector
<1>4. CASE Answers(p) /\ acts' = acts
  <2>1. Nothing /\ UNCHANGED cutShort
    BY <1>4 DEF CallConnector, Nothing, Trail
  <2> QED
    BY <1>4, <2>1, OtherStates, ProcMoves DEF Answers
<1>5. CASE acts' = Append(acts, act)
           /\ Goes(p, [pc |-> "auditing", todo |-> <<<<"act", Len(acts')>>>>])
  <2>1. acts \in Seq([row : Rows \cup {NoRow}, ts : Int])
    BY DEF IInv, RestOK
  <2>2. /\ acts' \in Seq([row : Rows \cup {NoRow}, ts : Int])
        /\ Len(acts') = Len(acts) + 1 /\ Len(acts) \in Nat
        /\ DOMAIN acts' = 1..(Len(acts) + 1) /\ DOMAIN acts = 1..Len(acts)
        /\ \A k \in 1..Len(acts) : acts'[k] = acts[k]
        /\ acts'[Len(acts) + 1] = act
    BY <1>2, <1>5, <2>1
  <2>3. RestOK'
    BY <1>3, <2>2 DEF IInv, RestOK, CallConnector, Trail
  <2>4. ActsAreCleared'
    <3> SUFFICES ASSUME NEW k \in DOMAIN acts', acts'[k].row # NoRow
                 PROVE  Window(acts'[k].row, acts'[k].ts)
      BY DEF ActsAreCleared, Window, Quorum
    <3>1. CASE k \in DOMAIN acts
      BY <2>2, <3>1 DEF IInv, ActsAreCleared, Window
    <3>2. CASE k = Len(acts) + 1
      <4>1. acts'[k].row = ps[p].row /\ acts'[k].ts = ps[p].ts
        BY <2>2, <3>2
      <4> QED
        BY <1>1, <4>1
    <3> QED
      BY <2>2, <3>1, <3>2
  <2>5. <<"act", Len(acts')>> \in Events
    BY <2>2 DEF Events
  <2> DEFINE e == <<"act", Len(acts')>>
  <2> HIDE DEF e
  <2>6. [pc |-> "auditing", todo |-> <<e>>] \in States /\ ProcOK([pc |-> "auditing", todo |-> <<e>>])
    BY <2>5 DEF States, Auditing, ProcOK, e
  <2> QED
    BY <1>3, <1>5, <2>3, <2>4, <2>6, FileKept DEF e, CallConnector
<1> QED
  BY <1>4, <1>5 DEF CallConnector

(* append_event.                                                           *)
LEMMA AppendAuditStep ==
  ASSUME IInv, NEW p \in Procs, AppendAudit(p)
  PROVE  IInv'
<1> DEFINE todo == ps[p].todo
           t == IF Len(todo) = 1 THEN Idle ELSE [ps[p] EXCEPT !.todo = Tail(todo)]
<1>1. ps[p] \in Auditing /\ todo \in Seq(Events \cup {Answer}) /\ todo # <<>>
  BY StateKinds DEF IInv, ProcOK, AppendAudit, Auditing
<1>2. Head(todo) \in Events \cup {Answer}
  BY <1>1
<1>3. Len(todo) # 1 => Tail(todo) \in Seq(Events \cup {Answer}) /\ Tail(todo) # <<>>
  <2> HIDE DEF t, todo
  <2> HAVE Len(todo) # 1
  <2>1. Len(todo) \in Nat /\ Len(todo) # 0
    BY <1>1
  <2>2. Tail(todo) \in Seq(Events \cup {Answer}) /\ Len(Tail(todo)) = Len(todo) - 1
    BY <1>1
  <2>3. Len(Tail(todo)) # 0
    BY <2>1, <2>2
  <2>4. Tail(todo) # <<>>
    <3> DEFINE rest == Tail(todo)
    <3>1. Len(rest) # 0
      BY <2>3
    <3> HIDE DEF rest
    <3>2. rest # <<>>
      BY <3>1
    <3> QED
      BY <3>2 DEF rest
  <2> QED
    BY <2>2, <2>4
<1>4. t \in States /\ ProcOK(t)
  <2>1. CASE Len(todo) = 1
    BY <2>1, OtherStates
  <2>2. CASE Len(todo) # 1
    <3>1. t = [pc |-> "auditing", todo |-> Tail(todo)]
      BY <1>1, <2>2 DEF Auditing
    <3> QED
      BY <1>3, <2>2, <3>1 DEF States, Auditing, ProcOK
  <2> QED
    BY <2>1, <2>2
<1>5. Goes(p, t) /\ UNCHANGED File /\ UNCHANGED acts /\ UNCHANGED now
      /\ intact' = intact /\ cutShort' = cutShort
      /\ audit' = audit \cup ({Head(todo)} \ {Answer})
  BY DEF AppendAudit
<1> HIDE DEF t
<1>6. RestOK' /\ ActsAreCleared'
  BY <1>2, <1>5 DEF IInv, RestOK, ActsAreCleared, Quorum
<1> QED
  BY <1>4, <1>5, <1>6, FileKept

(* A command cut short.                                                    *)
LEMMA StopStep ==
  ASSUME IInv, NEW p \in Procs, AuditFails(p) \/ Die(p)
  PROVE  IInv'
<1>1. CASE AuditFails(p)
  <2>1. RestOK' /\ ActsAreCleared' /\ UNCHANGED File /\ Goes(p, Idle)
    BY <1>1 DEF IInv, RestOK, ActsAreCleared, Quorum, AuditFails
  <2> QED
    BY <1>1, <2>1, OtherStates, FileKept DEF AuditFails
<1>2. CASE Die(p)
  BY <1>2, OtherStates, ProcMoves DEF Die, Nothing, Trail
<1> QED
  BY <1>1, <1>2

(* The clock, and stuttering.                                              *)
LEMMA QuietStep ==
  ASSUME IInv, Tick \/ UNCHANGED vars
  PROVE  IInv'
<1>1. UNCHANGED lines /\ UNCHANGED ended /\ UNCHANGED acts /\ UNCHANGED ps
  BY DEF Tick, vars, File
<1>2. RestOK'
  BY BoundsAreNat DEF IInv, RestOK, Tick, vars, Trail
<1>3. FileOK' /\ HistoryIsLawful' /\ ActsAreCleared'
  <2>1. FileOK'
    BY <1>1 DEF IInv, FileOK, RowSound, Satisfied
  <2>2. HistoryIsLawful'
    BY <1>1 DEF IInv, HistoryIsLawful, Readable, Follows, Quorum
  <2>3. ActsAreCleared'
    BY <1>1 DEF IInv, ActsAreCleared, Quorum
  <2> QED
    BY <2>1, <2>2, <2>3
<1>4. ASSUME NEW p \in Procs PROVE ProcOK(ps[p])'
  <2> DEFINE t == ps[p]
  <2>1. ProcOK(t) /\ now \in Int /\ now' \in Int /\ now <= now'
    BY BoundsAreNat DEF IInv, RestOK, Tick, vars
  <2>2. ASSUME NEW old \in Rows, NEW new, Continues(old, new) PROVE Continues(old, new)'
    <3>1. Vacant(old, now) => Vacant(old, now')
      BY <2>1, VacantLater
    <3> QED
      BY <2>2, <3>1 DEF Continues, Opening, Follows, Quorum, Vacant, Grants, IsFullyApproved,
         Overdue, Satisfied
  <2>3. ASSUME NEW k, NEW id, NEW new, ContinuesAt(k, id, new) PROVE ContinuesAt(k, id, new)'
    <3>1. LinesOf(id)' = LinesOf(id) /\ \A n \in LinesOf(id) : lines[n].row \in Rows
      BY <1>1 DEF LinesOf, IInv, FileOK, LineSet
    <3> QED
      BY <1>1, <2>2, <2>3, <3>1 DEF ContinuesAt
  <2>4. t.pc = "writing" => WriteSound(t)'
    BY <1>1, <2>1, <2>3 DEF ProcOK, WriteSound, Readable, RowSound, Satisfied, Opening, Follows,
       Quorum
  <2> QED
    BY <1>1, <2>1, <2>4 DEF ProcOK, WriteSound, Window, Quorum
<1> QED
  BY <1>1, <1>2, <1>3, <1>4 DEF IInv

(* The invariant holds of the empty files.                                 *)
LEMMA Initially == Init => IInv
<1> SUFFICES ASSUME Init PROVE IInv
  OBVIOUS
<1>1. FileOK /\ RestOK
  <2>1. lines \in Seq(LineSet \cup {Damaged}) /\ DOMAIN lines = {} /\ ended = TRUE
    BY DEF Init
  <2>2. acts \in Seq([row : Rows \cup {NoRow}, ts : Int])
    BY DEF Init
  <2>3. now \in 0..MaxTime
    BY BoundsAreNat DEF Init
  <2>4. FileOK
    BY <2>1 DEF FileOK
  <2>5. RestOK
    BY <2>2, <2>3 DEF Init, RestOK
  <2> QED
    BY <2>4, <2>5
<1>2. ps \in [Procs -> States] /\ \A p \in Procs : ProcOK(ps[p])
  BY OtherStates DEF Init
<1>3. HistoryIsLawful /\ ActsAreCleared
  BY DEF Init, HistoryIsLawful, ActsAreCleared
<1> QED
  BY <1>1, <1>2, <1>3 DEF IInv

(* Every step keeps it.                                                    *)
LEMMA Step == IInv /\ [Next]_vars => IInv'
<1> SUFFICES ASSUME IInv, [Next]_vars PROVE IInv'
  OBVIOUS
<1>1. CASE Tick \/ UNCHANGED vars
  BY <1>1, QuietStep
<1>2. ASSUME NEW p \in Procs,
             \/ Command(p) \/ Expire(p)
             \/ AppendRecord(p) \/ CallConnector(p) \/ AppendAudit(p)
             \/ CutRecord(p) \/ AuditFails(p) \/ Die(p)
      PROVE  IInv'
  BY <1>2, CommandStep, ExpireStep, AppendRecordStep, CallConnectorStep, AppendAuditStep,
     CutRecordStep, StopStep
<1> QED
  BY <1>1, <1>2 DEF Next

(* The invariant holds in every reachable state.                           *)
LEMMA Invariance == Spec => []IInv
BY Initially, Step, PTL DEF Spec

-----------------------------------------------------------------------------
(* Theorems. *)

(* Every reachable state is well typed: no command stores a row that is    *)
(* not a row.                                                              *)
THEOREM LogTypes == Spec => []TypeOK
BY Invariance, Typed, PTL

(* However append_approval_record calls of any number of processes         *)
(* interleave and die, every line of the file opens an approval or follows *)
(* lawfully from an earlier line of the same id.                           *)
THEOREM HistoriesAreLawful == Spec => []HistoryIsLawful
<1>1. IInv => HistoryIsLawful
  BY DEF IInv
<1> QED
  BY <1>1, Invariance, PTL

(* _apply_connector_phase is entered only on the ground of a policy or of  *)
(* an approval with its quorum and an open window.                         *)
THEOREM ActsNeedClearance == Spec => []ActsAreCleared
<1>1. IInv => ActsAreCleared
  BY DEF IInv
<1> QED
  BY <1>1, Invariance, PTL

(* The file changes by one line, and only under a process that writes.     *)
LEMMA FileStep ==
  ASSUME IInv, [Next]_vars
  PROVE  \/ lines' = lines
         \/ /\ ended' \in BOOLEAN
            /\ \E p \in Procs :
                 /\ ps[p].pc = "writing"
                 /\ \E line \in {[id |-> ps[p].id, row |-> ps[p].new], Damaged} :
                      lines' = Extended(line)
<1>1. CASE Tick \/ UNCHANGED vars
  BY <1>1 DEF Tick, vars, File
<1>2. ASSUME NEW p \in Procs, Command(p) \/ Expire(p) \/ Die(p)
      PROVE  lines' = lines
  BY <1>2 DEF Command, CreateApproval, ApproveRequest, DenyRequest, DecideByPolicy,
     ConsultApproval, Expire, Die, Nothing, File
<1>3. ASSUME NEW p \in Procs, CallConnector(p) \/ AppendAudit(p) \/ AuditFails(p)
      PROVE  lines' = lines
  BY <1>3 DEF CallConnector, AppendAudit, AuditFails, File
<1>4. ASSUME NEW p \in Procs, AppendRecord(p) \/ CutRecord(p)
      PROVE  /\ ended' \in BOOLEAN /\ ps[p].pc = "writing"
             /\ \E line \in {[id |-> ps[p].id, row |-> ps[p].new], Damaged} :
                  lines' = Extended(line)
  BY <1>4 DEF AppendRecord, CutRecord
<1> QED
  BY <1>1, <1>2, <1>3, <1>4 DEF Next

(* What the writer of such a line brings along.                            *)
LEMMA WriterSound ==
  ASSUME IInv, NEW p \in Procs, ps[p].pc = "writing",
         NEW line \in {[id |-> ps[p].id, row |-> ps[p].new], Damaged},
         lines' = Extended(line), ended' \in BOOLEAN
  PROVE  /\ ps[p] \in Writing /\ WriteSound(ps[p])
         /\ ~Readable => ~Readable'
         /\ Readable' => /\ lines' = Append(lines, line)
                         /\ line = [id |-> ps[p].id, row |-> ps[p].new]
<1>1. ps[p] \in Writing /\ WriteSound(ps[p]) /\ FileOK
  BY StateKinds DEF IInv, ProcOK
<1>2. line \in LineSet \cup {Damaged} /\ (line # Damaged => RowSound(line.row))
  BY <1>1 DEF Writing, LineSet, WriteSound
<1> QED
  BY <1>1, <1>2, Grown

(* A process that was free is cleared by a policy, or by a readable file.  *)
LEMMA FreshClearance ==
  ASSUME IInv, [Next]_vars, ~Readable, NEW p \in Procs, Free(p), ps'[p].pc = "cleared"
  PROVE  ps'[p].row = NoRow
<1>1. ps[p].pc = "idle" /\ ps \in [Procs -> States]
  BY DEF Free, Idle, IInv
<1>2. CASE ps'[p] = ps[p]
  BY <1>1, <1>2
<1>3. ASSUME NEW q \in Procs, q # p, NEW t, Goes(q, t)
      PROVE  ps'[p] = ps[p]
  BY <1>1, <1>3 DEF Goes
<1>4. CASE Tick \/ UNCHANGED vars
  BY <1>2, <1>4 DEF Tick, vars
<1>5. ASSUME NEW q \in Procs, Command(q)
      PROVE  ps'[p].row = NoRow
  <2>1. ASSUME NEW id \in Ids, CreateApproval(q, id)
        PROVE  \E t : Goes(q, t) /\ t.pc = "writing"
    BY <2>1 DEF CreateApproval, Writes
  <2>2. ASSUME NEW id \in Ids, DenyRequest(q, id)
        PROVE  \E t : Goes(q, t) /\ t.pc = "writing"
    BY <2>2 DEF DenyRequest, Writes
  <2>3. CASE DecideByPolicy(q)
    <3>1. CASE Answers(q)
      BY <1>1, <1>2, <1>3, <3>1 DEF Answers, Goes
    <3>2. CASE Goes(q, [pc |-> "cleared", row |-> NoRow, ts |-> 0])
      BY <1>1, <1>2, <1>3, <3>2 DEF Goes
    <3> QED
      BY <2>3, <3>1, <3>2 DEF DecideByPolicy
  <2>4. ASSUME NEW t, Goes(q, t), t.pc = "writing"
        PROVE  ps'[p].row = NoRow
    BY <1>1, <1>2, <1>3, <2>4 DEF Goes
  <2>5. ~(\E id \in Ids, who \in Approvers, ts \in 0..now : ApproveRequest(q, id, who, ts))
        /\ ~(\E id \in Ids, ts \in 0..now : ConsultApproval(q, id, ts))
    BY DEF ApproveRequest, ConsultApproval
  <2> QED
    BY <1>5, <2>1, <2>2, <2>3, <2>4, <2>5 DEF Command
<1>6. ASSUME NEW q \in Procs,
             \/ Expire(q) \/ AppendRecord(q) \/ CallConnector(q) \/ AppendAudit(q)
             \/ CutRecord(q) \/ AuditFails(q) \/ Die(q)
      PROVE  ps'[p] = ps[p]
  <2>1. ps[q].pc # "idle" /\ q # p
    BY <1>1, <1>6 DEF Expire, AppendRecord, CallConnector, AppendAudit, CutRecord,
       AuditFails, Die
  <2>2. \E t : Goes(q, t)
    BY <1>6 DEF Expire, AppendRecord, CallConnector, AppendAudit, CutRecord,
       AuditFails, Die, Writes, Answers
  <2> QED
    BY <1>3, <2>1, <2>2
<1> QED
  BY <1>2, <1>4, <1>5, <1>6 DEF Next

(* After a torn or glued line load_approvals raises for ever, and          *)
(* evaluate_for_execution clears nothing by an approval any more.          *)
THEOREM DamageIsClosed == Spec => DamageFailsClosed
<1> DEFINE A == ~Readable =>
                  /\ ~Readable'
                  /\ \A p \in Procs : Free(p) /\ ps'[p].pc = "cleared" => ps'[p].row = NoRow
<1>1. IInv /\ [Next]_vars => A
  <2> SUFFICES ASSUME IInv, [Next]_vars, ~Readable PROVE A
    OBVIOUS
  <2>1. ~Readable'
    <3>1. CASE lines' = lines
      BY <3>1 DEF Readable
    <3>2. CASE lines' # lines
      BY <3>2, FileStep, WriterSound
    <3> QED
      BY <3>1, <3>2
  <2> QED
    BY <2>1, FreshClearance
<1> HIDE DEF A
<1>2. Spec => [][A]_vars
  BY <1>1, Invariance, PTL DEF Spec
<1> QED
  BY <1>2 DEF DamageFailsClosed, A

(* An id without a row has no line.                                        *)
LEMMA NoLines ==
  ASSUME FileOK, NEW id \in Ids, Latest(id) = NoRow
  PROVE  \A m \in DOMAIN lines : lines[m] # Damaged => lines[m].id # id
<1>1. ASSUME LinesOf(id) # {} PROVE FALSE
  <2>1. LinesOf(id) \in SUBSET (1..Len(lines)) /\ Len(lines) \in Nat
    BY DEF LinesOf, FileOK
  <2>2. Max(LinesOf(id)) \in LinesOf(id)
    BY <1>1, <2>1, MaxOfLines
  <2>3. lines[Max(LinesOf(id))].row \in Rows
    BY <2>2 DEF LinesOf, FileOK, LineSet
  <2> QED
    BY <1>1, <2>3, NoRowIsNoRow DEF Latest
<1> QED
  BY <1>1 DEF LinesOf

(* The line appended last is the row of its id.                            *)
LEMMA AppendedIsLatest ==
  ASSUME FileOK, NEW id \in Ids, NEW row \in Rows, lines' = Append(lines, [id |-> id, row |-> row])
  PROVE  Latest(id)' = row
<1> DEFINE n == Len(lines) + 1
<1>1. /\ Len(lines) \in Nat /\ DOMAIN lines' = 1..n
      /\ lines'[n] = [id |-> id, row |-> row]
  BY DEF FileOK
<1>2. lines'[n] # Damaged
  BY <1>1, DamagedIsNoLine
<1>3. n \in LinesOf(id)' /\ LinesOf(id)' \in SUBSET (1..n) /\ n \in Nat
  BY <1>1, <1>2 DEF LinesOf
<1> DEFINE S == LinesOf(id)'
<1> HIDE DEF n, S
<1>4. Max(S) \in S /\ n <= Max(S)
  BY <1>3, MaxOfLines DEF S
<1>5. Max(S) = n
  BY <1>3, <1>4 DEF S
<1>6. Latest(id)' = lines'[n].row
  BY <1>3, <1>5 DEF Latest, S
<1> QED
  BY <1>1, <1>6

(* What append_approval_record adds to an approval continues the row that  *)
(* is there, unless the line is of create-approval or of a process that    *)
(* had loaded the file before that row was written.                        *)
THEOREM CommandsFollow == Spec => FollowsUnlessRaced
<1> DEFINE Raced(p, id, new) ==
             /\ ps[p].pc = "writing" /\ ps[p].id = id
             /\ IF ps[p].op = "create" THEN Opening(new)
                                       ELSE ps[p].read < Max(LinesOf(id))
           A == \A id \in Ids :
                  LET old == Latest(id)
                      new == Latest(id)'
                  IN  Readable /\ Readable' /\ LinesOf(id)' # LinesOf(id) =>
                        \/ Opening(new) /\ Vacant(old, now)
                        \/ old # NoRow /\ Follows(old, new)
                        \/ \E p \in Procs : Raced(p, id, new)
<1>1. IInv /\ [Next]_vars => A
  <2> SUFFICES ASSUME IInv, [Next]_vars, NEW id \in Ids,
                      Readable, Readable', LinesOf(id)' # LinesOf(id)
               PROVE  \/ Opening(Latest(id)') /\ Vacant(Latest(id), now)
                      \/ Latest(id) # NoRow /\ Follows(Latest(id), Latest(id)')
                      \/ \E p \in Procs : Raced(p, id, Latest(id)')
    OBVIOUS
  <2>1. lines' # lines
    BY DEF LinesOf
  <2>2. PICK p \in Procs :
          /\ ps[p].pc = "writing" /\ ended' \in BOOLEAN
          /\ \E line \in {[id |-> ps[p].id, row |-> ps[p].new], Damaged} :
               lines' = Extended(line)
    BY <2>1, FileStep
  <2>3. PICK line \in {[id |-> ps[p].id, row |-> ps[p].new], Damaged} : lines' = Extended(line)
    BY <2>2
  <2>4. /\ ps[p] \in Writing /\ WriteSound(ps[p])
        /\ lines' = Append(lines, line) /\ line = [id |-> ps[p].id, row |-> ps[p].new]
    BY <2>2, <2>3, WriterSound
  <2>5. /\ Len(lines) \in Nat /\ DOMAIN lines = 1..Len(lines)
        /\ DOMAIN lines' = 1..(Len(lines) + 1)
        /\ \A k \in 1..Len(lines) : lines'[k] = lines[k]
        /\ lines'[Len(lines) + 1] = line
    BY <2>4 DEF IInv, FileOK
  <2>6. ps[p].id = id
    <3>1. SUFFICES ASSUME ps[p].id # id PROVE LinesOf(id)' = LinesOf(id)
      OBVIOUS
    <3>2. line.id # id
      BY <2>4, <3>1
    <3> QED
      BY <2>5, <3>2 DEF LinesOf
  <2>7. Latest(id)' = ps[p].new
    BY <2>4, <2>5, <2>6, AppendedIsLatest DEF IInv, Writing
  <2>8. CASE ps[p].op = "create"
    BY <2>2, <2>4, <2>6, <2>7, <2>8 DEF WriteSound
  <2>9. CASE ps[p].op # "create" /\ Latest(id) = NoRow
    <3>1. \A m \in DOMAIN lines : lines[m].id # id
      BY <2>9, NoLines DEF IInv, Readable
    <3>2. Opening(ps[p].new)
      BY <2>4, <2>6, <3>1 DEF WriteSound
    <3> QED
      BY <2>7, <2>9, <3>2 DEF Vacant
  <2>10. CASE ps[p].op # "create" /\ Latest(id) # NoRow /\ ~(ps[p].read < Max(LinesOf(id)))
    <3>1. PICK m \in LinesOf(id) : /\ lines[m].row = Latest(id)
                                   /\ \A k \in LinesOf(id) : k <= m
      BY <2>10, LatestLine DEF IInv
    <3>2. m = Max(LinesOf(id)) /\ m \in Nat /\ ps[p].read \in Nat
      <4>1. LinesOf(id) \in SUBSET (1..Len(lines))
        BY <2>5 DEF LinesOf
      <4>2. Max(LinesOf(id)) \in LinesOf(id) /\ m <= Max(LinesOf(id))
        BY <2>5, <4>1, MaxOfLines
      <4> QED
        BY <2>4, <2>5, <3>1, <4>1, <4>2 DEF Writing
    <3>3. m <= ps[p].read
      BY <2>10, <3>2
    <3>4. ContinuesAt(ps[p].read, id, ps[p].new)
      BY <2>4, <2>6, <2>10 DEF WriteSound
    <3>5. Continues(Latest(id), ps[p].new)
      BY <3>1, <3>3, <3>4 DEF ContinuesAt
    <3> QED
      BY <2>7, <2>10, <3>5 DEF Continues
  <2>11. CASE ps[p].op # "create" /\ Latest(id) # NoRow /\ ps[p].read < Max(LinesOf(id))
    BY <2>2, <2>6, <2>11
  <2> QED
    BY <2>8, <2>9, <2>10, <2>11
<1>2. A => \A id \in Ids :
             LET old == Latest(id)
                 new == Latest(id)'
             IN  Readable /\ Readable' /\ LinesOf(id)' # LinesOf(id) =>
                   \/ Opening(new) /\ Vacant(old, now)
                   \/ old # NoRow /\ Follows(old, new)
                   \/ \E p \in Procs :
                        /\ ps[p].pc = "writing" /\ ps[p].id = id
                        /\ IF ps[p].op = "create" THEN Opening(new)
                                                  ELSE ps[p].read < Max(LinesOf(id))
  OBVIOUS
<1> HIDE DEF A
<1> QED
  BY <1>1, <1>2, Invariance, PTL DEF Spec, FollowsUnlessRaced

-----------------------------------------------------------------------------
(* The trail.  What a writing process will write is of the kind its        *)
(* command says, so the events it appends are those of its line.           *)

OpFits(t) ==
  /\ t.op = "create" => Opening(t.new)
  /\ t.op = "approve" => t.new.status \in {"pending", "approved"} /\ t.new.by # {}
  /\ t.op = "deny" => t.new.status = "denied"
  /\ t.op = "execute" => Opening(t.new) \/ t.new.status = "expired"

LineEvents(row, n) ==
  {e \in {<<"created", n>>, <<"signoff", n>>, <<"resolved", n>>} :
     \/ e = <<"created", n>> /\ row.status = "pending" /\ row.by = {}
     \/ e = <<"signoff", n>> /\ row.status \in {"pending", "approved"} /\ row.by # {}
     \/ e = <<"resolved", n>> /\ row.status # "pending"}

Hand(s) == IF s.pc = "auditing" THEN Range(s.todo) ELSE {}

Told == {e \in Events : e # Answer /\ (e \in audit \/ \E p \in Procs : e \in Hand(ps[p]))}

TrailOK ==
  /\ \A p \in Procs : ps[p].pc = "writing" => OpFits(ps[p])
  /\ Readable => Told \subseteq Happened /\ (~cutShort => Happened \subseteq Told)

(* EventsOf appends exactly the events of the line, the answer apart.      *)
LEMMA EventsOfLine ==
  ASSUME NEW t \in Writing, OpFits(t), NEW n \in Nat
  PROVE  Range(EventsOf(t, n)) \ {Answer} = LineEvents(t.new, n)
<1> DEFINE c == <<"created", n>>
           s == <<"signoff", n>>
           r == <<"resolved", n>>
<1>1. /\ c # Answer /\ s # Answer /\ r # Answer /\ c # s /\ c # r /\ s # r
  BY DEF Answer
<1>2. LineEvents(t.new, n) = {e \in {c, s, r} :
        \/ e = c /\ t.new.status = "pending" /\ t.new.by = {}
        \/ e = s /\ t.new.status \in {"pending", "approved"} /\ t.new.by # {}
        \/ e = r /\ t.new.status # "pending"}
  BY DEF LineEvents
<1>3. t.op \in {"create", "approve", "deny", "execute"}
  BY DEF Writing
<1>4. /\ t.op = "create" => EventsOf(t, n) = <<c>>
      /\ t.op = "approve" /\ t.new.status = "approved" => EventsOf(t, n) = <<s, r>>
      /\ t.op = "approve" /\ t.new.status # "approved" => EventsOf(t, n) = <<s>>
      /\ t.op = "deny" => EventsOf(t, n) = <<r>>
      /\ t.op = "execute" /\ t.new.status = "pending" => EventsOf(t, n) = <<Answer, c>>
      /\ t.op = "execute" /\ t.new.status # "pending" => EventsOf(t, n) = <<Answer, r>>
  BY DEF EventsOf
<1> HIDE DEF c, s, r
<1>5. \A x, y : Range(<<x>>) = {x} /\ Range(<<x, y>>) = {x, y}
  BY DEF Range
<1>6. CASE t.op = "create"
  BY <1>1, <1>2, <1>4, <1>5, <1>6 DEF OpFits, Opening
<1>7. CASE t.op = "approve"
  BY <1>1, <1>2, <1>4, <1>5, <1>7 DEF OpFits, Opening
<1>8. CASE t.op = "deny"
  BY <1>1, <1>2, <1>4, <1>5, <1>8 DEF OpFits, Opening
<1>9. CASE t.op = "execute"
  BY <1>1, <1>2, <1>4, <1>5, <1>9 DEF OpFits, Opening
<1> QED
  BY <1>3, <1>6, <1>7, <1>8, <1>9

(* What happened, event by event.                                          *)
LEMMA HappenedEvents ==
  IInv => /\ Happened \subseteq Events
          /\ \A e : e \in Happened <=>
               \/ \E n \in DOMAIN acts : e = <<"act", n>>
               \/ \E n \in DOMAIN lines : e \in LineEvents(lines[n].row, n)
<1> SUFFICES ASSUME IInv
             PROVE  /\ Happened \subseteq Events
                    /\ \A e : e \in Happened <=>
                         \/ \E n \in DOMAIN acts : e = <<"act", n>>
                         \/ \E n \in DOMAIN lines : e \in LineEvents(lines[n].row, n)
  OBVIOUS
<1>1. DOMAIN lines \subseteq Nat /\ DOMAIN acts \subseteq Nat
  BY DEF IInv, FileOK, RestOK
<1>2. Happened \subseteq Events
  BY <1>1 DEF Happened, Events
<1>3. ASSUME NEW e
      PROVE  e \in Happened <=>
               \/ \E n \in DOMAIN acts : e = <<"act", n>>
               \/ \E n \in DOMAIN lines : e \in LineEvents(lines[n].row, n)
  BY DEF Happened, LineEvents
<1> QED
  BY <1>2, <1>3

(* Told is the left-hand side of AuditTellsAll.                            *)
LEMMA ToldIsTold ==
  ASSUME IInv
  PROVE  TrailOK => AuditTellsAll
<1>1. (audit \cup UNION {InHand(p) : p \in Procs}) \ {Answer} = Told
  <2>1. \A p \in Procs : InHand(p) = Hand(ps[p])
    BY DEF InHand, Hand
  <2>2. \A p \in Procs : Hand(ps[p]) \subseteq Events \cup {Answer}
    BY StateKinds DEF IInv, Hand, Auditing, Range
  <2>3. audit \subseteq Events
    BY DEF IInv, RestOK
  <2> QED
    BY <2>1, <2>2, <2>3 DEF Told
<1> QED
  BY <1>1 DEF TrailOK, AuditTellsAll

(* The same of the state a step leads to.                                  *)
LEMMA HappenedNext ==
  IInv' => /\ Happened' \subseteq Events
           /\ \A e : e \in Happened' <=>
                \/ \E n \in DOMAIN acts' : e = <<"act", n>>
                \/ \E n \in DOMAIN lines' : e \in LineEvents(lines'[n].row, n)
<1>1. (IInv => /\ Happened \subseteq Events
               /\ \A e : e \in Happened <=>
                    \/ \E n \in DOMAIN acts : e = <<"act", n>>
                    \/ \E n \in DOMAIN lines : e \in LineEvents(lines[n].row, n))'
  BY HappenedEvents, PTL
<1> QED
  BY <1>1 DEF LineEvents, Events

(* What is told when one process moves.                                    *)
LEMMA ToldNext ==
  ASSUME IInv, NEW p \in Procs, NEW t, Goes(p, t)
  PROVE  \A e \in Events : e \in Told' <=>
           /\ e # Answer
           /\ \/ e \in audit' \/ e \in Hand(t)
              \/ \E q \in Procs \ {p} : e \in Hand(ps[q])
<1>1. ps'[p] = t /\ \A q \in Procs \ {p} : ps'[q] = ps[q]
  BY DEF IInv, Goes
<1>2. ASSUME NEW e \in Events
      PROVE  e \in Told' <=> /\ e # Answer
                             /\ e \in audit' \/ \E q \in Procs : e \in Hand(ps'[q])
  BY DEF Told, Hand, Range
<1>3. ASSUME NEW e
      PROVE  (\E q \in Procs : e \in Hand(ps'[q])) <=>
               e \in Hand(t) \/ \E q \in Procs \ {p} : e \in Hand(ps[q])
  BY <1>1
<1> QED
  BY <1>2, <1>3

(* A step that neither writes a line nor acts, after which the same is     *)
(* told, or less if a process was cut short.                               *)
LEMMA TrailKept ==
  ASSUME IInv, IInv', TrailOK, NEW p \in Procs, NEW t, Goes(p, t),
         t.pc = "writing" => OpFits(t),
         UNCHANGED lines, UNCHANGED acts,
         \A e \in Events \ {Answer} : e \in audit' \/ e \in Hand(t) => e \in audit \/ e \in Hand(ps[p]),
         \A e \in Events \ {Answer} : e \in audit => e \in audit',
         ~cutShort' => /\ ~cutShort
                       /\ \A e \in Events \ {Answer} : e \in Hand(ps[p]) => e \in audit' \/ e \in Hand(t)
  PROVE  TrailOK'
<1>1. \A q \in Procs : ps'[q].pc = "writing" => OpFits(ps'[q])
  BY DEF IInv, Goes, TrailOK
<1>2. \A e : e \in Happened' <=> e \in Happened
  BY HappenedEvents, HappenedNext
<1>3. \A e \in Events : e \in Told' => e \in Told
  BY ToldNext DEF Told
<1>4. ~cutShort' => \A e \in Events : e \in Told => e \in Told'
  BY ToldNext DEF Told
<1>5. Told \subseteq Events /\ Told' \subseteq Events
  BY DEF Told, Events
<1>6. Happened \subseteq Events
  BY HappenedEvents
<1>7. Readable' <=> Readable
  BY DEF Readable
<1>8. Readable' => Told' \subseteq Happened' /\ (~cutShort' => Happened' \subseteq Told')
  BY <1>2, <1>3, <1>4, <1>5, <1>6, <1>7 DEF TrailOK
<1> QED
  BY <1>1, <1>8 DEF TrailOK, OpFits, Opening

(* A step of one process that has nothing in hand, and takes at most the   *)
(* answer in hand.                                                         *)
LEMMA TrailQuiet ==
  ASSUME IInv, IInv', TrailOK, Nothing, UNCHANGED cutShort,
         NEW p \in Procs, ps[p].pc # "auditing", NEW t, Goes(p, t),
         t.pc = "writing" => OpFits(t), t.pc # "auditing" \/ t.todo = <<Answer>>
  PROVE  TrailOK'
<1>1. Hand(ps[p]) = {} /\ Hand(t) \subseteq {Answer}
  <2>1. Range(<<Answer>>) = {Answer}
    BY DEF Range
  <2> QED
    BY <2>1 DEF Hand
<1>2. UNCHANGED lines /\ UNCHANGED acts /\ UNCHANGED audit
  BY DEF Nothing, File, Trail
<1> QED
  BY <1>1, <1>2, TrailKept

(* The same for a process that goes on to write.                           *)
LEMMA TrailWriting ==
  ASSUME IInv, IInv', TrailOK, Nothing, NEW p \in Procs, ps[p].pc # "auditing",
         NEW op, NEW id, NEW new, NEW read, Writes(p, op, id, new, read),
         /\ op = "create" => Opening(new)
         /\ op = "approve" => new.status \in {"pending", "approved"} /\ new.by # {}
         /\ op = "deny" => new.status = "denied"
         /\ op = "execute" => Opening(new) \/ new.status = "expired"
  PROVE  TrailOK'
<1> DEFINE t == [pc |-> "writing", op |-> op, id |-> id, new |-> new, read |-> read]
<1>1. t.pc = "writing" /\ t.op = op /\ t.new = new /\ Goes(p, t)
  BY DEF Writes
<1> HIDE DEF t
<1>2. OpFits(t)
  BY <1>1 DEF OpFits
<1> QED
  BY <1>1, <1>2, TrailQuiet DEF Nothing, Trail

(* The commands up to their first effect.                                  *)
LEMMA CommandTrail ==
  ASSUME IInv, IInv', TrailOK, NEW p \in Procs, Command(p)
  PROVE  TrailOK'
<1>0. FileOK /\ ps[p].pc # "auditing" /\ Nothing /\ UNCHANGED cutShort
  <2>1. Free(p) /\ Nothing
    BY DEF Command, CreateApproval, ApproveRequest, DenyRequest, DecideByPolicy,
       ConsultApproval
  <2> QED
    BY <2>1 DEF Free, Idle, IInv, Nothing, Trail
<1>1. ASSUME NEW id \in Ids, CreateApproval(p, id) PROVE TrailOK'
  BY <1>0, <1>1, OpeningsAreSound, TrailWriting DEF CreateApproval
<1>2. ASSUME NEW id \in Ids, DenyRequest(p, id) PROVE TrailOK'
  <2>1. Latest(id) \in Rows /\ Writes(p, "deny", id, Denied(Latest(id)), Len(lines))
    BY <1>0, <1>2, LatestLine DEF DenyRequest
  <2>2. Denied(Latest(id)).status = "denied"
    BY <2>1 DEF Denied, Rows
  <2> QED
    BY <1>0, <2>1, <2>2, TrailWriting
<1>3. ASSUME NEW id \in Ids, NEW who \in Approvers, NEW ts \in 0..now,
             ApproveRequest(p, id, who, ts)
      PROVE  TrailOK'
  <2> DEFINE row == Latest(id)
             new == SignedOff(row, who, ts)
  <2>1. /\ row \in Rows /\ RowSound(row) /\ MaySignOff(row, who, ts)
        /\ Writes(p, "approve", id, new, Len(lines))
    BY <1>0, <1>3, LatestLine DEF ApproveRequest
  <2> HIDE DEF row
  <2>2. new.status \in {"pending", "approved"} /\ new.by = row.by \cup {who}
    BY <2>1 DEF SignedOff, Rows, MaySignOff
  <2> HIDE DEF new
  <2> QED
    BY <1>0, <2>1, <2>2, TrailWriting
<1>4. CASE DecideByPolicy(p)
  BY <1>0, <1>4, TrailQuiet DEF DecideByPolicy, Answers
<1>5. ASSUME NEW id \in Ids, NEW ts \in 0..now, ConsultApproval(p, id, ts) PROVE TrailOK'
  <2>1. ASSUME NEW new \in Openings, Writes(p, "execute", id, new, Len(lines)) PROVE TrailOK'
    BY <1>0, <2>1, OpeningsAreSound, TrailWriting
  <2>2. CASE Goes(p, [pc |-> "expiring", id |-> id, ts |-> ts])
    <3> DEFINE t == [pc |-> "expiring", id |-> id, ts |-> ts]
    <3>1. t.pc = "expiring" /\ Goes(p, t)
      BY <2>2
    <3> HIDE DEF t
    <3> QED
      BY <1>0, <3>1, TrailQuiet
  <2>3. CASE Goes(p, [pc |-> "cleared", row |-> Latest(id), ts |-> ts])
    <3> DEFINE t == [pc |-> "cleared", row |-> Latest(id), ts |-> ts]
    <3>1. t.pc = "cleared" /\ Goes(p, t)
      BY <2>3
    <3> HIDE DEF t
    <3> QED
      BY <1>0, <3>1, TrailQuiet
  <2>4. CASE Answers(p)
    <3> DEFINE t == [pc |-> "auditing", todo |-> <<Answer>>]
    <3>1. t.pc = "auditing" /\ t.todo = <<Answer>> /\ Goes(p, t)
      BY <2>4 DEF Answers
    <3> HIDE DEF t
    <3> QED
      BY <1>0, <3>1, TrailQuiet
  <2> QED
    BY <1>5, <2>1, <2>2, <2>3, <2>4 DEF ConsultApproval
<1> QED
  BY <1>1, <1>2, <1>3, <1>4, <1>5 DEF Command

(* expire_request, called by the gateway.                                  *)
LEMMA ExpireTrail ==
  ASSUME IInv, IInv', TrailOK, NEW p \in Procs, Expire(p)
  PROVE  TrailOK'
<1> DEFINE row == Latest(ps[p].id)
<1>1. ps[p] \in Expiring /\ ps[p].pc # "auditing" /\ Nothing /\ UNCHANGED cutShort /\ FileOK
  BY StateKinds DEF IInv, Expire, Expiring, Nothing, Trail
<1>2. CASE row # NoRow /\ Writes(p, "execute", ps[p].id, Expired(row), Len(lines))
  <2>1. row \in Rows
    BY <1>1, <1>2, LatestLine DEF Expiring
  <2>2. Expired(row).status = "expired"
    BY <2>1 DEF Expired, Rows
  <2> HIDE DEF row
  <2> QED
    BY <1>1, <1>2, <2>2, TrailWriting
<1>3. CASE Goes(p, Idle)
  BY <1>1, <1>3, TrailQuiet DEF Idle
<1> QED
  BY <1>2, <1>3 DEF Expire

(* The line written and the events its writer has in hand agree.           *)
LEMMA AppendRecordTrail ==
  ASSUME IInv, IInv', TrailOK, NEW p \in Procs, AppendRecord(p)
  PROVE  TrailOK'
<1> DEFINE line == [id |-> ps[p].id, row |-> ps[p].new]
           n == Len(lines')
           t == [pc |-> "auditing", todo |-> EventsOf(ps[p], n)]
<1>1. /\ ps[p].pc = "writing" /\ Goes(p, t) /\ lines' = Extended(line) /\ ended' \in BOOLEAN
      /\ UNCHANGED Trail /\ UNCHANGED acts
  BY DEF AppendRecord
<1>2. /\ ps[p] \in Writing /\ OpFits(ps[p])
      /\ ~Readable => ~Readable'
      /\ Readable' => lines' = Append(lines, line)
  BY <1>1, WriterSound DEF TrailOK
<1>3. n \in Nat /\ FileOK
  BY DEF IInv, FileOK
<1>4. Range(EventsOf(ps[p], n)) \ {Answer} = LineEvents(ps[p].new, n)
  BY <1>2, <1>3, EventsOfLine
<1>5. Hand(t) \ {Answer} = LineEvents(ps[p].new, n) /\ t.pc = "auditing"
  BY <1>4 DEF Hand
<1>6. Hand(ps[p]) = {}
  BY <1>1 DEF Hand
<1> HIDE DEF t
<1>7. \A q \in Procs : ps'[q].pc = "writing" => OpFits(ps'[q])
  BY <1>1, <1>5 DEF IInv, Goes, TrailOK
<1>8. ASSUME Readable'
      PROVE  Told' \subseteq Happened' /\ (~cutShort' => Happened' \subseteq Told')
  <2>1. /\ Readable /\ n = Len(lines) + 1
        /\ DOMAIN lines = 1..Len(lines) /\ DOMAIN lines' = 1..n /\ Len(lines) \in Nat
        /\ \A k \in DOMAIN lines : lines'[k] = lines[k]
        /\ lines'[n].row = ps[p].new
    BY <1>2, <1>3, <1>8 DEF FileOK
  <2> HIDE DEF n
  <2>2. \A k : k \in DOMAIN lines' <=> k \in DOMAIN lines \/ k = n
    BY <2>1
  <2>3. \A e : (\E k \in DOMAIN lines' : e \in LineEvents(lines'[k].row, k)) <=>
                 \/ \E k \in DOMAIN lines : e \in LineEvents(lines[k].row, k)
                 \/ e \in LineEvents(ps[p].new, n)
    BY <2>1, <2>2
  <2>4. \A e : e \in Happened' <=> e \in Happened \/ e \in LineEvents(ps[p].new, n)
    BY <1>1, <2>3, HappenedEvents, HappenedNext
  <2>5. Told \subseteq Events /\ Told' \subseteq Events /\ Happened' \subseteq Events
    BY HappenedNext DEF Told, Events
  <2>6. Answer \notin LineEvents(ps[p].new, n)
    BY <1>5
  <2>7. \A e \in Events : e \in Told' <=> e \in Told \/ e \in LineEvents(ps[p].new, n)
    <3>1. audit' = audit
      BY <1>1 DEF Trail
    <3>2. \A e \in Events : e \in Told' <=>
             /\ e # Answer
             /\ \/ e \in audit' \/ e \in Hand(t)
                \/ \E q \in Procs \ {p} : e \in Hand(ps[q])
      BY <1>1, ToldNext
    <3> QED
      BY <1>5, <1>6, <2>6, <3>1, <3>2 DEF Told
  <2>8. cutShort' = cutShort
    BY <1>1 DEF Trail
  <2> QED
    BY <2>1, <2>4, <2>5, <2>7, <2>8 DEF TrailOK
<1> QED
  BY <1>7, <1>8 DEF TrailOK, OpFits, Opening

(* A death in the write leaves a line perhaps, and no events.              *)
LEMMA CutRecordTrail ==
  ASSUME IInv, IInv', TrailOK, NEW p \in Procs, CutRecord(p)
  PROVE  TrailOK'
<1>1. /\ ps[p].pc = "writing" /\ Goes(p, Idle) /\ ended' \in BOOLEAN
      /\ cutShort' = TRUE /\ UNCHANGED audit /\ UNCHANGED acts
  BY DEF CutRecord
<1>2. PICK line \in {[id |-> ps[p].id, row |-> ps[p].new], Damaged} : lines' = Extended(line)
  BY DEF CutRecord
<1>3. (~Readable => ~Readable') /\ (Readable' => lines' = Append(lines, line))
  BY <1>1, <1>2, WriterSound
<1>4. \A q \in Procs : ps'[q].pc = "writing" => OpFits(ps'[q])
  BY <1>1 DEF IInv, Goes, TrailOK, Idle
<1>5. ASSUME Readable'
      PROVE  Told' \subseteq Happened'
  <2>1. /\ Readable
        /\ DOMAIN lines \subseteq DOMAIN lines'
        /\ \A k \in DOMAIN lines : lines'[k] = lines[k]
    BY <1>3, <1>5 DEF IInv, FileOK
  <2>2. \A e : e \in Happened => e \in Happened'
    BY <1>1, <2>1, HappenedEvents, HappenedNext
  <2>3. Hand(Idle) = {}
    BY DEF Hand, Idle
  <2>4. \A e \in Events : e \in Told' => e \in Told
    BY <1>1, <2>3, ToldNext DEF Told
  <2>5. Told' \subseteq Events
    BY DEF Told, Events
  <2> QED
    BY <2>1, <2>2, <2>4, <2>5 DEF TrailOK
<1> QED
  BY <1>1, <1>4, <1>5 DEF TrailOK, OpFits, Opening

(* A connector call and its event.                                         *)
LEMMA CallConnectorTrail ==
  ASSUME IInv, IInv', TrailOK, NEW p \in Procs, CallConnector(p)
  PROVE  TrailOK'
<1>1. /\ ps[p].pc = "cleared" /\ UNCHANGED File /\ UNCHANGED Trail /\ UNCHANGED now
      /\ UNCHANGED lines /\ UNCHANGED audit /\ UNCHANGED cutShort
  BY DEF CallConnector, File, Trail
<1>2. CASE Answers(p) /\ acts' = acts
  BY <1>1, <1>2, TrailQuiet DEF Answers, Nothing
<1>3. CASE /\ acts' = Append(acts, [row |-> ps[p].row, ts |-> ps[p].ts])
           /\ Goes(p, [pc |-> "auditing", todo |-> <<<<"act", Len(acts')>>>>])
  <2> DEFINE n == Len(acts')
             act == <<"act", n>>
             t == [pc |-> "auditing", todo |-> <<act>>]
  <2>1. n \in Nat /\ DOMAIN acts' = DOMAIN acts \cup {n}
    BY <1>3 DEF IInv, RestOK
  <2>2. act \in Events /\ act # Answer
    BY <2>1 DEF Events, Answer
  <2>3. Hand(t) = {act} /\ Goes(p, t) /\ t.pc = "auditing"
    BY <1>3 DEF Hand, Range
  <2>4. Hand(ps[p]) = {}
    BY <1>1 DEF Hand
  <2> HIDE DEF t
  <2>5. \A e : (\E k \in DOMAIN acts' : e = <<"act", k>>) <=>
                 (\E k \in DOMAIN acts : e = <<"act", k>>) \/ e = act
    BY <2>1
  <2> HIDE DEF act, n
  <2>6. \A e : e \in Happened' <=> e \in Happened \/ e = act
    BY <1>1, <2>5, HappenedEvents, HappenedNext
  <2>7. \A e \in Events : e \in Told' <=> e \in Told \/ e = act
    <3>1. \A e \in Events : e \in Told' <=>
             /\ e # Answer
             /\ \/ e \in audit' \/ e \in Hand(t)
                \/ \E q \in Procs \ {p} : e \in Hand(ps[q])
      BY <2>3, ToldNext
    <3> QED
      BY <1>1, <2>2, <2>3, <2>4, <3>1 DEF Told
  <2>8. \A q \in Procs : ps'[q].pc = "writing" => OpFits(ps'[q])
    BY <2>3 DEF IInv, Goes, TrailOK
  <2>9. Told' \subseteq Events /\ Happened' \subseteq Events /\ (Readable' <=> Readable)
    BY <1>1, HappenedNext DEF Told, Events, Readable
  <2>10. Readable' => Told' \subseteq Happened' /\ (~cutShort' => Happened' \subseteq Told')
    BY <1>1, <2>2, <2>6, <2>7, <2>9 DEF TrailOK, Told
  <2> QED
    BY <2>8, <2>10 DEF TrailOK, OpFits, Opening
<1> QED
  BY <1>2, <1>3 DEF CallConnector

(* An event leaves the hand of its process for the file.                   *)
LEMMA AppendAuditTrail ==
  ASSUME IInv, IInv', TrailOK, NEW p \in Procs, AppendAudit(p)
  PROVE  TrailOK'
<1> DEFINE todo == ps[p].todo
           t == IF Len(todo) = 1 THEN Idle ELSE [ps[p] EXCEPT !.todo = Tail(todo)]
<1>1. /\ ps[p].pc = "auditing" /\ ps[p] \in Auditing
      /\ todo \in Seq(Events \cup {Answer}) /\ todo # <<>>
  BY StateKinds DEF IInv, ProcOK, AppendAudit, Auditing
<1>2. /\ Goes(p, t) /\ UNCHANGED lines /\ UNCHANGED acts /\ UNCHANGED cutShort
      /\ audit' = audit \cup ({Head(todo)} \ {Answer})
  BY DEF AppendAudit, File
<1>3. t.pc = IF Len(todo) = 1 THEN "idle" ELSE "auditing"
  BY <1>1 DEF Auditing, Idle
<1>4. Len(todo) # 1 => t.todo = Tail(todo)
  BY <1>1 DEF Auditing
<1>5. Hand(ps[p]) = Range(todo)
  BY <1>1 DEF Hand
<1>6. Hand(t) = IF Len(todo) = 1 THEN {} ELSE Range(Tail(todo))
  BY <1>3, <1>4 DEF Hand
<1> HIDE DEF t, todo
<1>7. Range(todo) = {Head(todo)} \cup Hand(t)
  <2>1. /\ Len(todo) \in Nat /\ Len(todo) # 0 /\ DOMAIN todo = 1..Len(todo)
        /\ Head(todo) = todo[1]
    BY <1>1
  <2>2. CASE Len(todo) = 1
    <3>1. DOMAIN todo = {1}
      BY <2>1, <2>2
    <3> QED
      BY <1>6, <2>1, <2>2, <3>1 DEF Range
  <2>3. CASE Len(todo) # 1
    <3>1. /\ DOMAIN Tail(todo) = 1..(Len(todo) - 1)
          /\ \A k \in 1..(Len(todo) - 1) : Tail(todo)[k] = todo[k + 1]
      BY <1>1, <2>1
    <3>2. \A k \in DOMAIN todo : k = 1 \/ (k - 1 \in DOMAIN Tail(todo) /\ todo[k] = Tail(todo)[k - 1])
      BY <2>1, <3>1
    <3>3. \A k \in DOMAIN Tail(todo) : k + 1 \in DOMAIN todo /\ Tail(todo)[k] = todo[k + 1]
      BY <2>1, <3>1
    <3>4. 1 \in DOMAIN todo
      BY <2>1
    <3>5. Range(todo) = {Head(todo)} \cup Range(Tail(todo))
      BY <2>1, <3>2, <3>3, <3>4 DEF Range
    <3> QED
      BY <1>6, <2>3, <3>5
  <2> QED
    BY <2>2, <2>3
<1>8. t.pc # "writing"
  BY <1>3
<1> QED
  BY <1>2, <1>5, <1>7, <1>8, TrailKept

(* A command cut short tells less, and is known to.                        *)
LEMMA StopTrail ==
  ASSUME IInv, IInv', TrailOK, NEW p \in Procs, AuditFails(p) \/ Die(p)
  PROVE  TrailOK'
<1>1. CASE AuditFails(p)
  <2>1. /\ Goes(p, Idle) /\ UNCHANGED lines /\ UNCHANGED acts /\ UNCHANGED audit
        /\ cutShort' = TRUE
    BY <1>1 DEF AuditFails, File
  <2>2. Hand(Idle) = {} /\ Idle.pc # "writing"
    BY DEF Hand, Idle
  <2> QED
    BY <2>1, <2>2, TrailKept
<1>2. CASE Die(p)
  BY <1>2, TrailQuiet DEF Die, Nothing, Trail, Idle
<1> QED
  BY <1>1, <1>2

(* Every step keeps the trail as it should be.                             *)
LEMMA TrailStep == IInv /\ IInv' /\ TrailOK /\ [Next]_vars => TrailOK'
<1> SUFFICES ASSUME IInv, IInv', TrailOK, [Next]_vars PROVE TrailOK'
  OBVIOUS
<1>1. CASE Tick \/ UNCHANGED vars
  <2>1. UNCHANGED lines /\ UNCHANGED acts /\ UNCHANGED audit /\ UNCHANGED ps /\ UNCHANGED cutShort
    BY <1>1 DEF Tick, vars, File, Trail
  <2>2. \A e : e \in Happened' <=> e \in Happened
    BY <2>1, HappenedEvents, HappenedNext
  <2>3. Told' = Told /\ (Readable' <=> Readable)
    BY <2>1 DEF Told, Hand, Events, Range, Readable
  <2> QED
    BY <2>1, <2>2, <2>3 DEF TrailOK, OpFits, Opening
<1>2. ASSUME NEW p \in Procs,
             \/ Command(p) \/ Expire(p)
             \/ AppendRecord(p) \/ CallConnector(p) \/ AppendAudit(p)
             \/ CutRecord(p) \/ AuditFails(p) \/ Die(p)
      PROVE  TrailOK'
  BY <1>2, CommandTrail, ExpireTrail, AppendRecordTrail, CallConnectorTrail,
     AppendAuditTrail, CutRecordTrail, StopTrail
<1> QED
  BY <1>1, <1>2 DEF Next

(* append_event: while no command is cut short and the approvals file can  *)
(* be read, the trail and the approvals and connector calls tell the same  *)
(* story, whatever is interleaved; and it never tells more than happened.  *)
THEOREM TrailTellsAll == Spec => []AuditTellsAll
<1>1. Init => TrailOK
  <2> SUFFICES ASSUME Init PROVE TrailOK
    OBVIOUS
  <2>1. Told = {} /\ \A p \in Procs : ps[p].pc # "writing"
    BY DEF Init, Told, Hand, Idle
  <2>2. Happened = {}
    BY DEF Init, Happened
  <2> QED
    BY <2>1, <2>2 DEF TrailOK
<1>2. IInv /\ TrailOK => AuditTellsAll
  BY ToldIsTold
<1> QED
  BY <1>1, <1>2, TrailStep, Invariance, PTL DEF Spec

=============================================================================
