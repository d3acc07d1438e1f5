----------------------------- MODULE AuditProofs -----------------------------
(***************************************************************************)
(* Theorems about the audit trail.  About AuditLog, for any writers,       *)
(* contents and length: what the verification of a chain detects, as facts *)
(* about sequences of lines, then an inductive invariant of the log.       *)
(* About AuditTable, for any handlers, ids, times and number of events:    *)
(* the order in which rows read back, then an inductive invariant.         *)
(***************************************************************************)
EXTENDS AuditLog, AuditTable, FiniteSetTheorems, TLAPS

-----------------------------------------------------------------------------
(* Sequences of lines. *)

LEMMA Appended ==
  ASSUME NEW S, NEW s \in Seq(S), NEW x
  PROVE  /\ Append(s, x) \in Seq(S \cup {x})
         /\ Len(Append(s, x)) = Len(s) + 1
         /\ DOMAIN Append(s, x) = 1..(Len(s) + 1)
         /\ \A i \in 1..Len(s) : Append(s, x)[i] = s[i]
         /\ Append(s, x)[Len(s) + 1] = x
  OBVIOUS

LEMMA Glued ==
  ASSUME NEW S, NEW s \in Seq(S), s # <<>>, NEW x
  PROVE  /\ [s EXCEPT ![Len(s)] = x] \in Seq(S \cup {x})
         /\ Len([s EXCEPT ![Len(s)] = x]) = Len(s)
         /\ DOMAIN [s EXCEPT ![Len(s)] = x] = 1..Len(s)
         /\ [s EXCEPT ![Len(s)] = x][Len(s)] = x
         /\ \A i \in 1..(Len(s) - 1) : [s EXCEPT ![Len(s)] = x][i] = s[i]
  OBVIOUS

(* What VerifyLog says of the lines themselves.                            *)
Sealed(line) == line.hash = HashEvent(ParseLine(line))

LEMMA VerifyLogLines ==
  ASSUME NEW S, NEW s \in Seq(S)
  PROVE  VerifyLog(s) <=>
           /\ Readable(s)
           /\ \A i \in 1..Len(s) : Sealed(s[i])
           /\ \A i \in 2..Len(s) : s[i].prev = s[i - 1].hash
           /\ s # <<>> => s[1].prev = None
<1> DEFINE L == LoadEvents(s)
<1>1. /\ DOMAIN L = 1..Len(s)
      /\ L = [i \in 1..Len(s) |-> ParseLine(s[i])]
  BY DEF LoadEvents
<1>2. Len(L) = Len(s)
  BY <1>1
<1>3. \A i \in 1..Len(s) : L[i].prev = s[i].prev /\ L[i].hash = s[i].hash
  BY <1>1 DEF ParseLine
<1>4. (L # <<>>) <=> (s # <<>>)
  BY <1>1, <1>2
<1>5. s # <<>> => 1 \in 1..Len(s)
  OBVIOUS
<1>6. \A i \in 2..Len(s) : i \in 1..Len(s) /\ i - 1 \in 1..Len(s)
  OBVIOUS
<1>7. \A i \in 1..Len(s) : L[i] = ParseLine(s[i])
  BY <1>1
<1>8. VerifyEventChain(L) <=>
        /\ \A i \in 1..Len(s) : Sealed(s[i])
        /\ \A i \in 2..Len(s) : s[i].prev = s[i - 1].hash
        /\ s # <<>> => s[1].prev = None
  <2> HIDE DEF L
  <2>1. (\A i \in DOMAIN L : L[i].hash = HashEvent(L[i])) <=> \A i \in 1..Len(s) : Sealed(s[i])
    BY <1>1, <1>3, <1>7 DEF Sealed
  <2>2. (\A i \in 2..Len(L) : L[i].prev = L[i - 1].hash)
          <=> \A i \in 2..Len(s) : s[i].prev = s[i - 1].hash
    BY <1>2, <1>3, <1>6
  <2>3. (L # <<>> => L[1].prev = None) <=> (s # <<>> => s[1].prev = None)
    BY <1>3, <1>4, <1>5
  <2> QED BY <2>1, <2>2, <2>3 DEF VerifyEventChain
<1> QED BY <1>8 DEF VerifyLog

LEMMA TailOfLines ==
  ASSUME NEW S, NEW s \in Seq(S)
  PROVE  TailHash(LoadEvents(s)) = IF s = <<>> THEN None ELSE s[Len(s)].hash
<1> DEFINE L == LoadEvents(s)
<1>1. L = [i \in 1..Len(s) |-> ParseLine(s[i])]
  BY DEF LoadEvents
<1>2. Len(L) = Len(s) /\ (L = <<>> <=> s = <<>>)
  BY <1>1
<1>3. s # <<>> => L[Len(s)].hash = s[Len(s)].hash
  BY <1>1 DEF ParseLine
<1> QED BY <1>2, <1>3 DEF TailHash

(* The digest tells the contents, the time and the link of an event, and   *)
(* times that read back are told apart by their text.                      *)
LEMMA DigestsDiffer ==
  ASSUME NEW l, NEW m, Sealed(l), Sealed(m), l.hash = m.hash
  PROVE  ParseLine(l) = ParseLine(m)
<1>1. HashEvent(ParseLine(l)) = HashEvent(ParseLine(m))
  BY DEF Sealed
<1>2. /\ l.id = m.id /\ l.prev = m.prev
      /\ Text(Parse(l.text)) = Text(Parse(m.text))
  BY <1>1 DEF HashEvent, Digest, ParseLine
<1>3. Parse(l.text) = Parse(m.text)
  BY <1>2 DEF Text, Parse
<1> QED BY <1>2, <1>3 DEF ParseLine

(* Replacing a line of a verified log, other than the last, by one that    *)
(* reads differently is detected, whatever digest is put on it:            *)
(* verify_event_chain finds the digest or the next link wrong.             *)
THEOREM EditsBreakChains ==
  ASSUME NEW S, NEW log \in Seq(S), VerifyLog(log),
         NEW i \in 1..(Len(log) - 1), NEW e \in S,
         ParseLine(e) # ParseLine(log[i])
  PROVE  ~VerifyLog([log EXCEPT ![i] = e])
<1> DEFINE new == [log EXCEPT ![i] = e]
<1>1. new \in Seq(S) /\ Len(new) = Len(log) /\ new[i] = e /\ new[i + 1] = log[i + 1]
  OBVIOUS
<1>2. i \in 1..Len(log) /\ i + 1 \in 2..Len(log) /\ (i + 1) - 1 = i
  OBVIOUS
<1>3. Sealed(log[i]) /\ log[i + 1].prev = log[i].hash
  BY <1>2, VerifyLogLines
<1> SUFFICES ASSUME VerifyLog(new) PROVE FALSE
  OBVIOUS
<1> HIDE DEF new
<1>4. Sealed(new[i]) /\ new[i + 1].prev = new[i].hash
  BY <1>1, <1>2, VerifyLogLines
<1> QED BY <1>1, <1>3, <1>4, DigestsDiffer

(* A verified log was verified before its last line came.                  *)
LEMMA PrefixVerifies ==
  ASSUME NEW S, NEW s \in Seq(S), NEW x, VerifyLog(Append(s, x))
  PROVE  VerifyLog(s)
<1> DEFINE t == Append(s, x)
<1>1. /\ t \in Seq(S \cup {x}) /\ Len(t) = Len(s) + 1
      /\ DOMAIN t = 1..(Len(s) + 1) /\ \A i \in 1..Len(s) : t[i] = s[i]
  BY Appended
<1>2. t # <<>>
  BY <1>1
<1> HIDE DEF t
<1>3. /\ Readable(t)
      /\ \A i \in 1..Len(t) : Sealed(t[i])
      /\ \A i \in 2..Len(t) : t[i].prev = t[i - 1].hash
      /\ t[1].prev = None
  BY <1>1, <1>2, VerifyLogLines DEF t
<1>4. Readable(s)
  BY <1>1, <1>3 DEF Readable
<1>5. \A i \in 1..Len(s) : Sealed(s[i])
  BY <1>1, <1>3
<1>6. ASSUME NEW i \in 2..Len(s) PROVE s[i].prev = s[i - 1].hash
  <2>1. i \in 1..Len(s) /\ i - 1 \in 1..Len(s) /\ i \in 2..Len(t)
    BY <1>1
  <2> QED BY <1>1, <1>3, <2>1
<1>7. s # <<>> => s[1].prev = None
  BY <1>1, <1>3
<1> QED BY <1>4, <1>5, <1>6, <1>7, VerifyLogLines

(* What one more sealed line does to a verified log.                       *)
LEMMA OneMoreLine ==
  ASSUME NEW S, NEW s \in Seq(S), NEW x, x # Damaged
  PROVE  /\ VerifyLog(s) /\ Sealed(x) /\ x.prev = TailHash(LoadEvents(s)) => VerifyLog(Append(s, x))
         /\ VerifyLog(Append(s, x)) => x.prev = TailHash(LoadEvents(s))
<1> DEFINE t == Append(s, x)
           n == Len(s)
<1>1. /\ t \in Seq(S \cup {x}) /\ Len(t) = n + 1 /\ DOMAIN t = 1..(n + 1)
      /\ \A i \in 1..n : t[i] = s[i]
      /\ t[n + 1] = x
  BY Appended
<1>2. t # <<>> /\ n \in Nat /\ DOMAIN s = 1..n
  BY <1>1
<1>3. TailHash(LoadEvents(s)) = IF n = 0 THEN None ELSE s[n].hash
  BY TailOfLines
<1>e. s = <<>> <=> n = 0
  OBVIOUS
<1> HIDE DEF t, n
<1>4. VerifyLog(t) <=>
        /\ Readable(t)
        /\ \A i \in 1..(n + 1) : Sealed(t[i])
        /\ \A i \in 2..(n + 1) : t[i].prev = t[i - 1].hash
        /\ t[1].prev = None
  BY <1>1, <1>2, VerifyLogLines
<1>5. ASSUME VerifyLog(s), Sealed(x), x.prev = TailHash(LoadEvents(s)) PROVE VerifyLog(t)
  <2>1. /\ Readable(s)
        /\ \A i \in 1..n : Sealed(s[i])
        /\ \A i \in 2..n : s[i].prev = s[i - 1].hash
        /\ n # 0 => s[1].prev = None
    BY <1>5, <1>e, VerifyLogLines DEF n
  <2>2. Readable(t)
    BY <1>1, <1>2, <2>1 DEF Readable
  <2>3. \A i \in 1..(n + 1) : Sealed(t[i])
    BY <1>1, <1>2, <1>5, <2>1
  <2>4. \A i \in 2..(n + 1) : t[i].prev = t[i - 1].hash
    BY <1>1, <1>2, <1>3, <1>5, <2>1
  <2>5. t[1].prev = None
    BY <1>1, <1>2, <1>3, <1>5, <2>1
  <2> QED BY <1>4, <2>2, <2>3, <2>4, <2>5
<1>6. ASSUME VerifyLog(t) PROVE x.prev = TailHash(LoadEvents(s))
  <2>1. CASE n = 0
    BY <1>1, <1>3, <1>4, <1>6, <2>1
  <2>2. CASE n # 0
    BY <1>1, <1>2, <1>3, <1>4, <1>6, <2>2
  <2> QED BY <2>1, <2>2
<1> QED BY <1>5, <1>6 DEF t

-----------------------------------------------------------------------------
(* The log. *)

LinesOf(s) == {s[i] : i \in DOMAIN s}

LEMMA OwnRange ==
  ASSUME NEW S, NEW s \in Seq(S)
  PROVE  s \in Seq(LinesOf(s))
  BY DEF LinesOf

(* lines is a sequence, and only a non-empty file can lack its newline.    *)
Proper == lines \in Seq(LinesOf(lines)) /\ (~ended => lines # <<>>)

(* A digest a writer has loaded is that of a line of the log.              *)
TailsLead ==
  \A w \in Writers : pc[w] = "append" /\ Readable(lines) =>
    tail[w] = None \/ \E j \in 1..Len(lines) : lines[j].hash = tail[w]

IInv == Proper /\ TypeOK /\ TailsLead /\ OverlapsAreSeen /\ LinksLeadBack

LEMMA InitIInv == Init => IInv
<1> SUFFICES ASSUME Init PROVE IInv
  OBVIOUS
<1>1. lines = <<>> /\ DOMAIN lines = {} /\ Len(lines) = 0
  BY DEF Init
<1>2. Proper
  BY <1>1 DEF Init, Proper
<1>3. TypeOK
  <2>1. Lined(lines) /\ \A i \in DOMAIN lines : FALSE
    BY <1>1 DEF Lined
  <2>2. pc \in [Writers -> {"idle", "append"}] /\ DOMAIN tail = Writers
    BY DEF Init
  <2>3. ended \in BOOLEAN /\ overlapped \in BOOLEAN
    BY DEF Init
  <2> QED BY <2>1, <2>2, <2>3 DEF TypeOK
<1>4. TailsLead /\ OverlapsAreSeen /\ LinksLeadBack
  BY <1>1 DEF Init, TailsLead, OverlapsAreSeen, LinksLeadBack
<1> QED BY <1>2, <1>3, <1>4 DEF IInv

(* What one more text does to the file: a new last line, or a damaged one. *)
LEMMA AddTextCases ==
  ASSUME Proper, NEW line, AddText(line)
  PROVE  /\ lines' \in Seq(LinesOf(lines'))
         /\ lines' # <<>>
         /\ \/ lines' = Append(lines, line)
            \/ /\ Len(lines') = Len(lines) /\ ~Readable(lines')
               /\ \A i \in 1..Len(lines) : lines'[i] = lines[i] \/ lines'[i] = Damaged
<1>1. lines \in Seq(LinesOf(lines))
  BY DEF Proper
<1>2. CASE ended
  <2>1. lines' = Append(lines, line)
    BY <1>2 DEF AddText
  <2>2. lines' \in Seq(LinesOf(lines) \cup {line}) /\ Len(lines') = Len(lines) + 1
    BY <1>1, <2>1, Appended
  <2>3. lines' \in Seq(LinesOf(lines'))
    BY <2>2, OwnRange
  <2>4. lines' # <<>>
    BY <1>1, <2>2
  <2> QED BY <2>1, <2>3, <2>4
<1>3. CASE ~ended
  <2>1. lines # <<>> /\ lines' = [lines EXCEPT ![Len(lines)] = Damaged]
    BY <1>3 DEF AddText, Proper
  <2>2. /\ lines' \in Seq(LinesOf(lines) \cup {Damaged}) /\ Len(lines') = Len(lines)
        /\ DOMAIN lines' = 1..Len(lines) /\ lines'[Len(lines)] = Damaged
        /\ \A i \in 1..(Len(lines) - 1) : lines'[i] = lines[i]
    BY <1>1, <2>1, Glued
  <2>3. Len(lines) \in 1..Len(lines) /\ Len(lines) \in Nat
    BY <1>1, <2>1
  <2>4. ~Readable(lines')
    BY <2>2, <2>3 DEF Readable
  <2>5. lines' # <<>>
    BY <2>2, <2>3
  <2>6. \A i \in 1..Len(lines) : lines'[i] = lines[i] \/ lines'[i] = Damaged
    BY <2>2, <2>3
  <2>7. lines' \in Seq(LinesOf(lines'))
    BY <2>2, OwnRange
  <2>8. Len(lines') = Len(lines)
    BY <2>2
  <2> QED BY <2>4, <2>5, <2>6, <2>7, <2>8, Zenon
<1> QED BY <1>2, <1>3

(* A line that is linked is one its digest seals, provided its time reads  *)
(* back as it was.                                                         *)
LEMMA LinkedLine ==
  ASSUME NEW w, NEW id, NEW f \in Fracs
  PROVE  /\ Linked(w, id, f).prev = tail[w]
         /\ f \in {"whole", "milli"} => Sealed(Linked(w, id, f))
  BY DEF Linked, DumpLine, SealEvent, Digest, Sealed, HashEvent, ParseLine, Text, Parse

(* The end of an append, whole or cut.                                     *)
Wrote(w) ==
  /\ pc' = [pc EXCEPT ![w] = "idle"]
  /\ tail' = [tail EXCEPT ![w] = None]
  /\ overlapped' = (overlapped \/ Outdated(w))

LEMMA WriteKeepsIInv ==
  ASSUME IInv, NEW w \in Writers, NEW id \in Ids, NEW f \in Fracs,
         NEW line \in {Linked(w, id, f), Damaged}, pc[w] = "append",
         AddText(line), ended' \in BOOLEAN, Wrote(w)
  PROVE  IInv'
<1> DEFINE n == Len(lines)
<1>1. Proper /\ lines \in Seq(LinesOf(lines)) /\ n \in Nat /\ DOMAIN lines = 1..n
  BY DEF IInv, Proper
<1>2. /\ lines' \in Seq(LinesOf(lines'))
      /\ lines' # <<>>
      /\ \/ lines' = Append(lines, line)
         \/ /\ Len(lines') = n /\ ~Readable(lines')
            /\ \A i \in 1..n : lines'[i] = lines[i] \/ lines'[i] = Damaged
  BY <1>1, AddTextCases
<1>3. ASSUME lines' = Append(lines, line)
      PROVE  /\ Len(lines') = n + 1 /\ DOMAIN lines' = 1..(n + 1)
             /\ \A i \in 1..n : lines'[i] = lines[i]
             /\ lines'[n + 1] = line
  BY <1>1, <1>3, Appended
<1> HIDE DEF n
<1>4. ASSUME Readable(lines')
      PROVE  /\ lines' = Append(lines, line) /\ Readable(lines)
             /\ line = Linked(w, id, f) /\ line # Damaged
  <2>1. lines' = Append(lines, line)
    BY <1>2, <1>4
  <2>2. Readable(lines)
    BY <1>1, <1>3, <1>4, <2>1 DEF Readable
  <2>3. line # Damaged
    BY <1>1, <1>3, <1>4, <2>1 DEF Readable
  <2> QED BY <2>1, <2>2, <2>3
<1>5. Linked(w, id, f).prev = tail[w]
  BY LinkedLine
<1>6. Proper'
  BY <1>2 DEF Proper, LinesOf
<1>7. TypeOK'
  <2> DEFINE Good(l) == l = Damaged \/ (l.id \in Ids /\ \E g \in Fracs : l.text = Text([sec |-> 0, frac |-> g]))
  <2>1. Good(line)
    BY DEF Linked, DumpLine, SealEvent
  <2>2. \A i \in 1..n : Good(lines[i])
    BY <1>1 DEF IInv, TypeOK
  <2>3. Lined(lines')
    BY <1>2 DEF Lined
  <2>4. \A i \in DOMAIN lines' : Good(lines'[i])
    <3> HIDE DEF Good
    <3>1. CASE lines' = Append(lines, line)
      BY <1>1, <1>3, <2>1, <2>2, <3>1
    <3>2. CASE lines' # Append(lines, line)
      <4>1. Good(Damaged)
        BY DEF Good
      <4>2. DOMAIN lines' = 1..n
        BY <1>2, <3>2
      <4> QED BY <1>2, <2>2, <3>2, <4>1, <4>2
    <3> QED BY <3>1, <3>2
  <2>5. pc' \in [Writers -> {"idle", "append"}] /\ DOMAIN tail' = Writers /\ overlapped' \in BOOLEAN
    BY DEF IInv, TypeOK, Wrote, Outdated
  <2> QED BY <2>3, <2>4, <2>5 DEF TypeOK
<1>8. TailsLead'
  <2> SUFFICES ASSUME NEW v \in Writers, pc'[v] = "append", Readable(lines')
               PROVE  tail'[v] = None \/ \E j \in 1..Len(lines') : lines'[j].hash = tail'[v]
    BY DEF TailsLead
  <2>1. v # w /\ pc[v] = "append" /\ tail'[v] = tail[v]
    BY DEF Wrote, IInv, TypeOK
  <2>2. tail[v] = None \/ \E j \in 1..n : lines[j].hash = tail[v]
    BY <1>4, <2>1 DEF IInv, TailsLead, n
  <2> QED BY <1>1, <1>3, <1>4, <2>1, <2>2
<1>9. OverlapsAreSeen'
  <2> SUFFICES ASSUME overlapped', VerifyLog(lines') PROVE FALSE
    BY DEF OverlapsAreSeen
  <2>1. Readable(lines')
    BY DEF VerifyLog
  <2>2. VerifyLog(lines)
    BY <1>1, <1>4, <2>1, PrefixVerifies
  <2>3. tail[w] # TailHash(LoadEvents(lines))
    BY <2>2 DEF IInv, OverlapsAreSeen, Wrote, Outdated
  <2>4. line.prev = TailHash(LoadEvents(lines))
    BY <1>1, <1>4, <2>1, OneMoreLine
  <2> QED BY <1>4, <1>5, <2>1, <2>3, <2>4
<1>10. LinksLeadBack'
  <2> SUFFICES ASSUME Readable(lines'), NEW i \in DOMAIN lines'
               PROVE  lines'[i].prev = None \/ \E j \in 1..(i - 1) : lines'[j].hash = lines'[i].prev
    BY DEF LinksLeadBack
  <2>1. CASE i \in 1..n
    <3>1. lines[i].prev = None \/ \E j \in 1..(i - 1) : lines[j].hash = lines[i].prev
      BY <1>1, <1>4, <2>1 DEF IInv, LinksLeadBack
    <3>2. \A j \in 1..(i - 1) : lines'[j] = lines[j]
      BY <1>1, <1>3, <1>4, <2>1
    <3> QED BY <1>3, <1>4, <2>1, <3>1, <3>2
  <2>2. CASE i = n + 1
    <3>1. lines'[i].prev = tail[w]
      BY <1>3, <1>4, <1>5, <2>2
    <3>2. tail[w] = None \/ \E j \in 1..n : lines[j].hash = tail[w]
      BY <1>4 DEF IInv, TailsLead, n
    <3>3. i - 1 = n
      BY <1>1, <2>2
    <3> QED BY <1>3, <1>4, <3>1, <3>2, <3>3
  <2>3. i \in 1..n \/ i = n + 1
    BY <1>1, <1>3, <1>4
  <2> QED BY <2>1, <2>2, <2>3
<1> QED BY <1>6, <1>7, <1>8, <1>9, <1>10 DEF IInv

LEMMA StepIInv == IInv /\ [Next]_vars => IInv'
<1> SUFFICES ASSUME IInv, [Next]_vars PROVE IInv'
  OBVIOUS
<1> USE DEF IInv
<1>1. ASSUME NEW w \in Writers, Load(w) PROVE IInv'
  <2>1. lines' = lines /\ ended' = ended /\ overlapped' = overlapped
    BY <1>1 DEF Load
  <2>2. Proper' /\ OverlapsAreSeen' /\ LinksLeadBack'
    BY <2>1 DEF Proper, LinesOf, OverlapsAreSeen, LinksLeadBack
  <2>3. pc' \in [Writers -> {"idle", "append"}] /\ DOMAIN tail' = Writers
    BY <1>1 DEF Load, TypeOK
  <2>4. TypeOK'
    BY <2>1, <2>3 DEF TypeOK
  <2>5. ASSUME NEW v \in Writers, pc'[v] = "append", Readable(lines)
        PROVE  tail'[v] = None \/ \E j \in 1..Len(lines) : lines[j].hash = tail'[v]
    <3>1. CASE v = w
      <4>1. tail'[w] = TailHash(LoadEvents(lines))
        BY <1>1 DEF Load, TypeOK
      <4>2. lines # <<>> => Len(lines) \in 1..Len(lines)
        BY DEF Proper
      <4>3. lines \in Seq(LinesOf(lines))
        BY DEF Proper
      <4>4. tail'[w] = IF lines = <<>> THEN None ELSE lines[Len(lines)].hash
        BY <4>1, <4>3, TailOfLines
      <4> QED BY <3>1, <4>2, <4>4
    <3>2. CASE v # w
      <4>1. pc[v] = "append" /\ tail'[v] = tail[v]
        BY <1>1, <2>5, <3>2 DEF Load, TypeOK
      <4> QED BY <2>5, <4>1 DEF TailsLead
    <3> QED BY <3>1, <3>2
  <2>6. TailsLead'
    BY <2>1, <2>5 DEF TailsLead
  <2> QED BY <2>2, <2>4, <2>6
<1>2. ASSUME NEW w \in Writers, Die(w) PROVE IInv'
  <2>1. lines' = lines /\ ended' = ended /\ overlapped' = overlapped
    BY <1>2 DEF Die
  <2>2. Proper' /\ OverlapsAreSeen' /\ LinksLeadBack'
    BY <2>1 DEF Proper, LinesOf, OverlapsAreSeen, LinksLeadBack
  <2>3. pc' \in [Writers -> {"idle", "append"}] /\ DOMAIN tail' = Writers
    BY <1>2 DEF Die, TypeOK
  <2>4. TypeOK'
    BY <2>1, <2>3 DEF TypeOK
  <2>5. TailsLead'
    BY <1>2, <2>1 DEF Die, TailsLead, TypeOK
  <2> QED BY <2>2, <2>4, <2>5
<1>3. ASSUME NEW w \in Writers, NEW id \in Ids, NEW f \in Fracs, AppendEvent(w, id, f)
      PROVE  IInv'
  <2>1. \E line \in {Linked(w, id, f), Damaged} : AddText(line)
    BY <1>3 DEF AppendEvent
  <2>2. pc[w] = "append" /\ ended' \in BOOLEAN /\ Wrote(w)
    BY <1>3 DEF AppendEvent, Wrote
  <2> QED BY <2>1, <2>2, WriteKeepsIInv
<1>4. ASSUME NEW w \in Writers, NEW id \in Ids, NEW f \in Fracs, CutAppend(w, id, f)
      PROVE  IInv'
  <2>1. \E line \in {Linked(w, id, f), Damaged} : AddText(line)
    BY <1>4 DEF CutAppend
  <2>2. pc[w] = "append" /\ ended' \in BOOLEAN /\ Wrote(w)
    BY <1>4 DEF CutAppend, Wrote
  <2> QED BY <2>1, <2>2, WriteKeepsIInv
<1>5. CASE UNCHANGED vars
  BY <1>5 DEF vars, Proper, LinesOf, TypeOK, Lined, TailsLead, OverlapsAreSeen, LinksLeadBack
<1> QED BY <1>1, <1>2, <1>3, <1>4, <1>5 DEF Next

LEMMA LogIInv == Spec => []IInv
BY InitIInv, StepIInv, PTL DEF Spec

-----------------------------------------------------------------------------
(* Theorems. *)

(* Type correctness of the file and its writers.                           *)
THEOREM LogTypeCorrect == Spec => []TypeOK
<1>1. IInv => TypeOK
  BY DEF IInv
<1> QED BY <1>1, LogIInv, PTL

(* Two appends that overlap (append_event takes no lock) never leave a log *)
(* that verify_log_integrity accepts, then or later.                       *)
THEOREM OverlapsSurface == Spec => []OverlapsAreSeen
<1>1. IInv => OverlapsAreSeen
  BY DEF IInv
<1> QED BY <1>1, LogIInv, PTL

(* Whatever races, dies or is cut, a link in a readable log leads to an    *)
(* earlier line of it.                                                     *)
THEOREM LinksAlwaysLeadBack == Spec => []LinksLeadBack
<1>1. IInv => LinksLeadBack
  BY DEF IInv
<1> QED BY <1>1, LogIInv, PTL

(* The log detects the alteration of any line but its last, whatever       *)
(* digest the editor puts on it.                                           *)
THEOREM EditsDetected == Spec => []EditsAreDetected
<1>1. ASSUME IInv PROVE EditsAreDetected
  <2> SUFFICES ASSUME VerifyLog(lines), NEW i \in 1..(Len(lines) - 1), NEW e \in Edits(lines, i),
                      ParseLine(e) # ParseLine(lines[i])
               PROVE  ~VerifyLog([lines EXCEPT ![i] = e])
    BY DEF EditsAreDetected
  <2>1. lines \in Seq(LinesOf(lines))
    BY <1>1 DEF IInv, Proper
  <2>2. lines \in Seq(LinesOf(lines) \cup {e})
    BY <2>1
  <2> QED BY <2>2, EditsBreakChains
<1> QED BY <1>1, LogIInv, PTL

(* Appending never repairs: a log that fails verification fails it for     *)
(* good.                                                                   *)
THEOREM BreaksAreFinal == Spec => BrokenStaysBroken
<1>1. ASSUME IInv, [Next]_vars, VerifyLog(lines') PROVE VerifyLog(lines)
  <2>1. CASE lines' = lines
    BY <1>1, <2>1
  <2>2. ASSUME NEW w \in Writers, NEW id \in Ids, NEW f \in Fracs,
               AppendEvent(w, id, f) \/ CutAppend(w, id, f)
        PROVE  VerifyLog(lines)
    <3>1. PICK line \in {Linked(w, id, f), Damaged} : AddText(line)
      BY <2>2 DEF AppendEvent, CutAppend
    <3>2. Proper /\ lines \in Seq(LinesOf(lines)) /\ Readable(lines')
      BY <1>1 DEF IInv, Proper, VerifyLog
    <3>3. lines' = Append(lines, line)
      BY <3>1, <3>2, AddTextCases
    <3> QED BY <1>1, <3>2, <3>3, PrefixVerifies
  <2> QED BY <1>1, <2>1, <2>2 DEF Next, Load, Die, vars
<1>2. IInv /\ [Next]_vars => [~VerifyLog(lines) => ~VerifyLog(lines')]_vars
  BY <1>1
<1> QED BY <1>2, LogIInv, PTL DEF Spec, BrokenStaysBroken

(* If no event carries one to 999 microseconds, a log whose appends did    *)
(* not overlap and that is undamaged verifies: the text that is written    *)
(* reads back to the value that was hashed.                                *)
THEOREM LoneWritersVerify ==
  ASSUME Fracs \subseteq {"whole", "milli"}
  PROVE  Spec => []LoneWriterVerifies
<1>1. Init => LoneWriterVerifies
  <2> SUFFICES ASSUME Init PROVE VerifyLog(lines)
    BY DEF LoneWriterVerifies
  <2>1. lines = <<>> /\ lines \in Seq({})
    BY DEF Init
  <2>2. DOMAIN LoadEvents(lines) = {} /\ LoadEvents(lines) = <<>> /\ Readable(lines)
    BY <2>1 DEF LoadEvents, Readable
  <2>3. VerifyEventChain(<<>>)
    BY DEF VerifyEventChain
  <2> QED BY <2>2, <2>3 DEF VerifyLog
<1>2. ASSUME IInv, LoneWriterVerifies, [Next]_vars PROVE LoneWriterVerifies'
  <2> SUFFICES ASSUME Readable(lines'), ~overlapped' PROVE VerifyLog(lines')
    BY DEF LoneWriterVerifies
  <2>1. CASE lines' = lines /\ overlapped' = overlapped
    BY <1>2, <2>1 DEF LoneWriterVerifies
  <2>2. ASSUME NEW w \in Writers, NEW id \in Ids, NEW f \in Fracs,
               NEW line \in {Linked(w, id, f), Damaged}, AddText(line),
               overlapped' = (overlapped \/ Outdated(w))
        PROVE  VerifyLog(lines')
    <3>1. Proper /\ lines \in Seq(LinesOf(lines))
      BY <1>2 DEF IInv, Proper
    <3>2. lines' = Append(lines, line)
      BY <2>2, <3>1, AddTextCases
    <3>3. /\ DOMAIN lines' = 1..(Len(lines) + 1) /\ lines'[Len(lines) + 1] = line
          /\ \A i \in 1..Len(lines) : lines'[i] = lines[i]
          /\ Len(lines) \in Nat /\ DOMAIN lines = 1..Len(lines)
      BY <3>1, <3>2, Appended
    <3>4. Readable(lines) /\ line # Damaged
      BY <3>3 DEF Readable
    <3>5. VerifyLog(lines) /\ tail[w] = TailHash(LoadEvents(lines))
      BY <1>2, <2>2, <3>4 DEF LoneWriterVerifies, Outdated
    <3>6. Sealed(line) /\ line.prev = tail[w]
      BY <2>2, <3>4, LinkedLine
    <3> QED BY <3>1, <3>2, <3>4, <3>5, <3>6, OneMoreLine
  <2>3. ASSUME NEW w \in Writers, NEW id \in Ids, NEW f \in Fracs,
               AppendEvent(w, id, f) \/ CutAppend(w, id, f)
        PROVE  VerifyLog(lines')
    <3>1. \E line \in {Linked(w, id, f), Damaged} : AddText(line)
      BY <2>3 DEF AppendEvent, CutAppend
    <3>2. overlapped' = (overlapped \/ Outdated(w))
      BY <2>3 DEF AppendEvent, CutAppend
    <3> QED BY <2>2, <3>1, <3>2
  <2> QED BY <1>2, <2>1, <2>3 DEF Next, Load, Die, vars
<1> QED BY <1>1, <1>2, LogIInv, PTL DEF Spec

-----------------------------------------------------------------------------
(* AuditTable: the order in which rows read back. *)

(* Rows as a primary key keeps them: no two with the same id.              *)
OnePerId(rows) == \A r, s \in rows : r.id = s.id => r = s

IsTable(rows) == IsFiniteSet(rows) /\ OnePerId(rows) /\ \A r \in rows : IsRow(r)

Earlier(rows, r) == {s \in rows : Before(s, r)}

LEMMA RowNumbers ==
  ASSUME NEW r, IsRow(r)
  PROVE  r.id \in Int /\ r.stamp.sec \in Int
<1>1. r.id \in EventIds /\ r.stamp \in [sec : 0..MaxSec, frac : {"whole"}]
  BY DEF IsRow
<1>2. r.id \in Int
  <2>1. \A x \in EventIds : x \in Int
    BY IdsOrdered
  <2> QED
    BY <1>1, <2>1
<1>3. r.stamp.sec \in 0..MaxSec
  BY <1>1
<1>4. r.stamp.sec \in Int
  BY <1>3, TableBoundsOK
<1> QED
  BY <1>2, <1>4

(* Rows of a table stand in a strict total order.                          *)
LEMMA BeforeOrders ==
  ASSUME NEW rows, IsTable(rows), NEW r \in rows, NEW s \in rows
  PROVE  /\ ~Before(r, r)
         /\ r # s => Before(r, s) \/ Before(s, r)
         /\ \A q \in rows : Before(q, r) /\ Before(r, s) => Before(q, s)
<1>1. \A q \in rows : q.id \in Int /\ q.stamp.sec \in Int
  BY RowNumbers DEF IsTable
<1>2. r # s => r.id # s.id
  BY DEF IsTable, OnePerId
<1> QED
  BY <1>1, <1>2 DEF Before

(* The places of two rows are as the rows are.                             *)
LEMMA EarlierGrows ==
  ASSUME NEW rows, IsTable(rows), NEW r \in rows, NEW s \in rows, Before(r, s)
  PROVE  Cardinality(Earlier(rows, r)) < Cardinality(Earlier(rows, s))
<1>1. Earlier(rows, r) \cup {r} \subseteq Earlier(rows, s)
  BY BeforeOrders DEF Earlier
<1>2. IsFiniteSet(Earlier(rows, r)) /\ IsFiniteSet(Earlier(rows, s))
  BY FS_Subset DEF IsTable, Earlier
<1>3. r \notin Earlier(rows, r)
  BY BeforeOrders DEF Earlier
<1>4. Cardinality(Earlier(rows, r) \cup {r}) = Cardinality(Earlier(rows, r)) + 1
  BY <1>2, <1>3, FS_AddElement
<1>5. Cardinality(Earlier(rows, r) \cup {r}) <= Cardinality(Earlier(rows, s))
  BY <1>1, <1>2, FS_Subset
<1>6. Cardinality(Earlier(rows, r)) \in Nat /\ Cardinality(Earlier(rows, s)) \in Nat
  BY <1>2, FS_CardinalityType
<1> QED
  BY <1>4, <1>5, <1>6

(* Every place is taken: as many rows stand at as many different places.   *)
LEMMA EveryPlaceTaken ==
  ASSUME NEW rows, IsTable(rows), NEW i \in 1..Cardinality(rows)
  PROVE  \E r \in rows : Cardinality(Earlier(rows, r)) = i - 1
<1> DEFINE n == Cardinality(rows)
           P == 0..(n - 1)
           f == [r \in rows |-> Cardinality(Earlier(rows, r))]
<1>1. IsFiniteSet(rows) /\ n \in Nat
  BY FS_CardinalityType DEF IsTable
<1>2. ASSUME NEW r \in rows PROVE f[r] \in P
  <2>1. Earlier(rows, r) \subseteq rows /\ r \notin Earlier(rows, r)
    BY BeforeOrders DEF Earlier
  <2>2. IsFiniteSet(Earlier(rows, r)) /\ Cardinality(Earlier(rows, r)) <= n
    BY <1>1, <2>1, FS_Subset
  <2>3. Cardinality(Earlier(rows, r)) # n
    BY <1>1, <2>1, FS_Subset
  <2>4. Cardinality(Earlier(rows, r)) \in Nat
    BY <2>2, FS_CardinalityType
  <2> QED
    BY <1>1, <2>2, <2>3, <2>4
<1>3. ASSUME NEW r \in rows, NEW s \in rows, f[r] = f[s] PROVE r = s
  <2>1. Cardinality(Earlier(rows, r)) \in Int /\ Cardinality(Earlier(rows, s)) \in Int
    BY <1>1, <1>2
  <2>2. ~Before(r, s) /\ ~Before(s, r)
    BY <1>3, <2>1, EarlierGrows
  <2> QED
    BY <2>2, BeforeOrders
<1>4. f \in Injection(rows, P)
  <2> HIDE DEF P
  <2>1. f \in [rows -> P]
    BY <1>2
  <2> HIDE DEF f
  <2> QED
    BY <1>3, <2>1 DEF Injection, IsInjective
<1>5. IsFiniteSet(P) /\ Cardinality(P) = n
  <2>1. 0 \in Int /\ n - 1 \in Int /\ (0 > n - 1 => n = 0)
    BY <1>1
  <2> QED
    BY <1>1, <2>1, FS_Interval
<1>6. f \in Surjection(rows, P)
  BY <1>4, <1>5, FS_Injection
<1>7. i - 1 \in P
  BY <1>1
<1>8. \E r \in rows : f[r] = i - 1
  <2> HIDE DEF f, P
  <2> QED
    BY <1>6, <1>7 DEF Surjection
<1> QED
  BY <1>8

(* list_audit_events yields every row once, each at the place of the rows  *)
(* before it.                                                              *)
LEMMA ListIsSorted ==
  ASSUME NEW rows, IsTable(rows)
  PROVE  LET events == ListAuditEvents(rows)
             n == Cardinality(rows)
         IN  /\ n \in Nat
             /\ events \in Seq(rows) /\ Len(events) = n /\ DOMAIN events = 1..n
             /\ \A i \in 1..n : Cardinality(Earlier(rows, events[i])) = i - 1
             /\ \A r \in rows : \E i \in 1..n : events[i] = r
<1> DEFINE events == ListAuditEvents(rows)
           n == Cardinality(rows)
           Place(r, i) == Cardinality(Earlier(rows, r)) = i - 1
<1>1. IsFiniteSet(rows) /\ n \in Nat
  BY FS_CardinalityType DEF IsTable
<1>2. events = [i \in 1..n |-> CHOOSE r \in rows : Place(r, i)]
  BY DEF ListAuditEvents, Earlier
<1>3. ASSUME NEW i \in 1..n PROVE events[i] \in rows /\ Place(events[i], i)
  <2>1. \E r \in rows : Place(r, i)
    BY EveryPlaceTaken
  <2> HIDE DEF Place, events
  <2> QED
    BY <1>2, <2>1
<1>4. events \in [1..n -> rows]
  <2> HIDE DEF events, Place
  <2> QED
    BY <1>2, <1>3
<1>5. events \in Seq(rows) /\ Len(events) = n /\ DOMAIN events = 1..n
  <2> HIDE DEF events, Place
  <2> QED
    BY <1>1, <1>4
<1>6. ASSUME NEW r \in rows PROVE \E i \in 1..n : events[i] = r
  <2> DEFINE k == Cardinality(Earlier(rows, r))
  <2>1. Earlier(rows, r) \subseteq rows /\ r \notin Earlier(rows, r)
    BY BeforeOrders DEF Earlier
  <2>2. IsFiniteSet(Earlier(rows, r)) /\ k <= n /\ k # n
    BY <1>1, <2>1, FS_Subset
  <2>3. k \in Nat /\ k + 1 \in 1..n
    BY <1>1, <2>2, FS_CardinalityType
  <2>4. events[k + 1] \in rows /\ Cardinality(Earlier(rows, events[k + 1])) = k
    BY <1>3, <2>3
  <2>5. ~Before(r, events[k + 1]) /\ ~Before(events[k + 1], r)
    BY <2>3, <2>4, EarlierGrows
  <2>6. events[k + 1] = r
    BY <2>4, <2>5, BeforeOrders
  <2> QED
    BY <2>3, <2>6
<1> HIDE DEF events
<1> QED
  BY <1>1, <1>3, <1>5, <1>6 DEF events

(* Rows at ascending places come in their order.                           *)
LEMMA ListAscends ==
  ASSUME NEW rows, IsTable(rows),
         NEW i \in 1..Cardinality(rows), NEW j \in 1..Cardinality(rows), i < j
  PROVE  Before(ListAuditEvents(rows)[i], ListAuditEvents(rows)[j])
<1> DEFINE events == ListAuditEvents(rows)
<1>1. /\ Cardinality(rows) \in Nat /\ events[i] \in rows /\ events[j] \in rows
      /\ Cardinality(Earlier(rows, events[i])) = i - 1
      /\ Cardinality(Earlier(rows, events[j])) = j - 1
  BY ListIsSorted
<1> HIDE DEF events
<1>2. ~Before(events[j], events[i]) /\ events[i] # events[j]
  BY <1>1, EarlierGrows
<1>3. Before(events[i], events[j])
  BY <1>1, <1>2, BeforeOrders
<1> QED
  BY <1>3 DEF events

(* The hash an append links to: that of the last row, or none.             *)
LEMMA TailIsLast ==
  ASSUME NEW rows, IsTable(rows)
  PROVE  \/ rows = {} /\ TailHash(ListAuditEvents(rows)) = None
         \/ \E r \in rows : /\ TailHash(ListAuditEvents(rows)) = r.hash
                            /\ \A s \in rows : s # r => Before(s, r)
<1> DEFINE events == ListAuditEvents(rows)
           n == Cardinality(rows)
<1>1. /\ n \in Nat /\ events \in Seq(rows) /\ Len(events) = n /\ DOMAIN events = 1..n
      /\ \A r \in rows : \E i \in 1..n : events[i] = r
  BY ListIsSorted
<1>2. \A i \in 1..n : i # n => Before(events[i], events[n])
  BY <1>1, ListAscends
<1> HIDE DEF events, n
<1>3. CASE n = 0
  BY <1>1, <1>3 DEF TailHash, events
<1>4. CASE n # 0
  <2>1. n \in 1..n /\ events # <<>> /\ events[n] \in rows
    BY <1>1, <1>4
  <2>2. TailHash(events) = events[n].hash
    BY <1>1, <2>1 DEF TailHash
  <2>3. \A s \in rows : s # events[n] => Before(s, events[n])
    BY <1>1, <1>2
  <2> QED
    BY <2>1, <2>2, <2>3 DEF events
<1> QED
  BY <1>3, <1>4

-----------------------------------------------------------------------------
(* AuditTable: the inductive invariant. *)

AllRows == table \cup UNION {own[h] : h \in Handlers}

(* Links of rows lead to rows.                                             *)
LinksWithin(rows) == \A r \in rows : r.prev = None \/ \E s \in rows : s.hash = r.prev

(* Rows a second or more apart, each as it was hashed and linked to the    *)
(* last one before it.                                                     *)
OneChain(rows) ==
  /\ \A r \in rows : r.hash = HashEvent(r)
  /\ \A r, s \in rows : r.stamp.sec = s.stamp.sec => r = s
  /\ \A r \in rows :
       \/ r.prev = None /\ \A s \in rows : ~Before(s, r)
       \/ \E s \in rows : /\ r.prev = s.hash /\ Before(s, r)
                          /\ \A q \in rows : Before(q, r) => q = s \/ Before(q, s)

TableInv ==
  /\ TableTypeOK
  /\ IsFiniteSet(table) /\ \A h \in Handlers : IsFiniteSet(own[h])
  /\ OnePerId(AllRows)
  /\ LinksWithin(table) /\ \A h \in Handlers : LinksWithin(Visible(h))
  /\ ~crowded => /\ \A g, h \in Handlers : own[g] # {} /\ own[h] # {} => g = h
                 /\ OneChain(table) /\ \A h \in Handlers : OneChain(Visible(h))

(* What a transaction sees is a table.                                     *)
LEMMA VisibleIsTable ==
  ASSUME TableInv
  PROVE  IsTable(table) /\ \A h \in Handlers : IsTable(Visible(h))
<1>1. IsTable(table)
  BY DEF TableInv, TableTypeOK, IsTable, OnePerId, AllRows
<1>2. ASSUME NEW h \in Handlers PROVE IsTable(Visible(h))
  <2>1. Visible(h) \subseteq AllRows
    BY DEF Visible, AllRows
  <2>2. IsFiniteSet(Visible(h))
    BY FS_Union DEF TableInv, Visible
  <2>3. \A r \in Visible(h) : IsRow(r)
    BY DEF TableInv, TableTypeOK, Visible
  <2> QED
    BY <2>1, <2>2, <2>3 DEF TableInv, IsTable, OnePerId
<1> QED
  BY <1>1, <1>2

(* What is inserted.                                                       *)
LEMMA InsertedRow ==
  ASSUME NEW id, NEW stamp \in [sec : 0..MaxSec, frac : TimeKinds], NEW prev
  PROVE  LET row == StoredRow(SealEvent(id, stamp, prev))
         IN  /\ row.id = id /\ row.prev = prev
             /\ row.stamp = [sec |-> stamp.sec, frac |-> "whole"]
             /\ row.hash = Digest(id, stamp, prev)
BY DEF StoredRow, SealEvent

(* A row of a later second continues a chain.                              *)
LEMMA ChainContinues ==
  ASSUME NEW rows, IsTable(rows), OneChain(rows), NEW row, IsRow(row),
         row.hash = HashEvent(row),
         \A r \in rows : r.stamp.sec < row.stamp.sec,
         row.prev = TailHash(ListAuditEvents(rows))
  PROVE  OneChain(rows \cup {row})
<1> DEFINE more == rows \cup {row}
<1>1. \A r \in more : r.id \in Int /\ r.stamp.sec \in Int
  BY RowNumbers DEF IsTable
<1>2. ~Before(row, row) /\ \A r \in rows : Before(r, row) /\ ~Before(row, r)
  BY <1>1 DEF Before
<1>3. \A r, s \in more : r.stamp.sec = s.stamp.sec => r = s
  BY <1>1 DEF OneChain
<1>4. ASSUME NEW r \in rows
      PROVE  \/ r.prev = None /\ \A s \in more : ~Before(s, r)
             \/ \E s \in more : /\ r.prev = s.hash /\ Before(s, r)
                                /\ \A q \in more : Before(q, r) => q = s \/ Before(q, s)
  BY <1>2 DEF OneChain
<1>5. \/ row.prev = None /\ \A s \in more : ~Before(s, row)
      \/ \E s \in more : /\ row.prev = s.hash /\ Before(s, row)
                         /\ \A q \in more : Before(q, row) => q = s \/ Before(q, s)
  <2>1. CASE rows = {} /\ TailHash(ListAuditEvents(rows)) = None
    BY <1>2, <2>1
  <2>2. CASE \E r \in rows : /\ TailHash(ListAuditEvents(rows)) = r.hash
                             /\ \A s \in rows : s # r => Before(s, r)
    BY <1>2, <2>2
  <2> QED
    BY <2>1, <2>2, TailIsLast
<1>6. \A r \in more : r.hash = HashEvent(r)
  BY DEF OneChain
<1> HIDE DEF more
<1>7. \A r \in more : r \in rows \/ r = row
  BY DEF more
<1>8. OneChain(more)
  BY <1>3, <1>4, <1>5, <1>6, <1>7 DEF OneChain
<1> QED
  BY <1>8 DEF more

(* An append that crowds nobody comes after every row it sees.             *)
LEMMA UncrowdedAppend ==
  ASSUME TableInv, NEW h \in Handlers, ts[h] \in [sec : 0..MaxSec, frac : TimeKinds],
         ~Crowds(h)
  PROVE  /\ \A r \in Visible(h) : r.stamp.sec < ts[h].sec
         /\ \A g \in Handlers \ {h} : own[g] = {}
         /\ ts[h] = [sec |-> ts[h].sec, frac |-> "whole"]
<1>1. ts[h].sec \in Int
  BY TableBoundsOK
<1>2. ASSUME NEW r \in Visible(h) PROVE r.stamp.sec < ts[h].sec
  <2>1. r.stamp \in [sec : 0..MaxSec, frac : {"whole"}]
    BY VisibleIsTable DEF IsTable, IsRow
  <2>2. r.stamp.sec \in Int
    BY <2>1, TableBoundsOK
  <2>3. ~(r.stamp.sec >= ts[h].sec)
    BY DEF Crowds
  <2> QED
    BY <1>1, <2>2, <2>3
<1>3. ts[h].frac = "whole" /\ \A g \in Handlers \ {h} : own[g] = {}
  BY DEF Crowds
<1> QED
  BY <1>2, <1>3

LEMMA AppendKeeps ==
  ASSUME TableInv, NEW h \in Handlers, NEW id \in EventIds, AppendAuditEvent(h, id)
  PROVE  TableInv'
<1> DEFINE seen == Visible(h)
           row == StoredRow(SealEvent(id, ts[h], TailHash(ListAuditEvents(seen))))
<1>1. /\ ts[h] \in [sec : 0..MaxSec, frac : TimeKinds]
      /\ own' = [own EXCEPT ![h] = @ \cup {row}]
      /\ crowded' = (crowded \/ Crowds(h)) /\ table' = table /\ ts' = ts
      /\ id \notin Taken(table) \cup UNION {Taken(own[g]) : g \in Handlers}
      /\ DOMAIN own = Handlers
  BY DEF TableInv, TableTypeOK, AppendAuditEvent
<1>2. /\ row.id = id /\ row.prev = TailHash(ListAuditEvents(seen))
      /\ row.stamp = [sec |-> ts[h].sec, frac |-> "whole"]
      /\ row.hash = Digest(id, ts[h], row.prev)
  BY <1>1, InsertedRow
<1>3. IsTable(seen)
  BY VisibleIsTable
<1> HIDE DEF row
<1>4. IsRow(row)
  BY <1>1, <1>2 DEF IsRow
<1>5. /\ DOMAIN own' = Handlers /\ own'[h] = own[h] \cup {row}
      /\ \A g \in Handlers \ {h} : own'[g] = own[g]
  BY <1>1
<1>6. Visible(h)' = Visible(h) \cup {row} /\ \A g \in Handlers \ {h} : Visible(g)' = Visible(g)
  BY <1>1, <1>5 DEF Visible
<1>7. TableTypeOK'
  BY <1>1, <1>4, <1>5 DEF TableInv, TableTypeOK
<1>8. IsFiniteSet(table)' /\ \A g \in Handlers : IsFiniteSet(own[g])'
  BY <1>1, <1>5, FS_AddElement DEF TableInv
<1>9. OnePerId(AllRows)'
  <2>1. AllRows' = AllRows \cup {row}
    BY <1>1, <1>5 DEF AllRows
  <2>2. \A r \in AllRows : r.id # id
    BY <1>1 DEF AllRows, Taken
  <2> QED
    BY <1>2, <2>1, <2>2 DEF TableInv, OnePerId
<1>10. LinksWithin(table)' /\ \A g \in Handlers : LinksWithin(Visible(g))'
  <2>1. row.prev = None \/ \E s \in seen : s.hash = row.prev
    BY <1>2, <1>3, TailIsLast
  <2>2. LinksWithin(seen \cup {row})
    BY <2>1 DEF TableInv, LinksWithin
  <2> QED
    BY <1>1, <1>6, <2>2 DEF TableInv, LinksWithin
<1>11. ASSUME ~crowded'
       PROVE  /\ \A g, k \in Handlers : own'[g] # {} /\ own'[k] # {} => g = k
              /\ OneChain(table)' /\ \A g \in Handlers : OneChain(Visible(g))'
  <2>1. /\ ~crowded /\ \A r \in seen : r.stamp.sec < ts[h].sec
        /\ \A g \in Handlers \ {h} : own[g] = {}
        /\ ts[h] = [sec |-> ts[h].sec, frac |-> "whole"]
    BY <1>1, <1>11, UncrowdedAppend
  <2>2. OneChain(table) /\ \A g \in Handlers : OneChain(Visible(g))
    BY <2>1 DEF TableInv
  <2>3. row.hash = HashEvent(row)
    BY <1>2, <2>1 DEF HashEvent
  <2>4. OneChain(seen \cup {row})
    BY <1>2, <1>3, <1>4, <2>1, <2>2, <2>3, ChainContinues
  <2>5. \A g, k \in Handlers : own'[g] # {} /\ own'[k] # {} => g = k
    BY <1>5, <2>1
  <2>6. OneChain(table)' /\ \A g \in Handlers : OneChain(Visible(g))'
    BY <1>1, <1>6, <2>2, <2>4 DEF OneChain
  <2> QED
    BY <2>5, <2>6
<1> QED
  BY <1>7, <1>8, <1>9, <1>10, <1>11 DEF TableInv

(* Rows of a transaction that ends otherwise than by a commit are gone, and *)
(* nobody else had seen them.                                              *)
LEMMA RollbackKeeps ==
  ASSUME TableInv, NEW h \in Handlers, Rollback(h)
  PROVE  TableInv'
<1>1. /\ DOMAIN own' = Handlers /\ own'[h] = {} /\ \A g \in Handlers \ {h} : own'[g] = own[g]
      /\ table' = table /\ crowded' = crowded /\ ts' = [ts EXCEPT ![h] = None]
  BY DEF TableInv, TableTypeOK, Rollback
<1>2. Visible(h)' = table /\ \A g \in Handlers \ {h} : Visible(g)' = Visible(g)
  BY <1>1 DEF Visible
<1>3. TableTypeOK'
  BY <1>1 DEF TableInv, TableTypeOK
<1>4. IsFiniteSet(table)' /\ \A g \in Handlers : IsFiniteSet(own[g])'
  BY <1>1, FS_EmptySet DEF TableInv
<1>5. OnePerId(AllRows)'
  <2>1. AllRows' \subseteq AllRows
    BY <1>1 DEF AllRows
  <2> QED
    BY <2>1 DEF TableInv, OnePerId
<1>6. LinksWithin(table)' /\ \A g \in Handlers : LinksWithin(Visible(g))'
  BY <1>1, <1>2 DEF TableInv, LinksWithin
<1>7. ASSUME ~crowded'
      PROVE  /\ \A g, k \in Handlers : own'[g] # {} /\ own'[k] # {} => g = k
             /\ OneChain(table)' /\ \A g \in Handlers : OneChain(Visible(g))'
  <2>1. /\ \A g, k \in Handlers : own[g] # {} /\ own[k] # {} => g = k
        /\ OneChain(table) /\ \A g \in Handlers : OneChain(Visible(g))
    BY <1>1, <1>7 DEF TableInv
  <2>2. \A g, k \in Handlers : own'[g] # {} /\ own'[k] # {} => g = k
    BY <1>1, <2>1
  <2>3. OneChain(table)' /\ \A g \in Handlers : OneChain(Visible(g))'
    BY <1>1, <1>2, <2>1 DEF OneChain
  <2> QED
    BY <2>2, <2>3
<1> QED
  BY <1>3, <1>4, <1>5, <1>6, <1>7 DEF TableInv

LEMMA TableCommitKeeps ==
  ASSUME TableInv, NEW h \in Handlers, Commit(h)
  PROVE  TableInv'
<1>1. /\ DOMAIN own' = Handlers /\ own'[h] = {} /\ \A g \in Handlers \ {h} : own'[g] = own[g]
      /\ table' = Visible(h) /\ crowded' = crowded /\ ts' = [ts EXCEPT ![h] = None]
  BY DEF TableInv, TableTypeOK, Commit, Visible
<1>2. Visible(h)' = Visible(h) /\ \A g \in Handlers \ {h} : Visible(g)' = Visible(h) \cup Visible(g)
  BY <1>1 DEF Visible
<1>3. TableTypeOK'
  BY <1>1 DEF TableInv, TableTypeOK, Visible
<1>4. IsFiniteSet(table)' /\ \A g \in Handlers : IsFiniteSet(own[g])'
  <2>1. IsFiniteSet(Visible(h))
    BY VisibleIsTable DEF IsTable
  <2> QED
    BY <1>1, <2>1, FS_EmptySet DEF TableInv
<1>5. OnePerId(AllRows)'
  <2>1. AllRows' \subseteq AllRows
    BY <1>1 DEF AllRows, Visible
  <2> QED
    BY <2>1 DEF TableInv, OnePerId
<1>6. LinksWithin(table)' /\ \A g \in Handlers : LinksWithin(Visible(g))'
  <2>1. LinksWithin(Visible(h)) /\ \A g \in Handlers : LinksWithin(Visible(g))
    BY DEF TableInv
  <2>2. \A g \in Handlers : LinksWithin(Visible(h) \cup Visible(g))
    BY <2>1 DEF LinksWithin
  <2> QED
    BY <1>1, <1>2, <2>1, <2>2 DEF LinksWithin
<1>7. ASSUME ~crowded'
      PROVE  /\ \A g, k \in Handlers : own'[g] # {} /\ own'[k] # {} => g = k
             /\ OneChain(table)' /\ \A g \in Handlers : OneChain(Visible(g))'
  <2>1. /\ \A g, k \in Handlers : own[g] # {} /\ own[k] # {} => g = k
        /\ OneChain(table) /\ \A g \in Handlers : OneChain(Visible(g))
    BY <1>1, <1>7 DEF TableInv
  <2>2. \A g, k \in Handlers : own'[g] # {} /\ own'[k] # {} => g = k
    BY <1>1, <2>1
  <2>3. \A g \in Handlers \ {h} : Visible(g)' = Visible(h) \/ Visible(g)' = Visible(g)
    BY <1>1, <1>2, <2>1 DEF Visible
  <2>4. OneChain(table)' /\ \A g \in Handlers : OneChain(Visible(g))'
    BY <1>1, <1>2, <2>1, <2>3 DEF OneChain
  <2> QED
    BY <2>2, <2>4
<1> QED
  BY <1>3, <1>4, <1>5, <1>6, <1>7 DEF TableInv

LEMMA TableInitKeeps == TableInit => TableInv
<1> SUFFICES ASSUME TableInit PROVE TableInv
  OBVIOUS
<1>1. table = {} /\ own = [h \in Handlers |-> {}] /\ ts = [h \in Handlers |-> None] /\ crowded = FALSE
  BY DEF TableInit
<1>2. \A h \in Handlers : own[h] = {} /\ Visible(h) = {}
  BY <1>1 DEF Visible
<1>3. AllRows = {}
  BY <1>1 DEF AllRows
<1> QED
  BY <1>1, <1>2, <1>3, FS_EmptySet DEF TableInv, TableTypeOK, OnePerId, LinksWithin, OneChain

LEMMA TableNextKeeps == TableInv /\ [TableNext]_tableVars => TableInv'
<1> SUFFICES ASSUME TableInv, [TableNext]_tableVars PROVE TableInv'
  OBVIOUS
<1>1. ASSUME UNCHANGED <<table, own, crowded>>, TableTypeOK' PROVE TableInv'
  BY <1>1 DEF TableInv, OnePerId, AllRows, LinksWithin, OneChain, Visible
<1>2. ASSUME NEW h \in Handlers, NEW s \in 0..MaxSec, NEW f \in TimeKinds, Begin(h, s, f)
      PROVE  TableInv'
  <2>1. TableTypeOK'
    BY <1>2 DEF Begin, TableInv, TableTypeOK
  <2> QED
    BY <1>1, <1>2, <2>1 DEF Begin
<1>3. ASSUME NEW h \in Handlers, NEW id \in EventIds, AppendAuditEvent(h, id) PROVE TableInv'
  BY <1>3, AppendKeeps
<1>4. ASSUME NEW h \in Handlers, Rollback(h) PROVE TableInv'
  BY <1>4, RollbackKeeps
<1>5. ASSUME NEW h \in Handlers, Commit(h) PROVE TableInv'
  BY <1>5, TableCommitKeeps
<1>6. CASE UNCHANGED tableVars
  BY <1>1, <1>6 DEF tableVars, TableInv, TableTypeOK
<1> QED
  BY <1>2, <1>3, <1>4, <1>5, <1>6 DEF TableNext, DuplicateId, Fail

-----------------------------------------------------------------------------
(* AuditTable: the theorems. *)

(* Rows are as they are written, whole seconds and all.                    *)
THEOREM TableTypeCorrect == TableSpec => []TableTypeOK
<1>1. TableInv => TableTypeOK
  BY DEF TableInv
<1> QED
  BY <1>1, TableInitKeeps, TableNextKeeps, PTL DEF TableSpec

(* No committed event is linked to an event that was rolled back.          *)
THEOREM LinksAreAlwaysCommitted == TableSpec => []LinksAreCommitted
<1>1. TableInv => LinksAreCommitted
  BY DEF TableInv, LinksWithin, LinksAreCommitted
<1> QED
  BY <1>1, TableInitKeeps, TableNextKeeps, PTL DEF TableSpec

(* Rows in one chain, read back in their order, verify.                    *)
LEMMA ChainVerifies ==
  ASSUME NEW rows, IsTable(rows), OneChain(rows)
  PROVE  VerifyEventChain(ListAuditEvents(rows))
<1> DEFINE events == ListAuditEvents(rows)
           n == Cardinality(rows)
<1>1. /\ n \in Nat /\ events \in Seq(rows) /\ Len(events) = n /\ DOMAIN events = 1..n
      /\ \A r \in rows : \E i \in 1..n : events[i] = r
  BY ListIsSorted
<1>2. \A i, j \in 1..n : i < j => Before(events[i], events[j])
  BY ListAscends
<1> HIDE DEF events, n
<1>3. \A i \in 1..n : events[i] \in rows
  BY <1>1
<1>4. ASSUME NEW i \in 1..n, NEW j \in 1..n, Before(events[i], events[j]) PROVE i < j
  <2>1. ~Before(events[j], events[i]) /\ events[i] # events[j]
    BY <1>3, <1>4, BeforeOrders
  <2> QED
    BY <1>1, <1>2, <2>1
<1>5. \A i \in 1..n : events[i].hash = HashEvent(events[i])
  BY <1>3 DEF OneChain
<1>6. ASSUME NEW i \in 2..n PROVE events[i].prev = events[i - 1].hash
  <2>1. i \in 1..n /\ i - 1 \in 1..n /\ i - 1 < i
    BY <1>1
  <2>2. Before(events[i - 1], events[i])
    BY <1>2, <2>1
  <2>3. PICK s \in rows : /\ events[i].prev = s.hash /\ Before(s, events[i])
                          /\ \A q \in rows : Before(q, events[i]) => q = s \/ Before(q, s)
    BY <1>3, <2>1, <2>2 DEF OneChain
  <2>4. PICK j \in 1..n : events[j] = s
    BY <1>1
  <2>5. events[i - 1] = s \/ i - 1 < j
    BY <1>3, <1>4, <2>1, <2>2, <2>3, <2>4
  <2>6. j < i
    BY <1>4, <2>1, <2>3, <2>4
  <2>7. events[i - 1] = s
    BY <1>1, <2>1, <2>5, <2>6
  <2> QED
    BY <2>3, <2>7
<1>7. ASSUME events # <<>> PROVE events[1].prev = None
  <2>1. 1 \in 1..n
    BY <1>1, <1>7
  <2>2. \A s \in rows : ~Before(s, events[1])
    BY <1>1, <1>4, <2>1
  <2> QED
    BY <1>3, <2>1, <2>2 DEF OneChain
<1>8. VerifyEventChain(events)
  BY <1>1, <1>5, <1>6, <1>7 DEF VerifyEventChain
<1> QED
  BY <1>8 DEF events

(* Events that come one by one, each on a full second of its own, make a   *)
(* table that verifies, whichever requests fail between them.              *)
THEOREM PacedEventsAlwaysVerify == TableSpec => []PacedEventsVerify
<1>1. TableInv => PacedEventsVerify
  BY VisibleIsTable, ChainVerifies DEF TableInv, PacedEventsVerify
<1> QED
  BY <1>1, TableInitKeeps, TableNextKeeps, PTL DEF TableSpec

=============================================================================
