------------------------------ MODULE AuditLog ------------------------------
(***************************************************************************)
(* The audit log file, appended to by command-line processes.  append_event *)
(* reads the whole file, links to its last event and appends one line; no  *)
(* lock is held between the two, a process may die between them, and the   *)
(* write may be cut short by the machine.                                  *)
(***************************************************************************)
EXTENDS AuditEvents

CONSTANTS Writers,   \* processes
          Ids,       \* event contents
          Fracs,     \* kinds of time they carry
          MaxLines   \* bound of the log's length

ASSUME FracsOK == Fracs \subseteq Fractions
ASSUME MaxLinesOK == MaxLines \in Nat

VARIABLES lines,      \* the lines of the file
          ended,      \* the file ends with a newline
          tail,       \* per writer: the digest it will link to
          pc,         \* per writer
          overlapped  \* ghost: some event was linked to an outdated tail

vars == <<lines, ended, tail, pc, overlapped>>

Lined(s) == DOMAIN s = 1..Len(s) /\ Len(s) \in Nat

TypeOK ==
  /\ Lined(lines)
  /\ \A i \in DOMAIN lines :
       \/ lines[i] = Damaged
       \/ /\ lines[i].id \in Ids
          /\ \E f \in Fracs : lines[i].text = Text([sec |-> 0, frac |-> f])
  /\ ended \in BOOLEAN
  /\ pc \in [Writers -> {"idle", "append"}]
  /\ DOMAIN tail = Writers
  /\ overlapped \in BOOLEAN

-----------------------------------------------------------------------------

Init ==
  /\ lines = <<>>
  /\ ended = TRUE
  /\ tail = [w \in Writers |-> None]
  /\ pc = [w \in Writers |-> "idle"]
  /\ overlapped = FALSE

(* load_events at the start of append_event; a damaged line raises.        *)
Load(w) ==
  /\ pc[w] = "idle"
  /\ Readable(lines)
  /\ tail' = [tail EXCEPT ![w] = TailHash(LoadEvents(lines))]
  /\ pc' = [pc EXCEPT ![w] = "append"]
  /\ UNCHANGED <<lines, ended, overlapped>>

(* Text appended to the file: a line of its own, or glued to the end of a  *)
(* last line that lost its newline.                                        *)
AddText(line) ==
  lines' = IF ended THEN Append(lines, line) ELSE [lines EXCEPT ![Len(lines)] = Damaged]

(* Mutant of Linked: the event keeps the empty link it came with.          *)
Linked_None(w, id, f) == DumpLine(SealEvent(id, [sec |-> 0, frac |-> f], None))

(* The line append_event writes: sealed with the digest it loaded.         *)
Linked(w, id, f) == DumpLine(SealEvent(id, [sec |-> 0, frac |-> f], tail[w]))

Outdated(w) == Readable(lines) /\ tail[w] # TailHash(LoadEvents(lines))

AppendEvent(w, id, f) ==
  /\ pc[w] = "append" /\ Len(lines) < MaxLines
  /\ AddText(Linked(w, id, f))
  /\ ended' = TRUE
  /\ pc' = [pc EXCEPT ![w] = "idle"]
  /\ tail' = [tail EXCEPT ![w] = None]
  /\ overlapped' = (overlapped \/ Outdated(w))

(* The write is cut: inside the line, or between the line and its newline. *)
CutAppend(w, id, f) ==
  /\ pc[w] = "append" /\ Len(lines) < MaxLines
  /\ \E line \in {Linked(w, id, f), Damaged} : AddText(line)
  /\ ended' = FALSE
  /\ pc' = [pc EXCEPT ![w] = "idle"]
  /\ tail' = [tail EXCEPT ![w] = None]
  /\ overlapped' = (overlapped \/ Outdated(w))

(* The process dies before it writes.                                      *)
Die(w) ==
  /\ pc[w] = "append"
  /\ pc' = [pc EXCEPT ![w] = "idle"]
  /\ tail' = [tail EXCEPT ![w] = None]
  /\ UNCHANGED <<lines, ended, overlapped>>

Next ==
  \E w \in Writers :
    \/ Load(w)
    \/ Die(w)
    \/ \E id \in Ids, f \in Fracs : AppendEvent(w, id, f) \/ CutAppend(w, id, f)

Spec == Init /\ [][Next]_vars

-----------------------------------------------------------------------------

(* As long as no two appends overlapped and no write was cut inside the    *)
(* log, the log verifies: what is written reads back to what was hashed.   *)
LoneWriterVerifies == Readable(lines) /\ ~overlapped => VerifyLog(lines)

(* An overlap is never silent: once an event was linked to an outdated     *)
(* tail, verification fails.                                               *)
OverlapsAreSeen == overlapped => ~VerifyLog(lines)

(* Even when writers race, every link of a readable log leads to an        *)
(* earlier line: the log is a tree, no event is linked to a lost one.      *)
LinksLeadBack ==
  Readable(lines) =>
    \A i \in DOMAIN lines :
      lines[i].prev = None \/ \E j \in 1..(i - 1) : lines[j].hash = lines[i].prev

(* A log that failed verification never passes it again by being appended  *)
(* to: what was once detected stays detectable.                            *)
BrokenStaysBroken == [][~VerifyLog(lines) => ~VerifyLog(lines')]_vars

(* Lines an editor of the file could put in place of line: other contents, *)
(* any link, the digest kept or made anew.                                 *)
Edits(log, i) ==
  {[id |-> id, text |-> Text(s), prev |-> p, hash |-> h] :
     id \in Ids, s \in [sec : {0}, frac : {"whole", "milli"}],
     p \in {log[j].prev : j \in DOMAIN log},
     h \in {log[j].hash : j \in DOMAIN log}}
  \cup {DumpLine(SealEvent(id, s, p)) :
     id \in Ids, s \in [sec : {0}, frac : {"whole", "milli"}],
     p \in {log[j].prev : j \in DOMAIN log}}

(* Altering any line of a verified log but the last is detected, whether   *)
(* its digest is kept or made anew.                                        *)
EditsAreDetected ==
  VerifyLog(lines) =>
    \A i \in 1..(Len(lines) - 1) : \A e \in Edits(lines, i) :
      ParseLine(e) # ParseLine(lines[i]) => ~VerifyLog([lines EXCEPT ![i] = e])

=============================================================================
