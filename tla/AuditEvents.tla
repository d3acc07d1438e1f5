----------------------------- MODULE AuditEvents -----------------------------
(***************************************************************************)
(* Sealed audit events: the canonical form that is hashed, the form that   *)
(* is written, and the verification of a chain.                            *)
(*                                                                         *)
(* An event is its id and its time; the other fields are hashed and stored *)
(* unchanged, so the id stands for them all.  A digest is the term that is *)
(* hashed: SHA-256 is taken to be injective, and nothing else of it.       *)
(***************************************************************************)
EXTENDS Integers, Sequences

CONSTANTS None,     \* no previous event
          Damaged   \* a line that is not JSON

(* The microseconds of a time: 0, a thousand or more, 1 to 999.            *)
Fractions == {"whole", "milli", "submilli"}

(* _format_timestamp_utc: milliseconds, cut, and only if there are any     *)
(* microseconds.                                                           *)
Text(stamp) ==
  [sec |-> stamp.sec,
   frac |-> CASE stamp.frac = "whole" -> "Z"
              [] stamp.frac = "milli" -> ".mmmZ"
              [] stamp.frac = "submilli" -> ".000Z"]

(* How the text reads back: ".000Z" is a whole second.                     *)
Parse(text) == [sec |-> text.sec, frac |-> IF text.frac = ".mmmZ" THEN "milli" ELSE "whole"]

(* Mutant of Digest: the time is left out of the hash.                     *)
Digest_NoTime(id, stamp, prev) == <<id, prev>>

Digest(id, stamp, prev) == <<id, Text(stamp), prev>>

HashEvent(e) == Digest(e.id, e.stamp, e.prev)

SealEvent(id, stamp, prev) ==
  [id |-> id, stamp |-> stamp, prev |-> prev, hash |-> Digest(id, stamp, prev)]

TailHash(events) == IF events = <<>> THEN None ELSE events[Len(events)].hash

(* Mutant of VerifyEventChain: links are not compared.                     *)
VerifyEventChain_HashesOnly(events) == \A i \in DOMAIN events : events[i].hash = HashEvent(events[i])

VerifyEventChain(events) ==
  /\ \A i \in DOMAIN events : events[i].hash = HashEvent(events[i])
  /\ \A i \in 2..Len(events) : events[i].prev = events[i - 1].hash
  /\ events # <<>> => events[1].prev = None

-----------------------------------------------------------------------------
(* Lines of a log file. *)

DumpLine(e) == [id |-> e.id, text |-> Text(e.stamp), prev |-> e.prev, hash |-> e.hash]

ParseLine(line) == [id |-> line.id, stamp |-> Parse(line.text), prev |-> line.prev, hash |-> line.hash]

Readable(lines) == \A i \in DOMAIN lines : lines[i] # Damaged

(* load_events, for a readable file.                                       *)
LoadEvents(lines) == [i \in DOMAIN lines |-> ParseLine(lines[i])]

(* Mutant of VerifyLog: damaged lines are skipped.                         *)
VerifyLog_SkipsDamage(lines) ==
  VerifyEventChain(LoadEvents(SelectSeq(lines, LAMBDA l : l # Damaged)))

(* verify_log_integrity; a damaged line makes it raise.                    *)
VerifyLog(lines) == Readable(lines) /\ VerifyEventChain(LoadEvents(lines))

=============================================================================
