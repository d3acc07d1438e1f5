--------------------------- MODULE TrustProfiles ---------------------------
(***************************************************************************)
(* Trust scores: the incidents file and the profiles file of the command   *)
(* line.  record-incident appends an incident, loads all incidents, loads  *)
(* the profiles, and appends a profile for its agent; calculate-trust      *)
(* loads the profiles, loads the incidents, and appends a profile for each *)
(* agent that has one.  Nothing is locked, and a process may die between   *)
(* any two steps or in the middle of a write.                              *)
(*                                                                         *)
(* Abstractions: an incident is its agent and severity; last_updated is    *)
(* left out; calculate-trust appends its lines in any order (the code: in  *)
(* the order of the file), which no reader can tell.                       *)
(***************************************************************************)
EXTENDS Integers, Sequences, FiniteSets, FiniteSetsExt

CONSTANTS Procs,          \* processes
          Agents,         \* agent ids
          AuthoredFiles,  \* profiles files, written by hand, to start from
          MaxIncidents,   \* bound of the incidents file
          MaxProfiles,    \* bound of the profiles file
          Damaged         \* a line that is not JSON

Severities == {"low", "medium", "high", "critical"}

Incidents == [agent : Agents, severity : Severities]

Counters == [successful : Nat, denied : Nat, held : Nat,
             violations : Nat, unverified : Nat, tampered : Nat]

Bands == {"trusted", "elevated_risk", "high_risk", "critical_risk"}

Profiles == [agent : Agents, counters : Counters, score : 0..1000,
             band : Bands, count : Nat]

ASSUME FilesAreAuthored == AuthoredFiles \subseteq Seq(Profiles)
ASSUME BoundsAreNat == MaxIncidents \in Nat /\ MaxProfiles \in Nat
ASSUME DamagedIsNoLine == Damaged \notin Incidents \cup Profiles

VARIABLES incidents, profiles,              \* the files
          incidentsEnded, profilesEnded,    \* they end with a newline
          ps,         \* per process: the command it runs
          authored,   \* ghost: how many profiles were written by hand
          suspect,    \* ghost: agents whose commands overlapped or broke off
          clean       \* ghost: per process, agents nobody else has touched

vars == <<incidents, profiles, incidentsEnded, profilesEnded, ps,
          authored, suspect, clean>>

IncidentFile == <<incidents, incidentsEnded>>
ProfileFile == <<profiles, profilesEnded>>
Ghosts == <<authored, suspect, clean>>

Tallies == [Severities -> Nat]

(* record-incident with its incident written; with the incidents counted;  *)
(* calculate-trust with the profiles loaded; either with profiles to write. *)
Counting == [pc : {"counting"}, agent : Agents]
Fetching == [pc : {"fetching"}, agent : Agents, tally : Tallies]
Matching == [pc : {"matching"}, agents : SUBSET Agents, known : [Agents -> Counters]]
Writing == [pc : {"writing"}, todo : SUBSET Profiles]

Idle == [pc |-> "idle"]

TypeOK ==
  /\ incidents \in Seq(Incidents \cup {Damaged})
  /\ profiles \in Seq(Profiles \cup {Damaged})
  /\ incidentsEnded \in BOOLEAN
  /\ profilesEnded \in BOOLEAN
  /\ ps \in [Procs -> {Idle} \cup Counting \cup Fetching \cup Matching \cup Writing]
  /\ authored \in Nat
  /\ suspect \subseteq Agents
  /\ clean \in [Procs -> SUBSET Agents]

-----------------------------------------------------------------------------
(* Scores. *)

AtMost(cap, x) == IF x > cap THEN cap ELSE x
AtLeast(floor, x) == IF x < floor THEN floor ELSE x

Total(tally) == tally["low"] + tally["medium"] + tally["high"] + tally["critical"]

Penalty(c, tally) ==
  4 * c.denied + 3 * AtLeast(0, c.held - 5)
  + 12 * c.violations + 5 * AtLeast(0, c.violations - 1)
  + 10 * c.unverified + 55 * c.tampered
  + 10 * tally["low"] + 22 * tally["medium"]
  + 48 * tally["high"] + 105 * tally["critical"]

Score(c, tally) ==
  AtLeast(0, AtMost(1000, 750 + AtMost(80, 2 * c.successful) - Penalty(c, tally)))

Band(score) ==
  CASE score >= 750               -> "trusted"
    [] score >= 600 /\ score < 750 -> "elevated_risk"
    [] score >= 400 /\ score < 600 -> "high_risk"
    [] score < 400                -> "critical_risk"

(* update_trust_profile.                                                   *)
Updated(agent, c, tally) ==
  [agent |-> agent, counters |-> c, score |-> Score(c, tally),
   band |-> Band(Score(c, tally)), count |-> Total(tally)]

NoCounters == [successful |-> 0, denied |-> 0, held |-> 0,
               violations |-> 0, unverified |-> 0, tampered |-> 0]

-----------------------------------------------------------------------------
(* The files. *)

Readable(file) == \A n \in DOMAIN file : file[n] # Damaged

Extended(file, ended, line) ==
  IF ended THEN Append(file, line) ELSE [file EXCEPT ![Len(file)] = Damaged]

(* The incidents of an agent among the first k, by severity.               *)
Tally(agent, k) ==
  [s \in Severities |->
     Cardinality({n \in 1..k : incidents[n] = [agent |-> agent, severity |-> s]})]

LinesOf(agent) == {n \in DOMAIN profiles : profiles[n] # Damaged /\ profiles[n].agent = agent}

Profiled == {a \in Agents : LinesOf(a) # {}}

Latest(agent) == profiles[Max(LinesOf(agent))]

(* Mutant of CountersOf: every command starts from a pristine profile.     *)
CountersOf_Pristine(agent) == NoCounters

(* The counters a command goes on with; no command changes them.           *)
CountersOf(agent) == IF agent \in Profiled THEN Latest(agent).counters ELSE NoCounters

-----------------------------------------------------------------------------
(* Bookkeeping of the ghosts. *)

(* The agents a process has yet to write a profile for.                    *)
Touched(t) ==
  CASE t.pc = "idle"                   -> {}
    [] t.pc \in {"counting", "fetching"} -> {t.agent}
    [] t.pc = "matching"               -> t.agents
    [] t.pc = "writing"                -> {line.agent : line \in t.todo}

Busy == UNION {Touched(ps[p]) : p \in Procs}

(* A command on these agents begins.                                       *)
Begins(p, agents) ==
  /\ suspect' = suspect \cup (agents \cap Busy)
  /\ clean' = [q \in Procs |-> IF q = p THEN agents \ Busy ELSE clean[q] \ agents]
  /\ UNCHANGED authored

-----------------------------------------------------------------------------

Free(p) == ps[p] = Idle

Goes(p, state) == ps' = [ps EXCEPT ![p] = state]

Writes(p, lines) == Goes(p, IF lines = {} THEN Idle ELSE [pc |-> "writing", todo |-> lines])

(* A command raises, or its process dies.                                  *)
BreaksOff(p) ==
  /\ Goes(p, Idle)
  /\ suspect' = suspect \cup Touched(ps[p])
  /\ UNCHANGED <<IncidentFile, ProfileFile, authored, clean>>

Init ==
  /\ incidents = <<>>
  /\ profiles \in AuthoredFiles
  /\ incidentsEnded = TRUE
  /\ profilesEnded = TRUE
  /\ ps = [p \in Procs |-> Idle]
  /\ authored = Len(profiles)
  /\ suspect = Profiled
  /\ clean = [p \in Procs |-> {}]

(* record_incident: append_incident.                                       *)
AppendIncident(p, agent, severity) ==
  /\ Free(p) /\ Len(incidents) < MaxIncidents
  /\ incidents' = Extended(incidents, incidentsEnded, [agent |-> agent, severity |-> severity])
  /\ incidentsEnded' = TRUE
  /\ Goes(p, [pc |-> "counting", agent |-> agent])
  /\ Begins(p, {agent})
  /\ UNCHANGED ProfileFile

(* The process dies in that write: inside the line, or before the newline. *)
CutIncident(p, agent, severity) ==
  /\ Free(p) /\ Len(incidents) < MaxIncidents
  /\ \E line \in {[agent |-> agent, severity |-> severity], Damaged} :
       incidents' = Extended(incidents, incidentsEnded, line)
  /\ incidentsEnded' = FALSE
  /\ suspect' = suspect \cup {agent}
  /\ clean' = [q \in Procs |-> clean[q] \ {agent}]
  /\ UNCHANGED <<ProfileFile, ps, authored>>

(* Mutant of CountIncidents: the incidents are counted as they were before *)
(* the command's own.                                                      *)
CountIncidents_Before(p) ==
  LET t == ps[p]
  IN  /\ t.pc = "counting"
      /\ \/ /\ Readable(incidents)
            /\ Goes(p, [pc |-> "fetching", agent |-> t.agent,
                        tally |-> Tally(t.agent, Len(incidents) - 1)])
            /\ UNCHANGED <<IncidentFile, ProfileFile, Ghosts>>
         \/ ~Readable(incidents) /\ BreaksOff(p)

(* record_incident: load_incidents and incidents_for_agent.                *)
CountIncidents(p) ==
  LET t == ps[p]
  IN  /\ t.pc = "counting"
      /\ \/ /\ Readable(incidents)
            /\ Goes(p, [pc |-> "fetching", agent |-> t.agent,
                        tally |-> Tally(t.agent, Len(incidents))])
            /\ UNCHANGED <<IncidentFile, ProfileFile, Ghosts>>
         \/ ~Readable(incidents) /\ BreaksOff(p)

(* record_incident: load_trust_profiles and update_trust_profile.          *)
FetchProfile(p) ==
  LET t == ps[p]
  IN  /\ t.pc = "fetching"
      /\ \/ /\ Readable(profiles)
            /\ Writes(p, {Updated(t.agent, CountersOf(t.agent), t.tally)})
            /\ UNCHANGED <<IncidentFile, ProfileFile, Ghosts>>
         \/ ~Readable(profiles) /\ BreaksOff(p)

(* recalculate_all_profiles: load_trust_profiles, which may raise.         *)
LoadProfiles(p) ==
  /\ Free(p)
  /\ \/ /\ Readable(profiles)
        /\ Goes(p, [pc |-> "matching", agents |-> Profiled,
                    known |-> [a \in Agents |-> CountersOf(a)]])
        /\ Begins(p, Profiled)
        /\ UNCHANGED <<IncidentFile, ProfileFile>>
     \/ ~Readable(profiles) /\ UNCHANGED vars

(* recalculate_all_profiles: load_incidents and update_trust_profile.      *)
MatchIncidents(p) ==
  LET t == ps[p]
  IN  /\ t.pc = "matching"
      /\ \/ /\ Readable(incidents)
            /\ Writes(p, {Updated(a, t.known[a], Tally(a, Len(incidents))) : a \in t.agents})
            /\ UNCHANGED <<IncidentFile, ProfileFile, Ghosts>>
         \/ ~Readable(incidents) /\ BreaksOff(p)

(* append_trust_profile.                                                   *)
AppendProfile(p) ==
  LET t == ps[p]
  IN  /\ t.pc = "writing" /\ Len(profiles) < MaxProfiles
      /\ \E line \in t.todo :
           /\ profiles' = Extended(profiles, profilesEnded, line)
           /\ Writes(p, t.todo \ {line})
           /\ suspect' = suspect \ (clean[p] \cap {line.agent})
      /\ profilesEnded' = TRUE
      /\ UNCHANGED <<IncidentFile, authored, clean>>

(* The process dies in that write.                                         *)
CutProfile(p) ==
  LET t == ps[p]
  IN  /\ t.pc = "writing" /\ Len(profiles) < MaxProfiles
      /\ \E line \in t.todo \cup {Damaged} :
           profiles' = Extended(profiles, profilesEnded, line)
      /\ profilesEnded' = FALSE
      /\ Goes(p, Idle)
      /\ suspect' = suspect \cup Touched(t)
      /\ UNCHANGED <<IncidentFile, authored, clean>>

Die(p) == ~Free(p) /\ BreaksOff(p)

Next ==
  \E p \in Procs :
    \/ \E a \in Agents, s \in Severities : AppendIncident(p, a, s) \/ CutIncident(p, a, s)
    \/ CountIncidents(p) \/ FetchProfile(p)
    \/ LoadProfiles(p) \/ MatchIncidents(p)
    \/ AppendProfile(p) \/ CutProfile(p) \/ Die(p)

Spec == Init /\ [][Next]_vars

-----------------------------------------------------------------------------

(* The counters an agent had when the file was written by hand.            *)
Original(agent) ==
  LET lines == {n \in 1..authored : profiles[n].agent = agent}
  IN  IF lines = {} THEN NoCounters ELSE profiles[Max(lines)].counters

(* "Every adjustment maps to human-readable inputs ... no hidden state":   *)
(* whatever the interleaving, each profile a command wrote is the score of *)
(* the counters its agent started from and of the incidents that stood in  *)
(* the log at some moment; no score is a mixture, and no counter is lost.  *)
ProfilesAreExplained ==
  Readable(incidents) /\ Readable(profiles) =>
    \A n \in (authored + 1)..Len(profiles) :
      \E k \in 0..Len(incidents) :
        LET agent == profiles[n].agent
        IN  profiles[n] = Updated(agent, Original(agent), Tally(agent, k))

Current(agent) ==
  LET tally == Tally(agent, Len(incidents))
  IN  IF agent \in Profiled
        THEN Latest(agent) = Updated(agent, Latest(agent).counters, tally)
        ELSE Total(tally) = 0

(* "The snapshot stays consistent with the incident log": with no command  *)
(* in hand an agent's profile has all its incidents, unless two commands   *)
(* on that agent overlapped or one broke off, and since then no command    *)
(* has written its profile undisturbed.                                    *)
CurrentUnlessRaced ==
  Readable(incidents) /\ Readable(profiles) =>
    \A a \in Agents \ (suspect \cup Busy) : Current(a)

=============================================================================
