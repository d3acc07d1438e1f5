------------------------ MODULE TrustProfilesProofs ------------------------
(***************************************************************************)
(* Proofs about TrustProfiles, for any processes, agents, files to start   *)
(* from and bounds.                                                        *)
(***************************************************************************)
EXTENDS TrustProfiles, FiniteSetTheorems, WellFoundedInduction, TLAPS

-----------------------------------------------------------------------------
(* The last of a set of lines. *)

(* Max, which is a CHOOSE, of a set of line numbers.                       *)
LEMMA MaxOfLines ==
  ASSUME NEW n \in Nat, NEW S \in SUBSET (1..n), S # {}
  PROVE  /\ Max(S) \in S
         /\ \A x \in S : x <= Max(S)
<1> DEFINE T == {n - x : x \in S}
<1>1. T \subseteq Nat /\ T # {}
  OBVIOUS
<1>2. PICK t \in T : \A u \in T : ~ (u < t)
  <2> DEFINE R == {ss \in Nat \X Nat : ss[1] < ss[2]}
  <2>1. IsWellFoundedOn(R, Nat)
    BY NatLessThanWellFounded DEF OpToRel
  <2> HIDE DEF R, T
  <2>2. \E t \in T : \A u \in T : ~ (<<u, t>> \in R)
    BY <1>1, <2>1, WFMin
  <2> QED
    BY <1>1, <2>2 DEF R
<1>3. PICK x \in S : t = n - x
  OBVIOUS
<1>4. \A y \in S : x >= y
  <2> TAKE y \in S
  <2>1. n - y \in T
    OBVIOUS
  <2> QED
    BY <1>2, <1>3, <2>1
<1>5. \E m \in S : \A y \in S : m >= y
  BY <1>4
<1> QED
  BY <1>5 DEF Max

IncidentLines == Incidents \cup {Damaged}
ProfileLines == Profiles \cup {Damaged}
States == {Idle} \cup Counting \cup Fetching \cup Matching \cup Writing

-----------------------------------------------------------------------------
(* Scores. *)

(* The part of a score that the counters decide.                           *)
OfCounters(c) ==
  750 + AtMost(80, 2 * c.successful)
  - (4 * c.denied + 3 * AtLeast(0, c.held - 5)
     + 12 * c.violations + 5 * AtLeast(0, c.violations - 1)
     + 10 * c.unverified + 55 * c.tampered)

OfIncidents(tally) ==
  10 * tally["low"] + 22 * tally["medium"] + 48 * tally["high"] + 105 * tally["critical"]

(* A score is the difference of the two, clamped.                          *)
LEMMA ScoreParts ==
  ASSUME NEW c \in Counters, NEW tally \in Tallies
  PROVE  /\ OfCounters(c) \in Int
         /\ OfIncidents(tally) \in Nat
         /\ Score(c, tally) = AtLeast(0, AtMost(1000, OfCounters(c) - OfIncidents(tally)))
<1>1. /\ c.successful \in Nat /\ c.denied \in Nat /\ c.held \in Nat
      /\ c.violations \in Nat /\ c.unverified \in Nat /\ c.tampered \in Nat
  BY DEF Counters
<1>2. /\ tally["low"] \in Nat /\ tally["medium"] \in Nat
      /\ tally["high"] \in Nat /\ tally["critical"] \in Nat
  BY DEF Tallies, Severities
<1>3. /\ AtMost(80, 2 * c.successful) \in Int
      /\ AtLeast(0, c.held - 5) \in Int
      /\ AtLeast(0, c.violations - 1) \in Int
  BY <1>1 DEF AtMost, AtLeast
<1>4. OfCounters(c) \in Int
  BY <1>1, <1>3 DEF OfCounters
<1>5. OfIncidents(tally) \in Nat
  BY <1>2 DEF OfIncidents
<1>6. 750 + AtMost(80, 2 * c.successful) - Penalty(c, tally)
        = OfCounters(c) - OfIncidents(tally)
  <2> DEFINE bonus == AtMost(80, 2 * c.successful)
             penalty == 4 * c.denied + 3 * AtLeast(0, c.held - 5)
                        + 12 * c.violations + 5 * AtLeast(0, c.violations - 1)
                        + 10 * c.unverified + 55 * c.tampered
             low == 10 * tally["low"]
             medium == 22 * tally["medium"]
             high == 48 * tally["high"]
             critical == 105 * tally["critical"]
  <2>1. /\ bonus \in Int /\ penalty \in Int /\ low \in Int
        /\ medium \in Int /\ high \in Int /\ critical \in Int
    BY <1>1, <1>2, <1>3
  <2>2. /\ Penalty(c, tally) = penalty + low + medium + high + critical
        /\ OfCounters(c) = 750 + bonus - penalty
        /\ OfIncidents(tally) = low + medium + high + critical
    BY DEF Penalty, OfCounters, OfIncidents
  <2> HIDE DEF bonus, penalty, low, medium, high, critical
  <2>3. 750 + bonus - (penalty + low + medium + high + critical)
          = (750 + bonus - penalty) - (low + medium + high + critical)
    BY <2>1
  <2> QED
    BY <2>2, <2>3 DEF bonus
<1> QED
  BY <1>4, <1>5, <1>6 DEF Score

(* A score is a score, whatever the counters and incidents.                *)
LEMMA ScoreInRange ==
  ASSUME NEW c \in Counters, NEW tally \in Tallies
  PROVE  Score(c, tally) \in 0..1000
<1> DEFINE raw == OfCounters(c) - OfIncidents(tally)
<1>1. raw \in Int /\ Score(c, tally) = AtLeast(0, AtMost(1000, raw))
  BY ScoreParts
<1> HIDE DEF raw
<1> QED
  BY <1>1 DEF AtLeast, AtMost

LEMMA BandIsBand ==
  ASSUME NEW score \in 0..1000
  PROVE  Band(score) \in Bands
BY DEF Band, Bands

(* An incident more never raises a score: with no incident fewer of any    *)
(* severity, calculate_trust_score returns no more (trust.py:115-150).     *)
THEOREM MoreIncidentsNeverRaise ==
  ASSUME NEW c \in Counters, NEW before \in Tallies, NEW after \in Tallies,
         \A s \in Severities : before[s] <= after[s]
  PROVE  Score(c, after) <= Score(c, before)
<1>1. OfIncidents(before) <= OfIncidents(after)
  BY DEF OfIncidents, Tallies, Severities
<1> DEFINE raw(tally) == OfCounters(c) - OfIncidents(tally)
<1>2. /\ raw(before) \in Int /\ raw(after) \in Int
      /\ raw(after) <= raw(before)
  BY <1>1, ScoreParts
<1>3. /\ Score(c, before) = AtLeast(0, AtMost(1000, raw(before)))
      /\ Score(c, after) = AtLeast(0, AtMost(1000, raw(after)))
  BY ScoreParts
<1> HIDE DEF raw
<1> QED
  BY <1>2, <1>3 DEF AtLeast, AtMost

(* What update_trust_profile returns can be written to the file.           *)
LEMMA UpdatedIsProfile ==
  ASSUME NEW agent \in Agents, NEW c \in Counters, NEW tally \in Tallies
  PROVE  /\ Updated(agent, c, tally) \in Profiles
         /\ Updated(agent, c, tally).agent = agent
         /\ Updated(agent, c, tally).counters = c
<1>1. Score(c, tally) \in 0..1000
  BY ScoreInRange
<1>2. Band(Score(c, tally)) \in Bands
  BY <1>1, BandIsBand
<1>3. Total(tally) \in Nat
  BY DEF Total, Tallies, Severities
<1> QED
  BY <1>1, <1>2, <1>3 DEF Updated, Profiles

LEMMA NoCountersAreCounters == NoCounters \in Counters
BY DEF NoCounters, Counters

-----------------------------------------------------------------------------
(* Files. *)

(* What a write does to a file of which the first k lines are whole: they  *)
(* stay, the file can be read afterwards only if it could be before and    *)
(* the write was a whole line, and no line but that one is new.            *)
LEMMA ExtendedFile ==
  ASSUME NEW Lines, NEW file \in Seq(Lines), NEW line \in Lines, Damaged \in Lines,
         NEW ended \in BOOLEAN, NEW k \in 0..Len(file), ended \/ k < Len(file)
  PROVE  LET new == Extended(file, ended, line)
         IN  /\ new \in Seq(Lines)
             /\ Len(new) > k
             /\ \A n \in 1..k : new[n] = file[n]
             /\ Readable(new) => Readable(file) /\ new = Append(file, line)
             /\ \A n \in 1..Len(new) : new[n] # Damaged =>
                  \/ n \in 1..Len(file) /\ new[n] = file[n]
                  \/ n = Len(file) + 1 /\ new[n] = line
<1>1. CASE ended
  <2> DEFINE new == Append(file, line)
  <2>1. /\ new \in Seq(Lines) /\ Len(new) = Len(file) + 1
        /\ new[Len(file) + 1] = line
        /\ \A n \in 1..Len(file) : n \in DOMAIN new /\ new[n] = file[n]
    OBVIOUS
  <2>2. Readable(new) => Readable(file)
    BY <2>1 DEF Readable
  <2> HIDE DEF new
  <2>3. /\ new \in Seq(Lines) /\ Len(new) > k
        /\ \A n \in 1..k : new[n] = file[n]
        /\ \A n \in 1..Len(new) : new[n] # Damaged =>
             \/ n \in 1..Len(file) /\ new[n] = file[n]
             \/ n = Len(file) + 1 /\ new[n] = line
    BY <2>1
  <2>4. Extended(file, ended, line) = new
    BY <1>1 DEF Extended, new
  <2> QED
    BY <2>2, <2>3, <2>4 DEF new
<1>2. CASE ~ended
  <2> DEFINE new == [file EXCEPT ![Len(file)] = Damaged]
  <2>1. Len(file) \in DOMAIN file /\ k < Len(file)
    BY <1>2
  <2>2. /\ new \in Seq(Lines) /\ Len(new) = Len(file)
        /\ Len(file) \in DOMAIN new /\ new[Len(file)] = Damaged
        /\ \A n \in 1..Len(file) : n # Len(file) => new[n] = file[n]
    BY <2>1
  <2>3. ~Readable(new)
    BY <2>2 DEF Readable
  <2> HIDE DEF new
  <2>4. /\ Len(new) > k
        /\ \A n \in 1..k : new[n] = file[n]
        /\ \A n \in 1..Len(new) : new[n] # Damaged =>
             \/ n \in 1..Len(file) /\ new[n] = file[n]
             \/ n = Len(file) + 1 /\ new[n] = line
    BY <2>1, <2>2
  <2>5. Extended(file, ended, line) = new
    BY <1>2 DEF Extended, new
  <2> QED
    BY <2>2, <2>3, <2>4, <2>5
<1> QED
  BY <1>1, <1>2

-----------------------------------------------------------------------------
(* The inductive invariant. What a command will write was computed from    *)
(* files that may have grown since, so it says of the lines in hand what   *)
(* the properties say of the lines in the file.                            *)

(* The score of some moment of the log.                                    *)
Explained(line) ==
  \E k \in 0..Len(incidents) :
    line = Updated(line.agent, Original(line.agent), Tally(line.agent, k))

FilesOK ==
  /\ incidents \in Seq(IncidentLines)
  /\ profiles \in Seq(ProfileLines)
  /\ incidentsEnded \in BOOLEAN
  /\ profilesEnded \in BOOLEAN
  /\ incidentsEnded \/ Len(incidents) > 0
  /\ authored \in 0..Len(profiles)
  /\ profilesEnded \/ authored < Len(profiles)
  /\ \A n \in 1..authored : profiles[n] # Damaged

GhostsOK ==
  /\ suspect \subseteq Agents
  /\ clean \in [Procs -> SUBSET Agents]

(* A line that is written, or will be, has the counters of its agent.      *)
LineOK(line) ==
  /\ line.counters = Original(line.agent)
  /\ Readable(incidents) => Explained(line)

LinesOK ==
  \A n \in 1..Len(profiles) :
    n > authored /\ profiles[n] # Damaged => LineOK(profiles[n])

HeldOK(t) ==
  /\ t.pc = "fetching" /\ Readable(incidents) =>
       \E k \in 0..Len(incidents) : t.tally = Tally(t.agent, k)
  /\ t.pc = "matching" => \A a \in Agents : t.known[a] = Original(a)
  /\ t.pc = "writing" => \A line \in t.todo : LineOK(line)

IInv ==
  /\ FilesOK
  /\ GhostsOK
  /\ ps \in [Procs -> States]
  /\ LinesOK
  /\ \A p \in Procs : HeldOK(ps[p])

LEMMA Typed == IInv => TypeOK
BY DEF IInv, FilesOK, GhostsOK, TypeOK, IncidentLines, ProfileLines, States

(* The pc of a process tells what it holds.                                *)
LEMMA StateKinds ==
  ASSUME NEW t \in States
  PROVE  /\ t.pc = "counting" => t \in Counting
         /\ t.pc = "fetching" => t \in Fetching
         /\ t.pc = "matching" => t \in Matching
         /\ t.pc = "writing" => t \in Writing
         /\ t.pc \in {"idle", "counting", "fetching", "matching", "writing"}
BY DEF States, Idle, Counting, Fetching, Matching, Writing

LEMMA ExplainedHolds == IInv => ProfilesAreExplained
<1> SUFFICES ASSUME IInv, Readable(incidents), Readable(profiles),
                    NEW n \in (authored + 1)..Len(profiles)
             PROVE  Explained(profiles[n])
  BY DEF ProfilesAreExplained, Explained
<1>1. n \in 1..Len(profiles) /\ n > authored /\ n \in DOMAIN profiles
  BY DEF IInv, FilesOK
<1> QED
  BY <1>1 DEF IInv, LinesOK, LineOK, Readable

-----------------------------------------------------------------------------
(* Tallies and original counters. *)

LEMMA TallyType ==
  ASSUME NEW agent \in Agents, NEW k \in Nat
  PROVE  Tally(agent, k) \in Tallies
<1> SUFFICES ASSUME NEW s \in Severities
             PROVE  Cardinality({n \in 1..k : incidents[n] = [agent |-> agent, severity |-> s]})
                      \in Nat
  BY DEF Tally, Tallies
<1>1. IsFiniteSet(1..k)
  BY FS_Interval
<1>2. IsFiniteSet({n \in 1..k : incidents[n] = [agent |-> agent, severity |-> s]})
  BY <1>1, FS_Subset
<1> QED
  BY <1>2, FS_CardinalityType

(* A tally of the first k incidents depends on those alone.                *)
LEMMA TallyKept ==
  ASSUME NEW agent, NEW k \in Nat, \A n \in 1..k : incidents'[n] = incidents[n]
  PROVE  Tally(agent, k)' = Tally(agent, k)
<1>1. \A s \in Severities :
        {n \in 1..k : incidents'[n] = [agent |-> agent, severity |-> s]}
          = {n \in 1..k : incidents[n] = [agent |-> agent, severity |-> s]}
  OBVIOUS
<1> QED
  BY <1>1 DEF Tally

(* Nobody rewrites what was written by hand.                               *)
LEMMA OriginalKept ==
  ASSUME NEW agent, authored \in Nat, authored' = authored,
         \A n \in 1..authored : profiles'[n] = profiles[n]
  PROVE  Original(agent)' = Original(agent)
<1> DEFINE L == {n \in 1..authored : profiles[n].agent = agent}
<1>1. {n \in 1..authored : profiles[n].agent = agent}' = L
  OBVIOUS
<1>2. L # {} => Max(L) \in 1..authored
  BY MaxOfLines
<1> HIDE DEF L
<1>3. L # {} => profiles'[Max(L)] = profiles[Max(L)]
  BY <1>2
<1> QED
  BY <1>1, <1>3 DEF Original, L

(* What was written by hand has counters.                                  *)
LEMMA OriginalType ==
  ASSUME IInv, NEW agent \in Agents
  PROVE  Original(agent) \in Counters
<1> DEFINE L == {n \in 1..authored : profiles[n].agent = agent}
<1>1. CASE L = {}
  BY <1>1, NoCountersAreCounters DEF Original
<1>2. CASE L # {}
  <2>1. authored \in Nat /\ L \subseteq 1..authored
    BY DEF IInv, FilesOK
  <2>2. Max(L) \in 1..authored
    BY <1>2, <2>1, MaxOfLines
  <2>3. profiles[Max(L)] \in Profiles
    BY <2>2 DEF IInv, FilesOK, ProfileLines
  <2> QED
    BY <1>2, <2>3 DEF Original, Profiles
<1> QED
  BY <1>1, <1>2

(* The counters a command goes on with are those written by hand, however  *)
(* many lines commands have added since.                                   *)
LEMMA CountersAreOriginal ==
  ASSUME IInv, Readable(profiles), NEW agent \in Agents
  PROVE  CountersOf(agent) = Original(agent)
<1> DEFINE L == {n \in 1..authored : profiles[n].agent = agent}
<1>1. /\ L \subseteq LinesOf(agent) /\ LinesOf(agent) \subseteq 1..Len(profiles)
      /\ L \subseteq 1..authored /\ authored \in Nat /\ Len(profiles) \in Nat
  BY DEF IInv, FilesOK, LinesOf
<1>2. CASE LinesOf(agent) = {}
  BY <1>1, <1>2 DEF CountersOf, Profiled, Original
<1>3. CASE LinesOf(agent) # {}
  <2> DEFINE last == Max(LinesOf(agent))
  <2>1. last \in LinesOf(agent) /\ \A n \in LinesOf(agent) : n <= last
    BY <1>1, <1>3, MaxOfLines
  <2>2. CountersOf(agent) = profiles[last].counters
    BY <1>3 DEF CountersOf, Profiled, Latest
  <2> HIDE DEF last
  <2>3. profiles[last].agent = agent /\ profiles[last] # Damaged /\ last \in 1..Len(profiles)
    BY <1>1, <2>1 DEF LinesOf
  <2>4. CASE last > authored
    <3>1. LineOK(profiles[last])
      BY <2>3, <2>4 DEF IInv, LinesOK
    <3> QED
      BY <2>2, <2>3, <3>1 DEF LineOK
  <2>5. CASE last <= authored
    <3>1. last \in L
      BY <2>3, <2>5 DEF IInv, FilesOK
    <3>2. Max(L) \in L /\ \A n \in L : n <= Max(L)
      BY <1>1, <3>1, MaxOfLines
    <3>3. Max(L) = last
      BY <1>1, <2>1, <2>3, <3>1, <3>2 DEF IInv, FilesOK
    <3> QED
      BY <2>2, <3>1, <3>3 DEF Original
  <2> QED
    BY <2>3, <2>4, <2>5 DEF IInv, FilesOK
<1> QED
  BY <1>2, <1>3

-----------------------------------------------------------------------------
(* What every step keeps. *)

Grows ==
  /\ authored' = authored
  /\ Readable(incidents)' =>
       /\ Readable(incidents)
       /\ Len(incidents') >= Len(incidents)
       /\ \A n \in 1..Len(incidents) : incidents'[n] = incidents[n]
  /\ \A n \in 1..authored : profiles'[n] = profiles[n]

LEMMA LineKept ==
  ASSUME IInv, FilesOK', Grows, NEW line, LineOK(line)
  PROVE  LineOK(line)'
<1>1. Original(line.agent)' = Original(line.agent)
  BY OriginalKept DEF IInv, FilesOK, Grows
<1>2. ASSUME Readable(incidents)'
      PROVE  Explained(line)'
  <2>1. PICK k \in 0..Len(incidents) :
          line = Updated(line.agent, Original(line.agent), Tally(line.agent, k))
    BY <1>2 DEF Grows, LineOK, Explained
  <2>2. /\ k \in Nat /\ k \in 0..Len(incidents')
        /\ \A n \in 1..k : incidents'[n] = incidents[n]
    BY <1>2 DEF Grows, IInv, FilesOK
  <2>3. Tally(line.agent, k)' = Tally(line.agent, k)
    BY <2>2, TallyKept
  <2> QED
    BY <1>1, <2>1, <2>2, <2>3 DEF Explained
<1> QED
  BY <1>1, <1>2 DEF LineOK

LEMMA HeldKept ==
  ASSUME IInv, FilesOK', Grows, NEW t \in States, HeldOK(t)
  PROVE  HeldOK(t)'
<1>1. ASSUME t.pc = "fetching", Readable(incidents)'
      PROVE  (\E k \in 0..Len(incidents) : t.tally = Tally(t.agent, k))'
  <2>1. PICK k \in 0..Len(incidents) : t.tally = Tally(t.agent, k)
    BY <1>1 DEF Grows, HeldOK
  <2>2. /\ k \in Nat /\ k \in 0..Len(incidents')
        /\ \A n \in 1..k : incidents'[n] = incidents[n]
    BY <1>1 DEF Grows, IInv, FilesOK
  <2>3. Tally(t.agent, k)' = Tally(t.agent, k)
    BY <2>2, TallyKept
  <2> QED
    BY <2>1, <2>2, <2>3
<1>2. ASSUME t.pc = "matching", NEW a \in Agents
      PROVE  t.known[a] = Original(a)'
  BY <1>2, OriginalKept DEF HeldOK, IInv, FilesOK, Grows
<1>3. ASSUME t.pc = "writing", NEW line \in t.todo
      PROVE  LineOK(line)'
  BY <1>3, LineKept DEF HeldOK
<1> QED
  BY <1>1, <1>2, <1>3 DEF HeldOK

(* A step in which process p goes to state t.                              *)
LEMMA ProcMoves ==
  ASSUME IInv, FilesOK', Grows, NEW p \in Procs, NEW t \in States, HeldOK(t), Goes(p, t)
  PROVE  /\ ps' \in [Procs -> States]
         /\ \A q \in Procs : HeldOK(ps[q])'
<1>1. ps \in [Procs -> States] /\ ps' = [ps EXCEPT ![p] = t]
  BY DEF IInv, Goes
<1>2. ASSUME NEW q \in Procs
      PROVE  HeldOK(ps[q])'
  <2>1. PICK u \in States : u = ps'[q]
    BY <1>1
  <2>2. HeldOK(u)
    BY <1>1, <2>1 DEF IInv
  <2>3. HeldOK(u)'
    BY <2>2, HeldKept
  <2> QED
    BY <2>1, <2>3 DEF HeldOK
<1> QED
  BY <1>1, <1>2

(* A step that leaves the files alone.                                     *)
LEMMA FilesKept ==
  ASSUME IInv, UNCHANGED <<IncidentFile, ProfileFile, authored>>
  PROVE  FilesOK' /\ Grows /\ LinesOK'
<1>1. /\ incidents' = incidents /\ incidentsEnded' = incidentsEnded
      /\ profiles' = profiles /\ profilesEnded' = profilesEnded /\ authored' = authored
  BY DEF IncidentFile, ProfileFile
<1>2. FilesOK'
  BY <1>1 DEF IInv, FilesOK
<1>3. Grows
  BY <1>1 DEF Grows, IInv, FilesOK, Readable
<1>4. ASSUME NEW n \in 1..Len(profiles), n > authored, profiles[n] # Damaged
      PROVE  LineOK(profiles[n])'
  <2>1. PICK l : l = profiles[n]
    OBVIOUS
  <2>2. LineOK(l)
    BY <1>4, <2>1 DEF IInv, LinesOK
  <2>3. LineOK(l)'
    BY <1>2, <1>3, <2>2, LineKept
  <2> QED
    BY <1>1, <2>1, <2>3
<1> QED
  BY <1>1, <1>2, <1>3, <1>4 DEF LinesOK

(* A write to the incidents file, whole or cut.                            *)
LEMMA IncidentWritten ==
  ASSUME IInv, NEW line \in IncidentLines,
         incidents' = Extended(incidents, incidentsEnded, line),
         incidentsEnded' \in BOOLEAN, UNCHANGED <<ProfileFile, authored>>
  PROVE  /\ FilesOK' /\ Grows /\ LinesOK'
         /\ Readable(incidents)' => incidents' = Append(incidents, line)
<1>1. FilesOK /\ profiles' = profiles /\ profilesEnded' = profilesEnded /\ authored' = authored
  BY DEF IInv, ProfileFile
<1>2. /\ incidents \in Seq(IncidentLines) /\ Damaged \in IncidentLines
      /\ incidentsEnded \in BOOLEAN
  BY <1>1 DEF FilesOK, IncidentLines
<1>3. PICK none \in 0..Len(incidents) : none = 0 /\ (incidentsEnded \/ none < Len(incidents))
  BY <1>1 DEF FilesOK
<1>4. /\ incidents' \in Seq(IncidentLines)
      /\ Len(incidents') > none
      /\ \A n \in 1..none : incidents'[n] = incidents[n]
      /\ Readable(incidents') => Readable(incidents) /\ incidents' = Append(incidents, line)
      /\ \A n \in 1..Len(incidents') : incidents'[n] # Damaged =>
           \/ n \in 1..Len(incidents) /\ incidents'[n] = incidents[n]
           \/ n = Len(incidents) + 1 /\ incidents'[n] = line
  BY <1>2, <1>3, ExtendedFile
<1>5. FilesOK'
  BY <1>1, <1>4 DEF FilesOK
<1>6. Grows
  BY <1>1, <1>2, <1>4 DEF Grows
<1>7. ASSUME NEW n \in 1..Len(profiles), n > authored, profiles[n] # Damaged
      PROVE  LineOK(profiles[n])'
  <2>1. PICK l : l = profiles[n]
    OBVIOUS
  <2>2. LineOK(l)
    BY <1>7, <2>1 DEF IInv, LinesOK
  <2>3. LineOK(l)'
    BY <1>5, <1>6, <2>2, LineKept
  <2> QED
    BY <1>1, <2>1, <2>3
<1> QED
  BY <1>1, <1>4, <1>5, <1>6, <1>7 DEF LinesOK

(* A write to the profiles file, whole or cut.                             *)
LEMMA ProfileWritten ==
  ASSUME IInv, NEW line \in ProfileLines, line # Damaged => LineOK(line),
         profiles' = Extended(profiles, profilesEnded, line),
         profilesEnded' \in BOOLEAN, UNCHANGED <<IncidentFile, authored>>
  PROVE  /\ FilesOK' /\ Grows /\ LinesOK'
         /\ Readable(profiles)' => Readable(profiles) /\ profiles' = Append(profiles, line)
<1>1. /\ FilesOK /\ incidents' = incidents /\ incidentsEnded' = incidentsEnded
      /\ authored' = authored
  BY DEF IInv, IncidentFile
<1>2. /\ profiles \in Seq(ProfileLines) /\ Damaged \in ProfileLines
      /\ profilesEnded \in BOOLEAN /\ authored \in 0..Len(profiles)
      /\ profilesEnded \/ authored < Len(profiles)
  BY <1>1 DEF FilesOK, ProfileLines
<1>3. /\ profiles' \in Seq(ProfileLines)
      /\ Len(profiles') > authored
      /\ \A n \in 1..authored : profiles'[n] = profiles[n]
      /\ Readable(profiles') => Readable(profiles) /\ profiles' = Append(profiles, line)
      /\ \A n \in 1..Len(profiles') : profiles'[n] # Damaged =>
           \/ n \in 1..Len(profiles) /\ profiles'[n] = profiles[n]
           \/ n = Len(profiles) + 1 /\ profiles'[n] = line
  BY <1>2, ExtendedFile
<1>4. FilesOK'
  BY <1>1, <1>2, <1>3 DEF FilesOK
<1>5. Grows
  BY <1>1, <1>3 DEF Grows, FilesOK, Readable
<1>6. ASSUME NEW n \in 1..Len(profiles'), n > authored, profiles'[n] # Damaged
      PROVE  LineOK(profiles[n])'
  <2>1. PICK l : l = profiles'[n]
    OBVIOUS
  <2>2. LineOK(l)
    BY <1>3, <1>6, <2>1 DEF IInv, LinesOK
  <2>3. LineOK(l)'
    BY <1>4, <1>5, <2>2, LineKept
  <2> QED
    BY <2>1, <2>3
<1> QED
  BY <1>1, <1>3, <1>4, <1>5, <1>6 DEF LinesOK

(* What a step shows to keep the invariant.                                *)
LEMMA Combined ==
  ASSUME IInv, FilesOK', Grows, LinesOK', GhostsOK',
         NEW p \in Procs, NEW t \in States, HeldOK(t), Goes(p, t)
  PROVE  IInv'
BY ProcMoves DEF IInv

-----------------------------------------------------------------------------
(* Steps. *)

LEMMA TouchedType ==
  ASSUME NEW t \in States
  PROVE  Touched(t) \subseteq Agents
<1>1. t.pc = "idle" => Touched(t) = {}
  BY DEF Touched
<1>2. t.pc \in {"counting", "fetching"} => Touched(t) \subseteq Agents
  BY StateKinds DEF Touched, Counting, Fetching
<1>3. t.pc = "matching" => Touched(t) \subseteq Agents
  BY StateKinds DEF Touched, Matching
<1>4. t.pc = "writing" => Touched(t) \subseteq Agents
  BY StateKinds DEF Touched, Writing, Profiles
<1> QED
  BY <1>1, <1>2, <1>3, <1>4, StateKinds

LEMMA IdleState == Idle \in States /\ HeldOK(Idle)
BY DEF States, Idle, HeldOK

LEMMA BeginsGhosts ==
  ASSUME IInv, NEW p \in Procs, NEW agents \in SUBSET Agents, Begins(p, agents)
  PROVE  GhostsOK' /\ authored' = authored
BY DEF IInv, GhostsOK, Begins

LEMMA BreaksOffStep ==
  ASSUME IInv, NEW p \in Procs, BreaksOff(p)
  PROVE  IInv'
<1>1. FilesOK' /\ Grows /\ LinesOK'
  BY FilesKept DEF BreaksOff
<1>2. Touched(ps[p]) \subseteq Agents
  BY TouchedType DEF IInv
<1>3. GhostsOK'
  BY <1>2 DEF IInv, GhostsOK, BreaksOff
<1> QED
  BY <1>1, <1>3, IdleState, Combined DEF BreaksOff

LEMMA AppendIncidentStep ==
  ASSUME IInv, NEW p \in Procs, NEW agent \in Agents, NEW severity \in Severities,
         AppendIncident(p, agent, severity)
  PROVE  IInv'
<1> DEFINE line == [agent |-> agent, severity |-> severity]
           t == [pc |-> "counting", agent |-> agent]
<1>1. line \in IncidentLines
  BY DEF IncidentLines, Incidents
<1>2. t \in States /\ HeldOK(t)
  BY DEF States, Counting, HeldOK
<1>3. /\ incidents' = Extended(incidents, incidentsEnded, line) /\ incidentsEnded' \in BOOLEAN
      /\ Goes(p, t) /\ Begins(p, {agent}) /\ UNCHANGED ProfileFile
  BY DEF AppendIncident
<1> HIDE DEF line, t
<1>4. GhostsOK' /\ authored' = authored
  BY <1>3, BeginsGhosts
<1>5. FilesOK' /\ Grows /\ LinesOK'
  BY <1>1, <1>3, <1>4, IncidentWritten
<1> QED
  BY <1>2, <1>3, <1>4, <1>5, Combined

LEMMA CutIncidentStep ==
  ASSUME IInv, NEW p \in Procs, NEW agent \in Agents, NEW severity \in Severities,
         CutIncident(p, agent, severity)
  PROVE  IInv'
<1>1. PICK line \in {[agent |-> agent, severity |-> severity], Damaged} :
        incidents' = Extended(incidents, incidentsEnded, line)
  BY DEF CutIncident
<1>2. line \in IncidentLines
  BY DEF IncidentLines, Incidents
<1>3. /\ incidentsEnded' \in BOOLEAN /\ UNCHANGED <<ProfileFile, authored>>
      /\ ps' = ps
  BY DEF CutIncident
<1>4. FilesOK' /\ Grows /\ LinesOK'
  BY <1>1, <1>2, <1>3, IncidentWritten
<1>5. GhostsOK'
  BY DEF IInv, GhostsOK, CutIncident
<1>6. Goes(p, ps[p]) /\ ps[p] \in States /\ HeldOK(ps[p])
  BY <1>3 DEF IInv, Goes
<1> QED
  BY <1>4, <1>5, <1>6, Combined

LEMMA CountIncidentsStep ==
  ASSUME IInv, NEW p \in Procs, CountIncidents(p)
  PROVE  IInv'
<1> DEFINE agent == ps[p].agent
           t == [pc |-> "fetching", agent |-> agent, tally |-> Tally(agent, Len(incidents))]
<1>1. ps[p].pc = "counting"
  BY DEF CountIncidents
<1>2. agent \in Agents /\ Len(incidents) \in Nat
  BY <1>1, StateKinds DEF IInv, FilesOK, Counting
<1>3. CASE BreaksOff(p)
  BY <1>3, BreaksOffStep
<1>4. CASE ~BreaksOff(p)
  <2>1. Goes(p, t) /\ UNCHANGED <<IncidentFile, ProfileFile, Ghosts>>
    BY <1>4 DEF CountIncidents
  <2>2. t.pc = "fetching" /\ t.agent = agent /\ t.tally = Tally(agent, Len(incidents))
    OBVIOUS
  <2>3. t \in States
    BY <1>2, TallyType DEF States, Fetching
  <2> HIDE DEF t, agent
  <2>4. HeldOK(t)
    BY <1>2, <2>2 DEF HeldOK
  <2>5. FilesOK' /\ Grows /\ LinesOK'
    BY <2>1, FilesKept DEF Ghosts
  <2>6. GhostsOK'
    BY <2>1 DEF IInv, GhostsOK, Ghosts
  <2> QED
    BY <2>1, <2>3, <2>4, <2>5, <2>6, Combined
<1> QED
  BY <1>3, <1>4

(* A process that has lines to write, or none left.                        *)
LEMMA WritesLines ==
  ASSUME NEW p \in Procs, NEW todo \in SUBSET Profiles,
         \A line \in todo : LineOK(line), Writes(p, todo)
  PROVE  \E t \in States : HeldOK(t) /\ Goes(p, t)
<1>1. CASE todo = {}
  BY <1>1, IdleState DEF Writes
<1>2. CASE todo # {}
  <2> DEFINE t == [pc |-> "writing", todo |-> todo]
  <2>1. t \in States /\ HeldOK(t)
    BY DEF States, Writing, HeldOK
  <2> QED
    BY <1>2, <2>1 DEF Writes
<1> QED
  BY <1>1, <1>2

(* What update_trust_profile makes of the counters written by hand and of  *)
(* the incidents so far is explained.                                      *)
LEMMA UpdatedIsOK ==
  ASSUME IInv, NEW agent \in Agents, NEW tally \in Tallies,
         Readable(incidents) => \E k \in 0..Len(incidents) : tally = Tally(agent, k)
  PROVE  /\ Updated(agent, Original(agent), tally) \in Profiles
         /\ LineOK(Updated(agent, Original(agent), tally))
<1> DEFINE line == Updated(agent, Original(agent), tally)
<1>1. line \in Profiles /\ line.agent = agent /\ line.counters = Original(agent)
  BY OriginalType, UpdatedIsProfile
<1>2. line = Updated(agent, Original(agent), tally)
  OBVIOUS
<1> HIDE DEF line
<1>3. LineOK(line)
  BY <1>1, <1>2 DEF LineOK, Explained
<1> QED
  BY <1>1, <1>2, <1>3

LEMMA FetchProfileStep ==
  ASSUME IInv, NEW p \in Procs, FetchProfile(p)
  PROVE  IInv'
<1> DEFINE agent == ps[p].agent
           tally == ps[p].tally
           line == Updated(agent, CountersOf(agent), tally)
<1>1. ps[p].pc = "fetching"
  BY DEF FetchProfile
<1>2. agent \in Agents /\ tally \in Tallies
  BY <1>1, StateKinds DEF IInv, Fetching
<1>3. CASE BreaksOff(p)
  BY <1>3, BreaksOffStep
<1>4. CASE ~BreaksOff(p)
  <2>1. /\ Readable(profiles) /\ Writes(p, {line})
        /\ UNCHANGED <<IncidentFile, ProfileFile, Ghosts>>
    BY <1>4 DEF FetchProfile
  <2>2. Readable(incidents) => \E k \in 0..Len(incidents) : tally = Tally(agent, k)
    BY <1>1 DEF IInv, HeldOK
  <2>3. line = Updated(agent, Original(agent), tally)
    BY <1>2, <2>1, CountersAreOriginal
  <2> HIDE DEF line, agent, tally
  <2>4. line \in Profiles /\ LineOK(line)
    BY <1>2, <2>2, <2>3, UpdatedIsOK
  <2>5. PICK t \in States : HeldOK(t) /\ Goes(p, t)
    BY <2>1, <2>4, WritesLines
  <2>6. FilesOK' /\ Grows /\ LinesOK'
    BY <2>1, FilesKept DEF Ghosts
  <2>7. GhostsOK'
    BY <2>1 DEF IInv, GhostsOK, Ghosts
  <2> QED
    BY <2>5, <2>6, <2>7, Combined
<1> QED
  BY <1>3, <1>4

LEMMA LoadProfilesStep ==
  ASSUME IInv, NEW p \in Procs, LoadProfiles(p)
  PROVE  IInv'
<1> DEFINE t == [pc |-> "matching", agents |-> Profiled,
                 known |-> [a \in Agents |-> CountersOf(a)]]
<1>1. CASE UNCHANGED vars
  <2>1. /\ Goes(p, ps[p]) /\ ps[p] \in States /\ HeldOK(ps[p])
        /\ UNCHANGED <<IncidentFile, ProfileFile, authored>>
    BY <1>1 DEF IInv, Goes, vars, IncidentFile, ProfileFile
  <2>2. GhostsOK'
    BY <1>1 DEF IInv, GhostsOK, vars
  <2> QED
    BY <2>1, <2>2, FilesKept, Combined
<1>2. CASE Readable(profiles)
  <2>1. Goes(p, t) /\ Begins(p, Profiled) /\ UNCHANGED <<IncidentFile, ProfileFile>>
    BY <1>2 DEF LoadProfiles
  <2>2. Profiled \in SUBSET Agents
    BY DEF Profiled
  <2>3. \A a \in Agents : CountersOf(a) = Original(a) /\ CountersOf(a) \in Counters
    BY <1>2, CountersAreOriginal, OriginalType
  <2>4. t \in States /\ HeldOK(t)
    BY <2>2, <2>3 DEF States, Matching, HeldOK
  <2> HIDE DEF t
  <2>5. GhostsOK' /\ authored' = authored
    BY <2>1, <2>2, BeginsGhosts
  <2> QED
    BY <2>1, <2>4, <2>5, FilesKept, Combined
<1> QED
  BY <1>1, <1>2 DEF LoadProfiles

LEMMA MatchIncidentsStep ==
  ASSUME IInv, NEW p \in Procs, MatchIncidents(p)
  PROVE  IInv'
<1> DEFINE agents == ps[p].agents
           lineOf(a) == Updated(a, ps[p].known[a], Tally(a, Len(incidents)))
           todo == {lineOf(a) : a \in agents}
<1>1. ps[p].pc = "matching"
  BY DEF MatchIncidents
<1>2. agents \subseteq Agents /\ Len(incidents) \in Nat
  BY <1>1, StateKinds DEF IInv, FilesOK, Matching
<1>3. CASE BreaksOff(p)
  BY <1>3, BreaksOffStep
<1>4. CASE ~BreaksOff(p)
  <2>1. Writes(p, todo) /\ UNCHANGED <<IncidentFile, ProfileFile, Ghosts>>
    BY <1>4 DEF MatchIncidents
  <2>2. ASSUME NEW a \in agents
        PROVE  lineOf(a) \in Profiles /\ LineOK(lineOf(a))
    <3>1. ps[p].known[a] = Original(a)
      BY <1>1, <1>2 DEF IInv, HeldOK
    <3>2. a \in Agents /\ Tally(a, Len(incidents)) \in Tallies
      BY <1>2, TallyType
    <3> QED
      BY <1>2, <3>1, <3>2, UpdatedIsOK
  <2>3. todo \in SUBSET Profiles /\ \A line \in todo : LineOK(line)
    BY <2>2
  <2> HIDE DEF todo
  <2>4. PICK t \in States : HeldOK(t) /\ Goes(p, t)
    BY <2>1, <2>3, WritesLines
  <2>5. FilesOK' /\ Grows /\ LinesOK'
    BY <2>1, FilesKept DEF Ghosts
  <2>6. GhostsOK'
    BY <2>1 DEF IInv, GhostsOK, Ghosts
  <2> QED
    BY <2>4, <2>5, <2>6, Combined
<1> QED
  BY <1>3, <1>4

LEMMA AppendProfileStep ==
  ASSUME IInv, NEW p \in Procs, AppendProfile(p)
  PROVE  IInv'
<1>1. ps[p].pc = "writing" /\ ps[p].todo \subseteq Profiles
  BY StateKinds DEF IInv, AppendProfile, Writing
<1>2. PICK line \in ps[p].todo :
        /\ profiles' = Extended(profiles, profilesEnded, line)
        /\ Writes(p, ps[p].todo \ {line})
        /\ suspect' = suspect \ (clean[p] \cap {line.agent})
  BY DEF AppendProfile
<1>3. \A l \in ps[p].todo : LineOK(l)
  BY <1>1 DEF IInv, HeldOK
<1>4. line \in ProfileLines /\ profilesEnded' \in BOOLEAN
      /\ UNCHANGED <<IncidentFile, authored, clean>>
  BY <1>1 DEF ProfileLines, AppendProfile
<1>5. FilesOK' /\ Grows /\ LinesOK'
  BY <1>2, <1>3, <1>4, ProfileWritten
<1>6. GhostsOK'
  BY <1>2, <1>4 DEF IInv, GhostsOK
<1>7. PICK t \in States : HeldOK(t) /\ Goes(p, t)
  <2> DEFINE rest == ps[p].todo \ {line}
  <2>1. rest \in SUBSET Profiles /\ \A l \in rest : LineOK(l)
    BY <1>1, <1>3
  <2> HIDE DEF rest
  <2> QED
    BY <1>2, <2>1, WritesLines DEF rest
<1> QED
  BY <1>5, <1>6, <1>7, Combined

LEMMA CutProfileStep ==
  ASSUME IInv, NEW p \in Procs, CutProfile(p)
  PROVE  IInv'
<1>1. ps[p].pc = "writing" /\ ps[p].todo \subseteq Profiles
  BY StateKinds DEF IInv, CutProfile, Writing
<1>2. PICK line \in ps[p].todo \cup {Damaged} :
        profiles' = Extended(profiles, profilesEnded, line)
  BY DEF CutProfile
<1>3. line \in ProfileLines /\ (line # Damaged => LineOK(line))
  BY <1>1, <1>2 DEF IInv, HeldOK, ProfileLines
<1>4. /\ profilesEnded' \in BOOLEAN /\ UNCHANGED <<IncidentFile, authored, clean>>
      /\ Goes(p, Idle) /\ suspect' = suspect \cup Touched(ps[p])
  BY DEF CutProfile
<1>5. FilesOK' /\ Grows /\ LinesOK'
  BY <1>2, <1>3, <1>4, ProfileWritten
<1>6. Touched(ps[p]) \subseteq Agents
  BY TouchedType DEF IInv
<1>7. GhostsOK'
  BY <1>4, <1>6 DEF IInv, GhostsOK
<1> QED
  BY <1>4, <1>5, <1>7, IdleState, Combined

LEMMA QuietStep ==
  ASSUME IInv, UNCHANGED vars
  PROVE  IInv'
<1>1. UNCHANGED <<IncidentFile, ProfileFile, authored>> /\ ps' = ps
  BY DEF vars, IncidentFile, ProfileFile
<1>2. FilesOK' /\ Grows /\ LinesOK'
  BY <1>1, FilesKept
<1>3. GhostsOK'
  BY DEF IInv, GhostsOK, vars
<1>4. ASSUME NEW p \in Procs PROVE HeldOK(ps[p])'
  BY <1>1, <1>2, ProcMoves DEF IInv, Goes
<1> QED
  BY <1>1, <1>2, <1>3, <1>4 DEF IInv

LEMMA Initially == Init => IInv
<1> SUFFICES ASSUME Init PROVE IInv
  OBVIOUS
<1>1. profiles \in Seq(Profiles) /\ Len(profiles) \in Nat
  BY FilesAreAuthored DEF Init
<1>2. FilesOK
  <2>1. \A n \in 1..authored : profiles[n] # Damaged
    BY <1>1, DamagedIsNoLine DEF Init
  <2> QED
    BY <1>1, <2>1 DEF Init, FilesOK, IncidentLines, ProfileLines
<1>3. GhostsOK
  BY DEF Init, GhostsOK, Profiled
<1>4. ps \in [Procs -> States] /\ \A p \in Procs : HeldOK(ps[p])
  BY IdleState DEF Init
<1>5. LinesOK
  BY <1>1 DEF Init, LinesOK
<1> QED
  BY <1>2, <1>3, <1>4, <1>5 DEF IInv

LEMMA Step == IInv /\ [Next]_vars => IInv'
<1> SUFFICES ASSUME IInv, [Next]_vars PROVE IInv'
  OBVIOUS
<1>1. ASSUME NEW p \in Procs, NEW a \in Agents, NEW s \in Severities,
             AppendIncident(p, a, s) \/ CutIncident(p, a, s)
      PROVE  IInv'
  BY <1>1, AppendIncidentStep, CutIncidentStep
<1>2. ASSUME NEW p \in Procs,
             \/ CountIncidents(p) \/ FetchProfile(p)
             \/ LoadProfiles(p) \/ MatchIncidents(p)
      PROVE  IInv'
  BY <1>2, CountIncidentsStep, FetchProfileStep, LoadProfilesStep, MatchIncidentsStep
<1>3. ASSUME NEW p \in Procs, AppendProfile(p) \/ CutProfile(p) \/ Die(p)
      PROVE  IInv'
  BY <1>3, AppendProfileStep, CutProfileStep, BreaksOffStep DEF Die
<1>4. CASE UNCHANGED vars
  BY <1>4, QuietStep
<1> QED
  BY <1>1, <1>2, <1>3, <1>4 DEF Next

LEMMA Invariance == Spec => []IInv
BY Initially, Step, PTL DEF Spec

-----------------------------------------------------------------------------

(* Both files and everything a command holds keep their types: no command  *)
(* writes a score out of 0..1000 or a band that is none.                   *)
THEOREM TrustTypes == Spec => []TypeOK
BY Invariance, Typed, PTL

(* Whatever the interleaving, deaths and cut writes included, every        *)
(* profile a command wrote is the score of the counters written by hand    *)
(* and of the incidents that stood in the log at one moment.               *)
THEOREM ProfilesExplained == Spec => []ProfilesAreExplained
BY Invariance, ExplainedHolds, PTL

-----------------------------------------------------------------------------
(* Currency. A command that nobody disturbed (clean) holds the agent alone *)
(* and computed from the whole log; where one was disturbed or broke off,  *)
(* the agent is suspect.                                                   *)

FreshFor(t, agent) ==
  /\ t.pc = "fetching" => t.tally = Tally(agent, Len(incidents))
  /\ t.pc = "writing" => \A line \in t.todo : line.agent = agent =>
       line = Updated(agent, line.counters, Tally(agent, Len(incidents)))

OnePerAgent(t) ==
  t.pc = "writing" => \A k, l \in t.todo : k.agent = l.agent => k = l

CurInv ==
  /\ \A p \in Procs : OnePerAgent(ps[p])
  /\ \A p \in Procs : \A a \in Touched(ps[p]) : a \in clean[p] \/ a \in suspect
  /\ \A p, q \in Procs : \A a \in Touched(ps[p]) \cap clean[p] :
       p # q => a \notin Touched(ps[q])
  /\ Readable(incidents) => \A p \in Procs : \A a \in Touched(ps[p]) \cap clean[p] :
       FreshFor(ps[p], a)
  /\ CurrentUnlessRaced

(* The incidents, or the profiles, of an agent are as they were.           *)
IncidentsSame(agent) == Tally(agent, Len(incidents))' = Tally(agent, Len(incidents))
ProfilesSame(agent) ==
  /\ (agent \in Profiled)' <=> agent \in Profiled
  /\ agent \in Profiled => Latest(agent)' = Latest(agent)

LEMMA SameIncidents ==
  ASSUME IInv, NEW agent \in Agents,
         \/ incidents' = incidents
         \/ \E line : incidents' = Append(incidents, line) /\ line \in Incidents
                       /\ line.agent # agent
  PROVE  IncidentsSame(agent)
<1>1. CASE incidents' = incidents
  BY <1>1 DEF IncidentsSame, Tally
<1>2. ASSUME NEW line \in Incidents, incidents' = Append(incidents, line), line.agent # agent
      PROVE  IncidentsSame(agent)
  <2>1. /\ Len(incidents) \in Nat /\ Len(incidents') = Len(incidents) + 1
        /\ \A n \in 1..Len(incidents) : incidents'[n] = incidents[n]
        /\ incidents'[Len(incidents) + 1] = line
    BY <1>2 DEF IInv, FilesOK
  <2>2. ASSUME NEW s \in Severities
        PROVE  {n \in 1..Len(incidents') : incidents'[n] = [agent |-> agent, severity |-> s]}
                 = {n \in 1..Len(incidents) : incidents[n] = [agent |-> agent, severity |-> s]}
    <3>1. line # [agent |-> agent, severity |-> s]
      BY <1>2
    <3> QED
      BY <2>1, <3>1
  <2> QED
    BY <2>2 DEF IncidentsSame, Tally
<1> QED
  BY <1>1, <1>2

LEMMA SameProfiles ==
  ASSUME IInv, NEW agent \in Agents,
         \/ profiles' = profiles
         \/ \E line : profiles' = Append(profiles, line) /\ line \in Profiles
                       /\ line.agent # agent
  PROVE  ProfilesSame(agent)
<1>1. LinesOf(agent)' = LinesOf(agent) /\ \A n \in LinesOf(agent) : profiles'[n] = profiles[n]
  <2>1. CASE profiles' = profiles
    BY <2>1 DEF LinesOf
  <2>2. ASSUME NEW line \in Profiles, profiles' = Append(profiles, line), line.agent # agent
        PROVE  /\ LinesOf(agent)' = LinesOf(agent)
               /\ \A n \in LinesOf(agent) : profiles'[n] = profiles[n]
    <3>1. /\ Len(profiles) \in Nat /\ DOMAIN profiles = 1..Len(profiles)
          /\ DOMAIN profiles' = 1..(Len(profiles) + 1)
          /\ \A n \in 1..Len(profiles) : profiles'[n] = profiles[n]
          /\ profiles'[Len(profiles) + 1] = line
      BY <2>2 DEF IInv, FilesOK
    <3>2. ASSUME NEW n \in 1..(Len(profiles) + 1)
          PROVE  n \in LinesOf(agent)' <=> n \in LinesOf(agent)
      <4>1. CASE n = Len(profiles) + 1
        <5>1. n \notin DOMAIN profiles
          BY <3>1, <4>1
        <5>2. profiles'[n].agent # agent
          BY <2>2, <3>1, <4>1
        <5> QED
          BY <5>1, <5>2 DEF LinesOf
      <4>2. CASE n \in 1..Len(profiles)
        BY <3>1, <4>2 DEF LinesOf
      <4> QED
        BY <3>1, <4>1, <4>2
    <3>3. /\ LinesOf(agent)' \subseteq 1..(Len(profiles) + 1)
          /\ LinesOf(agent) \subseteq 1..Len(profiles)
      BY <3>1 DEF LinesOf
    <3>4. LinesOf(agent) \subseteq 1..(Len(profiles) + 1)
      BY <3>1, <3>3
    <3>5. LinesOf(agent)' = LinesOf(agent)
      BY <3>2, <3>3, <3>4
    <3> QED
      BY <3>1, <3>3, <3>5
  <2> QED
    BY <2>1, <2>2
<1>2. (agent \in Profiled)' <=> agent \in Profiled
  BY <1>1 DEF Profiled
<1>3. ASSUME agent \in Profiled
      PROVE  Latest(agent)' = Latest(agent)
  <2>1. /\ LinesOf(agent) # {} /\ LinesOf(agent) \subseteq 1..Len(profiles)
        /\ Len(profiles) \in Nat
    BY <1>3 DEF Profiled, LinesOf, IInv, FilesOK
  <2>2. Max(LinesOf(agent)) \in LinesOf(agent)
    BY <2>1, MaxOfLines
  <2> QED
    BY <1>1, <2>2 DEF Latest
<1> QED
  BY <1>2, <1>3 DEF ProfilesSame

(* A line just written is the latest of its agent.                         *)
LEMMA LatestWritten ==
  ASSUME IInv, NEW line \in Profiles, profiles' = Append(profiles, line)
  PROVE  /\ (line.agent \in Profiled)'
         /\ Latest(line.agent)' = line
<1> DEFINE L == {n \in DOMAIN profiles' : profiles'[n] # Damaged /\ profiles'[n].agent = line.agent}
           last == Len(profiles) + 1
<1>1. /\ last \in Nat /\ DOMAIN profiles' = 1..last /\ profiles'[last] = line
  BY DEF IInv, FilesOK
<1>2. line # Damaged /\ line.agent \in Agents
  BY DamagedIsNoLine DEF Profiles
<1> HIDE DEF last
<1>3. last \in L /\ L \subseteq 1..last
  BY <1>1, <1>2
<1> HIDE DEF L
<1>4. Max(L) \in L /\ last <= Max(L)
  BY <1>1, <1>3, MaxOfLines
<1>5. Max(L) = last
  <2>1. Max(L) \in 1..last
    BY <1>3, <1>4
  <2> QED
    BY <1>1, <1>4, <2>1
<1>6. LinesOf(line.agent)' = L
  BY DEF LinesOf, L
<1> QED
  BY <1>1, <1>2, <1>3, <1>5, <1>6 DEF Profiled, Latest

LEMMA CurrentKept ==
  ASSUME NEW agent \in Agents, Current(agent), IncidentsSame(agent), ProfilesSame(agent)
  PROVE  Current(agent)'
BY DEF Current, IncidentsSame, ProfilesSame

LEMMA FreshKept ==
  ASSUME NEW t, NEW agent, FreshFor(t, agent), IncidentsSame(agent)
  PROVE  FreshFor(t, agent)'
BY DEF FreshFor, IncidentsSame

(* The agents of a process by its pc.                                      *)
LEMMA TouchedIs ==
  ASSUME NEW t \in States
  PROVE  /\ t.pc = "idle" => Touched(t) = {}
         /\ t.pc \in {"counting", "fetching"} => Touched(t) = {t.agent}
         /\ t.pc = "matching" => Touched(t) = t.agents
         /\ t.pc = "writing" => Touched(t) = {line.agent : line \in t.todo}
BY DEF Touched

LEMMA BusyIs ==
  ASSUME NEW a
  PROVE  a \in Busy <=> \E p \in Procs : a \in Touched(ps[p])
BY DEF Busy

(* What a step of process p that takes it to state t shows to keep CurInv. *)
LEMMA CurrencyStep ==
  ASSUME IInv, IInv', CurInv, NEW p \in Procs, NEW t \in States, Goes(p, t),
         OnePerAgent(t),
         \A a \in Touched(t) : a \in clean'[p] \/ a \in suspect',
         \A q \in Procs \ {p} :
           /\ clean'[q] \subseteq clean[q]
           /\ \A a \in Touched(ps[q]) :
                /\ a \in clean[q] => a \in clean'[q] \/ a \in suspect'
                /\ a \in suspect => a \in suspect'
                /\ a \in Touched(t) => a \notin clean'[p] /\ a \notin clean'[q]
                /\ Readable(incidents)' /\ a \in clean'[q] => IncidentsSame(a),
         Readable(incidents)' => Readable(incidents),
         Readable(incidents)' => \A a \in Touched(t) \cap clean'[p] : FreshFor(t, a)',
         Readable(incidents)' /\ Readable(profiles)' =>
           \A a \in Agents \ (suspect' \cup Touched(t)) :
             (\A q \in Procs \ {p} : a \notin Touched(ps[q])) => Current(a)'
  PROVE  CurInv'
<1>1. /\ ps \in [Procs -> States] /\ ps'[p] = t
      /\ \A q \in Procs \ {p} : ps'[q] = ps[q]
  BY DEF IInv, Goes
<1>2. \A q \in Procs : OnePerAgent(ps'[q])
  BY <1>1 DEF CurInv
<1>3. ASSUME NEW q \in Procs, NEW a \in Touched(ps'[q])
      PROVE  a \in clean'[q] \/ a \in suspect'
  <2>1. CASE q = p
    BY <1>1, <1>3, <2>1
  <2>2. CASE q # p
    BY <1>1, <1>3, <2>2 DEF CurInv
  <2> QED
    BY <2>1, <2>2
<1>4. ASSUME NEW q \in Procs, NEW r \in Procs, NEW a \in Touched(ps'[q]) \cap clean'[q], q # r
      PROVE  a \notin Touched(ps'[r])
  <2>1. CASE q = p
    BY <1>1, <1>4, <2>1
  <2>2. CASE r = p
    BY <1>1, <1>4, <2>2
  <2>3. CASE q # p /\ r # p
    BY <1>1, <1>4, <2>3 DEF CurInv
  <2> QED
    BY <2>1, <2>2, <2>3
<1>5. ASSUME Readable(incidents)', NEW q \in Procs, NEW a \in Touched(ps'[q]) \cap clean'[q]
      PROVE  FreshFor(ps[q], a)'
  <2>1. PICK u \in States : u = ps'[q]
    BY <1>1
  <2>2. FreshFor(u, a)'
    <3>1. CASE q = p
      BY <1>1, <1>5, <2>1, <3>1
    <3>2. CASE q # p
      <4>1. FreshFor(u, a) /\ IncidentsSame(a)
        BY <1>1, <1>5, <2>1, <3>2 DEF CurInv
      <4> QED
        BY <4>1, FreshKept
    <3> QED
      BY <3>1, <3>2
  <2> QED
    BY <2>1, <2>2 DEF FreshFor
<1>6. CurrentUnlessRaced'
  <2> SUFFICES ASSUME Readable(incidents)', Readable(profiles)',
                      NEW a \in Agents \ (suspect \cup Busy)'
               PROVE  Current(a)'
    BY DEF CurrentUnlessRaced
  <2>1. \A q \in Procs : a \notin Touched(ps'[q])
    BY DEF Busy
  <2>2. a \notin suspect' /\ a \notin Touched(t)
    BY <1>1, <2>1
  <2>3. \A q \in Procs \ {p} : a \notin Touched(ps[q])
    BY <1>1, <2>1
  <2> QED
    BY <2>2, <2>3
<1>7. \A q \in Procs : OnePerAgent(ps[q])'
  BY <1>2 DEF OnePerAgent
<1> QED
  BY <1>3, <1>4, <1>5, <1>6, <1>7 DEF CurInv, Touched

LEMMA SameFiles ==
  ASSUME IInv, UNCHANGED <<IncidentFile, ProfileFile>>, NEW a \in Agents
  PROVE  /\ IncidentsSame(a) /\ ProfilesSame(a)
         /\ Readable(incidents)' <=> Readable(incidents)
         /\ Readable(profiles)' <=> Readable(profiles)
<1>1. incidents' = incidents /\ profiles' = profiles
  BY DEF IncidentFile, ProfileFile
<1> QED
  BY <1>1, SameIncidents, SameProfiles DEF Readable

(* Both Touched and the currency of others, in the terms of CurInv.        *)
LEMMA TouchedAgents ==
  ASSUME IInv, NEW p \in Procs, NEW a \in Touched(ps[p])
  PROVE  a \in Agents
BY TouchedType DEF IInv

LEMMA WasCurrent ==
  ASSUME CurInv, Readable(incidents), Readable(profiles), NEW a \in Agents,
         a \notin suspect, \A q \in Procs : a \notin Touched(ps[q])
  PROVE  Current(a)
BY BusyIs DEF CurInv, CurrentUnlessRaced

(* A command goes on with the agents it has.                               *)
LEMMA CurrencyMoves ==
  ASSUME IInv, IInv', CurInv, NEW p \in Procs, NEW t \in States, Goes(p, t),
         UNCHANGED <<IncidentFile, ProfileFile, Ghosts>>,
         OnePerAgent(t), Touched(t) = Touched(ps[p]),
         Readable(incidents) => \A a \in Touched(t) \cap clean[p] : FreshFor(t, a)
  PROVE  CurInv'
<1>1. clean' = clean /\ suspect' = suspect
  BY DEF Ghosts
<1>2. /\ \A a \in Agents : IncidentsSame(a) /\ ProfilesSame(a)
      /\ Readable(incidents)' => Readable(incidents)
      /\ Readable(profiles)' => Readable(profiles)
  <2>1. incidents' = incidents /\ profiles' = profiles
    BY DEF IncidentFile, ProfileFile
  <2> QED
    BY <2>1, SameFiles DEF Readable
<1>3. \A a \in Touched(t) : a \in clean'[p] \/ a \in suspect'
  BY <1>1 DEF CurInv
<1>4. ASSUME NEW q \in Procs \ {p}
      PROVE  /\ clean'[q] \subseteq clean[q]
             /\ \A a \in Touched(ps[q]) :
                  /\ a \in clean[q] => a \in clean'[q] \/ a \in suspect'
                  /\ a \in suspect => a \in suspect'
                  /\ a \in Touched(t) => a \notin clean'[p] /\ a \notin clean'[q]
                  /\ a \in clean'[q] => IncidentsSame(a)
  BY <1>1, <1>2, TouchedAgents DEF CurInv
<1>5. ASSUME Readable(incidents)', NEW a \in Touched(t) \cap clean'[p]
      PROVE  FreshFor(t, a)'
  BY <1>1, <1>2, <1>5, FreshKept, TouchedAgents
<1>6. ASSUME Readable(incidents)', Readable(profiles)',
             NEW a \in Agents \ (suspect' \cup Touched(t)),
             \A q \in Procs \ {p} : a \notin Touched(ps[q])
      PROVE  Current(a)'
  <2>1. \A q \in Procs : a \notin Touched(ps[q])
    BY <1>6
  <2>2. Current(a)
    BY <1>1, <1>2, <1>6, <2>1, WasCurrent
  <2> QED
    BY <1>2, <2>2, CurrentKept
<1> QED
  BY <1>2, <1>3, <1>4, <1>5, <1>6, CurrencyStep

(* A command that stops, in a write of its own or not, leaves its agents   *)
(* suspect.                                                                *)
LEMMA CurrencyStops ==
  ASSUME IInv, IInv', CurInv, NEW p \in Procs, Goes(p, Idle),
         suspect' = suspect \cup Touched(ps[p]), UNCHANGED <<IncidentFile, clean>>,
         Readable(profiles)' => Readable(profiles) /\
           \A a \in Agents \ Touched(ps[p]) : ProfilesSame(a)
  PROVE  CurInv'
<1>1. /\ \A a \in Agents : IncidentsSame(a)
      /\ Readable(incidents)' => Readable(incidents)
  <2>1. incidents' = incidents
    BY DEF IncidentFile
  <2> QED
    BY <2>1, SameIncidents DEF Readable
<1>2. Idle \in States /\ Touched(Idle) = {} /\ OnePerAgent(Idle)
  BY IdleState, TouchedIs DEF Idle, OnePerAgent
<1>3. ASSUME NEW q \in Procs \ {p}
      PROVE  /\ clean'[q] \subseteq clean[q]
             /\ \A a \in Touched(ps[q]) :
                  /\ a \in clean[q] => a \in clean'[q] \/ a \in suspect'
                  /\ a \in suspect => a \in suspect'
                  /\ a \in Touched(Idle) => a \notin clean'[p] /\ a \notin clean'[q]
                  /\ a \in clean'[q] => IncidentsSame(a)
  BY <1>1, <1>2, TouchedAgents
<1>4. ASSUME Readable(incidents)', Readable(profiles)',
             NEW a \in Agents \ (suspect' \cup Touched(Idle)),
             \A q \in Procs \ {p} : a \notin Touched(ps[q])
      PROVE  Current(a)'
  <2>1. \A q \in Procs : a \notin Touched(ps[q])
    BY <1>4
  <2>2. Current(a)
    BY <1>1, <1>4, <2>1, WasCurrent
  <2> QED
    BY <1>1, <1>4, <2>1, <2>2, CurrentKept
<1> QED
  BY <1>1, <1>2, <1>3, <1>4, CurrencyStep

(* A command that begins: what it shares with others becomes suspect.      *)
LEMMA CurrencyBegins ==
  ASSUME IInv, IInv', CurInv, NEW p \in Procs, Free(p), NEW t \in States, Goes(p, t),
         NEW agents \in SUBSET Agents, Begins(p, agents), Touched(t) = agents,
         t.pc \in {"counting", "matching"}, UNCHANGED ProfileFile,
         Readable(incidents)' =>
           Readable(incidents) /\ \A a \in Agents : a \in agents \/ IncidentsSame(a)
  PROVE  CurInv'
<1>1. /\ suspect' = suspect \cup (agents \cap Busy)
      /\ clean'[p] = agents \ Busy
      /\ \A q \in Procs \ {p} : clean'[q] = clean[q] \ agents
  BY DEF Begins
<1>2. Touched(ps[p]) = {}
  BY TouchedIs DEF IInv, Free, Idle
<1>3. OnePerAgent(t)
  BY DEF OnePerAgent
<1>4. \A a \in Touched(t) : a \in clean'[p] \/ a \in suspect'
  BY <1>1
<1>5. ASSUME NEW q \in Procs \ {p}
      PROVE  /\ clean'[q] \subseteq clean[q]
             /\ \A a \in Touched(ps[q]) :
                  /\ a \in clean[q] => a \in clean'[q] \/ a \in suspect'
                  /\ a \in suspect => a \in suspect'
                  /\ a \in Touched(t) => a \notin clean'[p] /\ a \notin clean'[q]
                  /\ Readable(incidents)' /\ a \in clean'[q] => IncidentsSame(a)
  BY <1>1, BusyIs, TouchedAgents
<1>6. \A a \in Touched(t) \cap clean'[p] : FreshFor(t, a)'
  BY DEF FreshFor
<1>7. Readable(profiles)' => Readable(profiles)
  BY DEF ProfileFile, Readable
<1>8. ASSUME Readable(incidents)', Readable(profiles)',
             NEW a \in Agents \ (suspect' \cup Touched(t)),
             \A q \in Procs \ {p} : a \notin Touched(ps[q])
      PROVE  Current(a)'
  <2>1. \A q \in Procs : a \notin Touched(ps[q])
    BY <1>2, <1>8
  <2>2. Current(a)
    BY <1>1, <1>7, <1>8, <2>1, WasCurrent
  <2>3. ProfilesSame(a)
    BY SameProfiles DEF ProfileFile
  <2> QED
    BY <1>8, <2>2, <2>3, CurrentKept
<1> QED
  BY <1>3, <1>4, <1>5, <1>6, <1>8, CurrencyStep

(* Another incident of an agent leaves the incidents of the others.        *)
LEMMA OtherIncidents ==
  ASSUME IInv, NEW agent \in Agents, NEW severity \in Severities,
         NEW line \in {[agent |-> agent, severity |-> severity], Damaged},
         incidents' = Extended(incidents, incidentsEnded, line),
         incidentsEnded' \in BOOLEAN, UNCHANGED <<ProfileFile, authored>>,
         Readable(incidents)'
  PROVE  Readable(incidents) /\ \A a \in Agents \ {agent} : IncidentsSame(a)
<1>1. line \in IncidentLines
  BY DEF IncidentLines, Incidents
<1>2. Grows /\ incidents' = Append(incidents, line)
  BY <1>1, IncidentWritten
<1>3. /\ Len(incidents) + 1 \in DOMAIN incidents'
      /\ incidents'[Len(incidents) + 1] = line
  BY <1>1, <1>2 DEF IInv, FilesOK
<1>4. line # Damaged
  BY <1>3 DEF Readable
<1>5. line \in Incidents /\ line.agent = agent
  BY <1>4 DEF Incidents
<1> QED
  BY <1>2, <1>5, SameIncidents DEF Grows

LEMMA AppendIncidentCurrency ==
  ASSUME IInv, IInv', CurInv, NEW p \in Procs, NEW agent \in Agents,
         NEW severity \in Severities, AppendIncident(p, agent, severity)
  PROVE  CurInv'
<1> DEFINE line == [agent |-> agent, severity |-> severity]
           t == [pc |-> "counting", agent |-> agent]
<1>1. /\ incidents' = Extended(incidents, incidentsEnded, line) /\ incidentsEnded' \in BOOLEAN
      /\ Goes(p, t) /\ Begins(p, {agent}) /\ UNCHANGED <<ProfileFile, authored>> /\ Free(p)
  BY DEF AppendIncident, Begins
<1>2. t \in States /\ t.pc = "counting" /\ t.agent = agent
  BY DEF States, Counting
<1>3. Touched(t) = {agent}
  BY <1>2, TouchedIs
<1>4. Readable(incidents)' =>
        Readable(incidents) /\ \A a \in Agents : a \in {agent} \/ IncidentsSame(a)
  BY <1>1, OtherIncidents
<1> HIDE DEF t, line
<1> QED
  BY <1>1, <1>2, <1>3, <1>4, CurrencyBegins

LEMMA LoadProfilesCurrency ==
  ASSUME IInv, IInv', CurInv, NEW p \in Procs, LoadProfiles(p), Readable(profiles)
  PROVE  CurInv'
<1> DEFINE t == [pc |-> "matching", agents |-> Profiled,
                 known |-> [a \in Agents |-> CountersOf(a)]]
<1>1. /\ Goes(p, t) /\ Begins(p, Profiled) /\ Free(p)
      /\ UNCHANGED <<IncidentFile, ProfileFile>>
  BY DEF LoadProfiles
<1>2. t.pc = "matching" /\ t.agents = Profiled
  OBVIOUS
<1> HIDE DEF t
<1>3. t \in States
  BY <1>1 DEF IInv, Goes
<1>4. Touched(t) = Profiled /\ Profiled \in SUBSET Agents
  BY <1>2, <1>3, TouchedIs DEF Profiled
<1>5. /\ \A a \in Agents : IncidentsSame(a)
      /\ Readable(incidents)' => Readable(incidents)
      /\ UNCHANGED ProfileFile
  <2>1. incidents' = incidents
    BY <1>1 DEF IncidentFile
  <2> QED
    BY <1>1, <2>1, SameIncidents DEF Readable
<1> QED
  BY <1>1, <1>2, <1>3, <1>4, <1>5, CurrencyBegins

LEMMA CutIncidentCurrency ==
  ASSUME IInv, IInv', CurInv, NEW p \in Procs, NEW agent \in Agents,
         NEW severity \in Severities, CutIncident(p, agent, severity)
  PROVE  CurInv'
<1>1. PICK line \in {[agent |-> agent, severity |-> severity], Damaged} :
        incidents' = Extended(incidents, incidentsEnded, line)
  BY DEF CutIncident
<1>2. /\ incidentsEnded' \in BOOLEAN /\ UNCHANGED <<ProfileFile, authored>>
      /\ ps' = ps /\ ps[p] = Idle /\ suspect' = suspect \cup {agent}
      /\ \A q \in Procs : clean'[q] = clean[q] \ {agent}
  BY DEF CutIncident, Free
<1>3. Goes(p, Idle) /\ Idle \in States /\ Touched(Idle) = {} /\ OnePerAgent(Idle)
  BY <1>2, IdleState, TouchedIs DEF IInv, Goes, Idle, OnePerAgent
<1>4. Readable(incidents)' =>
        Readable(incidents) /\ \A a \in Agents \ {agent} : IncidentsSame(a)
  BY <1>1, <1>2, OtherIncidents
<1>5. ASSUME NEW q \in Procs \ {p}
      PROVE  /\ clean'[q] \subseteq clean[q]
             /\ \A a \in Touched(ps[q]) :
                  /\ a \in clean[q] => a \in clean'[q] \/ a \in suspect'
                  /\ a \in suspect => a \in suspect'
                  /\ a \in Touched(Idle) => a \notin clean'[p] /\ a \notin clean'[q]
                  /\ Readable(incidents)' /\ a \in clean'[q] => IncidentsSame(a)
  BY <1>2, <1>3, <1>4, TouchedAgents
<1>6. ASSUME Readable(incidents)', Readable(profiles)',
             NEW a \in Agents \ (suspect' \cup Touched(Idle)),
             \A q \in Procs \ {p} : a \notin Touched(ps[q])
      PROVE  Current(a)'
  <2>1. \A q \in Procs : a \notin Touched(ps[q])
    BY <1>2, <1>3, <1>6
  <2>2. Readable(profiles) /\ ProfilesSame(a)
    BY <1>2, <1>6, SameProfiles DEF ProfileFile, Readable
  <2>3. Current(a)
    BY <1>2, <1>4, <1>6, <2>1, <2>2, WasCurrent
  <2> QED
    BY <1>2, <1>4, <1>6, <2>2, <2>3, CurrentKept
<1> QED
  BY <1>3, <1>4, <1>5, <1>6, CurrencyStep

LEMMA BreaksOffCurrency ==
  ASSUME IInv, IInv', CurInv, NEW p \in Procs, BreaksOff(p)
  PROVE  CurInv'
<1>1. /\ Goes(p, Idle) /\ suspect' = suspect \cup Touched(ps[p])
      /\ UNCHANGED <<IncidentFile, ProfileFile>> /\ UNCHANGED <<IncidentFile, clean>>
  BY DEF BreaksOff
<1>2. Readable(profiles)' => Readable(profiles) /\
        \A a \in Agents \ Touched(ps[p]) : ProfilesSame(a)
  BY <1>1, SameProfiles DEF ProfileFile, Readable
<1> QED
  BY <1>1, <1>2, CurrencyStops

LEMMA CutProfileCurrency ==
  ASSUME IInv, IInv', CurInv, NEW p \in Procs, CutProfile(p)
  PROVE  CurInv'
<1>1. ps[p] \in States /\ ps[p].pc = "writing" /\ ps[p].todo \subseteq Profiles
  BY StateKinds DEF IInv, CutProfile, Writing
<1>2. PICK line \in ps[p].todo \cup {Damaged} :
        profiles' = Extended(profiles, profilesEnded, line)
  BY DEF CutProfile
<1>3. line \in ProfileLines /\ (line # Damaged => LineOK(line))
  BY <1>1, <1>2 DEF IInv, HeldOK, ProfileLines
<1>4. /\ profilesEnded' \in BOOLEAN /\ UNCHANGED <<IncidentFile, authored>>
      /\ UNCHANGED <<IncidentFile, clean>>
      /\ Goes(p, Idle) /\ suspect' = suspect \cup Touched(ps[p])
  BY DEF CutProfile
<1>5. ASSUME Readable(profiles)'
      PROVE  Readable(profiles) /\ \A a \in Agents \ Touched(ps[p]) : ProfilesSame(a)
  <2>1. Readable(profiles) /\ profiles' = Append(profiles, line)
    BY <1>2, <1>3, <1>4, <1>5, ProfileWritten
  <2>2. /\ Len(profiles) + 1 \in DOMAIN profiles'
        /\ profiles'[Len(profiles) + 1] = line
    BY <1>3, <2>1 DEF IInv, FilesOK
  <2>3. line # Damaged
    BY <1>5, <2>2 DEF Readable
  <2>4. line \in Profiles /\ line.agent \in Touched(ps[p])
    BY <1>1, <1>2, <2>3, TouchedIs
  <2> QED
    BY <2>1, <2>4, SameProfiles
<1> QED
  BY <1>4, <1>5, CurrencyStops

(* A command with lines to write, or none left, one for each agent.        *)
LEMMA WritesTouched ==
  ASSUME NEW p \in Procs, NEW todo \in SUBSET Profiles, Writes(p, todo),
         \A k, l \in todo : k.agent = l.agent => k = l
  PROVE  \E t \in States :
           /\ Goes(p, t) /\ OnePerAgent(t)
           /\ Touched(t) = {line.agent : line \in todo}
           /\ t.pc # "fetching"
           /\ t.pc = "writing" => t.todo = todo
<1>1. CASE todo = {}
  <2>1. Touched(Idle) = {} /\ OnePerAgent(Idle) /\ Idle.pc = "idle"
    BY IdleState, TouchedIs DEF Idle, OnePerAgent
  <2> QED
    BY <1>1, <2>1, IdleState DEF Writes
<1>2. CASE todo # {}
  <2> DEFINE t == [pc |-> "writing", todo |-> todo]
  <2>1. t \in States /\ t.pc = "writing" /\ t.todo = todo
    BY DEF States, Writing
  <2>2. Goes(p, t)
    BY <1>2 DEF Writes
  <2> HIDE DEF t
  <2> QED
    BY <2>1, <2>2, TouchedIs DEF OnePerAgent
<1> QED
  BY <1>1, <1>2

LEMMA CountIncidentsCurrency ==
  ASSUME IInv, IInv', CurInv, NEW p \in Procs, CountIncidents(p)
  PROVE  CurInv'
<1> DEFINE agent == ps[p].agent
           t == [pc |-> "fetching", agent |-> agent, tally |-> Tally(agent, Len(incidents))]
<1>1. CASE BreaksOff(p)
  BY <1>1, BreaksOffCurrency
<1>2. CASE ~BreaksOff(p)
  <2>1. /\ Goes(p, t) /\ UNCHANGED <<IncidentFile, ProfileFile, Ghosts>>
        /\ ps[p].pc = "counting" /\ ps[p] \in States
    BY <1>2 DEF CountIncidents, IInv
  <2>2. t.pc = "fetching" /\ t.agent = agent /\ t.tally = Tally(agent, Len(incidents))
    OBVIOUS
  <2> HIDE DEF t
  <2>3. t \in States
    BY <2>1 DEF IInv, Goes
  <2>4. Touched(t) = {agent} /\ Touched(ps[p]) = {agent}
    BY <2>1, <2>2, <2>3, TouchedIs
  <2> HIDE DEF agent
  <2>5. OnePerAgent(t) /\ \A a \in Touched(t) \cap clean[p] : FreshFor(t, a)
    BY <2>2, <2>4 DEF OnePerAgent, FreshFor
  <2> QED
    BY <2>1, <2>3, <2>4, <2>5, CurrencyMoves
<1> QED
  BY <1>1, <1>2

LEMMA FetchProfileCurrency ==
  ASSUME IInv, IInv', CurInv, NEW p \in Procs, FetchProfile(p)
  PROVE  CurInv'
<1> DEFINE agent == ps[p].agent
           tally == ps[p].tally
           line == Updated(agent, CountersOf(agent), tally)
<1>1. CASE BreaksOff(p)
  BY <1>1, BreaksOffCurrency
<1>2. CASE ~BreaksOff(p)
  <2>1. /\ Readable(profiles) /\ Writes(p, {line})
        /\ UNCHANGED <<IncidentFile, ProfileFile, Ghosts>>
        /\ ps[p].pc = "fetching" /\ ps[p] \in States
    BY <1>2 DEF FetchProfile, IInv
  <2>2. agent \in Agents /\ tally \in Tallies /\ Touched(ps[p]) = {agent}
    BY <2>1, StateKinds, TouchedIs DEF Fetching
  <2>3. /\ line \in Profiles /\ line.agent = agent
        /\ line.counters = CountersOf(agent)
    BY <2>1, <2>2, CountersAreOriginal, OriginalType, UpdatedIsProfile
  <2>4. Readable(incidents) /\ agent \in clean[p] =>
          line = Updated(agent, line.counters, Tally(agent, Len(incidents)))
    <3>1. Readable(incidents) /\ agent \in clean[p] => tally = Tally(agent, Len(incidents))
      BY <2>1, <2>2 DEF CurInv, FreshFor
    <3> QED
      BY <2>3, <3>1
  <2> HIDE DEF line, agent, tally
  <2>5. PICK t \in States :
          /\ Goes(p, t) /\ OnePerAgent(t)
          /\ Touched(t) = {l.agent : l \in {line}}
          /\ t.pc # "fetching"
          /\ t.pc = "writing" => t.todo = {line}
    BY <2>1, <2>3, WritesTouched
  <2>6. Touched(t) = Touched(ps[p])
    BY <2>2, <2>3, <2>5
  <2>7. Readable(incidents) => \A a \in Touched(t) \cap clean[p] : FreshFor(t, a)
    BY <2>2, <2>3, <2>4, <2>5, <2>6 DEF FreshFor
  <2> QED
    BY <2>1, <2>5, <2>6, <2>7, CurrencyMoves
<1> QED
  BY <1>1, <1>2

LEMMA MatchIncidentsCurrency ==
  ASSUME IInv, IInv', CurInv, NEW p \in Procs, MatchIncidents(p)
  PROVE  CurInv'
<1> DEFINE agents == ps[p].agents
           lineOf(a) == Updated(a, ps[p].known[a], Tally(a, Len(incidents)))
           todo == {lineOf(a) : a \in agents}
<1>1. CASE BreaksOff(p)
  BY <1>1, BreaksOffCurrency
<1>2. CASE ~BreaksOff(p)
  <2>1. /\ Writes(p, todo) /\ UNCHANGED <<IncidentFile, ProfileFile, Ghosts>>
        /\ ps[p].pc = "matching" /\ ps[p] \in States /\ Len(incidents) \in Nat
    BY <1>2 DEF MatchIncidents, IInv, FilesOK
  <2>2. /\ agents \subseteq Agents /\ Touched(ps[p]) = agents
        /\ ps[p].known \in [Agents -> Counters]
    BY <2>1, StateKinds, TouchedIs DEF Matching
  <2>3. ASSUME NEW a \in agents
        PROVE  /\ lineOf(a) \in Profiles /\ lineOf(a).agent = a
               /\ lineOf(a) = Updated(a, lineOf(a).counters, Tally(a, Len(incidents)))
    BY <2>1, <2>2, TallyType, UpdatedIsProfile
  <2> HIDE DEF lineOf
  <2>4. /\ todo \in SUBSET Profiles
        /\ \A k, l \in todo : k.agent = l.agent => k = l
        /\ {l.agent : l \in todo} = agents
        /\ \A l \in todo : l = Updated(l.agent, l.counters, Tally(l.agent, Len(incidents)))
    BY <2>3
  <2> HIDE DEF todo, agents
  <2>5. PICK t \in States :
          /\ Goes(p, t) /\ OnePerAgent(t)
          /\ Touched(t) = {l.agent : l \in todo}
          /\ t.pc # "fetching"
          /\ t.pc = "writing" => t.todo = todo
    BY <2>1, <2>4, WritesTouched
  <2>6. Touched(t) = Touched(ps[p])
    BY <2>2, <2>4, <2>5
  <2>7. \A a \in Touched(t) : FreshFor(t, a)
    BY <2>4, <2>5 DEF FreshFor
  <2> QED
    BY <2>1, <2>5, <2>6, <2>7, CurrencyMoves
<1> QED
  BY <1>1, <1>2

(* The line of an undisturbed command clears its agent; that of a          *)
(* disturbed one leaves it suspect.                                        *)
LEMMA AppendProfileCurrency ==
  ASSUME IInv, IInv', CurInv, NEW p \in Procs, AppendProfile(p)
  PROVE  CurInv'
<1>1. ps[p] \in States /\ ps[p].pc = "writing" /\ ps[p].todo \subseteq Profiles
  BY StateKinds DEF IInv, AppendProfile, Writing
<1>2. PICK line \in ps[p].todo :
        /\ profiles' = Extended(profiles, profilesEnded, line)
        /\ Writes(p, ps[p].todo \ {line})
        /\ suspect' = suspect \ (clean[p] \cap {line.agent})
  BY DEF AppendProfile
<1> DEFINE rest == ps[p].todo \ {line}
           agent == line.agent
<1>3. /\ line \in Profiles /\ line \in ProfileLines /\ LineOK(line) /\ profilesEnded' \in BOOLEAN
      /\ UNCHANGED <<IncidentFile, authored>> /\ incidents' = incidents /\ clean' = clean
  BY <1>1 DEF ProfileLines, AppendProfile, IInv, HeldOK, IncidentFile
<1>4. \A k, l \in ps[p].todo : k.agent = l.agent => k = l
  BY <1>1 DEF CurInv, OnePerAgent
<1>5. PICK t \in States :
        /\ Goes(p, t) /\ OnePerAgent(t)
        /\ Touched(t) = {l.agent : l \in rest}
        /\ t.pc # "fetching"
        /\ t.pc = "writing" => t.todo = rest
  <2>1. rest \in SUBSET Profiles /\ \A k, l \in rest : k.agent = l.agent => k = l
    BY <1>1, <1>4
  <2> HIDE DEF rest
  <2> QED
    BY <1>2, <2>1, WritesTouched DEF rest
<1>6. Touched(ps[p]) = {l.agent : l \in ps[p].todo}
  BY <1>1, TouchedIs
<1>7. /\ agent \notin Touched(t) /\ agent \in Touched(ps[p]) /\ agent \in Agents
      /\ Touched(t) \subseteq Touched(ps[p])
      /\ \A a \in Touched(ps[p]) : a # agent => a \in Touched(t)
  BY <1>3, <1>4, <1>5, <1>6 DEF Profiles
<1>8. \A a \in Agents : IncidentsSame(a)
  BY <1>3, SameIncidents
<1>9. Readable(incidents)' <=> Readable(incidents)
  BY <1>3 DEF Readable
<1>10. \A a \in Touched(t) : a \in clean'[p] \/ a \in suspect'
  BY <1>2, <1>3, <1>7 DEF CurInv
<1>11. ASSUME NEW q \in Procs \ {p}
       PROVE  /\ clean'[q] \subseteq clean[q]
              /\ \A a \in Touched(ps[q]) :
                   /\ a \in clean[q] => a \in clean'[q] \/ a \in suspect'
                   /\ a \in suspect => a \in suspect'
                   /\ a \in Touched(t) => a \notin clean'[p] /\ a \notin clean'[q]
                   /\ Readable(incidents)' /\ a \in clean'[q] => IncidentsSame(a)
  BY <1>2, <1>3, <1>7, <1>8, TouchedAgents DEF CurInv
<1>12. ASSUME Readable(incidents)', NEW a \in Touched(t) \cap clean'[p]
       PROVE  FreshFor(t, a)'
  <2>1. FreshFor(ps[p], a)
    BY <1>3, <1>7, <1>9, <1>12 DEF CurInv
  <2>2. FreshFor(t, a)
    BY <1>1, <1>5, <2>1 DEF FreshFor
  <2>3. IncidentsSame(a)
    BY <1>7, <1>8, <1>12, TouchedAgents
  <2> QED
    BY <2>2, <2>3, FreshKept
<1>13. ASSUME Readable(incidents)', Readable(profiles)',
              NEW a \in Agents \ (suspect' \cup Touched(t)),
              \A q \in Procs \ {p} : a \notin Touched(ps[q])
       PROVE  Current(a)'
  <2>1. Readable(incidents) /\ Readable(profiles) /\ profiles' = Append(profiles, line)
    BY <1>2, <1>3, <1>9, <1>13, ProfileWritten
  <2>2. CASE a = agent
    <3>1. agent \in clean[p]
      BY <1>2, <1>7, <1>13, <2>2 DEF CurInv
    <3>2. line = Updated(agent, line.counters, Tally(agent, Len(incidents)))
      BY <1>1, <1>7, <2>1, <3>1 DEF CurInv, FreshFor
    <3>3. (agent \in Profiled)' /\ Latest(agent)' = line
      BY <1>3, <2>1, LatestWritten
    <3>4. IncidentsSame(agent)
      BY <1>7, <1>8
    <3> HIDE DEF agent
    <3> QED
      BY <2>2, <3>2, <3>3, <3>4 DEF Current, IncidentsSame
  <2>3. CASE a # agent
    <3>1. a \notin suspect /\ \A q \in Procs : a \notin Touched(ps[q])
      BY <1>2, <1>7, <1>13, <2>3
    <3>2. Current(a)
      BY <1>13, <2>1, <3>1, WasCurrent
    <3>3. ProfilesSame(a)
      BY <1>3, <2>1, <2>3, SameProfiles
    <3> QED
      BY <1>8, <1>13, <3>2, <3>3, CurrentKept
  <2> QED
    BY <2>2, <2>3
<1> QED
  BY <1>5, <1>9, <1>10, <1>11, <1>12, <1>13, CurrencyStep

LEMMA QuietCurrency ==
  ASSUME CurInv, UNCHANGED vars
  PROVE  CurInv'
<1>1. /\ incidents' = incidents /\ profiles' = profiles /\ ps' = ps
      /\ suspect' = suspect /\ clean' = clean
  BY DEF vars
<1>2. \A p \in Procs : OnePerAgent(ps[p])'
  BY <1>1 DEF CurInv, OnePerAgent
<1>3. \A a, k : Tally(a, k)' = Tally(a, k)
  BY <1>1 DEF Tally
<1>4. \A a : LinesOf(a)' = LinesOf(a)
  BY <1>1 DEF LinesOf
<1>5. \A a \in Agents : Current(a)' <=> Current(a)
  BY <1>1, <1>3, <1>4 DEF Current, Profiled, Latest
<1>6. Busy' = Busy
  BY <1>1 DEF Busy
<1>7. CurrentUnlessRaced'
  BY <1>1, <1>5, <1>6 DEF CurInv, CurrentUnlessRaced, Readable
<1>8. ASSUME Readable(incidents), NEW p \in Procs, NEW a \in Touched(ps[p]) \cap clean[p]
      PROVE  FreshFor(ps[p], a)'
  BY <1>1, <1>3, <1>8 DEF CurInv, FreshFor
<1> QED
  BY <1>1, <1>2, <1>7, <1>8 DEF CurInv, Readable

LEMMA CurrencyInitially == Init => CurInv
<1> SUFFICES ASSUME Init PROVE CurInv
  OBVIOUS
<1>1. IInv
  BY Initially
<1>2. \A p \in Procs : ps[p] = Idle /\ Touched(ps[p]) = {}
  BY IdleState, TouchedIs DEF Init, Idle
<1>3. ASSUME NEW a \in Agents, a \notin suspect
      PROVE  Current(a)
  <2>1. a \notin Profiled /\ Len(incidents) = 0
    BY <1>3 DEF Init
  <2>2. ASSUME NEW s \in Severities PROVE Tally(a, 0)[s] = 0
    <3>1. {n \in 1..0 : incidents[n] = [agent |-> a, severity |-> s]} = {}
      OBVIOUS
    <3> QED
      BY <3>1, FS_EmptySet DEF Tally
  <2>3. Total(Tally(a, Len(incidents))) = 0
    BY <2>1, <2>2 DEF Total, Severities
  <2> QED
    BY <2>1, <2>3 DEF Current
<1>4. CurrentUnlessRaced
  BY <1>3 DEF CurrentUnlessRaced
<1> QED
  BY <1>2, <1>4 DEF CurInv, OnePerAgent, Idle

LEMMA CurrencyKept == IInv /\ IInv' /\ CurInv /\ [Next]_vars => CurInv'
<1> SUFFICES ASSUME IInv, IInv', CurInv, [Next]_vars PROVE CurInv'
  OBVIOUS
<1>1. ASSUME NEW p \in Procs, NEW a \in Agents, NEW s \in Severities,
             AppendIncident(p, a, s) \/ CutIncident(p, a, s)
      PROVE  CurInv'
  BY <1>1, AppendIncidentCurrency, CutIncidentCurrency
<1>2. ASSUME NEW p \in Procs, CountIncidents(p) \/ FetchProfile(p) \/ MatchIncidents(p)
      PROVE  CurInv'
  BY <1>2, CountIncidentsCurrency, FetchProfileCurrency, MatchIncidentsCurrency
<1>3. ASSUME NEW p \in Procs, LoadProfiles(p)
      PROVE  CurInv'
  BY <1>3, LoadProfilesCurrency, QuietCurrency DEF LoadProfiles
<1>4. ASSUME NEW p \in Procs, AppendProfile(p) \/ CutProfile(p) \/ Die(p)
      PROVE  CurInv'
  BY <1>4, AppendProfileCurrency, CutProfileCurrency, BreaksOffCurrency DEF Die
<1>5. CASE UNCHANGED vars
  BY <1>5, QuietCurrency
<1> QED
  BY <1>1, <1>2, <1>3, <1>4, <1>5 DEF Next

(* With no command in hand an agent's profile counts all its incidents,    *)
(* unless commands on it overlapped or broke off: a stale profile needs a  *)
(* race or a death, and the next undisturbed command repairs it.           *)
THEOREM CurrentOrRaced == Spec => []CurrentUnlessRaced
<1>1. Spec => []CurInv
  BY Invariance, CurrencyInitially, CurrencyKept, PTL DEF Spec
<1>2. CurInv => CurrentUnlessRaced
  BY DEF CurInv
<1> QED
  BY <1>1, <1>2, PTL


=============================================================================
