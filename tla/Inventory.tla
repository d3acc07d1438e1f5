----------------------------- MODULE Inventory -----------------------------
(***************************************************************************)
(* The two repository scanners at work: scan-repo, and the commands of the *)
(* internal pilot, discover-agents, register-discovered-agents and         *)
(* inventory-internal-agents.  Runs read file after file while people edit *)
(* the files, then export one manifest draft per finding, in the order of  *)
(* the report, which is not the order of the walk.                         *)
(*                                                                         *)
(* The window between the test that no draft exists and the write is left  *)
(* to Registry, which has it for every writer of registry/discovered.      *)
(***************************************************************************)
EXTENDS ScannerRules, DiscoveryRules, Sequences

CONSTANTS Paths,       \* files, as numbers in the order of the reports
          Kind,        \* Kind[q]: what the name of a file says of it
          Walk,        \* Walk[tool]: the files a tool visits, in its order
          Idioms,      \* pieces of text, by the detectors they set off
          FirstTexts,  \* FirstTexts[q]: contents the file may begin with
          Unnameable,  \* files whose slug, cut at 56 characters, ends in "-"
          MaxFiles,    \* MAX_FILES of scan-repo
          MaxEdits,    \* bound of the edits
          Procs,       \* processes
          Unreadable, NoFinding, NoDraft, Reviewed, NoReport, Idle

Tools == {"scanner", "discovery"}

Kinds ==
  {"workflow", "beside_workflow", "dockerfile", "compose", "dependencies", "yaml", "plain"}

Texts == SUBSET Idioms

ASSUME PathsAreOrdered == Paths \subseteq Nat /\ Kind \in [Paths -> Kinds]
ASSUME FirstTextsAreTexts == \A q \in Paths : FirstTexts[q] \subseteq {Unreadable} \cup Texts
ASSUME WalksAreWalks == \A tool \in Tools : Walk[tool] \in Seq(Paths)
ASSUME BoundsAreNat == MaxFiles \in Nat /\ MaxEdits \in Nat
ASSUME IdiomsAreMatches ==
  Idioms \subseteq [content : SUBSET ContentNames, labels : SUBSET Labels,
                    discovery : SUBSET DiscoveryNames]
ASSUME IdiomsAreFinite ==
  /\ IsFiniteSet(UNION {i.content : i \in Idioms})
  /\ IsFiniteSet(UNION {i.labels : i \in Idioms})
  /\ IsFiniteSet(UNION {i.discovery : i \in Idioms})

VARIABLES files,    \* what each file holds
          report,   \* evidence/discovered_agents.json
          drafts,   \* per tool: recklock_manifest_exports or registry/discovered
          ps,       \* the processes
          edits     \* number of edits

iVars == <<files, report, drafts, ps, edits>>

Signals(tool, q, text) ==
  IF tool = "scanner"
  THEN ScannerSignals(Kind[q], UNION {i.content : i \in text}, UNION {i.labels : i \in text})
  ELSE DiscoverySignals(Kind[q], UNION {i.discovery : i \in text})

Assess(tool, q, text) ==
  IF tool = "scanner" THEN ClassifyFinding(Signals(tool, q, text), Kind[q])
  ELSE ClassifyCandidate(Signals(tool, q, text), Kind[q])

Findings == {Assess(tool, q, text) : tool \in Tools, q \in Paths, text \in Texts}

Found == [Paths -> Findings \cup {NoFinding}]

OpenSource == {"scan-repo", "scan-repo --export-manifests"}
Scanning == OpenSource \cup {"discover-agents", "inventory-internal-agents"}
Exporting ==
  {"scan-repo --export-manifests", "inventory-internal-agents", "register-discovered-agents"}
Commands == Scanning \cup Exporting

(* left: findings still to be exported.  Ghosts: the files that were       *)
(* edited, and the drafts that were removed, since the run began.          *)
Runs ==
  [cmd : Commands, pc : {"walk", "export", "failed"}, at : Nat, least : Levels,
   existing : {"keep", "overwrite"}, found : Found, left : SUBSET Paths,
   edited : SUBSET Paths, removed : SUBSET Paths]

ASSUME AbsentAreNone ==
  /\ (\A text \in Texts : text # Unreadable) /\ NoFinding \notin Findings /\ Idle \notin Runs /\ NoReport \notin Found
  /\ NoDraft \notin Findings /\ Reviewed \notin Findings /\ NoDraft # Reviewed

InventoryTypeOK ==
  /\ files \in [Paths -> {Unreadable} \cup Texts]
  /\ report \in {NoReport} \cup Found
  /\ drafts \in [Tools -> [Paths -> Findings \cup {NoDraft, Reviewed}]]
  /\ ps \in [Procs -> {Idle} \cup Runs]
  /\ edits \in 0 .. MaxEdits

-----------------------------------------------------------------------------

ToolOf(cmd) == IF cmd \in OpenSource THEN "scanner" ELSE "discovery"

(* What one file adds to the report: nothing if it cannot be read, shows   *)
(* no signal, or is less certain than --min-confidence asks.               *)
Looked(tool, q, held, least) ==
  IF held = Unreadable \/ Signals(tool, q, held) = {} THEN NoFinding
  ELSE IF Assess(tool, q, held).confidence < least THEN NoFinding
  ELSE Assess(tool, q, held)

(* Mutant of MayRead: a file is counted after it was read.                 *)
MayRead_CountsLate(tool, at) == tool = "scanner" => at <= MaxFiles

(* files_scanned is counted up before it is compared.                      *)
MayRead(tool, at) == tool = "scanner" => at < MaxFiles

ToExport(found) == {q \in Paths : found[q] # NoFinding /\ found[q].action \in Exportable}

Run(cmd, pc, least, existing, found, left) ==
  [cmd |-> cmd, pc |-> pc, at |-> 0, least |-> least, existing |-> existing, found |-> found,
   left |-> left, edited |-> {}, removed |-> {}]

InventoryInit ==
  /\ files \in [Paths -> UNION {FirstTexts[q] : q \in Paths}]
  /\ \A q \in Paths : files[q] \in FirstTexts[q]
  /\ report = NoReport
  /\ drafts = [tool \in Tools |-> [q \in Paths |-> NoDraft]]
  /\ ps = [x \in Procs |-> Idle]
  /\ edits = 0

-----------------------------------------------------------------------------
(* The tools. *)

BeginScan(x, cmd, least, existing) ==
  /\ ps[x] = Idle
  /\ cmd \notin OpenSource => least = Low
  /\ cmd # "inventory-internal-agents" => existing = "keep"
  /\ ps' = [ps EXCEPT ![x] = Run(cmd, "walk", least, existing, [q \in Paths |-> NoFinding], {})]
  /\ UNCHANGED <<files, report, drafts, edits>>

ReadFile(x) ==
  LET t == ps[x]
      tool == ToolOf(t.cmd)
      q == Walk[tool][t.at + 1]
  IN  /\ t # Idle /\ t.pc = "walk"
      /\ t.at < Len(Walk[tool]) /\ MayRead(tool, t.at)
      /\ ps' = [ps EXCEPT ![x] = [t EXCEPT !.at = @ + 1,
                                           !.found[q] = Looked(tool, q, files[q], t.least)]]
      /\ UNCHANGED <<files, report, drafts, edits>>

(* The walk is over, or one file too many came up.  The pilot's commands   *)
(* write the report; then the findings are exported, or the run is over.   *)
EndWalk(x) ==
  LET t == ps[x]
      tool == ToolOf(t.cmd)
  IN  /\ t # Idle /\ t.pc = "walk"
      /\ t.at = Len(Walk[tool]) \/ ~MayRead(tool, t.at)
      /\ report' = IF tool = "discovery" THEN t.found ELSE report
      /\ ps' = [ps EXCEPT ![x] = [t EXCEPT !.pc = "export",
                                           !.at = IF @ < Len(Walk[tool]) THEN @ + 1 ELSE @,
                                           !.left = IF t.cmd \in Exporting THEN ToExport(t.found) ELSE {}]]
      /\ UNCHANGED <<files, drafts, edits>>

BeginRegister(x, existing) ==
  /\ ps[x] = Idle /\ report # NoReport
  /\ ps' = [ps EXCEPT ![x] = Run("register-discovered-agents", "export", Low, existing, report,
                                 ToExport(report))]
  /\ UNCHANGED <<files, report, drafts, edits>>

(* An existing draft is kept, unless it may be overwritten.  A file whose  *)
(* agent id the manifest model refuses raises, which ends the command.     *)
Export(x, q) ==
  LET t == ps[x]
      tool == ToolOf(t.cmd)
      kept == drafts[tool][q] # NoDraft /\ t.existing = "keep"
  IN  /\ t # Idle /\ t.pc = "export"
      /\ q \in t.left /\ \A r \in t.left : q <= r
      /\ \/ /\ kept
            /\ ps' = [ps EXCEPT ![x].left = @ \ {q}]
            /\ UNCHANGED drafts
         \/ /\ ~kept /\ q \in Unnameable
            /\ ps' = [ps EXCEPT ![x].pc = "failed"]
            /\ UNCHANGED drafts
         \/ /\ ~kept /\ q \notin Unnameable
            /\ ps' = [ps EXCEPT ![x].left = @ \ {q}]
            /\ drafts' = [drafts EXCEPT ![tool][q] = t.found[q]]
      /\ UNCHANGED <<files, report, edits>>

(* The command ends, or its process is killed. *)
Stop(x) ==
  /\ ps[x] # Idle
  /\ ps' = [ps EXCEPT ![x] = Idle]
  /\ UNCHANGED <<files, report, drafts, edits>>

-----------------------------------------------------------------------------
(* People. *)

EditFile(q, held) ==
  /\ edits < MaxEdits /\ held # files[q]
  /\ edits' = edits + 1
  /\ files' = [files EXCEPT ![q] = held]
  /\ ps' = [x \in Procs |-> IF ps[x] = Idle THEN Idle ELSE [ps[x] EXCEPT !.edited = @ \cup {q}]]
  /\ UNCHANGED <<report, drafts>>

(* A reviewer adjusts a draft or removes it. *)
Review(tool, q, outcome) ==
  /\ edits < MaxEdits /\ drafts[tool][q] # NoDraft
  /\ edits' = edits + 1
  /\ drafts' = [drafts EXCEPT ![tool][q] = outcome]
  /\ ps' = [x \in Procs |-> IF ps[x] = Idle \/ outcome # NoDraft THEN ps[x]
                            ELSE IF ToolOf(ps[x].cmd) # tool THEN ps[x]
                            ELSE [ps[x] EXCEPT !.removed = @ \cup {q}]]
  /\ UNCHANGED <<files, report>>

InventoryNext ==
  \/ \E x \in Procs :
       \/ \E cmd \in Scanning, least \in {Low, Medium, High}, existing \in {"keep", "overwrite"} :
            BeginScan(x, cmd, least, existing)
       \/ \E existing \in {"keep", "overwrite"} : BeginRegister(x, existing)
       \/ \E q \in Paths : Export(x, q)
       \/ ReadFile(x) \/ EndWalk(x) \/ Stop(x)
  \/ \E q \in Paths, i \in Idioms :
       \/ files[q] # Unreadable /\ (EditFile(q, files[q] \cup {i}) \/ EditFile(q, files[q] \ {i}))
       \/ EditFile(q, Unreadable)
  \/ \E tool \in Tools, q \in Paths, outcome \in {NoDraft, Reviewed} : Review(tool, q, outcome)

InventorySpec == InventoryInit /\ [][InventoryNext]_iVars

-----------------------------------------------------------------------------

(* What a run has found of a file nobody has edited since the run began is *)
(* what the file holds, if the walk has come to it, and nothing before; a  *)
(* run that reports no more than MAX_FILES files has read them all.        *)
ScansMissNothing ==
  \A x \in Procs : ps[x] # Idle /\ ps[x].cmd \in Scanning =>
    LET t == ps[x]
        tool == ToolOf(t.cmd)
        Read == {i \in 1 .. t.at : tool = "scanner" => i <= MaxFiles}
    IN  /\ \A i \in Read : Walk[tool][i] \notin t.edited =>
             t.found[Walk[tool][i]] = Looked(tool, Walk[tool][i], files[Walk[tool][i]], t.least)
        /\ \A q \in Paths : (\A i \in Read : Walk[tool][i] # q) => t.found[q] = NoFinding
        /\ t.pc # "walk" /\ (tool = "scanner" => t.at <= MaxFiles) => Read = 1 .. Len(Walk[tool])

(* Once an export has come past a finding that asks for attention, the     *)
(* finding has a draft, whoever wrote it, unless a reviewer has removed    *)
(* it; and an export fails only at the first finding left, for its name.   *)
ExportsCoverFindings ==
  \A x \in Procs : ps[x] # Idle /\ ps[x].cmd \in Exporting /\ ps[x].pc # "walk" =>
    LET t == ps[x]
        Urgent == {q \in Paths : t.found[q] # NoFinding /\ t.found[q].action # "monitor"}
    IN  /\ \A q \in Urgent \ (t.left \cup t.removed) : drafts[ToolOf(t.cmd)][q] # NoDraft
        /\ t.pc = "failed" => \E q \in t.left \cap Unnameable : \A r \in t.left : q <= r

Urgency(action) ==
  IF action = "govern" THEN 2 ELSE IF action = "monitor" THEN 0 ELSE 1

(* Scopes that another one takes the place of when a file shows more.      *)
Replaced ==
  {"browser.control", "database.read", "scheduler.trigger", "workspace.execute", "workspace.observe"}

(* g says at least as much of a file as f does.                            *)
AtLeast(g, f) ==
  /\ g.risk >= f.risk /\ g.confidence >= f.confidence
  /\ Urgency(g.action) >= Urgency(f.action)
  /\ f.scopes \ Replaced \subseteq g.scopes

(* A file that comes to show one more sign is never rated calmer, by       *)
(* either scanner: no risk, confidence, urgency or lasting scope is lost   *)
(* to the rules that name what a file is.                                  *)
GrowthNeverCalms ==
  [][\A q \in Paths, tool \in Tools :
       LET old == files[q]
           new == files'[q]
       IN  (old # Unreadable /\ new # Unreadable /\ old \subseteq new /\ old # new)
           => AtLeast(Assess(tool, q, new), Assess(tool, q, old))]_iVars

(* The evidence report never rates an act within the declared scopes and   *)
(* capabilities above the risk that the same tool declared: not at all for *)
(* the pilot's drafts; by one level at most for scan-repo's, and only for  *)
(* deployments and payments, which it takes for critical less readily.     *)
Covered(tool, f) ==
  \A s \in f.scopes, c \in f.capabilities :
    EventRisk(s, c) > f.risk =>
      tool = "scanner" /\ f.risk = High /\ {"production.deploy", "payments.initiate"} \cap f.scopes # {}

RatedScopesCovered ==
  \A tool \in Tools, q \in Paths :
    drafts[tool][q] \notin {NoDraft, Reviewed} => Covered(tool, drafts[tool][q])

=============================================================================
