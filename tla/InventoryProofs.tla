--------------------------- MODULE InventoryProofs ---------------------------
(***************************************************************************)
(* Theorems about Inventory, for all files, all texts over the detectors,  *)
(* all walks, any number of processes and every bound.                     *)
(***************************************************************************)
EXTENDS Inventory, FiniteSetTheorems, TLAPS

-----------------------------------------------------------------------------
(* Ratings and what the pilot declares. *)

(* A level that reaches the class of a name covers its rating.             *)
LEMMA RatingReached ==
  ASSUME NEW name, NEW rated, NEW level \in Levels,
         name \in rated.critical => level = Critical,
         name \in rated.high => level >= High,
         name \in rated.medium => level >= Medium
  PROVE  RatingOf(name, rated) <= level
  BY DEF RatingOf, Bumped, Levels, Low, Medium, High, Critical

(* What the rules of the pilot need to see for the names that are rated. *)
LEMMA DiscoveryScopesShow ==
  ASSUME NEW S, NEW kind
  PROVE  /\ "production.deploy" \in DiscoveryScopes(S, kind) => Shows(S, DeploySignals)
         /\ "payments.initiate" \in DiscoveryScopes(S, kind) => Shows(S, PaymentSignals)
         /\ "finance.read" \in DiscoveryScopes(S, kind) => Shows(S, PaymentSignals)
         /\ "cloud.write" \in DiscoveryScopes(S, kind) => Shows(S, CloudSignals)
         /\ "email.send" \in DiscoveryScopes(S, kind) => Shows(S, OutboundSignals)
         /\ "database.write" \in DiscoveryScopes(S, kind) => Shows(S, WriteSignals)
         /\ "process.exec" \in DiscoveryScopes(S, kind) => Shows(S, ShellSignals)
         /\ "ci.execute" \in DiscoveryScopes(S, kind) => Shows(S, CiSignals)
         /\ "repository.write" \in DiscoveryScopes(S, kind) => Shows(S, CiSignals)
  BY SMTT(60) DEF DiscoveryScopes, If, Shows

LEMMA DiscoveryCapabilitiesShow ==
  ASSUME NEW S, NEW kind
  PROVE  /\ "deploy_code" \in DiscoveryCapabilities(S, kind) => Shows(S, DeploySignals)
         /\ "initiate_payment" \in DiscoveryCapabilities(S, kind) => Shows(S, PaymentSignals)
         /\ "financial_data_access" \in DiscoveryCapabilities(S, kind) => Shows(S, PaymentSignals)
         /\ "external_communication" \in DiscoveryCapabilities(S, kind) => Shows(S, OutboundSignals)
         /\ "write_database" \in DiscoveryCapabilities(S, kind) => Shows(S, WriteSignals)
         /\ "execute_shell" \in DiscoveryCapabilities(S, kind) => Shows(S, ShellSignals)
         /\ "llm_inference" \in DiscoveryCapabilities(S, kind) => Shows(S, AiSignals)
  BY SMTT(60) DEF DiscoveryCapabilities, If, Shows

(* What the pilot's risk is at least, by what a file shows.               *)
LEMMA DiscoveryRiskReaches ==
  ASSUME NEW S, NEW kind
  PROVE  LET risk == DiscoveryRisk(S, kind) IN
         /\ risk \in Levels
         /\ Shows(S, DeploySignals) \/ Shows(S, PaymentSignals) => risk = Critical
         /\ (Shows(S, OutboundSignals) \/ Shows(S, CloudSignals) \/ Shows(S, WriteSignals)
             \/ Shows(S, ShellSignals)) => risk >= High
         /\ Shows(S, CiSignals) \/ Shows(S, AiSignals) => risk >= Medium
  BY SMTT(30) DEF DiscoveryRisk, Bumped, Shows, Scheduled, InWorkflow, Levels, Low, Medium, High, Critical

(* No name the pilot declares is rated above the risk it declares.         *)
LEMMA DiscoveryCovers ==
  ASSUME NEW S, NEW kind,
         NEW s \in DiscoveryScopes(S, kind), NEW c \in DiscoveryCapabilities(S, kind)
  PROVE  EventRisk(s, c) <= DiscoveryRisk(S, kind)
<1> DEFINE risk == DiscoveryRisk(S, kind)
<1>1. risk \in Levels
  BY DiscoveryRiskReaches
<1>2. RatingOf(s, ScopesRated) <= risk
  <2>1. s \in ScopesRated.critical => risk = Critical
    BY DiscoveryScopesShow, DiscoveryRiskReaches DEF ScopesRated
  <2>2. s \in ScopesRated.high => risk >= High
    <3>1. s \in ScopesRated.high => Shows(S, WriteSignals) \/ Shows(S, CloudSignals) \/ Shows(S, ShellSignals) \/ Shows(S, OutboundSignals)
      BY DiscoveryScopesShow DEF ScopesRated
    <3> QED BY <3>1, DiscoveryRiskReaches
  <2>3. s \in ScopesRated.medium => risk >= Medium
    BY DiscoveryScopesShow, DiscoveryRiskReaches DEF ScopesRated
  <2> QED BY <1>1, <2>1, <2>2, <2>3, RatingReached
<1>3. RatingOf(c, CapabilitiesRated) <= risk
  <2>1. c \in CapabilitiesRated.critical => risk = Critical
    BY DiscoveryCapabilitiesShow, DiscoveryRiskReaches DEF CapabilitiesRated
  <2>2. c \in CapabilitiesRated.high => risk >= High
    <3>1. c \in CapabilitiesRated.high => Shows(S, WriteSignals) \/ Shows(S, ShellSignals) \/ Shows(S, OutboundSignals)
      BY DiscoveryCapabilitiesShow DEF CapabilitiesRated
    <3> QED BY <3>1, DiscoveryRiskReaches
  <2>3. c \in CapabilitiesRated.medium => risk >= Medium
    BY DiscoveryCapabilitiesShow, DiscoveryRiskReaches DEF CapabilitiesRated
  <2> QED BY <1>1, <2>1, <2>2, <2>3, RatingReached
<1> QED BY <1>2, <1>3 DEF EventRisk

-----------------------------------------------------------------------------
(* What the rules of scan-repo ask for. *)

LEMMA ScannerScopesShow ==
  ASSUME NEW S, NEW kind
  PROVE  /\ "production.deploy" \in ScannerScopes(S, kind) <=> Has(S, Deploy)
         /\ "payments.initiate" \in ScannerScopes(S, kind) <=> Has(S, Payments)
         /\ "finance.read" \in ScannerScopes(S, kind) => Has(S, Payments)
         /\ "cloud.write" \notin ScannerScopes(S, kind)
         /\ "email.send" \in ScannerScopes(S, kind) => Has(S, Outbound)
         /\ "database.write" \in ScannerScopes(S, kind) => Has(S, Writing)
         /\ "process.exec" \in ScannerScopes(S, kind) => Has(S, Shell)
         /\ "ci.execute" \in ScannerScopes(S, kind) => Has(S, CiCd)
         /\ "repository.write" \in ScannerScopes(S, kind) => Has(S, CiCd)
  BY SMTT(60) DEF ScannerScopes, If, Has

LEMMA ScannerCapabilitiesShow ==
  ASSUME NEW S, NEW kind
  PROVE  /\ "deploy_code" \in ScannerCapabilities(S, kind) => Has(S, Deploy)
         /\ "initiate_payment" \in ScannerCapabilities(S, kind) => Has(S, Payments)
         /\ "financial_data_access" \in ScannerCapabilities(S, kind) => Has(S, Payments)
         /\ "external_communication" \in ScannerCapabilities(S, kind) => Has(S, Outbound)
         /\ "write_database" \in ScannerCapabilities(S, kind) => Has(S, Writing)
         /\ "execute_shell" \in ScannerCapabilities(S, kind) => Has(S, Shell)
         /\ "llm_inference" \in ScannerCapabilities(S, kind) => Has(S, Llm)
  BY SMTT(60) DEF ScannerCapabilities, If, Has

LEMMA ScannerRiskReaches ==
  ASSUME NEW S
  PROVE  LET risk == ScannerRisk(S) IN
         /\ risk \in Levels
         /\ (Has(S, Outbound) \/ Has(S, Shell) \/ Has(S, Deploy) \/ Has(S, Payments)
             \/ Has(S, Writing)) => risk >= High
         /\ (Has(S, Llm) \/ Has(S, CiCd)) => risk >= Medium
  BY SMTT(30) DEF ScannerRisk, Bumped, Has, Levels, Low, Medium, High, Critical

(* The same for scan-repo, as far as it goes: a file that neither deploys  *)
(* nor pays is covered, and one that does is rated high at least.          *)
LEMMA ScannerCovers ==
  ASSUME NEW S, NEW kind,
         NEW s \in ScannerScopes(S, kind), NEW c \in ScannerCapabilities(S, kind),
         EventRisk(s, c) > ScannerRisk(S)
  PROVE  ScannerRisk(S) = High /\ {"production.deploy", "payments.initiate"} \cap ScannerScopes(S, kind) # {}
<1> DEFINE risk == ScannerRisk(S)
<1> HIDE DEF risk
<1>1. risk \in Levels
  BY ScannerRiskReaches DEF risk
<1>2. CASE Has(S, Deploy) \/ Has(S, Payments)
  <2>1. risk >= High
    BY <1>2, ScannerRiskReaches DEF risk
  <2>2. EventRisk(s, c) \in Levels
    BY DEF EventRisk, RatingOf, Bumped, Levels, Low, Medium, High, Critical
  <2>3. {"production.deploy", "payments.initiate"} \cap ScannerScopes(S, kind) # {}
    BY <1>2, ScannerScopesShow
  <2>4. EventRisk(s, c) > risk
    BY DEF risk
  <2>5. risk = High
    BY <1>1, <2>1, <2>2, <2>4 DEF Levels, Low, High, Critical
  <2> QED BY <2>3, <2>5 DEF risk
<1>3. CASE ~(Has(S, Deploy) \/ Has(S, Payments))
  <2>1. RatingOf(s, ScopesRated) <= risk
    <3>1. s \notin ScopesRated.critical
      BY <1>3, ScannerScopesShow DEF ScopesRated
    <3>2. s \in ScopesRated.high => risk >= High
      BY ScannerScopesShow, ScannerRiskReaches DEF ScopesRated, risk
    <3>3. s \in ScopesRated.medium => risk >= Medium
      BY ScannerScopesShow, ScannerRiskReaches DEF ScopesRated, risk
    <3> QED BY <1>1, <3>1, <3>2, <3>3, RatingReached
  <2>2. RatingOf(c, CapabilitiesRated) <= risk
    <3>1. c \notin CapabilitiesRated.critical
      BY <1>3, ScannerCapabilitiesShow DEF CapabilitiesRated
    <3>2. c \in CapabilitiesRated.high => risk >= High
      BY ScannerCapabilitiesShow, ScannerRiskReaches DEF CapabilitiesRated, risk
    <3>3. c \in CapabilitiesRated.medium => risk >= Medium
      BY ScannerCapabilitiesShow, ScannerRiskReaches DEF CapabilitiesRated, risk
    <3> QED BY <1>1, <3>1, <3>2, <3>3, RatingReached
  <2>3. EventRisk(s, c) <= risk
    BY <2>1, <2>2 DEF EventRisk
  <2>4. EventRisk(s, c) \in Int
    BY DEF EventRisk, RatingOf, Bumped, Low, Medium, High, Critical
  <2>5. ~(EventRisk(s, c) > risk)
    BY <1>1, <2>3, <2>4 DEF Levels, Low, Critical
  <2> QED BY <2>5 DEF risk
<1> QED BY <1>2, <1>3

-----------------------------------------------------------------------------
(* More signs, never less. *)

LEMMA HasGrows ==
  ASSUME NEW S, NEW T, S \subseteq T
  PROVE  \A C : Has(S, C) => Has(T, C)
  BY DEF Has

LEMMA ScannerRiskGrows ==
  ASSUME NEW S, NEW T, S \subseteq T
  PROVE  ScannerRisk(S) <= ScannerRisk(T)
  BY HasGrows, SMTT(60) DEF ScannerRisk, Bumped, Low, Medium, High, Critical

LEMMA RecognisedGrows ==
  ASSUME NEW S, NEW T, S \subseteq T, NEW kind, Recognised(S, kind)
  PROVE  Recognised(T, kind)
  BY HasGrows DEF Recognised

LEMMA DiscoveryRiskGrows ==
  ASSUME NEW S, NEW T, S \subseteq T, NEW kind
  PROVE  DiscoveryRisk(S, kind) <= DiscoveryRisk(T, kind)
  BY SMTT(60) DEF DiscoveryRisk, Shows, Bumped, Low, Medium, High, Critical, Scheduled, InWorkflow

LEMMA DiscoveryScopesGrow ==
  ASSUME NEW S, NEW T, S \subseteq T, NEW kind
  PROVE  DiscoveryScopes(S, kind) \ Replaced \subseteq DiscoveryScopes(T, kind)
  BY SMTT(60) DEF DiscoveryScopes, If, Shows, Scheduled, InWorkflow, Replaced

LEMMA ScannerScopesGrow ==
  ASSUME NEW S, NEW T, S \subseteq T, NEW kind
  PROVE  ScannerScopes(S, kind) \ Replaced \subseteq ScannerScopes(T, kind)
  BY SMTT(60) DEF ScannerScopes, If, Has, Replaced

LEMMA CategoriesAreFew == IsFiniteSet(Categories)
<1>1. ASSUME NEW A, NEW B, NEW C, NEW D, IsFiniteSet(A) PROVE IsFiniteSet(A \cup {B, C, D})
  <2>1. IsFiniteSet(((A \cup {B}) \cup {C}) \cup {D})
    BY <1>1, FS_AddElement
  <2>2. A \cup {B, C, D} = ((A \cup {B}) \cup {C}) \cup {D}
    OBVIOUS
  <2> QED BY <2>1, <2>2
<1>2. IsFiniteSet({} \cup {Llm, Outbound, Browser})
  BY <1>1, FS_EmptySet
<1>3. IsFiniteSet(({} \cup {Llm, Outbound, Browser}) \cup {Deploy, Database, Payments})
  BY <1>1, <1>2
<1>4. IsFiniteSet((({} \cup {Llm, Outbound, Browser}) \cup {Deploy, Database, Payments})
                  \cup {Secrets, Schedule, Shell})
  BY <1>1, <1>3
<1>5. IsFiniteSet(((({} \cup {Llm, Outbound, Browser}) \cup {Deploy, Database, Payments})
                   \cup {Secrets, Schedule, Shell}) \cup {CiCd, FileMarks, FileMarks})
  BY <1>1, <1>4
<1>6. Categories = ((({} \cup {Llm, Outbound, Browser}) \cup {Deploy, Database, Payments})
                    \cup {Secrets, Schedule, Shell}) \cup {CiCd, FileMarks, FileMarks}
  BY DEF Categories
<1> QED BY <1>5, <1>6

LEMMA ScannerConfidenceGrows ==
  ASSUME NEW S, NEW T, S \subseteq T, IsFiniteSet(T), NEW kind
  PROVE  /\ ScannerConfidence(S, kind) \in Low .. High
         /\ ScannerConfidence(T, kind) \in Low .. High
         /\ ScannerConfidence(S, kind) <= ScannerConfidence(T, kind)
<1> DEFINE distinct(U) == {C \in Categories : Has(U, C)}
<1>1. distinct(S) \subseteq distinct(T) /\ distinct(T) \subseteq Categories
  BY HasGrows
<1>2. Cardinality(distinct(S)) <= Cardinality(distinct(T))
      /\ Cardinality(distinct(S)) \in Nat /\ Cardinality(distinct(T)) \in Nat
  BY <1>1, CategoriesAreFew, FS_Subset, FS_CardinalityType
<1>3. Cardinality(S) <= Cardinality(T) /\ Cardinality(S) \in Nat /\ Cardinality(T) \in Nat
  BY FS_Subset, FS_CardinalityType
<1>4. Recognised(S, kind) => Recognised(T, kind)
  BY RecognisedGrows
<1> DEFINE many(U) == Cardinality(U) >= 4 \/ Cardinality(distinct(U)) >= 3
           some(U) == Cardinality(U) >= 2 \/ Cardinality(distinct(U)) >= 2
<1>5. (many(S) => many(T)) /\ (some(S) => some(T)) /\ (many(S) => some(S)) /\ (many(T) => some(T))
  BY <1>2, <1>3
<1>6. \A U : ScannerConfidence(U, kind) =
              IF ~Recognised(U, kind) THEN Low ELSE Bumped(FALSE, many(U), some(U))
  BY DEF ScannerConfidence
<1> HIDE DEF many, some
<1> QED BY <1>4, <1>5, <1>6 DEF Bumped, Low, Medium, High, Critical

LEMMA DiscoveryConfidenceGrows ==
  ASSUME NEW S, NEW T, S \subseteq T, IsFiniteSet(T)
  PROVE  DiscoveryConfidence(S) <= DiscoveryConfidence(T)
<1>1. Cardinality(S) <= Cardinality(T) /\ Cardinality(S) \in Nat /\ Cardinality(T) \in Nat
  BY FS_Subset, FS_CardinalityType
<1> QED BY <1>1 DEF DiscoveryConfidence, Bumped, Low, Medium, High, Critical

LEMMA ActionGrows ==
  ASSUME NEW r \in Levels, NEW r2 \in Levels, NEW c \in Low .. High, NEW c2 \in Low .. High,
         r <= r2, c <= c2
  PROVE  Urgency(RecommendedAction(r2, c2)) >= Urgency(RecommendedAction(r, c))
  BY SMTT(30) DEF Urgency, RecommendedAction, Levels, Low, Medium, High, Critical

LEMMA SignalsGrow ==
  ASSUME NEW tool \in Tools, NEW q \in Paths, NEW old \in Texts, NEW new \in Texts, old \subseteq new
  PROVE  Signals(tool, q, old) \subseteq Signals(tool, q, new)
  BY DEF Signals, ScannerSignals, DiscoverySignals, If

LEMMA SignalsAreFinite ==
  ASSUME NEW tool \in Tools, NEW q \in Paths, NEW text \in Texts
  PROVE  IsFiniteSet(Signals(tool, q, text))

<1>1. /\ UNION {i.content : i \in text} \subseteq UNION {i.content : i \in Idioms}
      /\ UNION {i.labels : i \in text} \subseteq UNION {i.labels : i \in Idioms}
      /\ UNION {i.discovery : i \in text} \subseteq UNION {i.discovery : i \in Idioms}
  BY DEF Texts
<1>2. /\ IsFiniteSet(UNION {i.content : i \in text})
      /\ IsFiniteSet(UNION {i.labels : i \in text})
      /\ IsFiniteSet(UNION {i.discovery : i \in text})
  BY <1>1, FS_Subset, IdiomsAreFinite
<1>3. ASSUME NEW test, NEW names, IsFiniteSet(names) PROVE IsFiniteSet(If(test, names))
  BY <1>3, FS_EmptySet DEF If
<1>4. IsFiniteSet(FilenameSignals(Kind[q]))
  BY FS_EmptySet, FS_Singleton, Zenon DEF FilenameSignals
<1>5. ASSUME NEW content, NEW labels, IsFiniteSet(content), IsFiniteSet(labels)
      PROVE  IsFiniteSet(ScannerSignals(Kind[q], content, labels))
  BY <1>3, <1>4, <1>5, FS_Union DEF ScannerSignals
<1>6. ASSUME NEW matches, IsFiniteSet(matches)
      PROVE  IsFiniteSet(DiscoverySignals(Kind[q], matches))
  <2>1. IsFiniteSet({"GitHub Actions workflow"}) /\ IsFiniteSet({"Docker deployment artifact"})
    BY FS_Singleton
  <2>2. IsFiniteSet((matches \cup {"GitHub Actions workflow"}) \cup {"Docker deployment artifact"})
    BY <1>6, <2>1, FS_Union
  <2>3. DiscoverySignals(Kind[q], matches)
           \subseteq (matches \cup {"GitHub Actions workflow"}) \cup {"Docker deployment artifact"}
    BY DEF DiscoverySignals, If
  <2> QED BY <2>2, <2>3, FS_Subset
<1> QED BY <1>2, <1>5, <1>6 DEF Signals, Tools

-----------------------------------------------------------------------------

(* Either scanner says at least as much of a text as of a part of it.      *)
LEMMA AssessmentGrows ==
  ASSUME NEW tool \in Tools, NEW q \in Paths, NEW old \in Texts, NEW new \in Texts, old \subseteq new
  PROVE  AtLeast(Assess(tool, q, new), Assess(tool, q, old))
<1> DEFINE S == Signals(tool, q, old)
           T == Signals(tool, q, new)
<1>1. S \subseteq T /\ IsFiniteSet(T)
  BY SignalsGrow, SignalsAreFinite
<1> HIDE DEF S, T
<1>2. CASE tool = "scanner"
  <2> DEFINE f == ClassifyFinding(S, Kind[q])
             g == ClassifyFinding(T, Kind[q])
  <2>1. /\ g.risk >= f.risk /\ f.risk \in Levels /\ g.risk \in Levels
        /\ g.confidence >= f.confidence /\ f.confidence \in Low .. High /\ g.confidence \in Low .. High
    BY <1>1, ScannerRiskGrows, ScannerRiskReaches, ScannerConfidenceGrows DEF ClassifyFinding, Levels, Low, High, Critical
  <2>2. /\ f.action = RecommendedAction(f.risk, f.confidence)
        /\ g.action = RecommendedAction(g.risk, g.confidence)
    BY DEF ClassifyFinding
  <2>3. f.scopes \ Replaced \subseteq g.scopes
    BY <1>1, ScannerScopesGrow DEF ClassifyFinding
  <2>4. Assess(tool, q, old) = f /\ Assess(tool, q, new) = g
    BY <1>2 DEF Assess, S, T
  <2> HIDE DEF f, g
  <2>5. f.risk <= g.risk /\ f.confidence <= g.confidence
    BY <2>1 DEF Levels, Low, High, Critical
  <2>6. Urgency(g.action) >= Urgency(f.action)
    BY <2>1, <2>2, <2>5, ActionGrows
  <2> QED BY <2>1, <2>3, <2>4, <2>6 DEF AtLeast
<1>3. CASE tool = "discovery"
  <2> DEFINE f == ClassifyCandidate(S, Kind[q])
             g == ClassifyCandidate(T, Kind[q])
  <2>1. g.risk >= f.risk /\ g.confidence >= f.confidence
    BY <1>1, DiscoveryRiskGrows, DiscoveryRiskReaches, DiscoveryConfidenceGrows
    DEF ClassifyCandidate, Levels, DiscoveryConfidence, Bumped, Low, Medium, High, Critical
  <2>2. Urgency(g.action) >= Urgency(f.action)
    BY DEF ClassifyCandidate, Urgency
  <2>3. f.scopes \ Replaced \subseteq g.scopes
    BY <1>1, DiscoveryScopesGrow DEF ClassifyCandidate
  <2>4. Assess(tool, q, old) = f /\ Assess(tool, q, new) = g
    BY <1>3 DEF Assess, S, T
  <2> HIDE DEF f, g
  <2> QED BY <2>1, <2>2, <2>3, <2>4 DEF AtLeast
<1> QED BY <1>2, <1>3 DEF Tools

(* Whatever a file holds, what a tool makes of it is covered.              *)
LEMMA AssessmentCovers ==
  ASSUME NEW tool \in Tools, NEW q \in Paths, NEW text
  PROVE  Covered(tool, Assess(tool, q, text))
<1> DEFINE S == Signals(tool, q, text)
<1> HIDE DEF S
<1>1. CASE tool = "scanner"
  <2>1. Assess(tool, q, text) = ClassifyFinding(S, Kind[q])
    BY <1>1 DEF Assess, S
  <2> QED BY <1>1, <2>1, ScannerCovers DEF Covered, ClassifyFinding
<1>2. CASE tool = "discovery"
  <2>1. Assess(tool, q, text) = ClassifyCandidate(S, Kind[q])
    BY <1>2 DEF Assess, S
  <2>2. ASSUME NEW s \in DiscoveryScopes(S, Kind[q]), NEW c \in DiscoveryCapabilities(S, Kind[q])
        PROVE  ~(EventRisk(s, c) > DiscoveryRisk(S, Kind[q]))
    <3>1. EventRisk(s, c) \in Levels
      BY DEF EventRisk, RatingOf, Bumped, Levels, Low, Medium, High, Critical
    <3> QED BY <3>1, DiscoveryCovers, DiscoveryRiskReaches DEF Levels, Low, Critical
  <2> QED BY <1>2, <2>1, <2>2 DEF Covered, ClassifyCandidate
<1> QED BY <1>1, <1>2 DEF Tools

LEMMA ActionsOfFindings ==
  ASSUME NEW f \in Findings, f.action # "monitor"
  PROVE  f.action \in Exportable
<1>1. \A r, c : RecommendedAction(r, c) \in {"monitor"} \cup Exportable
  BY DEF RecommendedAction, Exportable
<1>2. \A S, kind : ClassifyFinding(S, kind).action \in {"monitor"} \cup Exportable
  BY <1>1 DEF ClassifyFinding
<1>3. \A S, kind : ClassifyCandidate(S, kind).action \in Exportable
  BY DEF ClassifyCandidate, Exportable
<1> QED BY <1>2, <1>3 DEF Findings, Assess

-----------------------------------------------------------------------------
(***************************************************************************)
(* The inductive invariant.  What a run has found is covered, so what it   *)
(* reports and exports is; and ScansMissNothing and ExportsCoverFindings   *)
(* need to know where a walk can be, and that only findings are left to be *)
(* exported.                                                               *)
(***************************************************************************)

Fits(tool, found) == \A q \in Paths : found[q] # NoFinding => Covered(tool, found[q])

(* A run, beside what the files hold: ScansMissNothing, and where it is.   *)
Scanned(t, held) ==
  t.cmd \in Scanning =>
    LET tool == ToolOf(t.cmd)
        Read == {i \in 1 .. t.at : tool = "scanner" => i <= MaxFiles}
    IN  /\ \A i \in Read : Walk[tool][i] \notin t.edited =>
             t.found[Walk[tool][i]] = Looked(tool, Walk[tool][i], held[Walk[tool][i]], t.least)
        /\ \A q \in Paths : (\A i \in Read : Walk[tool][i] # q) => t.found[q] = NoFinding
        /\ t.pc # "walk" /\ (tool = "scanner" => t.at <= MaxFiles) => Read = 1 .. Len(Walk[tool])
        /\ t.at <= Len(Walk[tool])
        /\ t.pc = "walk" /\ tool = "scanner" => t.at <= MaxFiles

(* A run, beside the drafts: ExportsCoverFindings, and what is left.       *)
Exported(t, kept) ==
  t.cmd \in Exporting /\ t.pc # "walk" =>
    LET Urgent == {q \in Paths : t.found[q] # NoFinding /\ t.found[q].action # "monitor"}
    IN  /\ \A q \in Urgent \ (t.left \cup t.removed) : kept[ToolOf(t.cmd)][q] # NoDraft
        /\ t.pc = "failed" => \E q \in t.left \cap Unnameable : \A r \in t.left : q <= r
        /\ t.left \subseteq Urgent

RunOK(t, held, kept) ==
  /\ t.pc = "walk" => t.cmd \in Scanning
  /\ t.cmd \notin Exporting => t.left = {}
  /\ Fits(ToolOf(t.cmd), t.found)
  /\ Scanned(t, held)
  /\ Exported(t, kept)

IInv ==
  /\ InventoryTypeOK
  /\ RatedScopesCovered
  /\ report # NoReport => Fits("discovery", report)
  /\ \A x \in Procs : ps[x] # Idle => RunOK(ps[x], files, drafts)

LEMMA ToolsOfCommands == \A cmd : ToolOf(cmd) \in Tools
  BY DEF ToolOf, Tools

LEMMA LookedIsCovered ==
  ASSUME NEW tool \in Tools, NEW q \in Paths, NEW held \in {Unreadable} \cup Texts, NEW least
  PROVE  /\ Looked(tool, q, held, least) \in Findings \cup {NoFinding}
         /\ Looked(tool, q, held, least) # NoFinding => Covered(tool, Looked(tool, q, held, least))
  BY AssessmentCovers DEF Looked, Findings

LEMMA FirstInventory == InventoryInit => IInv
<1> SUFFICES ASSUME InventoryInit PROVE IInv
  OBVIOUS
<1>1. files \in [Paths -> {Unreadable} \cup Texts]
  BY FirstTextsAreTexts DEF InventoryInit
<1> QED BY <1>1, BoundsAreNat DEF InventoryInit, IInv, InventoryTypeOK, RatedScopesCovered

(* A run is as good after a step of somebody else, if that step edits only *)
(* what it says and removes no draft.                                      *)
LEMMA OthersLeaveItGood ==
  ASSUME NEW t, NEW held, NEW kept, RunOK(t, held, kept), NEW kept2,
         \A tool \in Tools, q \in Paths : kept[tool][q] # NoDraft => kept2[tool][q] # NoDraft
  PROVE  RunOK(t, held, kept2)
<1>1. Exported(t, kept2)
  BY ToolsOfCommands DEF RunOK, Exported
<1> QED BY <1>1 DEF RunOK

(* The other runs are as good after a step of x that keeps the files and   *)
(* removes no draft.                                                       *)
LEMMA StepOfOne ==
  ASSUME IInv, NEW x \in Procs, NEW t \in {Idle} \cup Runs, ps' = [ps EXCEPT ![x] = t],
         UNCHANGED files,
         \A tool \in Tools, q \in Paths : drafts[tool][q] # NoDraft => drafts'[tool][q] # NoDraft,
         t # Idle => RunOK(t, files, drafts')
  PROVE  /\ ps' \in [Procs -> {Idle} \cup Runs]
         /\ \A y \in Procs : ps'[y] # Idle => RunOK(ps'[y], files', drafts')
<1>1. ps \in [Procs -> {Idle} \cup Runs]
  BY DEF IInv, InventoryTypeOK
<1>2. ASSUME NEW y \in Procs, y # x, ps[y] # Idle PROVE RunOK(ps[y], files, drafts')
  BY <1>2, OthersLeaveItGood DEF IInv
<1> QED BY <1>1, <1>2

LEMMA BeginScanStep ==
  ASSUME IInv, NEW x \in Procs, NEW cmd \in Scanning, NEW least \in {Low, Medium, High},
         NEW existing \in {"keep", "overwrite"}, BeginScan(x, cmd, least, existing)
  PROVE  IInv'
<1> DEFINE t == Run(cmd, "walk", least, existing, [q \in Paths |-> NoFinding], {})
<1>1. t \in Runs
  BY DEF Run, Runs, Found, Commands, Levels, Low, Medium, High, Critical
<1>2. Scanned(t, files)
  <2>1. t.at = 0 /\ t.pc = "walk" /\ \A q \in Paths : t.found[q] = NoFinding
    BY DEF Run
  <2>2. Len(Walk[ToolOf(t.cmd)]) \in Nat
    BY WalksAreWalks, ToolsOfCommands
  <2> HIDE DEF t
  <2> QED BY <2>1, <2>2, BoundsAreNat DEF Scanned
<1>3. RunOK(t, files, drafts)
  BY <1>2 DEF Run, RunOK, Fits, Exported
<1> HIDE DEF t
<1>4. ps' = [ps EXCEPT ![x] = t] /\ UNCHANGED <<files, report, drafts, edits>>
  BY DEF BeginScan, t
<1> QED BY <1>1, <1>3, <1>4, StepOfOne DEF IInv, InventoryTypeOK, RatedScopesCovered

LEMMA ReadFileStep ==
  ASSUME IInv, NEW x \in Procs, ReadFile(x)
  PROVE  IInv'
<1> DEFINE t == ps[x]
           tool == ToolOf(t.cmd)
           q == Walk[tool][t.at + 1]
           seen == Looked(tool, q, files[q], t.least)
           u == [t EXCEPT !.at = @ + 1, !.found[q] = seen]
<1>1. /\ t \in Runs /\ RunOK(t, files, drafts) /\ t.pc = "walk"
      /\ t.at < Len(Walk[tool]) /\ MayRead(tool, t.at) /\ tool \in Tools
      /\ ps' = [ps EXCEPT ![x] = u] /\ UNCHANGED <<files, report, drafts, edits>>
  BY ToolsOfCommands DEF ReadFile, IInv, InventoryTypeOK
<1>2. Walk[tool] \in Seq(Paths) /\ Len(Walk[tool]) \in Nat /\ t.at \in Nat /\ q \in Paths
  BY <1>1, WalksAreWalks DEF Runs
<1>3. files[q] \in {Unreadable} \cup Texts
  BY <1>2 DEF IInv, InventoryTypeOK
<1>4. seen \in Findings \cup {NoFinding} /\ (seen # NoFinding => Covered(tool, seen))
  BY <1>1, <1>2, <1>3, LookedIsCovered
<1>5. /\ u \in Runs /\ u.at = t.at + 1 /\ u.cmd = t.cmd /\ u.pc = "walk" /\ u.least = t.least
      /\ u.edited = t.edited /\ u.left = t.left /\ u.found = [t.found EXCEPT ![q] = seen]
  <2>1. t \in Runs /\ t.pc = "walk" /\ t.at \in Nat
    BY <1>1, <1>2
  <2>2. [t.found EXCEPT ![q] = seen] \in Found
    BY <1>1, <1>2, <1>4 DEF Runs, Found
  <2> HIDE DEF t, q, seen
  <2>3. u = [t EXCEPT !.at = t.at + 1, !.found = [t.found EXCEPT ![q] = seen]]
    BY <2>1 DEF Runs
  <2> DEFINE found2 == [t.found EXCEPT ![q] = seen]
  <2> HIDE DEF u, found2
  <2>4. u = [t EXCEPT !.at = t.at + 1, !.found = found2] /\ found2 \in Found /\ t.at + 1 \in Nat
    BY <2>1, <2>2, <2>3 DEF found2
  <2>5. u \in Runs
    BY <2>1, <2>4 DEF Runs
  <2>6. /\ u.at = t.at + 1 /\ u.cmd = t.cmd /\ u.pc = t.pc /\ u.least = t.least
        /\ u.edited = t.edited /\ u.left = t.left /\ u.found = found2
    BY <2>1, <2>4 DEF Runs
  <2> QED BY <2>1, <2>5, <2>6 DEF found2
<1>6. \A r \in Paths : u.found[r] = IF r = q THEN seen ELSE t.found[r]
  BY <1>1, <1>2, <1>5 DEF Runs, Found
<1> HIDE DEF u
<1>7. Scanned(u, files)
  <2> SUFFICES ASSUME t.cmd \in Scanning PROVE Scanned(u, files)
    BY <1>5 DEF Scanned
  <2> DEFINE ReadBy(n) == {i \in 1 .. n : tool = "scanner" => i <= MaxFiles}
  <2>1. ReadBy(t.at + 1) = ReadBy(t.at) \cup {t.at + 1}
    BY <1>1, <1>2, BoundsAreNat DEF MayRead
  <2>2. /\ \A i \in ReadBy(t.at) : Walk[tool][i] \notin t.edited =>
             t.found[Walk[tool][i]] = Looked(tool, Walk[tool][i], files[Walk[tool][i]], t.least)
        /\ \A r \in Paths : (\A i \in ReadBy(t.at) : Walk[tool][i] # r) => t.found[r] = NoFinding
    BY <1>1 DEF RunOK, Scanned
  <2>3. \A i \in ReadBy(t.at) : Walk[tool][i] \in Paths
    BY <1>1, <1>2
  <2> HIDE DEF ReadBy, t, q, tool
  <2>4. /\ \A i \in ReadBy(t.at + 1) : Walk[tool][i] \notin t.edited =>
             u.found[Walk[tool][i]] = Looked(tool, Walk[tool][i], files[Walk[tool][i]], t.least)
        /\ \A r \in Paths : (\A i \in ReadBy(t.at + 1) : Walk[tool][i] # r) => u.found[r] = NoFinding
    BY <1>2, <1>6, <2>1, <2>2, <2>3 DEF q
  <2>5. t.at + 1 <= Len(Walk[tool]) /\ (tool = "scanner" => t.at + 1 <= MaxFiles)
    BY <1>1, <1>2, BoundsAreNat DEF MayRead
  <2> QED BY <1>5, <2>4, <2>5 DEF Scanned, ReadBy, tool
<1>8. Fits(tool, u.found)
  BY <1>1, <1>4, <1>6 DEF RunOK, Fits
<1>9. RunOK(u, files, drafts)
  BY <1>1, <1>5, <1>7, <1>8 DEF RunOK, Exported
<1> QED BY <1>1, <1>5, <1>9, StepOfOne DEF IInv, InventoryTypeOK, RatedScopesCovered

LEMMA EndWalkStep ==
  ASSUME IInv, NEW x \in Procs, EndWalk(x)
  PROVE  IInv'
<1> DEFINE t == ps[x]
           tool == ToolOf(t.cmd)
           at2 == IF t.at < Len(Walk[tool]) THEN t.at + 1 ELSE t.at
           left2 == IF t.cmd \in Exporting THEN ToExport(t.found) ELSE {}
           u == [t EXCEPT !.pc = "export", !.at = at2, !.left = left2]
<1>1. /\ t \in Runs /\ RunOK(t, files, drafts) /\ t.pc = "walk"
      /\ t.at = Len(Walk[tool]) \/ ~MayRead(tool, t.at)
      /\ tool \in Tools /\ UNCHANGED <<files, drafts, edits>>
      /\ report' = IF tool = "discovery" THEN t.found ELSE report
  BY ToolsOfCommands DEF EndWalk, IInv, InventoryTypeOK
<1>2. ps' = [ps EXCEPT ![x] = u]
  BY DEF EndWalk
<1>3. Len(Walk[tool]) \in Nat /\ t.at \in Nat /\ t.found \in Found
  BY <1>1, WalksAreWalks DEF Runs
<1>4. at2 \in Nat /\ left2 \in SUBSET Paths
  BY <1>3 DEF ToExport
<1> HIDE DEF t, at2, left2
<1>5. u \in Runs
  BY <1>1, <1>4 DEF Runs
<1>6. /\ u.at = at2 /\ u.cmd = t.cmd /\ u.pc = "export" /\ u.least = t.least
      /\ u.edited = t.edited /\ u.left = left2 /\ u.found = t.found /\ u.removed = t.removed
  BY <1>1 DEF Runs
<1> HIDE DEF u
<1>7. Scanned(u, files)
  <2> SUFFICES ASSUME t.cmd \in Scanning PROVE Scanned(u, files)
    BY <1>6 DEF Scanned
  <2> DEFINE ReadBy(n) == {i \in 1 .. n : tool = "scanner" => i <= MaxFiles}
  <2>1. Scanned(t, files)
    BY <1>1 DEF RunOK
  <2>2. ReadBy(at2) = ReadBy(t.at) /\ at2 <= Len(Walk[tool])
    BY <1>1, <1>3, <2>1, BoundsAreNat DEF MayRead, at2, Scanned
  <2>3. (tool = "scanner" => at2 <= MaxFiles) => ReadBy(at2) = 1 .. Len(Walk[tool])
    BY <1>1, <1>3, <2>1, BoundsAreNat DEF MayRead, at2, Scanned
  <2> QED BY <1>6, <2>1, <2>2, <2>3 DEF Scanned
<1>8. Exported(u, drafts)
  <2> SUFFICES ASSUME t.cmd \in Exporting PROVE Exported(u, drafts)
    BY <1>6 DEF Exported
  <2> DEFINE Urgent == {q \in Paths : t.found[q] # NoFinding /\ t.found[q].action # "monitor"}
  <2>1. left2 \subseteq Urgent
    BY DEF left2, ToExport, Exportable
  <2>2. Urgent \subseteq left2
    <3> SUFFICES ASSUME NEW q \in Urgent PROVE t.found[q].action \in Exportable
      BY DEF left2, ToExport
    <3>1. t.found[q] \in Findings
      BY <1>3 DEF Found
    <3> QED BY <3>1, ActionsOfFindings
  <2> QED BY <1>6, <2>1, <2>2 DEF Exported
<1>9. RunOK(u, files, drafts)
  BY <1>1, <1>6, <1>7, <1>8 DEF RunOK, left2
<1>10. /\ report' \in {NoReport} \cup Found
       /\ report' # NoReport => Fits("discovery", report')
  BY <1>1, <1>3 DEF IInv, InventoryTypeOK, RunOK
<1> QED BY <1>1, <1>2, <1>5, <1>9, <1>10, StepOfOne DEF IInv, InventoryTypeOK, RatedScopesCovered

LEMMA BeginRegisterStep ==
  ASSUME IInv, NEW x \in Procs, NEW existing \in {"keep", "overwrite"}, BeginRegister(x, existing)
  PROVE  IInv'
<1> DEFINE t == Run("register-discovered-agents", "export", Low, existing, report, ToExport(report))
<1>1. report \in Found /\ Fits("discovery", report)
  BY DEF BeginRegister, IInv, InventoryTypeOK
<1>2. t \in Runs
  BY <1>1 DEF Run, Runs, Commands, Exporting, Levels, Low, Critical, ToExport
<1>3. /\ t.cmd = "register-discovered-agents" /\ t.pc = "export" /\ t.found = report
      /\ t.left = ToExport(report)
  BY DEF Run
<1>4. ps' = [ps EXCEPT ![x] = t] /\ UNCHANGED <<files, report, drafts, edits>>
  BY DEF BeginRegister
<1> HIDE DEF t
<1>5. /\ t.cmd \notin Scanning /\ t.cmd \in Exporting
      /\ ToolOf(t.cmd) = "discovery"
  BY <1>3 DEF Scanning, OpenSource, Exporting, ToolOf
<1>6. Exported(t, drafts)
  <2>1. ASSUME NEW q \in Paths, report[q] # NoFinding, report[q].action # "monitor"
        PROVE  report[q].action \in Exportable
    BY <1>1, <2>1, ActionsOfFindings DEF Found
  <2> QED BY <1>3, <2>1 DEF Exported, ToExport, Exportable
<1>7. RunOK(t, files, drafts)
  BY <1>1, <1>3, <1>5, <1>6 DEF RunOK, Scanned
<1> QED BY <1>2, <1>4, <1>7, StepOfOne DEF IInv, InventoryTypeOK, RatedScopesCovered

LEMMA ExportStep ==
  ASSUME IInv, NEW x \in Procs, NEW q \in Paths, Export(x, q)
  PROVE  IInv'
<1> DEFINE t == ps[x]
           tool == ToolOf(t.cmd)
<1>1. /\ t \in Runs /\ RunOK(t, files, drafts) /\ t.pc = "export" /\ tool \in Tools
      /\ q \in t.left /\ \A r \in t.left : q <= r
      /\ UNCHANGED <<files, report, edits>>
  BY ToolsOfCommands DEF Export, IInv, InventoryTypeOK
<1>2. /\ t.cmd \in Exporting /\ Fits(tool, t.found)
      /\ t.found[q] # NoFinding /\ t.found[q] \in Findings
  <2>1. t.cmd \in Exporting
    BY <1>1 DEF RunOK
  <2>2. t.found[q] # NoFinding
    BY <1>1, <2>1 DEF RunOK, Exported
  <2> QED BY <1>1, <2>1, <2>2 DEF RunOK, Runs, Found
<1>3. drafts \in [Tools -> [Paths -> Findings \cup {NoDraft, Reviewed}]]
  BY DEF IInv, InventoryTypeOK
(* The finding is behind, and it has a draft. *)
<1>4. ASSUME ps' = [ps EXCEPT ![x] = [t EXCEPT !.left = @ \ {q}]],
             drafts'[tool][q] # NoDraft,
             \A e \in Tools, r \in Paths : drafts[e][r] # NoDraft => drafts'[e][r] # NoDraft
      PROVE  /\ ps' \in [Procs -> {Idle} \cup Runs]
             /\ \A y \in Procs : ps'[y] # Idle => RunOK(ps'[y], files', drafts')
  <2> DEFINE u == [t EXCEPT !.left = @ \ {q}]
  <2>1. u \in Runs
    BY <1>1 DEF Runs
  <2>2. /\ u.at = t.at /\ u.cmd = t.cmd /\ u.pc = t.pc /\ u.least = t.least
        /\ u.edited = t.edited /\ u.left = t.left \ {q} /\ u.found = t.found /\ u.removed = t.removed
    BY <1>1 DEF Runs
  <2>3. ps' = [ps EXCEPT ![x] = u]
    BY <1>4
  <2> HIDE DEF u, t
  <2>4. Exported(u, drafts')
    BY <1>1, <1>2, <1>4, <2>2 DEF RunOK, Exported
  <2>5. Scanned(u, files)
    BY <1>1, <2>2 DEF RunOK, Scanned
  <2>6. RunOK(u, files, drafts')
    BY <1>1, <1>2, <2>2, <2>4, <2>5 DEF RunOK
  <2> QED BY <1>1, <1>4, <2>1, <2>3, <2>6, StepOfOne
<1>5. CASE /\ drafts[tool][q] # NoDraft /\ ps' = [ps EXCEPT ![x].left = @ \ {q}]
           /\ UNCHANGED drafts
  BY <1>1, <1>4, <1>5 DEF IInv, InventoryTypeOK, RatedScopesCovered
<1>6. CASE /\ q \in Unnameable /\ ps' = [ps EXCEPT ![x].pc = "failed"]
           /\ UNCHANGED drafts
  <2> DEFINE u == [t EXCEPT !.pc = "failed"]
  <2>1. u \in Runs
    BY <1>1 DEF Runs
  <2>2. /\ u.at = t.at /\ u.cmd = t.cmd /\ u.pc = "failed" /\ u.least = t.least
        /\ u.edited = t.edited /\ u.left = t.left /\ u.found = t.found /\ u.removed = t.removed
    BY <1>1 DEF Runs
  <2>3. ps' = [ps EXCEPT ![x] = u]
    BY <1>6
  <2> HIDE DEF u, t
  <2>4. Exported(u, drafts)
    BY <1>1, <1>6, <2>2 DEF RunOK, Exported
  <2>5. Scanned(u, files)
    BY <1>1, <2>2 DEF RunOK, Scanned
  <2>6. RunOK(u, files, drafts)
    BY <1>1, <1>2, <2>2, <2>4, <2>5 DEF RunOK
  <2> QED BY <1>1, <1>6, <2>1, <2>3, <2>6, StepOfOne DEF IInv, InventoryTypeOK, RatedScopesCovered
<1>7. CASE /\ ps' = [ps EXCEPT ![x].left = @ \ {q}]
           /\ drafts' = [drafts EXCEPT ![tool][q] = t.found[q]]
  <2> HIDE DEF t
  <2>1. \A e \in Tools, r \in Paths :
           drafts'[e][r] = IF e = tool /\ r = q THEN t.found[q] ELSE drafts[e][r]
    BY <1>1, <1>3, <1>7
  <2>2. drafts' \in [Tools -> [Paths -> Findings \cup {NoDraft, Reviewed}]]
    BY <1>1, <1>2, <1>3, <1>7
  <2>3. t.found[q] # NoDraft
    BY <1>2, AbsentAreNone
  <2>4. RatedScopesCovered'
    BY <1>2, <2>1 DEF IInv, RatedScopesCovered, Fits
  <2>5. /\ ps' \in [Procs -> {Idle} \cup Runs]
        /\ \A y \in Procs : ps'[y] # Idle => RunOK(ps'[y], files', drafts')
    <3>1. drafts'[tool][q] # NoDraft
      BY <1>1, <2>1, <2>3
    <3>2. \A e \in Tools, r \in Paths : drafts[e][r] # NoDraft => drafts'[e][r] # NoDraft
      BY <2>1, <2>3
    <3>3. ps' = [ps EXCEPT ![x] = [t EXCEPT !.left = @ \ {q}]]
      BY <1>7 DEF t
    <3> QED BY <1>4, <3>1, <3>2, <3>3
  <2>6. InventoryTypeOK'
    <3>1. UNCHANGED <<files, report, edits>>
      BY <1>1
    <3> QED BY <2>2, <2>5, <3>1 DEF IInv, InventoryTypeOK
  <2>7. report' # NoReport => Fits("discovery", report')
    BY <1>1 DEF IInv
  <2> QED BY <2>4, <2>5, <2>6, <2>7 DEF IInv
<1> QED BY <1>5, <1>6, <1>7 DEF Export

LEMMA StopStep ==
  ASSUME IInv, NEW x \in Procs, Stop(x)
  PROVE  IInv'
<1>1. ps' = [ps EXCEPT ![x] = Idle] /\ UNCHANGED <<files, report, drafts, edits>>
  BY DEF Stop
<1> QED BY <1>1, StepOfOne DEF IInv, InventoryTypeOK, RatedScopesCovered

LEMMA EditFileStep ==
  ASSUME IInv, NEW q \in Paths, NEW held \in {Unreadable} \cup Texts, EditFile(q, held)
  PROVE  IInv'
<1>1. /\ files' = [files EXCEPT ![q] = held] /\ edits' = edits + 1 /\ edits < MaxEdits
      /\ ps' = [x \in Procs |-> IF ps[x] = Idle THEN Idle ELSE [ps[x] EXCEPT !.edited = @ \cup {q}]]
      /\ UNCHANGED <<report, drafts>>
  BY DEF EditFile
<1>2. files \in [Paths -> {Unreadable} \cup Texts] /\ edits' \in 0 .. MaxEdits
  BY <1>1, BoundsAreNat DEF IInv, InventoryTypeOK
<1>3. ASSUME NEW x \in Procs, ps[x] # Idle
      PROVE  ps'[x] \in Runs /\ RunOK(ps'[x], files', drafts)
  <2> DEFINE t == ps[x]
             u == [t EXCEPT !.edited = @ \cup {q}]
  <2>1. t \in Runs /\ RunOK(t, files, drafts) /\ ps'[x] = u
    BY <1>1, <1>3 DEF IInv, InventoryTypeOK
  <2>2. u \in Runs
    BY <2>1 DEF Runs
  <2>3. /\ u.at = t.at /\ u.cmd = t.cmd /\ u.pc = t.pc /\ u.least = t.least /\ u.left = t.left
        /\ u.edited = t.edited \cup {q} /\ u.found = t.found /\ u.removed = t.removed
    BY <2>1 DEF Runs
  <2> HIDE DEF t, u
  <2>4. Scanned(u, files')
    <3> SUFFICES ASSUME t.cmd \in Scanning PROVE Scanned(u, files')
      BY <2>3 DEF Scanned
    <3>1. ASSUME NEW i \in 1 .. t.at, t.at <= Len(Walk[ToolOf(t.cmd)]) PROVE Walk[ToolOf(t.cmd)][i] \in Paths
      BY <2>1, <3>1, WalksAreWalks, ToolsOfCommands DEF Runs
    <3>2. \A r \in Paths \ {q} : files'[r] = files[r]
      BY <1>1, <1>2
    <3>3. Scanned(t, files)
      BY <2>1 DEF RunOK
    <3> QED BY <2>3, <3>1, <3>2, <3>3 DEF Scanned
  <2> QED BY <2>1, <2>2, <2>3, <2>4 DEF RunOK, Exported
<1>4. \A x \in Procs : ps'[x] # Idle => ps[x] # Idle
  BY <1>1
<1>5. ps' \in [Procs -> {Idle} \cup Runs]
  BY <1>1, <1>3
<1>6. files' \in [Paths -> {Unreadable} \cup Texts]
  BY <1>1, <1>2
<1> QED BY <1>1, <1>2, <1>3, <1>4, <1>5, <1>6 DEF IInv, InventoryTypeOK, RatedScopesCovered

LEMMA ReviewStep ==
  ASSUME IInv, NEW tool \in Tools, NEW q \in Paths, NEW outcome \in {NoDraft, Reviewed},
         Review(tool, q, outcome)
  PROVE  IInv'
<1>1. /\ drafts' = [drafts EXCEPT ![tool][q] = outcome] /\ edits' = edits + 1 /\ edits < MaxEdits
      /\ ps' = [x \in Procs |-> IF ps[x] = Idle \/ outcome # NoDraft THEN ps[x]
                                ELSE IF ToolOf(ps[x].cmd) # tool THEN ps[x]
                                ELSE [ps[x] EXCEPT !.removed = @ \cup {q}]]
      /\ UNCHANGED <<files, report>>
  BY DEF Review
<1>2. /\ drafts \in [Tools -> [Paths -> Findings \cup {NoDraft, Reviewed}]]
      /\ edits' \in 0 .. MaxEdits
  BY <1>1, BoundsAreNat DEF IInv, InventoryTypeOK
<1>3. \A e \in Tools, r \in Paths : drafts'[e][r] = IF e = tool /\ r = q THEN outcome ELSE drafts[e][r]
  BY <1>1, <1>2
<1>4. ASSUME NEW x \in Procs, ps[x] # Idle
      PROVE  ps'[x] \in Runs /\ RunOK(ps'[x], files, drafts')
  <2> DEFINE t == ps[x]
             u == [t EXCEPT !.removed = @ \cup {q}]
  <2>1. t \in Runs /\ RunOK(t, files, drafts)
    BY <1>4 DEF IInv, InventoryTypeOK
  <2>2. CASE outcome # NoDraft
    <3>1. ps'[x] = t
      BY <1>1, <2>2
    <3>2. \A e \in Tools, r \in Paths : drafts[e][r] # NoDraft => drafts'[e][r] # NoDraft
      BY <1>3, <2>2
    <3>3. RunOK(t, files, drafts')
      BY <2>1, <3>2, OthersLeaveItGood
    <3> QED BY <2>1, <3>1, <3>3
  <2>3. CASE ToolOf(t.cmd) # tool
    <3>1. Exported(t, drafts')
      BY <1>3, <2>1, <2>3, ToolsOfCommands DEF RunOK, Exported
    <3> QED BY <1>1, <2>1, <2>3, <3>1 DEF RunOK
  <2>4. CASE outcome = NoDraft /\ ToolOf(t.cmd) = tool
    <3>1. ps'[x] = u
      BY <1>1, <1>4, <2>4
    <3>2. u \in Runs
      BY <2>1 DEF Runs
    <3>3. /\ u.at = t.at /\ u.cmd = t.cmd /\ u.pc = t.pc /\ u.least = t.least /\ u.left = t.left
          /\ u.edited = t.edited /\ u.found = t.found /\ u.removed = t.removed \cup {q}
      BY <2>1 DEF Runs
    <3> HIDE DEF t, u
    <3>4. Exported(u, drafts')
      BY <1>3, <2>1, <2>4, <3>3 DEF RunOK, Exported
    <3>5. Scanned(u, files)
      BY <2>1, <3>3 DEF RunOK, Scanned
    <3> QED BY <2>1, <3>1, <3>2, <3>3, <3>4, <3>5 DEF RunOK
  <2> QED BY <2>2, <2>3, <2>4
<1>5. \A x \in Procs : ps[x] = Idle => ps'[x] = Idle
  BY <1>1
<1>6. ps' \in [Procs -> {Idle} \cup Runs]
  BY <1>1, <1>4, <1>5
<1>7. drafts' \in [Tools -> [Paths -> Findings \cup {NoDraft, Reviewed}]]
  BY <1>1, <1>2
<1>8. RatedScopesCovered'
  BY <1>3 DEF IInv, RatedScopesCovered
<1> QED BY <1>1, <1>2, <1>4, <1>5, <1>6, <1>7, <1>8 DEF IInv, InventoryTypeOK

(* The invariant holds from the start, and no step breaks it.              *)
LEMMA InventorySafety == InventorySpec => []IInv
<1>1. IInv /\ [InventoryNext]_iVars => IInv'
  <2> SUFFICES ASSUME IInv, [InventoryNext]_iVars PROVE IInv'
    OBVIOUS
  <2>1. ASSUME NEW q \in Paths, NEW i \in Idioms, files[q] # Unreadable,
               EditFile(q, files[q] \cup {i}) \/ EditFile(q, files[q] \ {i})
        PROVE  IInv'
    <3>1. files[q] \in Texts
      BY <2>1 DEF IInv, InventoryTypeOK
    <3>2. files[q] \cup {i} \in Texts /\ files[q] \ {i} \in Texts
      BY <3>1 DEF Texts
    <3> QED BY <2>1, <3>2, EditFileStep
  <2>2. ASSUME NEW q \in Paths, EditFile(q, Unreadable) PROVE IInv'
    BY <2>2, EditFileStep
  <2>3. CASE UNCHANGED iVars
    BY <2>3 DEF iVars, IInv, InventoryTypeOK, RatedScopesCovered
  <2> QED
    BY <2>1, <2>2, <2>3, BeginScanStep, ReadFileStep, EndWalkStep, BeginRegisterStep, ExportStep,
       StopStep, ReviewStep DEF InventoryNext
<1> QED BY <1>1, FirstInventory, PTL DEF InventorySpec

-----------------------------------------------------------------------------

(* Reports hold findings, drafts findings or what a reviewer made of them, *)
(* and runs are where a run can be.                                        *)
THEOREM InventoryTypeCorrect == InventorySpec => []InventoryTypeOK
<1>1. IInv => InventoryTypeOK
  BY DEF IInv
<1> QED BY <1>1, InventorySafety, PTL

(* However many commands run at once over files that people edit, and      *)
(* whatever their walks and MAX_FILES: a run has found in every file that  *)
(* nobody edited what the file holds, and says when it read them all.      *)
THEOREM ScansAreComplete == InventorySpec => []ScansMissNothing
<1>1. IInv => ScansMissNothing
  BY DEF IInv, RunOK, Scanned, ScansMissNothing
<1> QED BY <1>1, InventorySafety, PTL

(* Whatever other runs and reviewers do to the drafts meanwhile: a finding *)
(* an export has come past has a draft, unless a reviewer removed it.      *)
THEOREM ExportsAreComplete == InventorySpec => []ExportsCoverFindings
<1>1. IInv => ExportsCoverFindings
  BY DEF IInv, RunOK, Exported, ExportsCoverFindings
<1> QED BY <1>1, InventorySafety, PTL

(* For every set of signals a text can show, the drafts declare as much    *)
(* risk as the evidence report will rate what they declare, but for the    *)
(* one level scan-repo's may lack.                                         *)
THEOREM RatedScopesAreCovered == InventorySpec => []RatedScopesCovered
<1>1. IInv => RatedScopesCovered
  BY DEF IInv
<1> QED BY <1>1, InventorySafety, PTL

(* For every text and every way it may grow: neither scanner rates it      *)
(* calmer, or drops a scope but those that another takes the place of.     *)
THEOREM GrowthIsNeverCalmer == InventorySpec => GrowthNeverCalms
<1>1. ASSUME IInv, NEW q \in Paths, NEW tool \in Tools,
             IInv', files[q] # Unreadable, files'[q] # Unreadable, files[q] \subseteq files'[q]
      PROVE  AtLeast(Assess(tool, q, files'[q]), Assess(tool, q, files[q]))
  <2>1. files[q] \in Texts /\ files'[q] \in Texts
    BY <1>1 DEF IInv, InventoryTypeOK
  <2> QED BY <1>1, <2>1, AssessmentGrows
<1>2. IInv /\ IInv' /\ [InventoryNext]_iVars =>
        [\A q \in Paths, tool \in Tools :
           LET old == files[q]
               new == files'[q]
           IN  (old # Unreadable /\ new # Unreadable /\ old \subseteq new /\ old # new)
               => AtLeast(Assess(tool, q, new), Assess(tool, q, old))]_iVars
  BY <1>1
<1> QED BY <1>2, InventorySafety, PTL DEF InventorySpec, GrowthNeverCalms

=============================================================================
