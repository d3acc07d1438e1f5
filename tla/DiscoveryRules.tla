--------------------------- MODULE DiscoveryRules ---------------------------
(***************************************************************************)
(* The internal pilot's discovery (recklock/discovery): its signals, the   *)
(* classification of a candidate and the manifest draft made of it.        *)
(*                                                                         *)
(* Abstraction: of the candidate type, whether an earlier rule has set it, *)
(* and whether it is a workflow's, which is all that later rules ask for.  *)
(***************************************************************************)
EXTENDS RiskLevels, FiniteSets

AiSignals ==
  {"imports or calls OpenAI API", "imports or calls Anthropic API", "uses LangChain",
   "uses CrewAI", "uses AutoGen", "uses Google Gemini / Generative AI client",
   "dependency manifest lists AI SDKs"}

CodingSignals == {"references Cursor IDE or agent automation"}

OutboundSignals == {"email send or SMTP usage", "Slack webhook or Slack API usage"}

DeploySignals ==
  {"deployment or infrastructure tooling", "Docker build or compose usage",
   "Docker deployment artifact"}

CiSignals == {"GitHub Actions workflow", "YAML resembles CI/CD workflow"}

ScheduleSignals == {"cron-like schedule or background jobs"}

PaymentSignals ==
  {"references Stripe or STRIPE_ secrets", "financial / payment / wallet / KYC signals"}

CloudSignals == {"uses boto3 (AWS)", "deployment or infrastructure tooling"}

ShellSignals == {"subprocess or shell invocation"}
WriteSignals == {"possible database write operations"}
TokenSignals == {"references GitHub token env vars"}
UrlSignals == {"references database URL env vars"}

DiscoveryNames ==
  UNION {AiSignals, CodingSignals, OutboundSignals, DeploySignals, CiSignals, ScheduleSignals,
         PaymentSignals, CloudSignals, ShellSignals, WriteSignals, TokenSignals, UrlSignals}

(* _detect_signals, of a text with these matches: path first, then text,   *)
(* then what only a dependency file or another YAML file shows.            *)
DiscoverySignals(kind, matches) ==
  UNION {If(kind = "workflow", {"GitHub Actions workflow"}),
         If(kind \in {"dockerfile", "compose"}, {"Docker deployment artifact"}),
         matches \ {"dependency manifest lists AI SDKs", "YAML resembles CI/CD workflow"},
         If(kind = "dependencies", matches \cap {"dependency manifest lists AI SDKs"}),
         If(kind \in {"yaml", "compose"}, matches \cap {"YAML resembles CI/CD workflow"})}

-----------------------------------------------------------------------------
(* classify_candidate *)

Shows(S, signals) == S \cap signals # {}

InWorkflow(S, kind) ==
  kind \in {"workflow", "beside_workflow"} \/ Shows(S, CiSignals) \/ Shows(S, DeploySignals)

Scheduled(S, kind) == Shows(S, ScheduleSignals) /\ ~InWorkflow(S, kind)

Script(S, kind) ==
  ~(InWorkflow(S, kind) \/ Scheduled(S, kind) \/ Shows(S, AiSignals) \/ Shows(S, CodingSignals)
    \/ Shows(S, OutboundSignals))

DiscoveryCapabilities(S, kind) ==
  LET found == UNION
        {If(Shows(S, CiSignals), {"run_ci", "repository_automation"}),
         If(Shows(S, DeploySignals), {"deploy_code", "infrastructure_mutate"}),
         If(Scheduled(S, kind), {"scheduled_execution"}),
         If(Shows(S, AiSignals), {"llm_inference"}),
         If(Shows(S, CodingSignals), {"code_assist", "repository_edit"}),
         If(Shows(S, OutboundSignals), {"external_communication"}),
         If(Shows(S, WriteSignals), {"write_database"}),
         If(Shows(S, PaymentSignals), {"initiate_payment", "financial_data_access"}),
         If(Shows(S, ShellSignals), {"execute_shell"}),
         If(Shows(S, CloudSignals), {"cloud_api"}),
         If(Script(S, kind), {"script_execution"})}
  IN  found \cup If(found = {}, {"unknown_automation"})

DiscoveryScopes(S, kind) ==
  LET found == UNION
        {If(Shows(S, CiSignals), {"ci.execute", "repository.write"}),
         If(Shows(S, DeploySignals), {"production.deploy", "infrastructure.write"}),
         If(Scheduled(S, kind), {"scheduler.trigger"}),
         If(Shows(S, AiSignals) \/ Shows(S, CodingSignals), {"ai.invoke"}),
         If(Shows(S, CodingSignals), {"workspace.write"}),
         If(Shows(S, OutboundSignals), {"email.send", "chat.post"}),
         If(Shows(S, WriteSignals), {"database.write"}),
         If(Shows(S, PaymentSignals), {"payments.initiate", "finance.read"}),
         If(Shows(S, ShellSignals), {"process.exec"}),
         If(Shows(S, CloudSignals), {"cloud.write"}),
         If(Shows(S, TokenSignals), {"repository.secrets"}),
         If(Shows(S, UrlSignals), {"database.connect"}),
         If(Script(S, kind), {"workspace.execute"})}
  IN  found \cup If(found = {}, {"workspace.observe"})

(* Mutant of DiscoveryRisk: the cloud rule sets the level it should bump.  *)
DiscoveryRisk_CloudDecides(S, kind) ==
  IF Shows(S, CloudSignals) THEN High
  ELSE Bumped(Shows(S, DeploySignals) \/ Shows(S, PaymentSignals),
              \E C \in {OutboundSignals, WriteSignals, ShellSignals} : Shows(S, C), TRUE)

(* Mutant of DiscoveryRisk: running a shell is no reason to bump.          *)
DiscoveryRisk_NoShell(S, kind) ==
  Bumped(Shows(S, DeploySignals) \/ Shows(S, PaymentSignals),
         \/ Shows(S, OutboundSignals) \/ Shows(S, CloudSignals)
         \/ Shows(S, WriteSignals),
         Shows(S, CiSignals) \/ Shows(S, AiSignals))

DiscoveryRisk(S, kind) ==
  Bumped(Shows(S, DeploySignals) \/ Shows(S, PaymentSignals),
         \/ Shows(S, OutboundSignals) \/ Shows(S, CloudSignals)
         \/ Shows(S, WriteSignals) \/ Shows(S, ShellSignals),
         \/ Shows(S, CiSignals) \/ Shows(S, AiSignals) \/ Shows(S, CodingSignals) \/ Scheduled(S, kind)
         \/ Shows(S, TokenSignals) \/ Shows(S, UrlSignals))

(* A candidate has a signal, so its type is never "unknown" here.          *)
DiscoveryConfidence(S) == Bumped(FALSE, Cardinality(S) >= 4, Cardinality(S) >= 2)

(* Every candidate becomes a draft.                                        *)
ClassifyCandidate(S, kind) ==
  [risk |-> DiscoveryRisk(S, kind), confidence |-> DiscoveryConfidence(S), action |-> "register",
   capabilities |-> DiscoveryCapabilities(S, kind), scopes |-> DiscoveryScopes(S, kind)]

=============================================================================
