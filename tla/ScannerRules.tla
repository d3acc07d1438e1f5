---------------------------- MODULE ScannerRules ----------------------------
(***************************************************************************)
(* ReckLock Discover (recklock/scanner): the detectors by category, and    *)
(* what the classifier and the manifest export make of the signals of one  *)
(* file.  A signal is its name: a detector reports one signal per file.    *)
(*                                                                         *)
(* Abstraction: a finding type is kept as far as something depends on it:  *)
(* whether it is "unknown", and whether it is "browser_agent".             *)
(***************************************************************************)
EXTENDS RiskLevels, FiniteSets

LlmContent ==
  {"imports or calls OpenAI", "imports or calls Anthropic", "uses Google Generative AI / Gemini",
   "uses LangChain / LangGraph", "uses CrewAI", "uses AutoGen", "uses LlamaIndex", "uses Ollama",
   "uses LiteLLM", "uses Instructor (function calling)", "uses Semantic Kernel",
   "tool calling / function calling", "agent framework reference"}

OutboundContent ==
  {"smtplib / SMTP / EmailMessage", "SendGrid usage", "Postmark usage", "Resend usage",
   "Mailgun usage", "Slack SDK / webhook", "Discord webhook / SDK", "Twilio SDK / API",
   "generic outbound webhook"}

Drivers ==
  {"Playwright automation", "Selenium automation", "Puppeteer automation", "browser-use library"}

BrowserContent ==
  Drivers \cup {"Python requests HTTP client", "httpx HTTP client", "aiohttp HTTP client"}

DeployContent ==
  {"Docker build / compose", "kubectl invocation", "Helm invocation", "Terraform invocation",
   "Pulumi invocation", "aws CLI invocation", "boto3 SDK", "gcloud invocation",
   "azure CLI invocation", "Vercel deploy", "Netlify deploy", "Railway deploy", "Fly.io flyctl",
   "deploy / production keywords"}

Database ==
  {"references DATABASE_URL", "psycopg driver", "SQLAlchemy ORM", "Prisma ORM", "Supabase client",
   "Firebase / Firestore", "Redis client", "database write operation"}

MoneyVerbs ==
  {"Stripe SDK / API", "Plaid SDK / API", "Dwolla SDK / API", "PayPal SDK / API",
   "money movement verb"}

PaymentContent == MoneyVerbs \cup {"banking / wallet / payment keyword"}

Secrets ==
  {"API key reference", "secret env var", "token env var", "private key reference",
   "password env var", "Authorization / bearer header", "credentials artifact"}

Schedule ==
  {"cron / crontab", "schedule library", "APScheduler", "Celery beat / task",
   "RQ background worker", "GitHub Actions schedule", "background worker keyword"}

Shell ==
  {"subprocess invocation", "os.system call", "os.popen call", "Python exec()/eval()",
   "Node child_process / spawn"}

CiCdContent == {"GitHub Actions workflow body"}

ContentNames ==
  UNION {LlmContent, OutboundContent, BrowserContent, DeployContent, Database, PaymentContent,
         Secrets, Schedule, Shell, CiCdContent}

(* dependency_manifest_signals: labels for what a dependency file declares *)
LlmLabels ==
  {"dependency declares OpenAI SDK", "dependency declares Anthropic SDK",
   "dependency declares Google Generative AI SDK", "dependency declares Vertex AI SDK",
   "dependency declares LangChain", "dependency declares LangGraph",
   "dependency declares CrewAI", "dependency declares AutoGen", "dependency declares LlamaIndex",
   "dependency declares Ollama client", "dependency declares LiteLLM",
   "dependency declares Instructor", "dependency declares Semantic Kernel"}

BrowserLabels ==
  {"dependency declares Playwright", "dependency declares Selenium",
   "dependency declares Puppeteer", "dependency declares browser-use"}

OutboundLabels == {"dependency declares Slack SDK"}

PaymentLabels == {"dependency declares Stripe SDK", "dependency declares Plaid SDK"}

Labels == LlmLabels \cup BrowserLabels \cup OutboundLabels \cup PaymentLabels

(* filename_signals, by the kind of the file *)
ContainerMarks == {"Dockerfile present", "docker-compose file"}

FilenameSignals(kind) ==
  CASE kind = "workflow"     -> {"GitHub Actions workflow file"}
    [] kind = "dockerfile"   -> {"Dockerfile present"}
    [] kind = "compose"      -> {"docker-compose file"}
    [] kind = "dependencies" -> {"dependency manifest"}
    [] OTHER                 -> {}

Llm == LlmContent \cup LlmLabels
Outbound == OutboundContent \cup OutboundLabels
Browser == BrowserContent \cup BrowserLabels
Deploy == DeployContent \cup ContainerMarks
Payments == PaymentContent \cup PaymentLabels
CiCd == CiCdContent \cup {"GitHub Actions workflow file"}
FileMarks == {"dependency manifest"}

Categories ==
  {Llm, Outbound, Browser, Deploy, Database, Payments, Secrets, Schedule, Shell, CiCd, FileMarks}

ScannerNames == UNION Categories

(* detect_signals_for_file, of a text with these matches                   *)
ScannerSignals(kind, content, labels) ==
  FilenameSignals(kind) \cup content \cup If(kind = "dependencies", labels)

-----------------------------------------------------------------------------
(* classify_finding *)

Has(S, category) == S \cap category # {}

Writing == {"database write operation"}
ToolCalling == {"tool calling / function calling"}
AgentCalling == ToolCalling \cup {"agent framework reference"}
DatabaseUrl == {"references DATABASE_URL"}

Deployment(S) == Has(S, ContainerMarks) \/ (Has(S, Deploy) /\ (Has(S, Secrets) \/ Has(S, Shell)))

(* _classify_finding_type ends elsewhere than in "unknown".                *)
Recognised(S, kind) ==
  \/ kind = "workflow"
  \/ \E C \in {Llm, Outbound, Browser, Deploy, Payments, Secrets, Schedule, Shell} : Has(S, C)
  \/ Has(S, Writing)

(* _classify_finding_type: nothing it tests earlier claims the file.       *)
BrowserAgent(S, kind) ==
  /\ kind # "workflow" /\ ~Deployment(S) /\ ~Has(S, Payments) /\ ~Has(S, Llm)
  /\ Has(S, Drivers)

ScannerCapabilities(S, kind) ==
  LET found == UNION
        {If(Has(S, Llm), {"llm_inference"}),
         If(Has(S, AgentCalling), {"agent_tool_calls"}),
         If(Has(S, Outbound), {"external_communication"}),
         If(Has(S, Browser), {"http_outbound"}),
         If(BrowserAgent(S, kind), {"browser_automation"}),
         If(Has(S, Deploy), {"deploy_code", "infrastructure_mutate"}),
         If(Has(S, Writing), {"write_database"}),
         If(Has(S, Database) /\ ~Has(S, Writing), {"read_database"}),
         If(Has(S, Payments), {"initiate_payment", "financial_data_access"}),
         If(Has(S, Schedule), {"scheduled_execution"}),
         If(Has(S, Shell), {"execute_shell"}),
         If(Has(S, CiCd), {"ci_pipeline"})}
  IN  found \cup If(found = {}, {"script_execution"})

ScannerScopes(S, kind) ==
  LET found == UNION
        {If(Has(S, Llm), {"ai.invoke"}),
         If(Has(S, AgentCalling), {"tools.invoke"}),
         If(Has(S, Outbound), {"email.send", "chat.post"}),
         If(Has(S, Browser), {"network.outbound"}),
         If(BrowserAgent(S, kind), {"browser.control"}),
         If(Has(S, Deploy), {"production.deploy", "infrastructure.write"}),
         If(Has(S, Writing), {"database.write"}),
         If(Has(S, Database) /\ ~Has(S, Writing), {"database.read"}),
         If(Has(S, DatabaseUrl), {"database.connect"}),
         If(Has(S, Payments), {"payments.initiate", "finance.read"}),
         If(Has(S, Secrets), {"secrets.read"}),
         If(Has(S, Schedule), {"scheduler.trigger"}),
         If(Has(S, Shell), {"process.exec"}),
         If(Has(S, CiCd), {"ci.execute", "repository.write"})}
  IN  found \cup If(found = {}, {"workspace.execute"})

(* _risk_level.  Every production indicator is itself a deploy signal.     *)
ScannerRisk(S) ==
  Bumped(\/ Has(S, Payments) /\ (Has(S, MoneyVerbs) \/ Has(S, Writing))
         \/ Has(S, Deploy) /\ (Has(S, Secrets) \/ Has(S, Writing)),
         \/ \E C \in {Outbound, Shell, Deploy, Payments} : Has(S, C)
         \/ Has(S, Writing)
         \/ Has(S, ToolCalling),
         \/ \E C \in {Browser, Llm, Schedule, CiCd, Secrets} : Has(S, C)
         \/ Has(S, DatabaseUrl))

(* _confidence: low, medium or high *)
ScannerConfidence(S, kind) ==
  LET distinct == Cardinality({C \in Categories : Has(S, C)})
  IN  IF ~Recognised(S, kind) THEN Low
      ELSE Bumped(FALSE, Cardinality(S) >= 4 \/ distinct >= 3, Cardinality(S) >= 2 \/ distinct >= 2)

RecommendedAction(risk, confidence) ==
  IF confidence = Low /\ risk \in {High, Critical} THEN "manual_review"
  ELSE IF risk = Critical THEN "govern"
  ELSE IF risk = High \/ (risk = Medium /\ confidence = High) THEN "register"
  ELSE "monitor"

(* Mutant of Exportable: findings for manual review make no draft.         *)
Exportable_NoReview == {"register", "govern"}

(* EXPORTABLE_ACTIONS *)
Exportable == {"register", "govern", "manual_review"}

(* The finding, with what build_manifest_dict copies of it into the draft. *)
ClassifyFinding(S, kind) ==
  LET risk == ScannerRisk(S)
      confidence == ScannerConfidence(S, kind)
  IN  [risk |-> risk, confidence |-> confidence,
       action |-> RecommendedAction(risk, confidence),
       capabilities |-> ScannerCapabilities(S, kind), scopes |-> ScannerScopes(S, kind)]

=============================================================================
