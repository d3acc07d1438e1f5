---------------------------- MODULE MCInventory ----------------------------
(* Inventory with a script, a dependency file and a workflow.              *)
EXTENDS Inventory

Piece(content, labels, discovery) ==
  [content |-> content, labels |-> labels, discovery |-> discovery]

OpenAI ==
  Piece({"imports or calls OpenAI"}, {"dependency declares OpenAI SDK"},
        {"imports or calls OpenAI API", "dependency manifest lists AI SDKs"})
BrowserUse == Piece({"browser-use library"}, {"dependency declares browser-use"}, {})
Kubectl == Piece({"kubectl invocation"}, {}, {"deployment or infrastructure tooling"})
AddRow == Piece({"database write operation"}, {}, {"possible database write operations"})
Psycopg == Piece({"psycopg driver"}, {}, {})
Stripe ==
  Piece({"Stripe SDK / API"}, {"dependency declares Stripe SDK"}, {"references Stripe or STRIPE_ secrets"})
Crontab == Piece({"cron / crontab"}, {}, {"cron-like schedule or background jobs"})
Subprocess == Piece({"subprocess invocation"}, {}, {"subprocess or shell invocation"})
Checkout == Piece({"GitHub Actions workflow body"}, {}, {"YAML resembles CI/CD workflow"})
Secret == Piece({"secret env var"}, {}, {})

MCIdioms ==
  {OpenAI, BrowserUse, Kubectl, AddRow, Psycopg, Stripe, Crontab, Subprocess, Checkout, Secret}

(* The first file may begin with any piece, and with two pieces that ask   *)
(* for the highest risks; the others are simpler.                          *)
MCFirstTexts ==
  <<{Unreadable, {}} \cup {{i} : i \in MCIdioms} \cup {{Stripe, Kubectl}},
    {{}, {Subprocess, Kubectl}},
    {{Checkout}}>>

MCKind == <<"dependencies", "plain", "workflow">>

(* The files of the root come before those of its directories.             *)
MCWalk == [tool \in Tools |-> IF tool = "scanner" THEN <<2, 1, 3>> ELSE <<3, 2, 1>>]

=============================================================================
