# ReckLock Registry: TLA+ specifications

ReckLock Registry keeps a registry of AI agents and decides, before an agent
acts, whether it may: policies are evaluated, some actions wait for human
sign-offs, short-lived credentials are issued, and everything is written to a
hash-chained audit trail. These specifications model the parts of it whose
correctness depends on order, concurrency, time and partial failure. All paths
below are relative to the repository root (`src/recklock/...`).

## 1. Inventory

The program has two front ends over one domain core, and two kinds of storage:

* the **command line** (`cli.py`), one process per command, over JSONL files
  that are read whole and appended to without a lock;
* the **HTTP API and dashboard** (`api/`, `web/`), one worker thread per request,
  each request one SQLAlchemy session and one transaction that `get_db`
  (`api/deps.py`) commits *after* the response was handed over.

| Component | State | Operations | Hard behaviour |
|---|---|---|---|
| Approval rows (`approvals.py`, `db/repositories.py`) | one row per fingerprint: status, approvers asked for, count, sign-offs, expiry | create, approve, deny, expire | named approvers replace the count; a row may lapse between its sign-offs |
| Approval store, API (`db/repositories.py`) | table `approvals`, replaced row by row by DELETE and INSERT | approve, deny, gateway read, expire, open anew | read and write without lock or version: lost sign-offs, overwritten denials; the second read before an expiry |
| Approval store, CLI (`approvals.py`) | JSONL, last line per id wins | create, approve, deny, expire, maybe_expire | unlocked appends by several processes; `create-approval` ignores the row that exists |
| Execution gateway (`gateway.py`) | tables `execution_requests` and `execution_responses`; reads registry, policies, approvals | execute_request, connector phase | ordered checks and early returns; a connector acts before anything is recorded; the answer leaves before the commit |
| Credential broker (`credentials/`) | table of credentials: status, expiry, token digest; audit rows | issue, verify, revoke, sweep | check and act on a row other threads also change; times stored without their fraction; a failed audit insert in the middle of a sweep |
| Audit log file (`audit.py`) | JSONL chain of events | append_event, verify_event_chain | unlocked read-then-append; cut writes; the digest is over a printed form that does not read back |
| Audit table (`db/repositories.py`) | table `audit_events` | append_audit_event, list_audit_events | tail by (second, id) and not by insertion; rollback |
| Policy engine (`policy.py`) | none | evaluate_action, derive_approval_requirements_from_rules | precedence, order of files, folding of requirements |
| Trust scoring (`trust.py`) | profiles and incidents, JSONL or tables | record_incident, update_trust_profile, recalculate_all_profiles | read two files and append without lock; the incident is written before anything can fail |
| API keys (`auth/`) | table of keys | create, authenticate | none: one read of a row that no code changes |
| Manifests and signing (`manifest.py`, `crypto.py`) | one YAML file per agent in two directories | sign, verify, edit, register a draft, import drafts | whole-file read, then whole-file write; keys merged before signing; a signature that raises instead of failing |
| Registry index (`registry.py`) | index file | build, lookup | files read one by one while they change; the write empties the file first; index stale against manifests |
| Connectors (`connectors/`) | remote services (stubs) | invoke | side effect outside every transaction |
| Open-source scanner (`scanner/`) | exported drafts | scan-repo, export, import | files edited during a walk; a limit of files; an export that raises half way; two tables of risk |
| Discovery, evidence, telemetry (`discovery/`) | report, drafts, an append-only log | discover, register, inventory; evidence report | rules that overwrite each other's type; the same drafts from three commands |

How they interact. The gateway calls the policy engine, turns the matched rules
into approval requirements, reads and writes the approval store, calls a
connector if the decision is *allowed*, and hands audit events back to its
caller, which appends them (the API to the table, the CLI to the file). The
broker does the same for a credential, with its own audit rows. The store of
approvals and the audit trail are shared by every request; nothing else
serialises them.

What makes each one correct:

* approvals: no action is let through without the quorum the policies asked for,
  a denial is final, a sign-off counts once, a lapsed approval counts for nothing;
* broker: a closed credential is never accepted again, none outlives its
  promise, every closing is on record;
* audit: an undisturbed log verifies, an edit or an overlap is noticed, and a
  broken log never verifies again;
* policies: the strictest rule decides whatever the order, and more rules never
  let more through or ask for less;
* trust: every stored score is that of its counters and of the incidents of one
  moment, and a profile lags behind the log only after a race or a death;
* gateway: a connector acts only when cleared, every effect is on record or its
  transaction was rolled back, a recorded execution never acts again;
* inventory: a scan misses nothing nobody edited, an urgent finding gets a draft,
  a draft declares at least the risk its scopes are rated with, and a file that
  shows more is never rated calmer;
* registry: the index is true of every file left alone since its build began, a
  row marked verified was signed, an answer is what the present file says, and a
  draft does not replace a manifest the command has seen.

## 2. Modules

`ApprovalRecords` is the vocabulary of the approval stores and `AuditEvents` of
the two audit stores; neither has state.

### ApprovalRecords, ApprovalTable, ApprovalPromise (approvals)

`ApprovalRecords` has the rules on one row as operators: `MaySignOff`,
`SignedOff`, `MayDeny`, `MayExpire`, `Stale`, `Grants`. `approved_by` is a set
(no rule reads its order and it never holds a name twice); an approval id is a
model value standing for the SHA-256 fingerprint of request, agent, capability
and scope.

`ApprovalTable` is the database under concurrent requests. `table` is the
committed rows, `executed` the committed primary keys of `execution_requests`,
and `tx[h]` what thread `h` has read and means to write. One request is

    Begin -> Read(Approve|Deny|Gateway) [-> ReadExpire] -> WriteRow -> Answer -> Commit

`Read*` is the handler up to its upsert: it ends the request if the code raises.
`ReadExpire` is the second read inside `expire_request_db`. `WriteRow` is DELETE
and INSERT in the open transaction; `WriteConflict` is the loser of two of them
(a duplicate key or a busy database). `Answer` comes before `Commit` because
`get_db` commits in its exit code. `AuditClash` is an audit insert that fails on
its primary key; `Crash` rolls every open transaction back. `signed`, `denials`
and `granted` are history variables of the properties.

`Begin` of an execution needs its request id to be fresh (`FreshRequest`): the
insert holds the primary key against every other open request and, once
committed, for good. `ReadSettled` is an execution that never asks for approval.
A request for a credential shares the rows and inserts no key.

`ApprovalPromise` is the abstract specification: an id is opened, signed by one
person at a time, and ends approved, denied or expired. The serial store
(`SerialSpec`: one request at a time) implements it.

### Gateway (executions over the API)

`Gateway` extends `ApprovalTable`: executions share the approvals with sign-offs,
denials and requests for credentials, so what it composes is the real store and
not a summary of it. `job[h]` is what registry and policies settled for the
execution of thread `h` (`Settle`) and how its connector phase stands, `acts` the
effects per request id, `responses` the committed `execution_responses`.

    Begin -> Settle | ReadGateway [-> ReadExpire] [-> WriteRow]
          [-> CallConnector] -> Answer -> Record

`Decision` is the answer of `execute_request` from what the thread has read.
`CallConnector` has an effect or none (a check refuses, a dry run, a failure)
before anything is committed; `RollBack` (an audit insert fails) and `StopServer`
undo the request but not the effect, which the ghost `lost` counts. A request
may act again after that: nothing of the first attempt is left. `GatewayNext`
maps to `ApprovalTable`'s `Next` or to a stutter, step by step
(`GatewayRunsApprovals`).

### ApprovalLog (approvals of the command line)

The JSONL file of approvals and the gateway above it. `lines` is the file (a
line is a row or damage), `ended` whether it ends with a newline, `audit` and
`intact` the audit file, `acts` the connector calls, `ps[p]` the command process
`p` runs, `cutShort` whether one ended before its last audit event. A command is

    Command [-> Expire] -> AppendRecord -> AppendAudit ...
    Command [-> Expire] -> CallConnector -> AppendAudit ...

`Command` takes the time, loads the file and decides (create, approve, deny, or
execute through `ConsultApproval`); `Expire` is the second load inside
`expire_request`; each audit event is an append of its own. `CutRecord` is a
write cut short, `AuditFails` an audit append that raises, `Die` a death between
two steps. The registry checks and policies are one verdict here; a command that
raises before writing is no step; the audit file is the set of its events
(`AuditLog` has its lines).

### TrustProfiles (trust scores)

The incidents file, the profiles file and the two commands that write them.

    AppendIncident -> CountIncidents -> FetchProfile -> AppendProfile
    LoadProfiles -> MatchIncidents -> AppendProfile ...

`Score`, `Penalty` and `Band` have the numbers of the code. Both loads raise at
a damaged line (`BreaksOff`). `suspect` and `clean` are ghosts: the agents whose
commands overlapped or broke off, and, per command, those it has had to itself.

### CredentialBroker (credentials)

The rows, the audit rows, the fractional clock and, per thread, the request in
flight. Issue is two reads (registry and approval as one outcome each) followed
by the insert and its audit; verify, revoke and the sweep read the row, decide
and write it back without looking again. `ApprovalAnswered` is what the requests of
`ApprovalTable` do to the approval meanwhile: any status may follow any other, since
a request that read the row earlier may write over it. The ghost `withdrawn` is when
a request's approval last ceased to stand. `TicksPerSec` makes the fraction of a
second that storage drops visible.

### AuditEvents, AuditLog, AuditTable (audit trail)

`AuditEvents` models sealing and verification. A digest is the record of what it
covers, so two digests are equal exactly if their preimages are; `Text` and
`Parse` are the conversions of a time, which do not compose to the identity for
a fraction of 1 to 999 microseconds. `AuditLog` has processes that read the file,
then append a line, with deaths in between and writes that are cut. `AuditTable`
has transactions that read the tail in the order (second, id), insert and commit
or roll back; the order is total because ids are distinct, so a row's place in
the listing is the number of rows before it.

### Registry (manifests, signatures, index)

`disk` is the manifest files of the canonical and the discovered directory, a
path being a number in the order `scan_agents` sorts them; `index` and `readable`
are the index file; `ps[p]` is what process `p` is doing:

    LoadAndSign | RegisterDiscovered | ImportScan -> OpenFile -> WriteFile
    BeginBuild -> LoadNext ... -> ListDiscovered -> LoadNext ... -> OpenIndex -> WriteIndex
    Ask -> ReadManifest -> End

`OpenFile` and `OpenIndex` empty the file (`write_text` truncates), the next step
fills it, and another writer in between may mix with it or be lost. `HandEdit` is
a person: an edit, a copy (promotion of a draft), a removal, a file that does not
load. `End` is also a death. What a manifest declares is one set of scopes; a
signature is the key it was made with and what it was made over, so it verifies
exactly if that key is listed under its id and nothing else changed. `Check` has
the registry checks of `execute_request` and `_resolve_registry` in their order.

Read closely: a file that is there but is not YAML raises a `YAMLError` that
neither the gateway nor the broker catches, so that request ends without an
answer; a signature of the wrong length makes `verify_manifest_model` raise and
stops a whole build; a damaged manifest does too. Left out: times, fields
unknown to the schema (`sign` drops them), `expires_at` of a public key (nothing
reads it), `include_discovered=False` (no command asks for it). The source of an import is taken not to
change between its validation and its copy. Ghosts: `touched` (files changed since
the build that wrote the index began), `moved` (the same per build or draft),
`behind` (processes that read an index overwritten since), `signed`, `sealed`.

### RiskLevels, ScannerRules, DiscoveryRules, Inventory (the two scanners)

`RiskLevels` has the bumping of levels and the two tables by which the evidence
report rates an event. `ScannerRules` and `DiscoveryRules` are the two classifiers:
what a detector is called, by category, and what type, risk, confidence, scopes,
capabilities and recommended action follow from the set of names found in a file.
A regular expression is one fact ("this text sets off that detector"); the rules
are the code's. The order in which a rule overwrites the type is kept where
something depends on it.

`Inventory` runs them. `files` is what each file holds (a set of idioms, each a
piece of text with the detectors it sets off in code, in a dependency file and in
the pilot's discovery), `report` is `evidence/discovered_agents.json`, `drafts` the
two directories of drafts. A command is

    BeginScan -> ReadFile ... -> EndWalk -> Export ... -> Stop
    BeginRegister -> Export ... -> Stop

Each file is read when the walk comes to it, in the order of `os.walk`; drafts are
written in the order of the report. `EditFile` and `Review` are people. `MayRead`
is the limit of `scan-repo`. `Unnameable` are the files whose agent id the manifest
model refuses: the slug is cut at 56 characters and may end in `-`, the export
raises there and the findings after it get no draft. The window between the test
that a draft is absent and its write is left to `Registry`
(`DraftsReplaceOnlyNewcomers`), which has it for every writer of
`registry/discovered`; the write of the report is one step.

### PolicyEngine (policies)

`evaluate_action`, the trace and `derive_approval_requirements_from_rules` as
operators, over a list of policies that starts empty and is edited: a policy is put
anywhere in it (`AddPolicy`), a rule is appended to one (`AddRule`), a policy is
switched (`Enable`, `Disable`). So monotonicity is an action property.
`CollectMatchingRules` takes the places of the rules that match in the order
`Precedes`: policies by id, equal ids as they came (Python's sort is stable), rules
as they stand. `InOrder` gives the n-th place as the one with n - 1 before it, a
definition the provers can expand. The requirements are folded over the set of the
matched rules: the code keeps names without repetition and takes the largest
quorum, so neither order nor repetition of rules matters but for the order of the
names, which nothing compares. The editors give every policy an id of its own; the
loader does not insist on it, and with two policies of one id the order of the
trace is that of the files.

### Run modules

`MCApprovalTable`, `MCGateway`, `MCApprovalLog`, `MCCredentialBroker`, `MCAuditLog`,
`MCAuditTable`, `MCPolicyEngine`, `MCTrustProfiles`, `MCRegistry` and `MCInventory`
define the sets the configurations use and the symmetry.

## 3. Runs

| Run | Instance | Shows |
|---|---|---|
| `gateway` | 2 threads, 1 id, 1 named approver, clock 0..1, 2 effects | under every interleaving, crash and conflict of executions, sign-offs, denials and credential requests: connectors act only when cleared, every effect accounted for, recorded executions are final, a decided row is replaced only by a request that had read it undecided and a sign-off lost only to one that had read the row without it, every request ends |
| `gateway_repost` | as `gateway` | *violation*: an approved execution cannot be posted again |
| `approvals_serial` | 2 threads, 1 id, 2 approvers, clock 0..3, one request at a time | exact sign-offs, finality, denials stand, refinement of `ApprovalPromise` |
| `credentials` | 2 threads, 1 credential, 2 ticks per second, clock 0..3 | the broker's properties across the expiry of a credential, while its approval is given and withdrawn |
| `audit_log` | 2 processes, 2 ids, 4 lines | the log's properties with overlaps, deaths, cut writes |
| `audit_log_submilli` | as `audit_log`, 3 lines, times under a millisecond | *violation*: an untouched log fails verification |
| `audit_table` | 2 threads, 2 events each, seconds 0..2 | links lead to committed rows; paced events verify |
| `approval_log` | 2 processes, 1 id, 2 approvers, clock 0..1, 3 lines, 1 connector call | a lawful history whatever overlaps and dies, connector calls cleared, an audit trail that tells what happened, a damaged file that lets nothing through, a line that continues the last of its id unless written by `create-approval` or from an old read |
| `trust` | 2 processes, 2 agents, 2 incidents, 4 profile lines, no file or one written by hand | every profile is the score of one moment of the log; it is current unless commands on its agent overlapped or broke off |
| `registry` | 2 processes, 2 agents, 1 scope, one path in each tree, 1 key, 2 changes, 1 content signed | index, signatures, answers and drafts under edits, overlapping commands and deaths |
| `inventory` | 1 process, 3 files, 10 idioms, limit of 2 files, 1 edit, one file without a valid id | scans miss nothing, exports cover urgent findings, drafts cover what their scopes are rated, more signs are never rated calmer |
| `policies` | two policies, up to three of seven rules, five requests | precedence, order, monotonicity |

Why the bounds are enough. Every race here is between the read of one request
and the write of another, so two actors on one row (one id, one credential, one
tail) produce it; requests on different rows share nothing but the clock. Clocks
run just past the latest expiry, which covers before, at and after. Two
approvers are the least for a quorum that is reached in two steps, and a third
person adds no order of events that two do not have. Four log lines hold a fork,
a cut line and a line glued to it. Three lines of the approvals file hold an
opening, the line that closes it and the line of a process that had read it
open, or a cut line and the one glued to it; the theorems say that more lines
change nothing. Two incidents and four profile lines let a command overtake
another, be overtaken, and a third repair what they left; the profile written
by hand has counters that take the score below zero.

One path in each tree is the least in which the same agent appears twice and one
file wins; two changes of files let one happen during a build or a command and
one after it. One content signed is enough to edit, copy or spoil what was
signed and to sign the same twice; signing a second content doubles the states
and adds no reader of the first, and `RegistryProofs` removes these bounds.

Three files are one before the limit of `scan-repo`, one at it and one past it,
and the least that can be walked in another order than they are reported; the
second cannot be named, so a draft precedes it and one follows. The ten idioms
set off every rule whose outcome another rule changes; the theorems take any
idioms. One process is enough: two scans share only the drafts and the report,
and the order of their writes is Registry's question. One edit falls before,
during or after a scan, on a file read or still to read.

`OnlyRacesLoseSignoffs` is checked with one named approver, whose sign-off a racing
denial or a new opening can take away, and proved for any number of them: two
approvers with executions and credential requests beside them are beyond a run of a
few minutes. Counting two of them is what `approvals_serial` exercises.

Some properties bound a loss that the code allows rather than exclude it, and each
says so: racing requests lose sign-offs and overwrite denials
(`OnlyRacesLoseSignoffs`, `OnlyRacesOverwriteTerminal`, `FollowsUnlessRaced`), a
token follows an approval that was withdrawn after the broker had read it
(`MintsAreCleared`), named approvers replace a quorum (`MoreRulesNeverNeedLess`), a
manifest that appears after the test for it is overwritten
(`DraftsReplaceOnlyNewcomers`), one level of risk is lower than its scopes' rating
(`RatedScopesCovered`), an export that raises leaves the findings after it without
drafts (`ExportsCoverFindings`), and a build that dies leaves no index (`IndexIsTrue`
speaks of one that can be read). That an answer is sent before the commit, and may be
rolled back, is in the models (`Answer`, `Crash`); no property forbids it.

Every module states a type invariant. It is a theorem wherever a `Proofs` module
exists; no run spends a check on it.

Bounds by name: `MaxTime` (clock), `MaxLines` (lines of a log or of the
approvals file), `MaxActs` (connector calls), `MaxSec` and `MaxEvents` (audit
table), `MaxIncidents` and `MaxProfiles` (trust files), `MaxChanges` and
`MaxSigned` (changes of manifests and different things signed), `MaxActs` of the
gateway (effects per request id), `MaxEdits` (edits and reviews). `MaxFiles` is
the program's own `MAX_FILES`, made small.

Fairness. Only `gateway` uses it: weak fairness of each thread's own steps
(`Serve(h)` while it has a request), because the thread pool runs a handler that
has begun and a connector call returns (its failures are caught). `WriteRow` or
`WriteConflict` is always enabled at a write, so nothing is assumed of the
database's lock scheduler; arrivals, the clock, crashes and audit clashes are not
fair. The same run checks the safety properties.

Deadlock is checked in all runs but those of `AuditLog`, where every writer
really stops: `load_events` raises at a damaged line.

## 4. Proofs

Proved by TLAPS for every value of the constants:

* `GatewayProofs`, first part (the approvals): `TypeOK`, `QuorumBacked`,
  `GrantsAreBacked`, `OnlyRacesOverwriteTerminal` and `OnlyRacesLoseSignoffs`. None
  is inductive: what a
  thread will write or answer was decided from a row read earlier. `IInv` adds that
  what was read and decided is itself sound (`TableSound`, `ReadsSound`,
  `DecisionsOK`, `StampsPast`). For the serial store the invariant is strengthened
  by `SInv` (`OneInFlight`, `Fresh`: what the one thread has read is still what is
  there; `SignoffsExact`, `DenialsClosed`), giving the serial properties and the
  step simulation of `ApprovalPromise`.
* `GatewayProofs`, second part: that the gateway refines `ApprovalTable`, and, from
  the invariant inherited from there and `GInv`, the gateway's safety properties.
  `GInv` says that an id has at most one execution in flight and none once it is
  stored, because `Begin` finds the key free and the insert holds it; so the effect
  of an open transaction is the only one neither recorded nor lost.
  `RequestsOnlyAdvance` is the part of `RequestsFinish` that needs no fairness: a
  count of the steps a request has left, at most six, falls with every step of its
  own and rises with none of anybody.
* `CredentialBrokerProofs`: all five properties of the run, none of which needs a
  lock. `RowsAsMinted` says that a stored expiry is the one that was told, cut to
  the second, so no step moves it; `ClosedAreOver` that a credential whose closing
  was committed is not active. `InFlight` is what a thread may still do: whatever it
  has listed or swept had run out when it began and so has for good, even if its
  row changes meanwhile, and the audit row of every closing in its hands is in the
  same transaction. Two mints in flight differ (`MintsApart`: the id is random), and
  a transaction that revokes sweeps nothing, so the two ways in which a commit
  changes a row never meet. For `MintsAreCleared` each mint in a hand `Stands`: its
  approval is still given, or was withdrawn at or after the moment the request came.
* `AuditProofs`, first part (the log): `EditsBreakChains` about chains in general,
  and from `IInv` (`TailsLead`: what a writer holds as its tail is the digest of a
  line; `OverlapsAreSeen`, `LinksLeadBack`) the log's properties. `LoneWritersVerify`
  has the hypothesis that no time has a fraction below a millisecond; the
  violation run shows that it is needed.
* `AuditProofs`, second part (the table): `LinksAreCommitted` and
  `PacedEventsVerify`. `TableInv` says of what every open transaction sees what the
  properties say of the table: links lead to a row it sees (`LinksWithin`), so a
  rollback takes a link and its end together; and, while no two events share a
  second, one transaction at most has inserted anything and what each sees is one
  chain, every row linked to the greatest before it (`OneChain`). `ChainVerifies`
  says that a listing of such rows verifies. The listing is shown to be in order
  from ranks: two rows of one rank are one row, and a finite set has as many ranks
  as rows.
* `PolicyEngineProofs`: `TypeOK` and the four properties of the run. `IInv` has only
  the list's type and the distinct ids; the rest is about operators. `InOrderLists`
  says that `InOrder` yields every element of a finite ordered set once,
  `CollectedRules` that the rules of a trace are those that match, whatever the
  order; decisions and requirements depend on that set alone (`DecisionIs`,
  `NeedsOf`), and it grows (`RulesGrow`). `AnyArrangementDecidesAlike` is more than
  `OrderIsIrrelevant`: any rearrangement, not only the reversal the run tries.
* `ApprovalLogProofs`: the five properties of the run. `IInv` says
  of what a process is about to write what `HistoryIsLawful` says of the file:
  the row it was computed from is still a line of it, because lines are never
  removed (`WriteSound`), and the clearance a process holds is an open window
  (`ProcOK`). For `FollowsUnlessRaced` it says besides that the line continues
  the row that was the last of its id when the file was loaded (`ContinuesAt`): either
  the file has grown since, or that row is still the last. `AuditTellsAll` needs
  `TrailOK` besides: the row a process is about to write is of the kind its command
  says (`OpFits`), and the events in the file or still in a hand (`Told`) are those
  that happened.
* `TrustProfilesProofs`: `ProfilesAreExplained`, from an invariant that says the
  same of the tallies and lines in the hands of a command, and that the counters
  of an agent are those written by hand (`LineOK`, `HeldOK`); and
  `CurrentUnlessRaced`, from `CurInv`: a command that is `clean` for an agent is
  alone with it and computed from the whole log. `MoreIncidentsNeverRaise` is
  about the score alone.
* `RegistryProofs`: `TypeOK` and the four properties of the run. The invariant
  says of what is in hand what the properties say of what is published: the
  manifests a build has found and the files it has still to load account for
  every file that has not moved (`BuildsOK`), a request in flight holds a row of
  the index it read (`AsksOK`), a draft about to be written is for a path that was
  free or has moved (`DraftsOK`), and a manifest whose signature verifies, on the
  disk or in a hand, is one that was signed (`SigsOK`).
* `InventoryProofs`: the four properties of the run, for every set of idioms,
  every walk and any number of processes. The part about runs is an invariant of
  what each process has read and exported so far; the part about the rules is
  lemmas on sets of signals: which signals each rated name shows, what the risk is
  at least then, and that each rule is monotone in the signals, the exclusive
  branches on the type included.

Every safety property that a passing run checks is the subject of a theorem. The
greatest of a set of lines, which the last-line-wins files need, and the least,
which the build of the index needs, exist by the well-foundedness of `<` on the
naturals.

Four properties are proved and not checked by a run of their own, because a
checked one says as much or more: `QuorumBacked` and `GrantsAreBacked` (`OnlyClearedAct`),
`ApprovalHoldsUntilLapse` (`KeepsPromise`) and `LinksLeadBack` (`OverlapsAreSeen`,
`BrokenStaysBroken`).

The assumptions are those on the constants, named in the modules that declare
them, and TLC evaluates them in every run. Three came from the proofs: `NoneApart`
of the broker (the mark of an absent field is no credential, row or mint), and of
the policies `RulesOK` (a rule's effect is one of three, and a quorum in a rule is at
least one, as `RuleConditions` requires) and `PeopleFinite` (finitely many people
sign).

Only model-checked: liveness (`RequestsFinish`), which is out of the prover's reach.
That a thread with a request always has a step to take is a matter of ENABLED; what
its steps do to the request is proved. What the proofs had to do without: the
library's sorting and selection of sequences, which the provers cannot expand, so
the models say where an element stands; and induction over sequences, so a fact
about all lines of a file is an invariant instead.

## 5. Findings

1. Over the API an execution that was told to wait and is then approved cannot be
   run. Its approval covers its request id, the first POST left that id in
   `execution_requests`, and the second one fails on the primary key
   (`ApprovedRunsOnRepost`); `execute_request` and `docs/approval-workflows.md`
   say that the approval satisfies the execution. What can still run on an
   approval is a request whose first POST was rolled back, or whose row a
   request for a credential opened.
2. A log event with 1 to 999 microseconds is hashed with `.000`, loads without a
   fraction and then fails verification, untouched.

Seen while modelling, without a run: a sign-off that read the row while pending
replaces a denial committed in between (`approve_request_db`), though a denial is
documented as terminal; `OnlyRacesOverwriteTerminal` says that nothing else does,
and `TerminalIsFinal` holds of the serial store only. `slugify_for_agent_id` says
that it matches the validation of agent ids, and its cut at 56 characters can
leave a trailing `-` that the validation refuses (`Unnameable`). `scan-repo` may
declare a deployment or payment `high` whose scope the evidence report rates
`critical` (the exception in `RatedScopesCovered`). Events of one second are chained in the audit
table in the order of appending but read back in the order of their ids
(`list_audit_events`), so only events in seconds of their own are promised to
verify (`PacedEventsVerify`).

## 6. Not modelled, and why

Regular expressions, the layout of reports, the redaction of secrets and the
schema validation of manifests are conversions of text without state. The
telemetry log is appended to and read leniently, and the evidence report counts
and words what it finds; only its rating of an event is modelled. API keys: a
key is inserted once, no code changes or disables one, and a request reads it
once, so there is no order of events to check; roles and permissions are
tables. The direct connector routes keep nothing. `POST /trust/calculate`
computes the scores of `TrustProfiles` from the tables in one transaction, and no
route records an incident. Argument parsing, printing, settings and table
creation keep no state. The web pages other than the approval buttons and the
credential list only read. An approval does not cover the amount and environment
of the action; the docs leave the comparison to a later forensic check, and ids
are model values here, so no property speaks of it.

## 7. Plan

The modules planned are written, and every safety property of theirs is proved.
Worth proving next: that the row of an approval in the file of the command line
moves as `ApprovalPromise` allows while no two commands overlap, and facts that
join two modules, such as that the sign-offs a policy asks for are those
`ApprovalRecords` counts.
